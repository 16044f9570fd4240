------------------------------ MODULE Messages ------------------------------
(***************************************************************************)
(* Package message: what a refused push is told.  A template is a sequence *)
(* of pieces, each a field of ViolationContext, a text that is printed as  *)
(* it stands, or Bad, a piece whose execution fails (a field that          *)
(* ViolationContext has not, say).  Of the text of the built-in templates  *)
(* only a title is kept.                                                   *)
(***************************************************************************)
EXTENDS Naturals, Sequences

CONSTANTS Texts,   \* the texts of the custom templates
          Bad,     \* a piece that cannot be executed
          Values,  \* the values of the fields: names, commits, subjects...
          Facts,   \* what a push and the commit at fault are known by; a variable
                   \* that GitLab did not set is ""
          Nil      \* no template

Kinds == {"non_fast_forward", "direct_push_denied", "committer_mismatch",
          "task_id_missing"}

PushFields == {"ProjectPath", "RepoName", "Username", "BranchName", "Protocol"}
Fields == PushFields \union {"CommitID", "CommitSubject", "CommitterEmail"}

Pieces == Fields \union Kinds \union Texts
Bodies == Seq(Pieces \union {Bad})

ASSUME MessagesAssumption ==
  /\ Bad \notin Pieces
  /\ (Fields \union {Bad}) \intersect (Texts \union Kinds) = {}
  /\ Facts \subseteq [Fields -> Values \union {""}]
  /\ Nil \notin Bodies

DefaultTemplate ==
  [non_fast_forward |->
     <<"non_fast_forward", "ProjectPath", "RepoName", "Username", "BranchName",
       "BranchName", "BranchName">>,
   direct_push_denied |->
     <<"direct_push_denied", "ProjectPath", "RepoName", "Username", "BranchName",
       "Protocol", "BranchName", "BranchName">>,
   committer_mismatch |->
     <<"committer_mismatch", "ProjectPath", "RepoName", "Username",
       "CommitterEmail", "BranchName", "CommitID">>,
   task_id_missing |->
     <<"task_id_missing", "ProjectPath", "RepoName", "Username", "BranchName",
       "CommitID", "CommitSubject", "BranchName">>]

\* Mutant of CommitFields: the task check forgets the subject.
CommitFieldsShort ==
  [non_fast_forward |-> {}, direct_push_denied |-> {},
   committer_mismatch |-> {"CommitID", "CommitterEmail"},
   task_id_missing |-> {"CommitID"}]

\* The fields that checkCommit adds to the context of the push.
CommitFields ==
  [non_fast_forward |-> {}, direct_push_denied |-> {},
   committer_mismatch |-> {"CommitID", "CommitterEmail"},
   task_id_missing |-> {"CommitID", "CommitSubject"}]

Context(k, facts) ==
  [f \in Fields |-> IF f \in PushFields \union CommitFields[k] THEN facts[f] ELSE ""]

\* Mutant of OrUnknown: what is empty stays empty.
OrEmpty(v) == v

OrUnknown(v) == IF v = "" THEN "unknown" ELSE v

FillUnknown(ctx) == [f \in Fields |-> OrUnknown(ctx[f])]

\* Template.Execute stops at the first piece that fails; what it has written by
\* then stays in the buffer.
Fails(body) == \E i \in DOMAIN body : body[i] = Bad

Written(body) == {i \in DOMAIN body : \A j \in 1..i : body[j] # Bad}

Execute(body, ctx) ==
  [i \in Written(body) |-> IF body[i] \in Fields THEN ctx[body[i]] ELSE body[i]]

\* Mutant of Reset: the buffer keeps what it holds.
ResetNothing(buf) == buf

Reset(buf) == <<>>

Render(tmpl, k, facts) ==
  LET ctx == FillUnknown(Context(k, facts))
      fallback == DefaultTemplate[k]
      t == IF tmpl = Nil THEN fallback ELSE tmpl
      buf == Execute(t, ctx)
  IN  IF Fails(t) THEN Reset(buf) \o Execute(fallback, ctx) ELSE buf
=============================================================================
