----------------------------- MODULE PushPolicy -----------------------------
(***************************************************************************)
(* What the hook's rules are about and what they ask of a push, as the     *)
(* README's table of rules states it, free of the order in which CheckRef  *)
(* looks.  History is a reachability relation, a regular expression the    *)
(* set of names it matches (a nil one is {}), an email and a project path  *)
(* the sequences of their parts at "@" and at "/".                         *)
(***************************************************************************)
EXTENDS Naturals, Sequences

CONSTANTS Commits,      \* the commits of every clone, pushed or not
          Reach,        \* what each commit reaches, itself included
          Parents,      \* its number of parents
          Email,        \* its committer's email
          Subjects,     \* commit subjects
          Subject,      \* the subject of each commit
          Heads, Tags,  \* refs outside and under refs/tags/
          Refs0,        \* the refs at the start
          Users, Protocols, Project,  \* the values of GL_USERNAME, GL_PROTOCOL
                                      \* and GL_PROJECT_PATH
          Names, ToLower,  \* names a list may hold; strings.ToLower
          Configs,      \* the configurations a hook may have loaded
          Zero          \* config.ZeroSHA

Refs == Heads \union Tags
Reachable(v) == IF v = Zero THEN {} ELSE Reach[v]
Existing(rs) == UNION {Reachable(rs[r]) : r \in Refs}

RefUpdate == [ref : Refs, old : Commits \union {Zero},
              new : Commits \union {Zero}, user : Users, protocol : Protocols]

\* What CheckRef reads of a CompiledConfig.
Rules ==
  [nonFastForward : BOOLEAN,
   denyDirectPush : BOOLEAN, denyBranches : SUBSET Refs,
   denyProtocols : SUBSET Names, allowProtocols : SUBSET Names,
   webBypass : BOOLEAN, webProtocols : SUBSET Names,
   committerMatch : BOOLEAN, skipMerge : BOOLEAN,
   taskId : BOOLEAN, taskBranches : SUBSET Refs, taskSubjects : SUBSET Subjects,
   exemptMerge : BOOLEAN, exemptSubjects : SUBSET Subjects,
   users : SUBSET Names, branches : SUBSET Refs, projects : SUBSET Names]

-----------------------------------------------------------------------------
Lowered(names) == {ToLower[n] : n \in names}

Rewrites(p, r) ==
  r.nonFastForward /\ p.old # Zero /\ p.old \notin Reach[p.new]

Forbidden(p, r) == /\ r.denyDirectPush /\ p.ref \in r.denyBranches
                   /\ ToLower[p.protocol] \in Lowered(r.denyProtocols)

Bypasses(p, r) == r.webBypass /\ ToLower[p.protocol] \in Lowered(r.webProtocols)

CommitterOK(p, r, c) ==
  r.committerMatch => \/ r.skipMerge /\ Parents[c] >= 2
                      \/ ToLower[Head(Email[c])] = ToLower[p.user]

NeedsTask(p, r) ==
  /\ r.taskId /\ p.ref \in r.taskBranches \ r.branches
  /\ ToLower[p.user] \notin Lowered(r.users)
  /\ ToLower[Project[Len(Project)]] \notin Lowered(r.projects)

TaskOK(p, r, c) ==
  NeedsTask(p, r) => \/ r.exemptMerge /\ Parents[c] >= 2
                     \/ Subject[c] \in r.exemptSubjects \union r.taskSubjects

CommitOK(p, r, c) == CommitterOK(p, r, c) /\ TaskOK(p, r, c)

\* Whether the push p answers for the commit c.
Vouches(p, r, c) ==
  p.new = Zero \/ p.ref \in Tags \/ Bypasses(p, r) \/ CommitOK(p, r, c)
=============================================================================
