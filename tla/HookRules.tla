----------------------------- MODULE HookRules -----------------------------
(***************************************************************************)
(* hook.CheckRef: the pre-receive hook judging one ref update, a step per  *)
(* git command it runs, while other pushes to the same repository are      *)
(* judged and land.  History is a reachability relation, a regular         *)
(* expression the set of names it matches (a nil one is {}), an email and  *)
(* a project path the sequences of their parts at "@" and at "/".          *)
(***************************************************************************)
EXTENDS PushPolicy

CONSTANTS Hooks,     \* hook processes, each of one ref update
          None,
          MaxFaults  \* bound on failing git commands

ASSUME HookRulesAssumption ==
  /\ Configs \subseteq Rules
  /\ None \notin Commits \union RefUpdate \union Configs
  /\ Zero \notin Commits
  /\ Heads \intersect Tags = {}
  /\ Reach \in [Commits -> SUBSET Commits]
  /\ \A c \in Commits : c \in Reach[c]
  /\ \A c, d \in Commits : d \in Reach[c] => /\ Reach[d] \subseteq Reach[c]
                                            /\ (c \in Reach[d] => c = d)
  /\ Parents \in [Commits -> Nat]
  /\ Refs0 \in [Refs -> Commits \union {Zero}]
  /\ MaxFaults \in Nat

VARIABLES refs,     \* the repository's refs
          pc,       \* per hook: where CheckRef is
          push,     \* the ref update and the environment of the push
          rules,    \* the compiled configuration it loaded
          commits,  \* what rev-list printed
          left,     \* those of them not yet checked
          at,       \* the commit being checked
          verdict,  \* what CheckRef returned
          faults    \* counter of the bound

hook == <<pc, push, rules, commits, left, at, verdict>>
vars == <<refs, hook, faults>>

Checking == {"start", "direct", "loop", "committer", "email", "scope", "merge",
             "subject"}
Verdicts == {"pass", "force", "direct", "committer", "task", "error"}

TypeOK ==
  /\ refs \in [Refs -> Commits \union {Zero}]
  /\ pc \in [Hooks -> Checking \union {"idle", "decided", "landed", "refused"}]
  /\ push \in [Hooks -> RefUpdate \union {None}]
  /\ rules \in [Hooks -> Configs \union {None}]
  /\ commits \in [Hooks -> SUBSET Commits]
  /\ left \in [Hooks -> SUBSET Commits]
  /\ at \in [Hooks -> Commits \union {None}]
  /\ verdict \in [Hooks -> Verdicts \union {None}]
  /\ faults \in 0..MaxFaults

Init ==
  /\ refs = Refs0
  /\ pc = [h \in Hooks |-> "idle"]
  /\ push = [h \in Hooks |-> None]
  /\ rules = [h \in Hooks |-> None]
  /\ commits = [h \in Hooks |-> {}]
  /\ left = [h \in Hooks |-> {}]
  /\ at = [h \in Hooks |-> None]
  /\ verdict = [h \in Hooks |-> None]
  /\ faults = 0

(***************************************************************************)
(* The predicates of validator.go and the git commands they are fed from.  *)
(***************************************************************************)
IsDeleteRef(new) == new = Zero
IsTagRef(ref) == ref \in Tags
IsNewBranch(old) == old = Zero
IsMergeCommit(count) == count >= 2
Matches(name, re) == name \in re

\* Mutant of InList: case matters.
InListExactly(name, list) == name \in list

InList(name, list) == \E n \in list : ToLower[n] = ToLower[name]

ExtractEmailPrefix(email) == Head(email)
ExtractRepoName(path) == path[Len(path)]

CommitterMatchesPushUser(email, user) ==
  ToLower[ExtractEmailPrefix(email)] = ToLower[user]

\* git merge-base prints a common ancestor that no other one descends from;
\* no output, exit 1, is the empty string.
MergeBases(old, new) ==
  LET common == Reach[old] \intersect Reach[new]
      best == {m \in common : \A n \in common : m \in Reach[n] => n = m}
  IN  IF best = {} THEN {None} ELSE best

\* Mutant of IsFastForward: related histories are enough.
IsRelated(mergeBase, old) == mergeBase # None

IsFastForward(mergeBase, old) == mergeBase # None /\ mergeBase = old

\* Mutant of NewCommits: no output is split into one empty line.
NewCommitsOrEmptyLine(new) ==
  IF Reach[new] \subseteq Existing(refs) THEN {None} ELSE Reach[new] \ Existing(refs)

\* git rev-list new --not --all.
NewCommits(new) == Reach[new] \ Existing(refs)

Exempt(p) == IsDeleteRef(p.new) \/ IsTagRef(p.ref)

DeniedDirectly(p, r) ==
  r.denyDirectPush /\ Matches(p.ref, r.denyBranches)
                   /\ InList(p.protocol, r.denyProtocols)

ViaWeb(p, r) == r.webBypass /\ InList(p.protocol, r.webProtocols)

TaskCheckSkipped(p, r) ==
  \/ ~r.taskId \/ ~Matches(p.ref, r.taskBranches)
  \/ InList(p.user, r.users)
  \/ Matches(p.ref, r.branches)
  \/ InList(ExtractRepoName(Project), r.projects)

-----------------------------------------------------------------------------
Goto(h, l) == pc' = [pc EXCEPT ![h] = l] /\ UNCHANGED verdict
Return(h, v) == /\ pc' = [pc EXCEPT ![h] = "decided"]
                /\ verdict' = [verdict EXCEPT ![h] = v]

\* The values a ref has had.
Held(ref) == {Refs0[ref]} \union
  {push[h].new : h \in {k \in Hooks : pc[k] = "landed" /\ push[k].ref = ref}}

\* A user pushes; git starts the hook with the value of the ref that it told the
\* client of, and the hook loads the configuration published by then.
Receive(h, p, r) ==
  /\ pc[h] = "idle"
  /\ p.new # p.old
  /\ push' = [push EXCEPT ![h] = p]
  /\ rules' = [rules EXCEPT ![h] = r]
  /\ Goto(h, "start")
  /\ UNCHANGED <<refs, commits, left, at, faults>>

\* Rules 1 and 2: a deletion and a tag pass.
PassExempt(h) ==
  /\ pc[h] = "start" /\ Exempt(push[h])
  /\ Return(h, "pass")
  /\ UNCHANGED <<refs, push, rules, commits, left, at, faults>>

ChecksForce(h) == rules[h].nonFastForward /\ ~IsNewBranch(push[h].old)

\* Rule 3: an existing branch may only move to a descendant.
CheckForcePush(h) ==
  /\ pc[h] = "start" /\ ~Exempt(push[h])
  /\ IF ChecksForce(h)
     THEN \E mb \in MergeBases(push[h].old, push[h].new) :
            IF IsFastForward(mb, push[h].old) THEN Goto(h, "direct")
                                              ELSE Return(h, "force")
     ELSE Goto(h, "direct")
  /\ UNCHANGED <<refs, push, rules, commits, left, at, faults>>

\* Rule 4: some protocols may not push to a protected branch.
DenyDirectPush(h) ==
  /\ pc[h] = "direct" /\ DeniedDirectly(push[h], rules[h])
  /\ Return(h, "direct")
  /\ UNCHANGED <<refs, push, rules, commits, left, at, faults>>

\* Rule 5: a push by the web skips the checks of the commits.
WebBypass(h) ==
  /\ pc[h] = "direct" /\ ~DeniedDirectly(push[h], rules[h])
  /\ ViaWeb(push[h], rules[h])
  /\ Return(h, "pass")
  /\ UNCHANGED <<refs, push, rules, commits, left, at, faults>>

\* Rule 6: rev-list lists what no ref reaches yet.
ListNewCommits(h) ==
  /\ pc[h] = "direct" /\ ~DeniedDirectly(push[h], rules[h])
  /\ ~ViaWeb(push[h], rules[h])
  /\ commits' = [commits EXCEPT ![h] = NewCommits(push[h].new)]
  /\ left' = [left EXCEPT ![h] = NewCommits(push[h].new)]
  /\ Goto(h, "loop")
  /\ UNCHANGED <<refs, push, rules, at, faults>>

\* The loop over the commits, in whatever order rev-list printed them.
NextCommit(h, c) ==
  /\ pc[h] = "loop" /\ c \in left[h]
  /\ left' = [left EXCEPT ![h] = @ \ {c}]
  /\ at' = [at EXCEPT ![h] = c]
  /\ Goto(h, "committer")
  /\ UNCHANGED <<refs, push, rules, commits, faults>>

AllChecked(h) ==
  /\ pc[h] = "loop" /\ left[h] = {}
  /\ Return(h, "pass")
  /\ UNCHANGED <<refs, push, rules, commits, left, at, faults>>

\* Mutant of SkipCommitter: who needs no task id may push anyone's commits.
SkipCommitterListed(h) ==
  /\ pc[h] = "committer"
  /\ IF /\ rules[h].committerMatch /\ ~InList(push[h].user, rules[h].users)
        /\ rules[h].skipMerge => ~IsMergeCommit(Parents[at[h]])
     THEN Goto(h, "email") ELSE Goto(h, "scope")
  /\ UNCHANGED <<refs, push, rules, commits, left, at, faults>>

\* Rule 7, whether it applies: a merge may be skipped.
SkipCommitter(h) ==
  /\ pc[h] = "committer"
  /\ IF /\ rules[h].committerMatch
        /\ rules[h].skipMerge => ~IsMergeCommit(Parents[at[h]])
     THEN Goto(h, "email") ELSE Goto(h, "scope")
  /\ UNCHANGED <<refs, push, rules, commits, left, at, faults>>

\* Rule 7: the committer is the user who pushes.
MatchCommitter(h) ==
  /\ pc[h] = "email"
  /\ IF CommitterMatchesPushUser(Email[at[h]], push[h].user)
     THEN Goto(h, "scope") ELSE Return(h, "committer")
  /\ UNCHANGED <<refs, push, rules, commits, left, at, faults>>

\* Rules 8 to 11: branches out of scope and whitelists need no task id.
CheckScope(h) ==
  /\ pc[h] = "scope"
  /\ IF TaskCheckSkipped(push[h], rules[h]) THEN Goto(h, "loop")
                                            ELSE Goto(h, "merge")
  /\ UNCHANGED <<refs, push, rules, commits, left, at, faults>>

\* Rule 12: a merge may need none.
ExemptMerge(h) ==
  /\ pc[h] = "merge"
  /\ IF rules[h].exemptMerge /\ IsMergeCommit(Parents[at[h]])
     THEN Goto(h, "loop") ELSE Goto(h, "subject")
  /\ UNCHANGED <<refs, push, rules, commits, left, at, faults>>

\* Rules 13 and 14: the subject is exempt or carries a task id.
CheckSubject(h) ==
  /\ pc[h] = "subject"
  /\ IF \/ Matches(Subject[at[h]], rules[h].exemptSubjects)
        \/ Matches(Subject[at[h]], rules[h].taskSubjects)
     THEN Goto(h, "loop") ELSE Return(h, "task")
  /\ UNCHANGED <<refs, push, rules, commits, left, at, faults>>

\* The places where CheckRef waits for a git command.
RunsGit(h) ==
  \/ pc[h] = "start" /\ ~Exempt(push[h]) /\ ChecksForce(h)
  \/ pc[h] = "direct" /\ ~DeniedDirectly(push[h], rules[h])
                      /\ ~ViaWeb(push[h], rules[h])
  \/ pc[h] = "committer" /\ rules[h].committerMatch /\ rules[h].skipMerge
  \/ pc[h] = "merge" /\ rules[h].exemptMerge
  \/ pc[h] \in {"email", "subject"}

\* Mutant of GitFail: the failing command's commit counts as checked.
GitFailContinues(h) ==
  /\ RunsGit(h) /\ faults < MaxFaults
  /\ IF pc[h] \in {"start", "direct"} THEN Return(h, "error") ELSE Goto(h, "loop")
  /\ faults' = faults + 1
  /\ UNCHANGED <<refs, push, rules, commits, left, at>>

\* The command fails: CheckRef returns the error.
GitFail(h) ==
  /\ RunsGit(h) /\ faults < MaxFaults
  /\ Return(h, "error")
  /\ faults' = faults + 1
  /\ UNCHANGED <<refs, push, rules, commits, left, at>>

\* The hook process ends; push and rules stay only as the record of a push
\* that landed.
Exit(h) == /\ commits' = [commits EXCEPT ![h] = {}]
           /\ left' = [left EXCEPT ![h] = {}]
           /\ at' = [at EXCEPT ![h] = None]
           /\ verdict' = [verdict EXCEPT ![h] = None]
           /\ UNCHANGED faults

Refused(h) == /\ pc' = [pc EXCEPT ![h] = "refused"]
              /\ push' = [push EXCEPT ![h] = None]
              /\ rules' = [rules EXCEPT ![h] = None]
              /\ UNCHANGED refs

\* After the hook passed git moves the ref, unless another push moved it first.
Land(h) ==
  /\ pc[h] = "decided" /\ verdict[h] = "pass"
  /\ IF refs[push[h].ref] = push[h].old
     THEN /\ refs' = [refs EXCEPT ![push[h].ref] = push[h].new]
          /\ pc' = [pc EXCEPT ![h] = "landed"]
          /\ UNCHANGED <<push, rules>>
     ELSE Refused(h)
  /\ Exit(h)

\* A violation or an error, in enforce mode, of this ref or of another one of
\* the push: git refuses them all.
Refuse(h) ==
  /\ pc[h] = "decided"
  /\ Refused(h)
  /\ Exit(h)

Finished(h) == pc[h] \in {"landed", "refused"}

Ended == (\A h \in Hooks : Finished(h)) /\ UNCHANGED vars

Check(h) ==
  \/ PassExempt(h) \/ CheckForcePush(h) \/ DenyDirectPush(h) \/ WebBypass(h)
  \/ ListNewCommits(h) \/ (\E c \in Commits : NextCommit(h, c)) \/ AllChecked(h)
  \/ SkipCommitter(h) \/ MatchCommitter(h) \/ CheckScope(h) \/ ExemptMerge(h)
  \/ CheckSubject(h) \/ GitFail(h)

Next ==
  \/ \E h \in Hooks :
       \/ \E ref \in Refs :
            \E old \in Held(ref), new \in Commits \union {Zero}, u \in Users,
               x \in Protocols, r \in Configs :
              Receive(h, [ref |-> ref, old |-> old, new |-> new,
                          user |-> u, protocol |-> x], r)
       \/ Check(h) \/ Land(h) \/ Refuse(h)
  \/ Ended

Spec == Init /\ [][Next]_vars

-----------------------------------------------------------------------------
\* A landed push brought the commit c and answers for it.
Admitted(c) == \E h \in Hooks : /\ pc[h] = "landed" /\ c \in Reachable(push[h].new)
                                /\ Vouches(push[h], rules[h], c)

\* Every commit a ref reaches was there at the start or was brought by a landed
\* push that answers for it, whichever pushes overlap, refs disappear and git
\* commands fail: a commit that rev-list leaves out because another ref
\* reaches it has been checked, if not for this ref.
Guarded == \A c \in Existing(refs) : c \in Existing(Refs0) \/ Admitted(c)

\* The pushes that have landed, with the rules each was judged by.
Landed == {[push |-> push[h], rules |-> rules[h]] :
             h \in {k \in Hooks : pc[k] = "landed"}}

\* However the hooks' git commands interleave, fail and see each other's pushes
\* land, the repository changes one lawful push at a time.
Repository == INSTANCE GuardedRepository WITH landed <- Landed
ImplementsRepository == Repository!Spec

\* CheckRef's verdict, when no git command failed, is the one the rules of the
\* README give, whatever order rev-list printed the commits in and whatever
\* landed meanwhile.  A push passes exactly when no rule is against it: none
\* that concerns its ref, and, unless it bypasses them, neither rule of commits
\* for any commit that rev-list printed.  A violation names such a commit, the
\* committer rule coming first and whitelists and exemptions touching the task
\* id only.  What rev-list left out was there at the start or is answered for.
VerdictIsDue ==
  \A h \in Hooks : LET p == push[h] r == rules[h] v == verdict[h] IN
    pc[h] = "decided" /\ v # "error" =>
      IF p.new = Zero \/ p.ref \in Tags THEN v = "pass" ELSE
        /\ v = "force" <=> Rewrites(p, r)
        /\ v = "direct" <=> Forbidden(p, r) /\ ~Rewrites(p, r)
        /\ v = "pass" <=> /\ ~Rewrites(p, r) /\ ~Forbidden(p, r)
                         /\ \/ Bypasses(p, r)
                            \/ \A c \in commits[h] : CommitOK(p, r, c)
        /\ v = "committer" => at[h] \in commits[h] /\ ~CommitterOK(p, r, at[h])
        /\ v = "task" => /\ at[h] \in commits[h] /\ CommitterOK(p, r, at[h])
                         /\ ~TaskOK(p, r, at[h])
        /\ v \in {"pass", "committer", "task"} /\ ~Bypasses(p, r) =>
             \A c \in Reachable(p.new) \ commits[h] :
               c \in Existing(Refs0) \/ Admitted(c)

\* A push judged with the non-fast-forward rule on never moves a branch to a
\* commit that its tip of the moment is not an ancestor of, however long ago
\* the hook looked; a branch may still be deleted and created anew.
NoRewrite ==
  [][\A h \in Hooks :
       /\ pc[h] # "landed" /\ pc'[h] = "landed"
       /\ push[h].ref \in Heads /\ rules[h].nonFastForward
       => LET tip == refs[push[h].ref] new == refs'[push[h].ref] IN
            tip # Zero /\ new # Zero => tip \in Reach[new]]_vars

\* "Only the web is allowed" (deploy/gitlab-task-hook.yaml.example): a landed
\* move of a protected branch came by an allowed protocol.
OnlyAllowedProtocols ==
  \A h \in Hooks : LET p == push[h] r == rules[h] IN
    /\ pc[h] = "landed" /\ ~Exempt(p)
    /\ r.denyDirectPush /\ Matches(p.ref, r.denyBranches)
    => InList(p.protocol, r.allowProtocols)
=============================================================================
