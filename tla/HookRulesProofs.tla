-------------------------- MODULE HookRulesProofs --------------------------
(***************************************************************************)
(* Proofs about HookRules, for any hooks, history, refs, users and         *)
(* configurations.                                                         *)
(***************************************************************************)
EXTENDS HookRules, TLAPS

\* The fields of a ref update.
LEMMA PushType ==
  ASSUME NEW p \in RefUpdate
  PROVE  /\ p.ref \in Refs /\ p.old \in Commits \union {Zero}
         /\ p.new \in Commits \union {Zero}
  BY DEF RefUpdate

\* A hook that has started and not been refused has its push, which asks for a
\* change, and rules.
Started == \A h \in Hooks : pc[h] \notin {"idle", "refused"} =>
             /\ push[h] \in RefUpdate /\ rules[h] \in Configs
             /\ push[h].new # push[h].old

\* Past the exemptions the push names a commit for a branch.
Moves == \A h \in Hooks : pc[h] \in Checking \ {"start"} =>
           push[h].new \in Commits /\ push[h].ref \in Heads

\* Inside the loop there is a commit at hand.
HasCommit == \A h \in Hooks :
  pc[h] \in {"committer", "email", "scope", "merge", "subject"} => at[h] \in Commits

Typed == TypeOK /\ Started /\ Moves /\ HasCommit

\* What CheckForcePush finds when the push is not exempt.
LEMMA NotExempt ==
  ASSUME NEW p \in RefUpdate, ~Exempt(p)
  PROVE  p.new \in Commits /\ p.ref \in Heads
  BY DEF Exempt, IsDeleteRef, IsTagRef, RefUpdate, Refs

\* git merge-base prints the old tip exactly when the new one reaches it.
LEMMA FastForward ==
  ASSUME NEW old \in Commits, NEW new \in Commits,
         NEW mb \in MergeBases(old, new)
  PROVE  IsFastForward(mb, old) <=> old \in Reach[new]
<1> DEFINE common == Reach[old] \intersect Reach[new]
           best == {m \in common : \A n \in common : m \in Reach[n] => n = m}
<1>1. MergeBases(old, new) = IF best = {} THEN {None} ELSE best
  BY DEF MergeBases
<1>2. None \notin Commits /\ common \subseteq Commits
  BY HookRulesAssumption
<1>3. CASE old \in Reach[new]
  <2>1. old \in common
    BY <1>3, HookRulesAssumption
  <2>2. \A n \in common : old \in Reach[n] => n = old
    BY <1>2, HookRulesAssumption
  <2>3. old \in best
    BY <2>1, <2>2
  <2>4. mb \in best
    BY <1>1, <2>3
  <2>5. mb \in Reach[old]
    BY <2>4
  <2>6. mb = old
    BY <2>1, <2>4, <2>5, HookRulesAssumption
  <2> QED
    BY <1>2, <1>3, <2>6 DEF IsFastForward
<1>4. CASE old \notin Reach[new]
  <2>1. mb = None \/ mb \in common
    BY <1>1
  <2> QED
    BY <1>2, <1>4, <2>1 DEF IsFastForward
<1> QED
  BY <1>3, <1>4

\* The actions of one hook.
Acts(h) ==
  \/ \E p \in RefUpdate, r \in Configs : Receive(h, p, r)
  \/ \E c \in Commits : NextCommit(h, c)
  \/ PassExempt(h) \/ CheckForcePush(h) \/ DenyDirectPush(h) \/ WebBypass(h)
  \/ ListNewCommits(h) \/ AllChecked(h) \/ SkipCommitter(h) \/ MatchCommitter(h)
  \/ CheckScope(h) \/ ExemptMerge(h) \/ CheckSubject(h) \/ GitFail(h)
  \/ Land(h) \/ Refuse(h)

\* A ref has only had commits, or nothing.
LEMMA HeldType ==
  ASSUME Typed, NEW ref \in Refs, NEW old \in Held(ref)
  PROVE  old \in Commits \union {Zero}
  BY HookRulesAssumption, PushType DEF Typed, Started, Held

\* Every step is an action of one hook, or changes nothing.
LEMMA Cases ==
  ASSUME Typed, [Next]_vars
  PROVE  \/ UNCHANGED vars
         \/ \E h \in Hooks : Acts(h)
<1>1. ASSUME NEW ref \in Refs, NEW new \in Commits \union {Zero}, NEW u \in Users,
             NEW x \in Protocols, NEW old \in Held(ref)
      PROVE  [ref |-> ref, old |-> old, new |-> new, user |-> u, protocol |-> x]
               \in RefUpdate
  BY HeldType DEF RefUpdate
<1> QED
  BY <1>1 DEF Next, Check, Ended, Acts

\* Typing is inductive together with what the program counter says.
LEMMA Typing ==
  ASSUME Typed, [Next]_vars
  PROVE  Typed'
<1> USE DEF Checking, Verdicts
<1>1. ASSUME NEW h \in Hooks, NEW p \in RefUpdate, NEW r \in Configs, Receive(h, p, r)
     PROVE  Typed'
  BY <1>1, HookRulesAssumption
  DEF Typed, TypeOK, Started, Moves, HasCommit, Receive, Goto
<1>2. ASSUME NEW h \in Hooks, NEW c \in Commits, NextCommit(h, c)
     PROVE  Typed'
  BY <1>2, HookRulesAssumption
  DEF Typed, TypeOK, Started, Moves, HasCommit, NextCommit, Goto
<1>3. ASSUME NEW h \in Hooks, PassExempt(h) PROVE Typed'
  BY <1>3, HookRulesAssumption
  DEF Typed, TypeOK, Started, Moves, HasCommit, PassExempt, Return
<1>4. ASSUME NEW h \in Hooks, CheckForcePush(h) PROVE Typed'
  <2>1. push[h] \in RefUpdate /\ rules[h] \in Configs
    BY <1>4 DEF Typed, Started, CheckForcePush
  <2>2. push[h].new \in Commits /\ push[h].ref \in Heads
    BY <1>4, <2>1, NotExempt DEF CheckForcePush
  <2>3. Goto(h, "direct") \/ Return(h, "force")
    BY <1>4 DEF CheckForcePush
  <2> QED
    BY <1>4, <2>1, <2>2, <2>3
    DEF Typed, TypeOK, Started, Moves, HasCommit, CheckForcePush, Goto, Return
<1>5. ASSUME NEW h \in Hooks, DenyDirectPush(h) PROVE Typed'
  BY <1>5, HookRulesAssumption
  DEF Typed, TypeOK, Started, Moves, HasCommit, DenyDirectPush, Return
<1>6. ASSUME NEW h \in Hooks, WebBypass(h) PROVE Typed'
  BY <1>6, HookRulesAssumption
  DEF Typed, TypeOK, Started, Moves, HasCommit, WebBypass, Return
<1>7. ASSUME NEW h \in Hooks, ListNewCommits(h) PROVE Typed'
  BY <1>7, HookRulesAssumption
  DEF Typed, TypeOK, Started, Moves, HasCommit, ListNewCommits, Goto, NewCommits
<1>8. ASSUME NEW h \in Hooks, AllChecked(h) PROVE Typed'
  BY <1>8, HookRulesAssumption
  DEF Typed, TypeOK, Started, Moves, HasCommit, AllChecked, Return
<1>9. ASSUME NEW h \in Hooks, SkipCommitter(h) PROVE Typed'
  BY <1>9, HookRulesAssumption
  DEF Typed, TypeOK, Started, Moves, HasCommit, SkipCommitter, Goto
<1>10. ASSUME NEW h \in Hooks, MatchCommitter(h) PROVE Typed'
  BY <1>10, HookRulesAssumption
  DEF Typed, TypeOK, Started, Moves, HasCommit, MatchCommitter, Goto, Return
<1>11. ASSUME NEW h \in Hooks, CheckScope(h) PROVE Typed'
  BY <1>11, HookRulesAssumption
  DEF Typed, TypeOK, Started, Moves, HasCommit, CheckScope, Goto
<1>12. ASSUME NEW h \in Hooks, ExemptMerge(h) PROVE Typed'
  BY <1>12, HookRulesAssumption
  DEF Typed, TypeOK, Started, Moves, HasCommit, ExemptMerge, Goto
<1>13. ASSUME NEW h \in Hooks, CheckSubject(h) PROVE Typed'
  <2>1. /\ pc[h] = "subject"
        /\ Goto(h, "loop") \/ Return(h, "task")
        /\ UNCHANGED <<refs, push, rules, commits, left, at, faults>>
    BY <1>13 DEF CheckSubject
  <2> QED
    BY <2>1 DEF Typed, TypeOK, Started, Moves, HasCommit, Goto, Return
<1>14. ASSUME NEW h \in Hooks, GitFail(h) PROVE Typed'
  <2>1. faults' \in 0..MaxFaults
    BY <1>14, HookRulesAssumption DEF Typed, TypeOK, GitFail
  <2>2. pc[h] \in Checking
    BY <1>14 DEF GitFail, RunsGit
  <2> QED
    BY <1>14, <2>1, <2>2
    DEF Typed, TypeOK, Started, Moves, HasCommit, GitFail, Return
<1>15. ASSUME NEW h \in Hooks, Land(h) PROVE Typed'
  <2>1. push[h] \in RefUpdate /\ rules[h] \in Configs
    BY <1>15 DEF Typed, Started, Land
  <2>2. CASE refs[push[h].ref] = push[h].old
    <3>1. push[h].ref \in Refs /\ push[h].new \in Commits \union {Zero}
      BY <2>1, PushType
    <3> QED
      BY <1>15, <2>1, <2>2, <3>1
      DEF Typed, TypeOK, Started, Moves, HasCommit, Land, Exit
  <2>3. CASE refs[push[h].ref] # push[h].old
    BY <1>15, <2>3 DEF Typed, TypeOK, Started, Moves, HasCommit, Land, Refused, Exit
  <2> QED
    BY <2>2, <2>3
<1>16. ASSUME NEW h \in Hooks, Refuse(h) PROVE Typed'
  BY <1>16, HookRulesAssumption
  DEF Typed, TypeOK, Started, Moves, HasCommit, Refuse, Refused, Exit
<1>17. CASE UNCHANGED vars
  BY <1>17, HookRulesAssumption
  DEF Typed, TypeOK, Started, Moves, HasCommit, vars, hook
<1> QED
  BY <1>1, <1>2, <1>3, <1>4, <1>5, <1>6, <1>7, <1>8, <1>9, <1>10, <1>11, <1>12,
     <1>13, <1>14, <1>15, <1>16, <1>17, Cases DEF Acts, Typed

\* TypeOK: every variable keeps its type, for any number of hooks and refs.
THEOREM TypeCorrect == Spec => []TypeOK
<1>1. Init => Typed
  BY HookRulesAssumption
  DEF Init, Typed, TypeOK, Started, Moves, HasCommit, Checking
<1>2. Typed /\ [Next]_vars => Typed'
  BY Typing
<1> QED
  BY <1>1, <1>2, PTL DEF Spec, Typed

-----------------------------------------------------------------------------
\* The code's predicates say what the policy's say.
LEMMA SamePredicates ==
  ASSUME NEW p, NEW r
  PROVE  /\ Exempt(p) <=> p.new = Zero \/ p.ref \in Tags
         /\ DeniedDirectly(p, r) <=> Forbidden(p, r)
         /\ ViaWeb(p, r) <=> Bypasses(p, r)
         /\ TaskCheckSkipped(p, r) <=> ~NeedsTask(p, r)
<1>1. ASSUME NEW name, NEW list
      PROVE  InList(name, list) <=> ToLower[name] \in Lowered(list)
  BY DEF InList, Lowered
<1> QED
  BY <1>1
  DEF Exempt, IsDeleteRef, IsTagRef, DeniedDirectly, Forbidden, Matches, ViaWeb,
              Bypasses, TaskCheckSkipped, NeedsTask, ExtractRepoName

InLoop == {"loop", "committer", "email", "scope", "merge", "subject"}

\* What CheckRef has established of its push when it is at a given line.
Judged(l, p, r, c) ==
  /\ l \in Checking \ {"start"} => ~Rewrites(p, r)
  /\ l \in InLoop => ~Forbidden(p, r) /\ ~Bypasses(p, r)
  /\ l \in {"scope", "merge", "subject"} => CommitterOK(p, r, c)
  /\ l = "email" => r.committerMatch /\ (r.skipMerge => ~(Parents[c] >= 2))
  /\ l \in {"merge", "subject"} => NeedsTask(p, r)
  /\ l = "subject" => ~(r.exemptMerge /\ Parents[c] >= 2)

\* What the loop knows of the commits cs that rev-list printed: all but those
\* it has left, lf, and the one at hand, c, obey the rules.
Looped(l, p, r, cs, lf, c) ==
  l \in InLoop =>
    /\ lf \subseteq cs
    /\ l # "loop" => c \in cs
    /\ \A d \in cs : d \in lf \/ (l # "loop" /\ d = c) \/ CommitOK(p, r, d)

\* VerdictIsDue of one hook, but for the commits that rev-list left out.
Due(l, p, r, cs, c, v) ==
  l = "decided" /\ v # "error" =>
    IF p.new = Zero \/ p.ref \in Tags THEN v = "pass" ELSE
      /\ v = "force" <=> Rewrites(p, r)
      /\ v = "direct" <=> Forbidden(p, r) /\ ~Rewrites(p, r)
      /\ v = "pass" <=> /\ ~Rewrites(p, r) /\ ~Forbidden(p, r)
                       /\ (Bypasses(p, r) \/ \A d \in cs : CommitOK(p, r, d))
      /\ v = "committer" => c \in cs /\ ~CommitterOK(p, r, c)
      /\ v = "task" => c \in cs /\ CommitterOK(p, r, c) /\ ~TaskOK(p, r, c)

\* With these the part of VerdictIsDue that Due states is inductive.
JudgedAt(h) == /\ Judged(pc[h], push[h], rules[h], at[h])
               /\ Looped(pc[h], push[h], rules[h], commits[h], left[h], at[h])
               /\ Due(pc[h], push[h], rules[h], commits[h], at[h], verdict[h])

\* The hook's push, its rules and what it has of rev-list stay as they are.
Kept(h) == /\ push'[h] = push[h] /\ rules'[h] = rules[h]
           /\ commits'[h] = commits[h] /\ left'[h] = left[h] /\ at'[h] = at[h]

\* Hooks other than h are left alone.
Others(h) == \A g \in Hooks \ {h} :
  /\ pc'[g] = pc[g] /\ verdict'[g] = verdict[g] /\ Kept(g)

\* No action of h touches another hook.
LEMMA OthersAlone ==
  ASSUME Typed, NEW h \in Hooks, Acts(h)
  PROVE  Others(h)
  BY DEF Acts, Typed, TypeOK, Others, Receive, NextCommit, PassExempt,
         CheckForcePush, DenyDirectPush, WebBypass, ListNewCommits, AllChecked,
         SkipCommitter, MatchCommitter, CheckScope, ExemptMerge, CheckSubject,
         GitFail, Land, Refuse,
         Kept, Goto, Return, Refused, Exit

\* CheckRef establishes what Judged says, one rule after the other.
LEMMA OwnStep ==
  ASSUME Typed, NEW h \in Hooks, JudgedAt(h), Acts(h)
  PROVE  JudgedAt(h)'
<1> DEFINE p == push[h] r == rules[h] c == at[h] cs == commits[h]
<1> USE DEF Checking, InLoop
<1>1. ASSUME NEW q \in RefUpdate, NEW x \in Configs, Receive(h, q, x)
      PROVE  JudgedAt(h)'
  <2>1. pc'[h] = "start"
    BY <1>1 DEF Typed, TypeOK, Receive, Goto
  <2> QED
    BY <2>1 DEF JudgedAt, Judged, Looped, Due
<1>2. ASSUME NEW d \in Commits, NextCommit(h, d) PROVE JudgedAt(h)'
  <2>1. /\ pc[h] = "loop" /\ pc'[h] = "committer" /\ push'[h] = p /\ rules'[h] = r
        /\ commits'[h] = cs /\ left'[h] = left[h] \ {d} /\ at'[h] = d /\ d \in left[h]
    BY <1>2 DEF Typed, TypeOK, NextCommit, Goto
  <2> QED
    BY <2>1 DEF JudgedAt, Judged, Looped, Due
<1>3. ASSUME PassExempt(h) PROVE JudgedAt(h)'
  <2>1. pc'[h] = "decided" /\ verdict'[h] = "pass" /\ Kept(h)
    BY <1>3 DEF Typed, TypeOK, PassExempt, Return, Kept
  <2>2. p.new = Zero \/ p.ref \in Tags
    BY <1>3, SamePredicates DEF PassExempt
  <2> QED
    BY <2>1, <2>2 DEF JudgedAt, Judged, Looped, Due, Kept
<1>4. ASSUME CheckForcePush(h) PROVE JudgedAt(h)'
  <2>1. p \in RefUpdate /\ r \in Configs /\ pc[h] = "start" /\ ~Exempt(p)
    BY <1>4 DEF Typed, Started, CheckForcePush
  <2>2. p.new \in Commits /\ p.new # Zero /\ p.ref \notin Tags
    BY <2>1, NotExempt, SamePredicates
  <2>3. p.old \in Commits \union {Zero}
    BY <2>1, PushType
  <2>4. Kept(h)
    BY <1>4 DEF CheckForcePush, Kept
  <2>5. \/ pc'[h] = "direct" /\ ~Rewrites(p, r)
        \/ pc'[h] = "decided" /\ verdict'[h] = "force" /\ Rewrites(p, r)
    <3>1. CASE ChecksForce(h)
      <4>1. PICK mb \in MergeBases(p.old, p.new) :
              IF IsFastForward(mb, p.old) THEN Goto(h, "direct") ELSE Return(h, "force")
        BY <1>4, <3>1 DEF CheckForcePush
      <4>2. p.old \in Commits /\ r.nonFastForward /\ p.old # Zero
        BY <2>3, <3>1 DEF ChecksForce, IsNewBranch
      <4>3. IsFastForward(mb, p.old) <=> p.old \in Reach[p.new]
        BY <2>2, <4>2, FastForward
      <4> QED
        BY <4>1, <4>2, <4>3 DEF Typed, TypeOK, Goto, Return, Rewrites
    <3>2. CASE ~ChecksForce(h)
      BY <1>4, <3>2
      DEF Typed, TypeOK, CheckForcePush, ChecksForce, IsNewBranch, Goto, Rewrites
    <3> QED
      BY <3>1, <3>2
  <2>6. CASE pc'[h] = "direct" /\ ~Rewrites(p, r)
    BY <2>4, <2>6 DEF JudgedAt, Judged, Looped, Due, Kept
  <2>7. CASE pc'[h] = "decided" /\ verdict'[h] = "force" /\ Rewrites(p, r)
    BY <2>2, <2>4, <2>7 DEF JudgedAt, Judged, Looped, Due, Kept
  <2> QED
    BY <2>5, <2>6, <2>7
<1>5. ASSUME DenyDirectPush(h) PROVE JudgedAt(h)'
  <2>1. pc[h] = "direct" /\ pc'[h] = "decided" /\ verdict'[h] = "direct" /\ Kept(h)
    BY <1>5 DEF Typed, TypeOK, DenyDirectPush, Return, Kept
  <2>2. p.new # Zero /\ p.ref \notin Tags
    BY <2>1, HookRulesAssumption DEF Typed, Moves
  <2>3. Forbidden(p, r) /\ ~Rewrites(p, r)
    BY <1>5, <2>1, SamePredicates DEF JudgedAt, Judged, DenyDirectPush
  <2> QED
    BY <2>1, <2>2, <2>3 DEF JudgedAt, Judged, Looped, Due, Kept
<1>6. ASSUME WebBypass(h) PROVE JudgedAt(h)'
  <2>1. pc[h] = "direct" /\ pc'[h] = "decided" /\ verdict'[h] = "pass" /\ Kept(h)
    BY <1>6 DEF Typed, TypeOK, WebBypass, Return, Kept
  <2>2. p.new # Zero /\ p.ref \notin Tags
    BY <2>1, HookRulesAssumption DEF Typed, Moves
  <2>3. ~Forbidden(p, r) /\ ~Rewrites(p, r) /\ Bypasses(p, r)
    BY <1>6, <2>1, SamePredicates DEF JudgedAt, Judged, WebBypass
  <2> QED
    BY <2>1, <2>2, <2>3 DEF JudgedAt, Judged, Looped, Due, Kept
<1>7. ASSUME ListNewCommits(h) PROVE JudgedAt(h)'
  <2>1. /\ pc[h] = "direct" /\ pc'[h] = "loop" /\ push'[h] = p /\ rules'[h] = r
        /\ left'[h] = commits'[h]
    BY <1>7 DEF Typed, TypeOK, ListNewCommits, Goto
  <2>2. ~Forbidden(p, r) /\ ~Bypasses(p, r) /\ ~Rewrites(p, r)
    BY <1>7, <2>1, SamePredicates DEF JudgedAt, Judged, ListNewCommits
  <2> QED
    BY <2>1, <2>2 DEF JudgedAt, Judged, Looped, Due
<1>8. ASSUME AllChecked(h) PROVE JudgedAt(h)'
  <2>1. /\ pc[h] = "loop" /\ left[h] = {} /\ pc'[h] = "decided" /\ verdict'[h] = "pass"
        /\ Kept(h)
    BY <1>8 DEF Typed, TypeOK, AllChecked, Return, Kept
  <2>2. \A d \in cs : CommitOK(p, r, d)
    BY <2>1 DEF JudgedAt, Looped
  <2> QED
    BY <2>1, <2>2 DEF JudgedAt, Judged, Looped, Due, Kept
<1>9. ASSUME SkipCommitter(h) PROVE JudgedAt(h)'
  <2>1. /\ pc[h] = "committer" /\ Kept(h)
        /\ IF r.committerMatch /\ (r.skipMerge => ~(Parents[c] >= 2))
           THEN pc'[h] = "email" ELSE pc'[h] = "scope"
    BY <1>9 DEF Typed, TypeOK, SkipCommitter, Goto, IsMergeCommit, Kept
  <2> QED
    BY <2>1 DEF JudgedAt, Judged, Looped, Due, Kept, CommitterOK
<1>10. ASSUME MatchCommitter(h) PROVE JudgedAt(h)'
  <2>1. /\ pc[h] = "email" /\ Kept(h)
        /\ IF CommitterMatchesPushUser(Email[c], p.user)
           THEN pc'[h] = "scope"
           ELSE pc'[h] = "decided" /\ verdict'[h] = "committer"
    BY <1>10 DEF Typed, TypeOK, MatchCommitter, Goto, Return, Kept
  <2>2. CommitterMatchesPushUser(Email[c], p.user) <=> CommitterOK(p, r, c)
    BY <2>1 DEF JudgedAt, Judged, CommitterOK, CommitterMatchesPushUser,
                ExtractEmailPrefix
  <2>3. CASE pc'[h] = "scope"
    BY <2>1, <2>2, <2>3 DEF JudgedAt, Judged, Looped, Due, Kept
  <2>4. CASE pc'[h] = "decided" /\ verdict'[h] = "committer"
    <3>1. c \in cs /\ ~CommitterOK(p, r, c) /\ ~CommitOK(p, r, c)
      BY <2>1, <2>2, <2>4 DEF JudgedAt, Looped, CommitOK
    <3>2. ~Forbidden(p, r) /\ ~Rewrites(p, r) /\ ~Bypasses(p, r)
      BY <2>1 DEF JudgedAt, Judged
    <3>3. p.new # Zero /\ p.ref \notin Tags
      BY <2>1, HookRulesAssumption DEF Typed, Moves
    <3> QED
      BY <2>1, <2>4, <3>1, <3>2, <3>3 DEF JudgedAt, Judged, Looped, Due, Kept
  <2> QED
    BY <2>1, <2>3, <2>4
<1>11. ASSUME CheckScope(h) PROVE JudgedAt(h)'
  <2>1. /\ pc[h] = "scope" /\ Kept(h)
        /\ \/ pc'[h] = "loop" /\ ~NeedsTask(p, r)
           \/ pc'[h] = "merge" /\ NeedsTask(p, r)
    BY <1>11, SamePredicates DEF Typed, TypeOK, CheckScope, Goto, Kept
  <2>2. pc'[h] = "loop" => CommitOK(p, r, c)
    BY <2>1 DEF JudgedAt, Judged, CommitOK, TaskOK
  <2> QED
    BY <2>1, <2>2 DEF JudgedAt, Judged, Looped, Due, Kept
<1>12. ASSUME ExemptMerge(h) PROVE JudgedAt(h)'
  <2>1. /\ pc[h] = "merge" /\ Kept(h)
        /\ IF r.exemptMerge /\ Parents[c] >= 2
           THEN pc'[h] = "loop" ELSE pc'[h] = "subject"
    BY <1>12 DEF Typed, TypeOK, ExemptMerge, Goto, IsMergeCommit, Kept
  <2>2. pc'[h] = "loop" => CommitOK(p, r, c)
    BY <2>1 DEF JudgedAt, Judged, CommitOK, TaskOK
  <2> QED
    BY <2>1, <2>2 DEF JudgedAt, Judged, Looped, Due, Kept
<1>13. ASSUME CheckSubject(h) PROVE JudgedAt(h)'
  <2>1. /\ pc[h] = "subject" /\ Kept(h)
        /\ IF Subject[c] \in r.exemptSubjects \union r.taskSubjects
           THEN pc'[h] = "loop"
           ELSE pc'[h] = "decided" /\ verdict'[h] = "task"
    BY <1>13 DEF Typed, TypeOK, CheckSubject, Goto, Return, Matches, Kept
  <2>2. Subject[c] \in r.exemptSubjects \union r.taskSubjects <=> TaskOK(p, r, c)
    BY <2>1 DEF JudgedAt, Judged, TaskOK
  <2>3. CommitterOK(p, r, c)
    BY <2>1 DEF JudgedAt, Judged
  <2>4. CASE pc'[h] = "loop"
    <3>1. CommitOK(p, r, c)
      BY <2>1, <2>2, <2>3, <2>4 DEF CommitOK
    <3> QED
      BY <2>1, <2>4, <3>1 DEF JudgedAt, Judged, Looped, Due, Kept
  <2>5. CASE pc'[h] = "decided" /\ verdict'[h] = "task"
    <3>1. c \in cs /\ ~TaskOK(p, r, c) /\ ~CommitOK(p, r, c)
      BY <2>1, <2>2, <2>5 DEF JudgedAt, Looped, CommitOK
    <3>2. ~Forbidden(p, r) /\ ~Rewrites(p, r) /\ ~Bypasses(p, r)
      BY <2>1 DEF JudgedAt, Judged
    <3>3. p.new # Zero /\ p.ref \notin Tags
      BY <2>1, HookRulesAssumption DEF Typed, Moves
    <3> QED
      BY <2>1, <2>3, <2>5, <3>1, <3>2, <3>3 DEF JudgedAt, Judged, Looped, Due, Kept
  <2> QED
    BY <2>1, <2>4, <2>5
<1>14. ASSUME GitFail(h) PROVE JudgedAt(h)'
  <2>1. pc'[h] = "decided" /\ verdict'[h] = "error"
    BY <1>14 DEF Typed, TypeOK, GitFail, Return
  <2> QED
    BY <2>1 DEF JudgedAt, Judged, Looped, Due
<1>15. ASSUME Land(h) PROVE JudgedAt(h)'
  <2>1. pc'[h] \in {"landed", "refused"}
    BY <1>15 DEF Typed, TypeOK, Land, Refused
  <2> QED
    BY <2>1 DEF JudgedAt, Judged, Looped, Due
<1>16. ASSUME Refuse(h) PROVE JudgedAt(h)'
  <2>1. pc'[h] = "refused"
    BY <1>16 DEF Typed, TypeOK, Refuse, Refused
  <2> QED
    BY <2>1 DEF JudgedAt, Judged, Looped, Due
<1> QED
  BY <1>1, <1>2, <1>3, <1>4, <1>5, <1>6, <1>7, <1>8, <1>9, <1>10, <1>11, <1>12,
     <1>13, <1>14, <1>15, <1>16 DEF Acts

\* Every step keeps what each hook has established.
LEMMA Judging ==
  ASSUME Typed, \A h \in Hooks : JudgedAt(h), [Next]_vars
  PROVE  \A h \in Hooks : JudgedAt(h)'
<1>1. CASE UNCHANGED vars
  BY <1>1 DEF JudgedAt, vars, hook
<1>2. ASSUME NEW h \in Hooks, Acts(h)
      PROVE  \A g \in Hooks : JudgedAt(g)'
  <2>1. JudgedAt(h)'
    BY <1>2, OwnStep
  <2>2. Others(h)
    BY <1>2, OthersAlone
  <2>3. \A g \in Hooks \ {h} : JudgedAt(g)'
    BY <2>2 DEF Others, Kept, JudgedAt
  <2> QED
    BY <2>1, <2>3
<1> QED
  BY <1>1, <1>2, Cases

\* NoRewrite: a landed push judged by rule 3 only moves its branch forward.
THEOREM HistoryIsKept == Spec => NoRewrite
<1> DEFINE IInv == Typed /\ \A h \in Hooks : JudgedAt(h)
           tip(h) == refs[push[h].ref]
           new(h) == refs'[push[h].ref]
           A == \A h \in Hooks :
                  /\ pc[h] # "landed" /\ pc'[h] = "landed"
                  /\ push[h].ref \in Heads /\ rules[h].nonFastForward
                  => (tip(h) # Zero /\ new(h) # Zero => tip(h) \in Reach[new(h)])
<1>1. Init => IInv
  BY HookRulesAssumption
  DEF Init, Typed, TypeOK, Started, Moves, HasCommit, JudgedAt, Judged,
      Looped, Due, Checking, InLoop
<1>2. IInv /\ [Next]_vars => IInv'
  BY Typing, Judging
<1>3. ASSUME IInv, [Next]_vars PROVE A
  <2> SUFFICES ASSUME NEW h \in Hooks, pc[h] # "landed", pc'[h] = "landed",
                      push[h].ref \in Heads, rules[h].nonFastForward,
                      tip(h) # Zero, new(h) # Zero
               PROVE  tip(h) \in Reach[new(h)]
    OBVIOUS
  <2>1. Land(h)
    <3>1. PICK k \in Hooks : Acts(k)
      BY <1>3, Cases DEF Typed, vars, hook
    <3>2. k = h
      BY <3>1, <1>3, OthersAlone DEF Others, Kept
    <3> QED
      BY <3>1, <3>2, <1>3
      DEF Acts, Typed, TypeOK, Receive, NextCommit, PassExempt, CheckForcePush,
          DenyDirectPush, WebBypass, ListNewCommits, AllChecked, SkipCommitter,
          MatchCommitter, CheckScope, ExemptMerge, CheckSubject, GitFail, Refuse,
          Goto, Return, Refused
  <2>2. refs[push[h].ref] = push[h].old /\ refs' = [refs EXCEPT ![push[h].ref] = push[h].new]
    BY <2>1, <1>3 DEF Typed, TypeOK, Land, Refused
  <2>3. push[h] \in RefUpdate
    BY <2>1, <1>3 DEF Typed, Started, Land
  <2>4. new(h) = push[h].new
    BY <2>2, <2>3, <1>3, PushType DEF Typed, TypeOK
  <2>5. pc[h] = "decided" /\ verdict[h] = "pass" /\ push[h].ref \notin Tags
    BY <2>1, HookRulesAssumption DEF Land
  <2>6. ~Rewrites(push[h], rules[h])
    BY <2>4, <2>5, <1>3 DEF JudgedAt, Due
  <2> QED
    BY <2>2, <2>4, <2>6 DEF Rewrites
<1> QED
  BY <1>1, <1>2, <1>3, PTL DEF Spec, NoRewrite

-----------------------------------------------------------------------------
\* A commit that was there at the start or that a landed push answers for.
Answered(c) == c \in Existing(Refs0) \/ Admitted(c)

\* Whether the hook goes by what rev-list printed.
Lists(l, p, r, v) ==
  \/ l \in InLoop
  \/ l = "decided" /\ v \in {"pass", "committer", "task"} /\ ~Exempt(p) /\ ~Bypasses(p, r)

\* What rev-list left out of the push is answered for.
CoverAt(h) ==
  Lists(pc[h], push[h], rules[h], verdict[h]) =>
    \A c \in Reachable(push[h].new) \ commits[h] : Answered(c)

\* A push that has landed stays landed.
LEMMA AnsweredStays ==
  ASSUME Typed, NEW h \in Hooks, NEW d, Answered(d), Acts(h)
  PROVE  Answered(d)'
<1>1. ASSUME Admitted(d) PROVE Admitted(d)'
  <2>1. PICK k \in Hooks : /\ pc[k] = "landed" /\ d \in Reachable(push[k].new)
                          /\ Vouches(push[k], rules[k], d)
    BY <1>1 DEF Admitted
  <2>2. pc[h] # "landed"
    BY DEF Acts, Receive, NextCommit, PassExempt, CheckForcePush, DenyDirectPush,
           WebBypass, ListNewCommits, AllChecked, SkipCommitter, MatchCommitter,
           CheckScope, ExemptMerge, CheckSubject, GitFail, Land, Refuse, RunsGit
  <2>3. pc'[k] = pc[k] /\ push'[k] = push[k] /\ rules'[k] = rules[k]
    BY <2>1, <2>2, OthersAlone DEF Others, Kept
  <2> QED
    BY <2>1, <2>3 DEF Admitted
<1> QED
  BY <1>1 DEF Answered

\* rev-list leaves out what a ref reaches, and the hook keeps what it printed.
LEMMA OwnCover ==
  ASSUME Typed, Guarded, NEW h \in Hooks, CoverAt(h), Acts(h)
  PROVE  CoverAt(h)'
<1> USE DEF InLoop
<1>1. \A c : Answered(c) => Answered(c)'
  BY AnsweredStays
<1>2. CASE pc[h] \in InLoop
  <2>1. push'[h] = push[h] /\ commits'[h] = commits[h]
    BY <1>2
    DEF Acts, Receive, NextCommit, PassExempt, CheckForcePush, DenyDirectPush,
        WebBypass, ListNewCommits, AllChecked, SkipCommitter, MatchCommitter,
        CheckScope, ExemptMerge, CheckSubject, GitFail, Land, Refuse
  <2> QED
    BY <1>1, <1>2, <2>1 DEF CoverAt, Lists
<1>3. CASE ListNewCommits(h)
  <2>1. /\ pc[h] = "direct" /\ push'[h] = push[h]
        /\ commits'[h] = Reach[push[h].new] \ Existing(refs)
    BY <1>3 DEF Typed, TypeOK, ListNewCommits, NewCommits
  <2>2. push[h].new \in Commits
    BY <2>1 DEF Typed, Moves, Checking
  <2>3. Reachable(push[h].new) = Reach[push[h].new]
    BY <2>2, HookRulesAssumption DEF Reachable
  <2>4. \A c \in Existing(refs) : Answered(c)
    BY DEF Guarded, Answered
  <2> QED
    BY <1>1, <2>1, <2>3, <2>4 DEF CoverAt
<1>4. CASE pc[h] \notin InLoop /\ ~ListNewCommits(h)
  <2>1. CASE PassExempt(h)
    BY <2>1 DEF CoverAt, Lists, Typed, TypeOK, PassExempt, Return, Exempt
  <2>2. CASE WebBypass(h)
    BY <2>2, SamePredicates DEF CoverAt, Lists, Typed, TypeOK, WebBypass, Return
  <2>3. CASE CheckForcePush(h)
    <3>1. pc'[h] = "direct" \/ (pc'[h] = "decided" /\ verdict'[h] = "force")
      BY <2>3 DEF Typed, TypeOK, CheckForcePush, Goto, Return
    <3> QED
      BY <3>1 DEF CoverAt, Lists
  <2>4. CASE DenyDirectPush(h)
    BY <2>4 DEF CoverAt, Lists, Typed, TypeOK, DenyDirectPush, Return
  <2>5. CASE GitFail(h)
    BY <2>5 DEF CoverAt, Lists, Typed, TypeOK, GitFail, Return
  <2>6. CASE Land(h) \/ Refuse(h)
    <3>1. pc'[h] \in {"landed", "refused"}
      BY <2>6 DEF Typed, TypeOK, Land, Refuse, Refused
    <3> QED
      BY <3>1 DEF CoverAt, Lists
  <2>7. CASE \E p \in RefUpdate, r \in Configs : Receive(h, p, r)
    BY <2>7 DEF CoverAt, Lists, Typed, TypeOK, Receive, Goto
  <2> QED
    BY <1>4, <2>1, <2>2, <2>3, <2>4, <2>5, <2>6, <2>7
    DEF Acts, NextCommit, AllChecked, SkipCommitter, MatchCommitter, CheckScope,
        ExemptMerge, CheckSubject
<1> QED
  BY <1>2, <1>3, <1>4

\* A push that passed answers for what it brings, or others do.
LEMMA PassedAnswers ==
  ASSUME Typed, NEW h \in Hooks, JudgedAt(h), CoverAt(h),
         pc[h] = "decided", verdict[h] = "pass", NEW c \in Reachable(push[h].new)
  PROVE  Answered(c) \/ Vouches(push[h], rules[h], c)
<1>1. CASE Exempt(push[h]) \/ Bypasses(push[h], rules[h])
  BY <1>1, SamePredicates DEF Vouches
<1>2. CASE ~Exempt(push[h]) /\ ~Bypasses(push[h], rules[h])
  <2>1. c \in commits[h] \/ Answered(c)
    BY <1>2 DEF CoverAt, Lists
  <2>2. \A d \in commits[h] : CommitOK(push[h], rules[h], d)
    BY <1>2, SamePredicates DEF JudgedAt, Due
  <2> QED
    BY <2>1, <2>2 DEF Vouches
<1> QED
  BY <1>1, <1>2

\* Only Land moves a ref, and what it makes reachable has been checked.
LEMMA OwnGuard ==
  ASSUME Typed, Guarded, NEW h \in Hooks, JudgedAt(h), CoverAt(h), Acts(h)
  PROVE  Guarded'
<1>1. \A c : Answered(c) => Answered(c)'
  BY AnsweredStays
<1>2. CASE refs' = refs
  BY <1>1, <1>2 DEF Guarded, Answered
<1>3. CASE refs' # refs
  <2>1. Land(h) /\ refs' = [refs EXCEPT ![push[h].ref] = push[h].new]
    BY <1>3
    DEF Acts, Receive, NextCommit, PassExempt, CheckForcePush, DenyDirectPush,
        WebBypass, ListNewCommits, AllChecked, SkipCommitter, MatchCommitter,
        CheckScope, ExemptMerge, CheckSubject, GitFail, Land, Refuse, Refused
  <2>2. /\ pc[h] = "decided" /\ verdict[h] = "pass" /\ pc'[h] = "landed"
        /\ push' = push /\ rules' = rules
    BY <1>3, <2>1 DEF Typed, TypeOK, Land, Refused
  <2>3. \A c \in Existing(refs') : c \in Existing(refs) \/ c \in Reachable(push[h].new)
    BY <2>1 DEF Existing, Typed, TypeOK
  <2>4. \A c \in Reachable(push[h].new) : Answered(c)'
    <3>1. ASSUME NEW c \in Reachable(push[h].new), Vouches(push[h], rules[h], c)
          PROVE  Admitted(c)'
      BY <2>2, <3>1 DEF Admitted
    <3> QED
      BY <1>1, <2>2, <3>1, PassedAnswers DEF Answered
  <2>5. \A c \in Existing(refs) : Answered(c)'
    BY <1>1 DEF Guarded, Answered
  <2> QED
    BY <2>3, <2>4, <2>5 DEF Guarded, Answered
<1> QED
  BY <1>2, <1>3

\* Every step keeps Guarded and what each hook has covered.
LEMMA Guarding ==
  ASSUME Typed, Guarded, \A h \in Hooks : JudgedAt(h) /\ CoverAt(h), [Next]_vars
  PROVE  Guarded' /\ \A h \in Hooks : CoverAt(h)'
<1>1. CASE UNCHANGED vars
  BY <1>1 DEF CoverAt, Lists, Guarded, Answered, Admitted, vars, hook
<1>2. ASSUME NEW h \in Hooks, Acts(h)
      PROVE  Guarded' /\ \A g \in Hooks : CoverAt(g)'
  <2>1. CoverAt(h)' /\ Guarded'
    BY <1>2, OwnCover, OwnGuard
  <2>2. Others(h)
    BY <1>2, OthersAlone
  <2>3. \A c : Answered(c) => Answered(c)'
    BY <1>2, AnsweredStays
  <2>4. \A g \in Hooks \ {h} : CoverAt(g)'
    BY <2>2, <2>3 DEF Others, Kept, CoverAt
  <2> QED
    BY <2>1, <2>4
<1> QED
  BY <1>1, <1>2, Cases

\* What the hooks know of their pushes and of each other's.
GuardInv == /\ Typed /\ Guarded
            /\ \A h \in Hooks : JudgedAt(h) /\ CoverAt(h)

LEMMA Invariance == Spec => []GuardInv
<1>1. Init => GuardInv
  <2> SUFFICES ASSUME Init PROVE GuardInv
    OBVIOUS
  <2>1. Typed /\ \A h \in Hooks : JudgedAt(h)
    BY HookRulesAssumption
    DEF Init, Typed, TypeOK, Started, Moves, HasCommit, JudgedAt, Judged,
        Looped, Due, Checking, InLoop
  <2>2. Guarded
    BY DEF Init, Guarded
  <2>3. \A h \in Hooks : CoverAt(h)
    BY DEF Init, CoverAt, Lists, InLoop
  <2> QED
    BY <2>1, <2>2, <2>3 DEF GuardInv
<1>2. GuardInv /\ [Next]_vars => GuardInv'
  BY Typing, Judging, Guarding DEF GuardInv
<1> QED
  BY <1>1, <1>2, PTL DEF Spec

\* VerdictIsDue: a push passes exactly when the README's table of rules has
\* nothing against it, and is refused for the reason the table gives.
THEOREM VerdictFollowsTheRules == Spec => []VerdictIsDue
<1>1. ASSUME GuardInv, NEW h \in Hooks
      PROVE  /\ Due(pc[h], push[h], rules[h], commits[h], at[h], verdict[h])
             /\ Lists(pc[h], push[h], rules[h], verdict[h]) =>
                  \A c \in Reachable(push[h].new) \ commits[h] :
                    c \in Existing(Refs0) \/ Admitted(c)
  BY <1>1 DEF GuardInv, JudgedAt, CoverAt, Answered
<1>2. GuardInv => VerdictIsDue
  BY <1>1, SamePredicates DEF VerdictIsDue, Due, Lists
<1> QED
  BY <1>2, Invariance, PTL

\* Guarded: no commit becomes reachable that no landed push answers for.
THEOREM CommitsAreChecked == Spec => []Guarded
<1>1. GuardInv => Guarded
  BY DEF GuardInv
<1> QED
  BY <1>1, Invariance, PTL

-----------------------------------------------------------------------------
(***************************************************************************)
(* The repository.                                                         *)
(***************************************************************************)

\* Only a hook that lands changes the refs or the pushes that have landed.
LEMMA LandedStep ==
  ASSUME Typed, NEW h \in Hooks, Acts(h)
  PROVE  \/ UNCHANGED <<refs, Landed>>
         \/ /\ pc[h] = "decided" /\ verdict[h] = "pass"
            /\ refs[push[h].ref] = push[h].old
            /\ refs' = [refs EXCEPT ![push[h].ref] = push[h].new]
            /\ Landed' = Landed \union {[push |-> push[h], rules |-> rules[h]]}
<1> DEFINE L == {k \in Hooks : pc[k] = "landed"}
<1>1. Others(h)
  BY OthersAlone
<1>2. pc[h] # "landed"
  BY DEF Acts, Receive, NextCommit, PassExempt, CheckForcePush, DenyDirectPush,
         WebBypass, ListNewCommits, AllChecked, SkipCommitter, MatchCommitter,
         CheckScope, ExemptMerge, CheckSubject, GitFail, Land, Refuse, RunsGit
<1>3. \A k \in L : push'[k] = push[k] /\ rules'[k] = rules[k]
  BY <1>1, <1>2 DEF Others, Kept
<1>4. CASE pc'[h] # "landed"
  <2>1. L' = L
    BY <1>1, <1>2, <1>4 DEF Others
  <2>2. Landed' = Landed
    BY <1>3, <2>1 DEF Landed
  <2>3. refs' = refs
    BY <1>4
    DEF Acts, Receive, NextCommit, PassExempt, CheckForcePush, DenyDirectPush,
        WebBypass, ListNewCommits, AllChecked, SkipCommitter, MatchCommitter,
        CheckScope, ExemptMerge, CheckSubject, GitFail, Land, Refuse, Refused,
        Typed, TypeOK
  <2> QED
    BY <2>2, <2>3
<1>5. CASE pc'[h] = "landed"
  <2>1. Land(h) /\ refs[push[h].ref] = push[h].old
    BY <1>2, <1>5
    DEF Acts, Receive, NextCommit, PassExempt, CheckForcePush, DenyDirectPush,
        WebBypass, ListNewCommits, AllChecked, SkipCommitter, MatchCommitter,
        CheckScope, ExemptMerge, CheckSubject, GitFail, Land, Refuse, Refused,
        Typed, TypeOK, Goto, Return
  <2>2. /\ pc[h] = "decided" /\ verdict[h] = "pass"
        /\ refs' = [refs EXCEPT ![push[h].ref] = push[h].new]
        /\ push' = push /\ rules' = rules
    BY <2>1 DEF Land
  <2>3. L' = L \union {h}
    BY <1>1, <1>5 DEF Others
  <2>4. Landed' = {[push |-> push[k], rules |-> rules[k]] : k \in L \union {h}}
    BY <2>2, <2>3 DEF Landed
  <2>5. Landed' = Landed \union {[push |-> push[h], rules |-> rules[h]]}
    BY <2>4 DEF Landed
  <2> QED
    BY <2>1, <2>2, <2>5
<1> QED
  BY <1>4, <1>5

\* A hook's landing is a step of GuardedRepository.
LEMMA LandsLawfully ==
  ASSUME GuardInv, NEW h \in Hooks,
         pc[h] = "decided", verdict[h] = "pass",
         refs[push[h].ref] = push[h].old,
         refs' = [refs EXCEPT ![push[h].ref] = push[h].new],
         Landed' = Landed \union {[push |-> push[h], rules |-> rules[h]]}
  PROVE  Repository!Next
<1> DEFINE p == push[h] r == rules[h]
<1>1. p \in RefUpdate /\ r \in Configs /\ p.new # p.old
  BY DEF GuardInv, Typed, Started
<1>2. /\ p.ref \in Refs /\ p.new \in Commits \union {Zero}
      /\ p.user \in Users /\ p.protocol \in Protocols
      /\ p = [ref |-> p.ref, old |-> refs[p.ref], new |-> p.new,
              user |-> p.user, protocol |-> p.protocol]
  BY <1>1 DEF RefUpdate
<1>3. Repository!Moves(p.ref, p.new)
  BY <1>1 DEF Repository!Moves
<1>4. Repository!Lawful(p, r)
  <2>1. JudgedAt(h)
    BY DEF GuardInv
  <2>2. ASSUME p.new # Zero, p.ref \notin Tags PROVE ~Rewrites(p, r) /\ ~Forbidden(p, r)
    <3>1. ~Rewrites(p, r)
      BY <2>1, <2>2 DEF JudgedAt, Due
    <3>2. ~(Forbidden(p, r) /\ ~Rewrites(p, r))
      BY <2>1, <2>2 DEF JudgedAt, Due
    <3> QED
      BY <3>1, <3>2
  <2> QED
    BY <2>2 DEF Repository!Lawful, Repository!Rewrites, Repository!Forbidden,
       Repository!Lowered, Rewrites, Forbidden, Lowered
<1>5. ASSUME NEW c \in Reachable(p.new), c \notin Existing(Refs0)
      PROVE  \E q \in Landed' : c \in Reachable(q.push.new) /\ Vouches(q.push, q.rules, c)
  <2>1. Admitted(c) \/ Vouches(p, r, c)
    BY <1>5, PassedAnswers DEF GuardInv, Answered
  <2>2. CASE Vouches(p, r, c)
    <3> WITNESS [push |-> p, rules |-> r] \in Landed'
    <3> QED
      BY <1>5, <2>2
  <2>3. CASE Admitted(c)
    <3>1. PICK k \in Hooks : /\ pc[k] = "landed" /\ c \in Reachable(push[k].new)
                            /\ Vouches(push[k], rules[k], c)
      BY <2>3 DEF Admitted
    <3> DEFINE q == [push |-> push[k], rules |-> rules[k]]
    <3>2. q \in Landed'
      BY <3>1 DEF Landed
    <3> WITNESS q \in Landed'
    <3> QED
      BY <3>1
  <2> QED
    BY <2>1, <2>2, <2>3
<1>6. Repository!Accounts(p, r)
  BY <1>4, <1>5
  DEF Repository!Accounts, Repository!AnsweredBy, Repository!Reachable,
      Repository!Existing, Repository!Refs, Repository!Vouches, Repository!Bypasses,
      Repository!CommitOK, Repository!CommitterOK, Repository!TaskOK,
      Repository!NeedsTask, Repository!Lowered, Reachable, Existing, Refs, Vouches,
      Bypasses, CommitOK, CommitterOK, TaskOK, NeedsTask, Lowered
<1> QED
  BY <1>1, <1>2, <1>3, <1>6 DEF Repository!Next, Repository!Refs, Refs

\* ImplementsRepository: any number of hooks, judging and landing side by side,
\* changes the repository as one lawful push after the other would.
THEOREM HooksGuardTheRepository == Spec => ImplementsRepository
<1>1. Init => Repository!Init
  <2> SUFFICES ASSUME Init PROVE Repository!Init
    OBVIOUS
  <2>1. Landed = {}
    BY DEF Init, Landed
  <2> QED
    BY <2>1 DEF Init, Repository!Init
<1>2. ASSUME GuardInv, [Next]_vars PROVE [Repository!Next]_<<refs, Landed>>
  <2>1. CASE UNCHANGED vars
    BY <2>1 DEF vars, hook, Landed
  <2>2. ASSUME NEW h \in Hooks, Acts(h)
        PROVE  [Repository!Next]_<<refs, Landed>>
    BY <1>2, <2>2, LandedStep, LandsLawfully DEF GuardInv
  <2> QED
    BY <1>2, <2>1, <2>2, Cases DEF GuardInv
<1> QED
  BY <1>1, <1>2, Invariance, PTL
  DEF Spec, ImplementsRepository, Repository!Spec, Repository!vars

-----------------------------------------------------------------------------
(***************************************************************************)
(* What an administrator may conclude from a configuration.                *)
(***************************************************************************)

\* A commit that came into the repository otherwise than by a tag.
CameByBranch(c) == /\ c \in Existing(refs) \ Existing(Refs0)
                   /\ \A h \in Hooks : pc[h] = "landed" /\ push[h].ref \in Tags =>
                                         c \notin Reachable(push[h].new)

\* The push h has landed, a branch update that contains c.
Brought(h, c) == pc[h] = "landed" /\ push[h].ref \in Heads /\ c \in Reachable(push[h].new)

\* Without the web bypass such a commit passed the commit rules of some such push.
LEMMA CheckedByAPush ==
  ASSUME GuardInv, \A r \in Configs : ~r.webBypass, NEW c, CameByBranch(c)
  PROVE  \E h \in Hooks : /\ Brought(h, c) /\ CommitOK(push[h], rules[h], c)
                          /\ push[h] \in RefUpdate /\ rules[h] \in Configs
<1>1. PICK h \in Hooks : /\ pc[h] = "landed" /\ c \in Reachable(push[h].new)
                         /\ Vouches(push[h], rules[h], c)
  BY DEF GuardInv, Guarded, CameByBranch, Admitted
<1>2. push[h] \in RefUpdate /\ rules[h] \in Configs
  BY <1>1 DEF GuardInv, Typed, Started
<1>3. push[h].new # Zero /\ push[h].ref \in Heads
  BY <1>1, <1>2, PushType DEF CameByBranch, Reachable, Refs
<1>4. ~Bypasses(push[h], rules[h])
  BY <1>2 DEF Bypasses
<1>5. CommitOK(push[h], rules[h], c)
  BY <1>1, <1>3, <1>4, HookRulesAssumption DEF Vouches
<1> QED
  BY <1>1, <1>2, <1>3, <1>5 DEF Brought

\* When every configuration has the committer rule, for merges too, and none the
\* web bypass, each commit that did not come by a tag was brought by a push of its
\* own committer, whoever else pushed it and whatever happened at the same time.
THEOREM NoForeignCommits ==
  ASSUME \A r \in Configs : r.committerMatch /\ ~r.skipMerge /\ ~r.webBypass
  PROVE  Spec => [](\A c : CameByBranch(c) => \E h \in Hooks :
                      Brought(h, c) /\ ToLower[Head(Email[c])] = ToLower[push[h].user])
<1> DEFINE Own(c) == \E h \in Hooks :
             Brought(h, c) /\ ToLower[Head(Email[c])] = ToLower[push[h].user]
<1>1. ASSUME GuardInv, NEW c, CameByBranch(c)
      PROVE  Own(c)
  <2>1. PICK h \in Hooks : /\ Brought(h, c) /\ CommitOK(push[h], rules[h], c)
                           /\ rules[h] \in Configs
    BY <1>1, CheckedByAPush
  <2>2. ToLower[Head(Email[c])] = ToLower[push[h].user]
    BY <2>1 DEF CommitOK, CommitterOK
  <2> QED
    BY <2>1, <2>2
<1>2. GuardInv => \A c : CameByBranch(c) => Own(c)
  BY <1>1
<1> QED
  BY <1>2, Invariance, PTL

\* When every configuration requires task ids of all branches and lists no user,
\* branch or project that needs none, each commit that did not come by a tag was
\* brought by a push whose rules find a task id in its subject or exempt it.
THEOREM NoCommitWithoutTask ==
  ASSUME \A r \in Configs : /\ r.taskId /\ Heads \subseteq r.taskBranches
                            /\ r.users = {} /\ r.branches = {} /\ r.projects = {}
                            /\ ~r.webBypass
  PROVE  Spec => [](\A c : CameByBranch(c) => \E h \in Hooks :
                      /\ Brought(h, c)
                      /\ \/ Subject[c] \in rules[h].taskSubjects \union rules[h].exemptSubjects
                         \/ rules[h].exemptMerge /\ Parents[c] >= 2)
<1> DEFINE TaskGiven(c) == \E h \in Hooks :
             /\ Brought(h, c)
             /\ \/ Subject[c] \in rules[h].taskSubjects \union rules[h].exemptSubjects
                \/ rules[h].exemptMerge /\ Parents[c] >= 2
<1>1. ASSUME GuardInv, NEW c, CameByBranch(c)
      PROVE  TaskGiven(c)
  <2>1. PICK h \in Hooks : /\ Brought(h, c) /\ CommitOK(push[h], rules[h], c)
                           /\ rules[h] \in Configs
    BY <1>1, CheckedByAPush
  <2>2. NeedsTask(push[h], rules[h])
    BY <2>1 DEF NeedsTask, Lowered, Brought
  <2> QED
    BY <2>1, <2>2 DEF CommitOK, TaskOK
<1>2. GuardInv => \A c : CameByBranch(c) => TaskGiven(c)
  BY <1>1
<1> QED
  BY <1>2, Invariance, PTL
=============================================================================
