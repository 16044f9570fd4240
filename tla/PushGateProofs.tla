--------------------------- MODULE PushGateProofs ---------------------------
(***************************************************************************)
(* Proofs about PushGate, for any pushes of any numbers of refs.           *)
(***************************************************************************)
EXTENDS PushGate, HookRulesProofs

\* What PushGate's variables say of line i of the push p.
LineInv(p, i) ==
  LET h == <<p, i>> IN
  /\ pc[h] # "idle" => cmd[p] # None /\ i \in DOMAIN cmd[p].lines
  /\ pc[h] \notin {"idle", "refused"} => push[h] = Update(cmd[p], i)
  /\ pc[h] = "landed" => exit[p] = "ok"
  /\ pc[h] = "refused" => exit[p] # None
  /\ exit[p] = "ok" /\ i \in DOMAIN cmd[p].lines => Returned(p, i, "pass") \/ Finished(h)
  /\ cmd[p] # None /\ i \in DOMAIN cmd[p].lines =>
       cmd[p].lines[i][1] \in Held(cmd[p].lines[i][3])

GateInv == /\ Typed /\ GateTypeOK
           /\ \A p \in Pushes : exit[p] # None => cmd[p] # None
           /\ \A p \in Pushes, i \in 1..MaxLines : LineInv(p, i)

\* A line of a push is a hook of HookRules.
LEMMA LineIsHook ==
  ASSUME NEW p \in Pushes, NEW i \in 1..MaxLines
  PROVE  <<p, i>> \in Hooks
  BY PushGateAssumption

\* The fields of a line.
LEMMA LineType ==
  ASSUME NEW lines \in Seq(Lines), NEW i \in DOMAIN lines
  PROVE  /\ lines[i][1] \in Commits \union {Zero} /\ lines[i][2] \in Commits \union {Zero}
         /\ lines[i][3] \in Refs
<1>1. lines[i] \in Lines
  OBVIOUS
<1> QED
  BY <1>1 DEF Lines

LEMMA CommandLines ==
  ASSUME GateTypeOK, NEW p \in Pushes, cmd[p] # None
  PROVE  /\ cmd[p] \in Command /\ cmd[p].lines \in Seq(Lines)
         /\ DOMAIN cmd[p].lines \subseteq 1..MaxLines
         /\ ParseStdin(cmd[p].lines) = DOMAIN cmd[p].lines
<1>1. cmd[p] \in Command /\ Len(cmd[p].lines) \in 1..MaxLines
  BY DEF GateTypeOK
<1>2. cmd[p].lines \in Seq(Lines)
  BY <1>1 DEF Command
<1>3. DOMAIN cmd[p].lines \subseteq 1..MaxLines
  BY <1>1, <1>2, PushGateAssumption
<1> QED
  BY <1>1, <1>2, <1>3 DEF ParseStdin

\* The ref update of a line of a push.
LEMMA UpdateType ==
  ASSUME GateTypeOK, NEW p \in Pushes, cmd[p] # None, NEW i \in DOMAIN cmd[p].lines
  PROVE  Update(cmd[p], i) \in RefUpdate
<1>1. cmd[p].user \in Users /\ cmd[p].protocol \in Protocols
  BY CommandLines DEF Command
<1> QED
  BY <1>1, CommandLines, LineType DEF Update, RefUpdate

\* A value that a ref has had stays one.
LEMMA HeldGrows ==
  ASSUME Typed, [Next]_vars, NEW ref, NEW v \in Held(ref)
  PROVE  v \in Held(ref)'
<1>1. ASSUME NEW k \in Hooks, pc[k] = "landed"
      PROVE  pc'[k] = "landed" /\ push'[k] = push[k]
  <2>1. CASE UNCHANGED vars
    BY <1>1, <2>1 DEF vars, hook
  <2>2. ASSUME NEW h \in Hooks, Acts(h) PROVE pc'[k] = "landed" /\ push'[k] = push[k]
    <3>1. pc[h] # "landed"
      BY <2>2 DEF Acts, Receive, NextCommit, PassExempt, CheckForcePush,
         DenyDirectPush, WebBypass, ListNewCommits, AllChecked, SkipCommitter,
         MatchCommitter, CheckScope, ExemptMerge, CheckSubject, GitFail, Land,
         Refuse, RunsGit
    <3> QED
      BY <1>1, <2>2, <3>1, OthersAlone DEF Others, Kept
  <2> QED
    BY <2>1, <2>2, Cases
<1> QED
  BY <1>1 DEF Held

\* A line that git moves after the hook exited 0 lands as in HookRules.
LEMMA MoveIsLand ==
  ASSUME GateInv, NEW p \in Pushes, NEW i \in 1..MaxLines, Move(p, i)
  PROVE  Land(<<p, i>>)
<1>1. exit[p] = "ok" /\ i \in DOMAIN cmd[p].lines /\ ~Finished(<<p, i>>)
  BY DEF Move
<1>2. Returned(p, i, "pass")
  BY <1>1 DEF GateInv, LineInv
<1>3. push[<<p, i>>] = Update(cmd[p], i)
  BY <1>2 DEF GateInv, LineInv, Returned
<1> QED
  BY <1>2, <1>3 DEF Move, Land, Returned, Update

\* Every step of PushGate is one of HookRules or leaves its variables alone.
LEMMA StepSimulation ==
  ASSUME GateInv, [GateNext]_gateVars
  PROVE  [Next]_vars
<1> USE DEF GateInv
<1>1. ASSUME NEW p \in Pushes, NEW i \in 1..MaxLines, CheckLine(p, i) PROVE Next
  <2> DEFINE line == cmd[p].lines[i] c == cmd[p]
  <2>1. cmd[p] # None /\ i \in DOMAIN cmd[p].lines
    BY <1>1 DEF CheckLine, ParseStdin
  <2>2. /\ line[1] \in Held(line[3]) /\ line[2] \in Commits \union {Zero}
        /\ line[3] \in Refs
    BY <2>1, CommandLines, LineType DEF LineInv
  <2>3. c.user \in Users /\ c.protocol \in Protocols /\ c.rules \in Configs
    BY <2>1, CommandLines DEF Command
  <2>4. Receive(<<p, i>>, [ref |-> line[3], old |-> line[1], new |-> line[2],
                           user |-> c.user, protocol |-> c.protocol], c.rules)
    BY <1>1 DEF CheckLine, Update
  <2> HIDE DEF line, c
  <2> QED
    BY <2>2, <2>3, <2>4, LineIsHook DEF Next
<1>2. ASSUME NEW p \in Pushes, NEW i \in 1..MaxLines, Move(p, i) PROVE Next
  BY <1>2, MoveIsLand, LineIsHook DEF Next
<1>3. ASSUME NEW p \in Pushes, NEW i \in 1..MaxLines, Drop(p, i) PROVE Next
  BY <1>3, LineIsHook DEF Next, Drop
<1>4. ASSUME NEW h \in Hooks, CheckOn(h) PROVE Next
  BY <1>4 DEF Next, CheckOn
<1> QED
  BY <1>1, <1>2, <1>3, <1>4
  DEF GateNext, Start, ExitOK, ExitRefused, GateEnded, gateVars

\* A step that concerns one line keeps what is known of the others.
LEMMA OtherLines ==
  ASSUME GateInv, [Next]_vars, UNCHANGED gate, NEW p \in Pushes, NEW i \in 1..MaxLines,
         Others(<<p, i>>), NEW q \in Pushes, NEW j \in 1..MaxLines, <<q, j>> # <<p, i>>
  PROVE  LineInv(q, j)'
<1> DEFINE h == <<q, j>>
<1>1. pc'[h] = pc[h] /\ push'[h] = push[h] /\ verdict'[h] = verdict[h]
  BY LineIsHook DEF Others, Kept
<1>2. \A ref : \A v \in Held(ref) : v \in Held(ref)'
  BY HeldGrows DEF GateInv
<1> QED
  BY <1>1, <1>2 DEF GateInv, LineInv, gate, Returned, Finished, Update

\* Every step keeps the invariant.
LEMMA GateStep ==
  ASSUME GateInv, [GateNext]_gateVars
  PROVE  GateInv'
<1> USE DEF GateInv
<1>1. [Next]_vars
  BY StepSimulation
<1>2. Typed' /\ TypeOK'
  BY <1>1, Typing DEF Typed
<1>3. \A ref : \A v \in Held(ref) : v \in Held(ref)'
  BY <1>1, HeldGrows
<1>4. ASSUME UNCHANGED gate, NEW p \in Pushes, NEW i \in 1..MaxLines,
             Acts(<<p, i>>), LineInv(p, i)'
      PROVE  GateInv'
  <2>1. Others(<<p, i>>)
    BY <1>4, LineIsHook, OthersAlone
  <2>2. \A q \in Pushes, j \in 1..MaxLines : LineInv(q, j)'
    BY <1>1, <1>4, <2>1, OtherLines
  <2> QED
    BY <1>2, <1>4, <2>2 DEF GateTypeOK, gate
<1>5. ASSUME UNCHANGED vars PROVE \A ref : Held(ref)' = Held(ref)
  BY <1>5 DEF Held, vars, hook
<1>6. ASSUME NEW p \in Pushes, NEW n \in 1..MaxLines, NEW lines \in [1..n -> GitCommands],
             NEW u \in Users, NEW x \in Protocols, NEW r \in Configs,
             Start(p, lines, u, x, r)
      PROVE  GateInv'
  <2> DEFINE c == [lines |-> lines, user |-> u, protocol |-> x, rules |-> r]
  <2>1. GitCommands \subseteq Lines
    BY HeldType DEF GitCommands, Lines
  <2>2. n \in Nat /\ lines \in Seq(Lines) /\ Len(lines) = n /\ DOMAIN lines = 1..n
    BY <2>1, PushGateAssumption
  <2>3. c \in Command /\ c.lines = lines
    BY <2>2 DEF Command
  <2>4. cmd' = [cmd EXCEPT ![p] = c] /\ exit' = exit /\ UNCHANGED vars /\ cmd[p] = None
    BY <1>6 DEF Start
  <2> HIDE DEF c
  <2>5. GateTypeOK'
    BY <1>2, <2>2, <2>3, <2>4 DEF GateTypeOK
  <2>6. \A i \in 1..n : lines[i][1] \in Held(lines[i][3])
    BY DEF GitCommands
  <2>7. ASSUME NEW q \in Pushes, NEW i \in 1..MaxLines PROVE LineInv(q, i)'
    <3>1. CASE q = p
      <4>1. exit[p] = None /\ pc[<<p, i>>] = "idle"
        BY <2>4 DEF LineInv
      <4>2. cmd'[p] = c /\ exit'[p] = None /\ pc'[<<p, i>>] = "idle"
        BY <2>4, <4>1 DEF GateTypeOK, vars, hook
      <4> QED
        BY <1>5, <2>2, <2>3, <2>4, <2>6, <3>1, <4>2, PushGateAssumption DEF LineInv
    <3>2. CASE q # p
      BY <1>5, <2>4, <3>2 DEF LineInv, GateTypeOK, vars, hook, Returned, Finished, Update
    <3> QED
      BY <3>1, <3>2
  <2> QED
    BY <1>2, <2>4, <2>5, <2>7 DEF GateTypeOK
<1>7. ASSUME NEW p \in Pushes, ExitOK(p) \/ ExitRefused(p) PROVE GateInv'
  <2>1. /\ cmd[p] # None /\ exit[p] = None /\ UNCHANGED <<vars, cmd>>
        /\ \/ /\ exit' = [exit EXCEPT ![p] = "ok"]
              /\ \A i \in ParseStdin(cmd[p].lines) : Returned(p, i, "pass")
           \/ exit' = [exit EXCEPT ![p] = "refused"]
    BY <1>7 DEF ExitOK, ExitRefused
  <2>2. GateTypeOK'
    BY <1>2, <2>1, PushGateAssumption DEF GateTypeOK
  <2>3. ASSUME NEW q \in Pushes, NEW i \in 1..MaxLines PROVE LineInv(q, i)'
    <3>1. CASE q = p
      <4>1. pc[<<p, i>>] # "landed"
        BY <2>1, PushGateAssumption DEF LineInv
      <4>2. exit'[p] = "ok" => \A k \in DOMAIN cmd[p].lines : Returned(p, k, "pass")
        BY <2>1, CommandLines, PushGateAssumption DEF GateTypeOK
      <4>3. exit'[p] \in {"ok", "refused"}
        BY <2>1 DEF GateTypeOK
      <4> QED
        BY <1>5, <2>1, <3>1, <4>1, <4>2, <4>3, PushGateAssumption
        DEF LineInv, vars, hook, Returned, Finished, Update
    <3>2. CASE q # p
      BY <1>5, <2>1, <3>2 DEF LineInv, GateTypeOK, vars, hook, Returned, Finished, Update
    <3> QED
      BY <3>1, <3>2
  <2> QED
    BY <1>2, <2>1, <2>2, <2>3 DEF GateTypeOK
<1>8. ASSUME NEW p \in Pushes, NEW i \in 1..MaxLines, CheckLine(p, i) PROVE GateInv'
  <2>1. cmd[p] # None /\ exit[p] = None /\ i \in DOMAIN cmd[p].lines /\ UNCHANGED gate
    BY <1>8 DEF CheckLine, ParseStdin
  <2>2. cmd[p].rules \in Configs /\ Update(cmd[p], i) \in RefUpdate
    BY <2>1, CommandLines, UpdateType DEF Command
  <2>3. Acts(<<p, i>>)
    BY <1>8, <2>2 DEF CheckLine, Acts
  <2>4. pc'[<<p, i>>] = "start" /\ push'[<<p, i>>] = Update(cmd[p], i)
    BY <1>8, LineIsHook DEF CheckLine, Receive, Goto, TypeOK, Typed
  <2>5. LineInv(p, i)'
    BY <1>3, <2>1, <2>4, PushGateAssumption DEF LineInv, gate, Update, Finished
  <2> QED
    BY <1>4, <2>1, <2>3, <2>5
<1>9. ASSUME NEW p \in Pushes, NEW i \in 1..MaxLines, Move(p, i) PROVE GateInv'
  <2>1. Land(<<p, i>>) /\ UNCHANGED gate
    BY <1>9, MoveIsLand DEF Move
  <2>2. exit[p] = "ok" /\ i \in DOMAIN cmd[p].lines /\ cmd[p] # None
    BY <1>9, PushGateAssumption DEF Move
  <2>3. \/ pc'[<<p, i>>] = "landed" /\ push'[<<p, i>>] = push[<<p, i>>]
        \/ pc'[<<p, i>>] = "refused"
    BY <2>1, LineIsHook DEF Land, Refused, Typed, TypeOK
  <2>4. push[<<p, i>>] = Update(cmd[p], i)
    BY <2>1 DEF Land, LineInv
  <2>5. LineInv(p, i)'
    BY <1>3, <2>1, <2>2, <2>3, <2>4, PushGateAssumption
    DEF LineInv, gate, Update, Finished
  <2> QED
    BY <1>4, <2>1, <2>5 DEF Acts
<1>10. ASSUME NEW p \in Pushes, NEW i \in 1..MaxLines, Drop(p, i) PROVE GateInv'
  <2>1. exit[p] = "refused" /\ Refuse(<<p, i>>) /\ UNCHANGED gate
    BY <1>10 DEF Drop
  <2>2. pc[<<p, i>>] = "decided" /\ pc'[<<p, i>>] = "refused"
    BY <2>1, LineIsHook DEF Refuse, Refused, Typed, TypeOK
  <2>3. LineInv(p, i)'
    BY <1>3, <2>1, <2>2, PushGateAssumption DEF LineInv, gate, Finished
  <2> QED
    BY <1>4, <2>1, <2>3 DEF Acts
<1>11. ASSUME NEW h \in Hooks, CheckOn(h) PROVE GateInv'
  <2>1. PICK p \in Pushes, i \in 1..MaxLines : h = <<p, i>>
    BY PushGateAssumption
  <2>2. Acts(h) /\ UNCHANGED gate
    BY <1>11 DEF CheckOn, Check, Acts
  <2>3. pc[h] \in Checking /\ pc'[h] \in Checking \union {"decided"} /\ push'[h] = push[h]
    BY <1>11
    DEF CheckOn, Check, Typed, TypeOK, NextCommit, PassExempt, CheckForcePush,
        DenyDirectPush, WebBypass, ListNewCommits, AllChecked, SkipCommitter,
        MatchCommitter, CheckScope, ExemptMerge, CheckSubject, GitFail, RunsGit,
        Goto, Return, Checking
  <2>4. LineInv(p, i)'
    <3>1. LineInv(p, i) /\ pc[h] \notin {"idle", "refused", "landed", "decided"}
          /\ pc'[h] \notin {"idle", "refused", "landed"}
      BY <2>3 DEF Checking
    <3>2. exit[p] # "ok"
      BY <2>1, <3>1 DEF LineInv, Returned, Finished
    <3> QED
      BY <1>3, <2>1, <2>2, <2>3, <3>1, <3>2 DEF LineInv, gate, Update
  <2> QED
    BY <1>4, <2>1, <2>2, <2>4
<1>12. CASE UNCHANGED gateVars
  BY <1>2, <1>5, <1>12
  DEF GateTypeOK, LineInv, gateVars, gate, vars, hook, Returned, Finished, Update
<1> QED
  BY <1>6, <1>7, <1>8, <1>9, <1>10, <1>11, <1>12 DEF GateNext, GateEnded

LEMMA GateStart == GateInit => GateInv
<1> SUFFICES ASSUME GateInit PROVE GateInv
  OBVIOUS
<1>1. Typed
  BY HookRulesAssumption
  DEF GateInit, Init, Typed, TypeOK, Started, Moves, HasCommit, Checking
<1>2. \A h \in Hooks : pc[h] = "idle"
  BY DEF GateInit, Init
<1>3. \A p \in Pushes : cmd[p] = None /\ exit[p] = None
  BY DEF GateInit
<1>4. GateTypeOK
  BY <1>1, <1>3 DEF GateTypeOK, Typed, GateInit
<1> QED
  BY <1>1, <1>2, <1>3, <1>4, LineIsHook, PushGateAssumption DEF GateInv, LineInv

LEMMA Gating == GateSpec => []GateInv
  BY GateStart, GateStep, PTL DEF GateSpec

\* GateTypeOK: the types, whatever is pushed together.
THEOREM GateTypeCorrect == GateSpec => []GateTypeOK
<1>1. GateInv => GateTypeOK
  BY DEF GateInv
<1> QED
  BY <1>1, Gating, PTL

\* ImplementsHookRules: a push of several refs is judged and applied, ref by
\* ref, as single pushes are.
THEOREM PushesImplementHookRules == GateSpec => ImplementsHookRules
<1>1. GateInit => Init
  BY DEF GateInit
<1> QED
  BY <1>1, Gating, StepSimulation, PTL DEF GateSpec, ImplementsHookRules, Spec

\* AllOrNothing: no ref moves unless CheckRef has let all refs of its push pass.
THEOREM RefusedPushMovesNothing == GateSpec => []AllOrNothing
<1>1. GateInv => AllOrNothing
  <2> SUFFICES ASSUME GateInv, NEW p \in Pushes, NEW k \in 1..MaxLines,
                      pc[<<p, k>>] = "landed", NEW i \in DOMAIN cmd[p].lines
               PROVE  Returned(p, i, "pass") \/ Finished(<<p, i>>)
    BY DEF AllOrNothing
  <2>1. exit[p] = "ok" /\ cmd[p] # None
    BY DEF GateInv, LineInv
  <2>2. i \in 1..MaxLines
    BY <2>1, CommandLines DEF GateInv
  <2> QED
    BY <2>1, <2>2 DEF GateInv, LineInv
<1> QED
  BY <1>1, Gating, PTL

\* What is proved of HookRules holds of pushes of several refs: each verdict is
\* due, no branch is rewritten, every commit is answered for, and the repository
\* changes one lawful ref update at a time.
COROLLARY PushesAreGuarded ==
  GateSpec => []Guarded /\ []VerdictIsDue /\ NoRewrite /\ ImplementsRepository
  BY PushesImplementHookRules, CommitsAreChecked, VerdictFollowsTheRules,
     HistoryIsKept, HooksGuardTheRepository DEF ImplementsHookRules
=============================================================================
