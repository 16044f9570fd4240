----------------------------- MODULE MCPushGate -----------------------------
(***************************************************************************)
(* Instances of PushGate for TLC: pushes P and Q of up to two refs, on the *)
(* history  base <- good,  base <- plain  of MCHookRules.                  *)
(***************************************************************************)
EXTENDS PushGate, TLC

CONSTANTS P, Q

Symmetry == Permutations({P, Q})

GateHooks == {P, Q} \X (1..2)
GateCommits == {"base", "good", "plain"}
GateReach == [c \in GateCommits |-> {"base", c}]
GateParents == [c \in GateCommits |-> IF c = "base" THEN 0 ELSE 1]
GateEmail == [c \in GateCommits |-> <<"alice", "corp">>]
GateSubject == [c \in GateCommits |-> IF c = "good" THEN "task" ELSE "none"]
GateHeads == {"master", "dev"}
GateTags == {}
GateRefs0 == [r \in GateHeads \union GateTags |-> IF r = "master" THEN "base" ELSE "0"]
GateProject == <<"group", "Legacy">>
GateNames == {"alice", "ssh", "Legacy"}
GateToLower == [n \in GateNames |-> n]

\* Every commit on every branch needs a task id; branches only move forward.
Tasks ==
  [nonFastForward |-> TRUE, denyDirectPush |-> FALSE, denyBranches |-> {},
   allowProtocols |-> {}, denyProtocols |-> {},
   webBypass |-> FALSE, webProtocols |-> {},
   committerMatch |-> TRUE, skipMerge |-> FALSE,
   taskId |-> TRUE, taskBranches |-> GateHeads, taskSubjects |-> {"task"},
   exemptMerge |-> FALSE, exemptSubjects |-> {},
   users |-> {}, branches |-> {}, projects |-> {}]

GateConfigs == {Tasks}
=============================================================================
