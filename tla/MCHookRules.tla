---------------------------- MODULE MCHookRules ----------------------------
(***************************************************************************)
(* Instances of HookRules for TLC.  The history:                           *)
(*     base <- good <---- merge        good: by Alice, with a task id      *)
(*     base <- plain <- alien <- merge plain: by Alice, without            *)
(*     other                           alien: by bob, with a task id       *)
(* merge is by bob and has no task id; other is an unrelated root by Alice *)
(* with a subject that an exemption may match.                             *)
(***************************************************************************)
EXTENDS HookRules, TLC

CONSTANTS h1, h2

Symmetry == Permutations({h1, h2})

MCCommits == {"base", "good", "plain", "alien", "merge", "other"}
MCReach == [c \in MCCommits |->
  CASE c = "good"  -> {"base", "good"}
    [] c = "plain" -> {"base", "plain"}
    [] c = "alien" -> {"base", "plain", "alien"}
    [] c = "merge" -> MCCommits \ {"other"}
    [] OTHER -> {c}]
MCParents == [c \in MCCommits |->
  CASE c \in {"base", "other"} -> 0 [] c = "merge" -> 2 [] OTHER -> 1]
MCEmail == [c \in MCCommits |->
  IF c \in {"alien", "merge"} THEN <<"bob", "corp">> ELSE <<"alice", "corp">>]
MCSubject == [c \in MCCommits |->
  CASE c \in {"good", "alien"} -> "task" [] c = "other" -> "auto" [] OTHER -> "none"]

MCSubjects == {"task", "auto", "none"}

MCHeads == {"master", "dev"}
MCTags == {"v1"}
MCRefs0 == [r \in MCHeads \union MCTags |-> IF r = "master" THEN "base" ELSE "0"]
MCUsers == {"Alice"}
MCProtocols == {"ssh", "web"}
MCProject == <<"group", "Legacy">>

MCNames == {"Alice", "alice", "bob", "ssh", "SSH", "web", "Web", "Legacy", "legacy"}
MCToLower == [n \in MCNames |->
  CASE n = "Alice" -> "alice" [] n = "SSH" -> "ssh" [] n = "Web" -> "web"
    [] n = "Legacy" -> "legacy" [] OTHER -> n]

\* The built-in configuration's rules (DefaultConfig), on these names.
Default ==
  [nonFastForward |-> TRUE, denyDirectPush |-> TRUE, denyBranches |-> {"master"},
   allowProtocols |-> {"Web"}, denyProtocols |-> {"SSH"},
   webBypass |-> TRUE, webProtocols |-> {"Web"},
   committerMatch |-> TRUE, skipMerge |-> TRUE,
   taskId |-> TRUE, taskBranches |-> {"dev"}, taskSubjects |-> {"task"},
   exemptMerge |-> TRUE, exemptSubjects |-> {},
   users |-> {}, branches |-> {}, projects |-> {}]

\* The rules on commits apply to every branch, merges included.
Strict == [Default EXCEPT !.webBypass = FALSE, !.skipMerge = FALSE,
                          !.exemptMerge = FALSE, !.denyDirectPush = FALSE,
                          !.taskBranches = MCHeads, !.exemptSubjects = {"auto"}]
\* The committer rule and a whitelisted user; rewrites are allowed.
Listed == [Strict EXCEPT !.nonFastForward = FALSE, !.users = {"alice"}]
\* A protected branch with a list of allowed protocols only.
AllowOnly == [Default EXCEPT !.denyProtocols = {}]

MCConfigs == {Default, Strict, Listed}
AllowOnlyConfigs == {AllowOnly}
=============================================================================
