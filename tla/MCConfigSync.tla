---------------------------- MODULE MCConfigSync ----------------------------
(***************************************************************************)
(* Instances of ConfigSync for TLC: the daemon d, its callbacks k1 and k2, *)
(* a --once process o1, two valid configurations a and b, one invalid x.   *)
(***************************************************************************)
EXTENDS ConfigSync

CONSTANTS d, k1, k2, o1, a, b, x

InEveryMode(kinds) == [m \in AllModes |-> kinds]

\* What the daemon recovers from in each mode: a failing write is tried again
\* by polling only, and a meta write that fails after the cache was replaced by
\* neither.
Recoverable ==
  [m \in AllModes |-> {"get", "listen", "die", "power", "stop"} \union
                     (IF m # "watch" THEN {"lock", "cache"} ELSE {})]

AnyFault == InEveryMode({"get", "lock", "cache", "meta", "listen", "die", "stop"})
FailingWrite == InEveryMode({"cache"})
FailingMeta == InEveryMode({"meta"})
NoFault == InEveryMode({})
=============================================================================
