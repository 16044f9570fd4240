------------------------------ MODULE MCCache ------------------------------
(***************************************************************************)
(* Instances of Cache for TLC: the sync daemon p1, whose two goroutines    *)
(* share a pid, and a --once process p2.                                   *)
(***************************************************************************)
EXTENDS Cache, TLC

CONSTANTS t1, t2, t3, p1, p2, r1, a, b, x

\* Contents, and goroutines of one process, are interchangeable.
Symmetry == Permutations({a, b}) \union Permutations({t1, t2})
MCProcOf == [t \in Threads |-> IF t = t3 THEN p2 ELSE p1]
=============================================================================
