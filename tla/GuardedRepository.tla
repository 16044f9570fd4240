------------------------- MODULE GuardedRepository -------------------------
(***************************************************************************)
(* What the hooks promise of a repository: its refs change one push at a   *)
(* time, from the value the push was made for, each push lawful under the  *)
(* rules it was judged by; and every commit it makes reachable was there   *)
(* at the start or is answered for by it or by a push that landed before.  *)
(***************************************************************************)
EXTENDS PushPolicy

VARIABLES refs,   \* the repository's refs
          landed  \* the pushes that moved them, with the rules of each

vars == <<refs, landed>>

Init == refs = Refs0 /\ landed = {}

\* A deletion and a tag pass; no other push rewrites a branch or comes by a
\* protocol that is denied there.
Lawful(p, r) == \/ p.new = Zero \/ p.ref \in Tags
                \/ ~Rewrites(p, r) /\ ~Forbidden(p, r)

AnsweredBy(q, c) == c \in Reachable(q.push.new) /\ Vouches(q.push, q.rules, c)

Moves(ref, new) == new # refs[ref] /\ refs' = [refs EXCEPT ![ref] = new]

Accounts(p, r) ==
  /\ Lawful(p, r)
  /\ landed' = landed \union {[push |-> p, rules |-> r]}
  /\ \A c \in Reachable(p.new) \ Existing(Refs0) : \E q \in landed' : AnsweredBy(q, c)

Next ==
  \E ref \in Refs, new \in Commits \union {Zero} :
    /\ Moves(ref, new)
    /\ \E u \in Users, x \in Protocols, r \in Configs :
         Accounts([ref |-> ref, old |-> refs[ref], new |-> new,
                   user |-> u, protocol |-> x], r)

Spec == Init /\ [][Next]_vars
=============================================================================
