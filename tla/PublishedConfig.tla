-------------------------- MODULE PublishedConfig --------------------------
(***************************************************************************)
(* What the local configuration cache promises to the code around it: two  *)
(* recoverable registers, the cache file and the meta file that describes  *)
(* it.  A file changes in one step to a complete, validated configuration; *)
(* the meta file only ever comes to describe the configuration that is in  *)
(* the cache; a reader sees one published value; and a power loss may undo *)
(* a replacement that has not reached the disk, never half of one.         *)
(***************************************************************************)
CONSTANTS Readers,  \* readers of the cache file: the pre-receive hooks
          Valid,    \* the configurations that pass validation
          None      \* no file, or none open

Dsts == {"cache", "meta"}

VARIABLES cur,      \* what each file holds now
          durable,  \* what each file is sure to hold after a power loss
          view      \* what each reader has open

vars == <<cur, durable, view>>

Init == /\ cur = [d \in Dsts |-> None]
        /\ durable = [d \in Dsts |-> None]
        /\ view = [r \in Readers |-> None]

PublishCache(c) == /\ cur' = [cur EXCEPT !["cache"] = c]
                   /\ UNCHANGED <<durable, view>>

PublishMeta == /\ cur' = [cur EXCEPT !["meta"] = cur["cache"]]
               /\ UNCHANGED <<durable, view>>

Persist(d) == /\ durable' = [durable EXCEPT ![d] = cur[d]]
              /\ UNCHANGED <<cur, view>>

Snapshot(r) == /\ view' = [view EXCEPT ![r] = cur["cache"]]
               /\ UNCHANGED <<cur, durable>>

Release(r) == /\ view' = [view EXCEPT ![r] = None]
              /\ UNCHANGED <<cur, durable>>

Crash(lost) == /\ cur' = [d \in Dsts |-> IF d \in lost THEN durable[d]
                                                       ELSE cur[d]]
               /\ durable' = cur'
               /\ view' = [r \in Readers |-> None]

Next == \/ \E c \in Valid : PublishCache(c)
        \/ PublishMeta
        \/ \E d \in Dsts : Persist(d)
        \/ \E r \in Readers : Snapshot(r) \/ Release(r)
        \/ \E lost \in SUBSET Dsts : Crash(lost)

Spec == Init /\ [][Next]_vars
=============================================================================
