-------------------------- MODULE ConfigSyncProofs --------------------------
(***************************************************************************)
(* Proofs about ConfigSync, for any number of callbacks and --once         *)
(* processes, any contents, any faults and any bounds.                     *)
(***************************************************************************)
EXTENDS ConfigSync, TLAPS

\* The goroutine inside the locked part of AtomicWrite is the lock's holder;
\* whoever is inside AtomicWrite has a valid argument, and between the two files
\* that is what the cache holds.
LockInv == \A t \in Threads :
  /\ pc[t] \in {"cache", "meta"} <=> lock = t
  /\ pc[t] \in InApply => arg[t] \in Valid
  /\ pc[t] = "meta" => cur["cache"] = arg[t]

Typed == TypeOK /\ LockInv

\* The daemon is one of the goroutines.
LEMMA DaemonIsAThread == Daemon \in Threads
  BY DEF Threads

\* Where a goroutine goes is one of its places.
LEMMA AfterType == \A t \in Threads : After(t) \in {"down", "listen", "select"}
  BY DEF After

\* After applyConfig, or instead of it, a goroutine has left AtomicWrite.
LEMMA FinishTyped ==
  ASSUME TypeOK, NEW t \in Threads, NEW ok \in BOOLEAN, Finish(t, ok)
  PROVE  /\ pc' \in [Threads -> InApply \union {"down", "get", "listen",
                                                "watch", "select"}]
         /\ arg' \in [Threads -> Valid \union {None}]
         /\ mode' \in AllModes /\ stopping' \in BOOLEAN
         /\ lastMD5' \in Valid \union {None} /\ server' \in Contents
         /\ pc'[t] \notin InApply
         /\ \A u \in Threads : u # t => pc'[u] = pc[u] /\ arg'[u] = arg[u]
<1>1. After(t) \in {"down", "listen", "select"}
  BY AfterType
<1>2. After(t) \notin InApply
  BY <1>1 DEF InApply
<1> QED
  BY <1>1, <1>2 DEF TypeOK, Finish, NextMode, AllModes

\* A process that ends leaves its variables typed; the files change only when
\* all of them end.
LEMMA DownTyped ==
  ASSUME Typed, NEW T \in SUBSET Threads, Down(T), cur' = cur \/ T = Threads
  PROVE  /\ pc' \in [Threads -> InApply \union {"down", "get", "listen",
                                                "watch", "select"}]
         /\ arg' \in [Threads -> Valid \union {None}]
         /\ mode' \in AllModes /\ stopping' \in BOOLEAN
         /\ known' \in Contents \union {None}
         /\ lastMD5' \in Valid \union {None} /\ server' \in Contents
         /\ lock' \in Threads \union {None}
         /\ LockInv'
<1>1. /\ pc' \in [Threads -> InApply \union {"down", "get", "listen",
                                               "watch", "select"}]
      /\ arg' \in [Threads -> Valid \union {None}]
      /\ server' \in Contents /\ lock' \in Threads \union {None}
  BY DEF Typed, TypeOK, Down
<1>2. /\ mode' \in AllModes /\ stopping' \in BOOLEAN
      /\ known' \in Contents \union {None} /\ lastMD5' \in Valid \union {None}
  <2>1. CASE Daemon \in T
    BY <2>1, ConfigSyncAssumption DEF Down, AllModes
  <2>2. CASE Daemon \notin T
    BY <2>2 DEF Typed, TypeOK, Down, daemon
  <2> QED
    BY <2>1, <2>2
<1>3. LockInv'
  BY ConfigSyncAssumption DEF Typed, TypeOK, LockInv, Down, InApply
<1> QED
  BY <1>1, <1>2, <1>3

\* A fault is counted.
LEMMA FaultTyped ==
  ASSUME TypeOK, NEW kind, Fault(kind)
  PROVE  /\ faults' \in 0..MaxFaults /\ published' \in 0..MaxPublish
         /\ onces' \in 0..MaxOnce
         /\ faults' # 0
  BY ConfigSyncAssumption DEF TypeOK, Fault

\* Every step keeps the types and the lock invariant.
LEMMA TypedStep ==
  ASSUME Typed, [Next]_vars
  PROVE  Typed'
<1> USE DEF Typed
<1>1. ASSUME NEW c \in Contents, Publish(c) PROVE Typed'
  BY <1>1, ConfigSyncAssumption DEF TypeOK, LockInv, Publish, files, daemon
<1>2. CASE StartDaemon
  BY <1>2, DaemonIsAThread DEF TypeOK, LockInv, StartDaemon, Goto, InApply,
     files, daemon, env
<1>3. ASSUME NEW o \in Onces, StartOnce(o) PROVE Typed'
  <2>1. o \in Threads
    BY DEF Threads
  <2> QED
    BY <1>3, <2>1, ConfigSyncAssumption DEF TypeOK, LockInv, StartOnce, Goto,
       InApply, files, daemon
<1>4. CASE Listen
  BY <1>4, DaemonIsAThread DEF TypeOK, LockInv, Listen, Goto, InApply, files,
     daemon, env
<1>5. CASE ListenFail
  BY <1>5, DaemonIsAThread, FaultTyped DEF TypeOK, LockInv, ListenFail, Goto,
     InApply, files, AllModes
<1>6. CASE Tick
  BY <1>6, DaemonIsAThread DEF TypeOK, LockInv, Tick, Goto, InApply, files,
     daemon, env
<1>7. CASE Stop
  BY <1>7, FaultTyped DEF TypeOK, LockInv, Stop, files
<1>8. CASE Exit
  <2>1. DaemonThreads \in SUBSET Threads
    BY DEF DaemonThreads, Threads
  <2> QED
    BY <1>8, <2>1, DownTyped DEF TypeOK, Exit, files, env
<1>9. ASSUME NEW T \in SUBSET Threads, Die(T) PROVE Typed'
  BY <1>9, DownTyped, FaultTyped DEF TypeOK, Die, files
<1>10. ASSUME NEW lost \in SUBSET File!Dsts, PowerLoss(lost) PROVE Typed'
  <2>1. cur' \in [File!Dsts -> Valid \union {None}] /\ durable' = cur'
    BY <1>10 DEF TypeOK, PowerLoss, File!Crash
  <2> QED
    BY <1>10, <2>1, DownTyped, FaultTyped DEF TypeOK, PowerLoss
<1>11. ASSUME NEW d \in File!Dsts, Flush(d) PROVE Typed'
  BY <1>11 DEF TypeOK, LockInv, Flush, File!Persist, daemon, env
<1>12. ASSUME NEW t \in Threads, Get(t) PROVE Typed'
  <2>1. known' \in Contents \union {None}
    BY <1>12 DEF Get, TypeOK
  <2>2. UNCHANGED <<cur, durable, lock, faults, published, onces>>
    BY <1>12 DEF Get, files, env
  <2>3. CASE Skipped(t)
    BY <1>12, <2>1, <2>2, <2>3 DEF Get, Skipped, TypeOK, LockInv, InApply
  <2>4. CASE Finish(t, FALSE)
    <3>1. LockInv'
      BY <1>12, <2>2, <2>4, FinishTyped DEF Get, LockInv, TypeOK, InApply
    <3> QED
      BY <2>1, <2>2, <2>4, <3>1, FinishTyped DEF TypeOK
  <2>5. CASE server \in Valid /\ Fetched(t)
    BY <1>12, <2>1, <2>2, <2>5 DEF Get, Fetched, TypeOK, LockInv, InApply
  <2> QED
    BY <1>12, <2>3, <2>4, <2>5 DEF Get
<1>13. ASSUME NEW t \in Threads, GetFail(t) \/ LockFail(t) PROVE Typed'
  <2>1. /\ Finish(t, FALSE) /\ pc[t] \in {"get", "lock"}
        /\ UNCHANGED <<cur, durable, lock, known>>
    BY <1>13 DEF GetFail, LockFail, files
  <2>2. LockInv'
    BY <2>1, FinishTyped DEF LockInv, TypeOK, InApply
  <2> QED
    BY <1>13, <2>1, <2>2, FinishTyped, FaultTyped DEF GetFail, LockFail, TypeOK
<1>14. ASSUME NEW t \in Threads, WriteFail(t) PROVE Typed'
  <2>1. LockInv'
    BY <1>14, FinishTyped, ConfigSyncAssumption
    DEF WriteFail, LockInv, TypeOK, InApply, files
  <2> QED
    BY <1>14, <2>1, FinishTyped, FaultTyped DEF WriteFail, TypeOK, files
<1>15. ASSUME NEW t \in Threads, Acquire(t) PROVE Typed'
  BY <1>15, ConfigSyncAssumption DEF Acquire, Goto, TypeOK, LockInv, InApply,
     files, daemon, env
<1>16. ASSUME NEW t \in Threads, PutCache(t) PROVE Typed'
  <2>1. cur' \in [File!Dsts -> Valid \union {None}] /\ durable' = durable
    BY <1>16 DEF PutCache, Goto, File!PublishCache, TypeOK, LockInv, InApply
  <2>2. cur'["cache"] = arg[t] /\ lock = t
    BY <1>16 DEF PutCache, Goto, File!PublishCache, File!Dsts, TypeOK, LockInv
  <2>3. LockInv'
    BY <1>16, <2>2, ConfigSyncAssumption DEF PutCache, Goto, TypeOK, LockInv, InApply
  <2> QED
    BY <1>16, <2>1, <2>3 DEF PutCache, Goto, TypeOK, InApply, daemon, env
<1>17. ASSUME NEW t \in Threads, PutMeta(t) PROVE Typed'
  <2>1. /\ cur' \in [File!Dsts -> Valid \union {None}] /\ durable' = durable
        /\ cur'["cache"] = cur["cache"]
    BY <1>17 DEF PutMeta, File!Dsts, TypeOK
  <2>2. LockInv'
    <3>1. /\ lock = t /\ lock' = None /\ None \notin Threads
          /\ pc'[t] \notin InApply
          /\ \A u \in Threads : u # t => pc'[u] = pc[u] /\ arg'[u] = arg[u]
      BY <1>17, FinishTyped, ConfigSyncAssumption DEF PutMeta, LockInv
    <3> QED
      BY <2>1, <3>1 DEF LockInv, InApply
  <2> QED
    BY <1>17, <2>1, <2>2, FinishTyped DEF PutMeta, TypeOK, env
<1>18. ASSUME NEW k \in Callbacks, Notify(k) PROVE Typed'
  <2>1. k \in Threads
    BY DEF Threads
  <2> QED
    BY <1>18, <2>1, ConfigSyncAssumption DEF Notify, TypeOK, LockInv, InApply,
       files, env
<1>19. CASE UNCHANGED vars
  BY <1>19 DEF vars, files, daemon, env, TypeOK, LockInv
<1>20. DaemonThreads \in SUBSET Threads /\ \A o \in Onces : {o} \in SUBSET Threads
  BY DEF DaemonThreads, Threads
<1> QED
  BY <1>1, <1>2, <1>3, <1>4, <1>5, <1>6, <1>7, <1>8, <1>9, <1>10, <1>11,
     <1>12, <1>13, <1>14, <1>15, <1>16, <1>17, <1>18, <1>19, <1>20
  DEF Next, Step

\* The types and the lock invariant hold in every behaviour.
LEMMA Typing == Spec => []Typed
<1>1. Init => Typed
  <2> SUFFICES ASSUME Init PROVE Typed
    OBVIOUS
  <2>1. /\ cur \in [File!Dsts -> Valid \union {None}]
        /\ durable \in [File!Dsts -> Valid \union {None}]
    BY DEF Init, File!Init
  <2>3. faults \in 0..MaxFaults /\ published \in 0..MaxPublish /\ onces \in 0..MaxOnce
    BY ConfigSyncAssumption DEF Init
  <2>5. mode \in AllModes
    BY ConfigSyncAssumption DEF Init, AllModes
  <2>4. TypeOK
    BY <2>1, <2>3, <2>5 DEF Init, TypeOK, InApply
  <2>2. LockInv
    BY ConfigSyncAssumption DEF Init, LockInv, InApply
  <2> QED
    BY <2>2, <2>4 DEF Typed
<1> QED
  BY <1>1, TypedStep, PTL DEF Spec

\* ConfigSync keeps its types; in particular the cache and the meta file hold
\* validated configurations only, whatever fails and whoever races.
THEOREM TypeCorrect == Spec => []TypeOK
  BY Typing, PTL DEF Typed

-----------------------------------------------------------------------------
(***************************************************************************)
(* The meta file.                                                          *)
(***************************************************************************)

\* Without faults the two files differ only while a lock holder is between
\* them.
MetaInv == faults = 0 =>
  /\ ~stopping
  /\ cur["meta"] = cur["cache"] \/ \E t \in Threads : pc[t] = "meta"

\* Every step without a fault keeps the meta file in step with the cache.
LEMMA MetaStep ==
  ASSUME Typed, Typed', MetaInv, [Next]_vars
  PROVE  MetaInv'
<1> USE DEF Typed
<1>1. SUFFICES ASSUME faults' = 0
               PROVE  MetaInv'
  BY DEF MetaInv
<1>2. ASSUME NEW kind, Fault(kind) PROVE FALSE
  BY <1>1, <1>2, FaultTyped
<1>3. ASSUME UNCHANGED <<cur, faults>>, stopping' => stopping,
             \A t \in Threads : pc[t] = "meta" => pc'[t] = "meta"
      PROVE  MetaInv'
  BY <1>3 DEF MetaInv, TypeOK
<1>4. ASSUME NEW c \in Contents, Publish(c) PROVE MetaInv'
  BY <1>4, <1>3 DEF Publish, files, daemon
<1>5. CASE StartDaemon \/ Listen \/ Tick
  BY <1>5, <1>3, DaemonIsAThread
  DEF StartDaemon, Listen, Tick, Goto, TypeOK, files, daemon, env
<1>6. ASSUME NEW o \in Onces, StartOnce(o) PROVE MetaInv'
  <2>1. o \in Threads
    BY DEF Threads
  <2> QED
    BY <1>6, <1>3, <2>1 DEF StartOnce, Goto, TypeOK, files, daemon
<1>7. CASE Exit
  BY <1>1, <1>7 DEF Exit, env, MetaInv
<1>8. ASSUME NEW t \in Threads, Get(t) PROVE MetaInv'
  <2>1. UNCHANGED <<cur, faults, stopping>>
    BY <1>8 DEF Get, Skipped, Finish, Fetched, files, env
  <2>2. \A u \in Threads : pc[u] = "meta" => pc'[u] = "meta"
    BY <1>8, FinishTyped DEF Get, Skipped, Fetched, TypeOK
  <2> QED
    BY <2>1, <2>2, <1>3
<1>9. ASSUME NEW t \in Threads, Acquire(t) PROVE MetaInv'
  BY <1>9, <1>3 DEF Acquire, Goto, TypeOK, files, daemon, env
<1>10. ASSUME NEW t \in Threads, PutCache(t) PROVE MetaInv'
  BY <1>10 DEF PutCache, Goto, TypeOK, MetaInv, daemon, env
<1>11. ASSUME NEW t \in Threads, PutMeta(t) PROVE MetaInv'
  <2>1. cur'["meta"] = cur'["cache"]
    BY <1>11 DEF PutMeta, File!Dsts, TypeOK, LockInv
  <2> QED
    BY <1>11, <2>1 DEF PutMeta, Finish, MetaInv, env
<1>12. ASSUME NEW k \in Callbacks, Notify(k) PROVE MetaInv'
  <2>1. k \in Threads
    BY DEF Threads
  <2> QED
    BY <1>12, <1>3, <2>1 DEF Notify, TypeOK, files, env
<1>13. ASSUME NEW d \in File!Dsts, Flush(d) PROVE MetaInv'
  BY <1>13, <1>3 DEF Flush, File!Persist, daemon, env
<1>14. CASE UNCHANGED vars
  BY <1>14, <1>3 DEF vars, files, daemon, env
<1> QED
  BY <1>2, <1>4, <1>5, <1>6, <1>7, <1>8, <1>9, <1>10, <1>11, <1>12, <1>13, <1>14
  DEF Next, Step, ListenFail, Stop, Die, GetFail, LockFail, WriteFail, PowerLoss

\* Until something fails, whoever takes the lock finds a meta file that
\* describes the cache, for any number of callbacks and --once processes.
THEOREM MetaFileDescribesTheCache == Spec => []MetaDescribesCache
<1>1. Init => MetaInv
  BY DEF Init, MetaInv, File!Init, File!Dsts
<1>2. Typed /\ MetaInv => MetaDescribesCache
  BY ConfigSyncAssumption DEF Typed, LockInv, MetaInv, MetaDescribesCache
<1> QED
  BY <1>1, <1>2, MetaStep, Typing, PTL DEF Spec

-----------------------------------------------------------------------------
(***************************************************************************)
(* runPoll's memory.                                                       *)
(***************************************************************************)

\* The daemon's process alone writes the cache, and no meta write fails while it
\* polls.
Alone == Onces = {} /\ "meta" \notin Faults["polling"]

\* lastMD5 is set by runPoll only; a callback runs only while Watch listens, and
\* then nobody polls; the daemon never applies what it remembers, and the meta
\* file describes it until the next one is written.
PollInv ==
  /\ lastMD5 # None => mode = "polling"
  /\ pc[Daemon] \in {"listen", "watch"} => mode = "watch"
  /\ \A k \in Callbacks : pc[k] # "down" => pc[Daemon] = "watch"
  /\ lastMD5 # None => cur["meta"] = lastMD5
  /\ lastMD5 # None /\ pc[Daemon] \in InApply => arg[Daemon] # lastMD5
  /\ RemembersCache

\* Every step of a daemon's process that writes alone keeps what it remembers
\* true.
LEMMA PollStep ==
  ASSUME Alone, Typed, PollInv, [Next]_vars
  PROVE  PollInv'
<1> USE DaemonIsAThread DEF Typed
<1>0. Threads = DaemonThreads /\ Daemon \notin Callbacks /\ Callbacks \subseteq Threads
  BY ConfigSyncAssumption DEF Alone, Threads, DaemonThreads
<1>a. ASSUME lastMD5 = None, lastMD5' = None,
             pc'[Daemon] \in {"listen", "watch"} => mode' = "watch",
             \A k \in Callbacks : pc'[k] # "down" => pc'[Daemon] = "watch",
             pc'[Daemon] # "meta"
      PROVE  PollInv'
  BY <1>a DEF PollInv, RemembersCache
<1>1. ASSUME UNCHANGED <<cur, lastMD5, mode, arg>>, pc[Daemon] # "meta",
             pc'[Daemon] \notin {"meta", "listen"},
             pc'[Daemon] = "watch" => pc[Daemon] = "listen",
             pc'[Daemon] \in InApply => pc[Daemon] \in InApply,
             \A k \in Callbacks : pc'[k] = pc[k], pc[Daemon] # "watch"
      PROVE  PollInv'
  BY <1>1 DEF PollInv, RemembersCache
<1>2. ASSUME Down(DaemonThreads) PROVE PollInv'
  <2>1. \A t \in Threads : pc'[t] = "down"
    BY <1>0, <1>2 DEF Down
  <2>2. lastMD5' = None
    BY <1>2 DEF Down, DaemonThreads
  <2> QED
    BY <1>0, <2>1, <2>2 DEF PollInv, RemembersCache, InApply
<1>3. ASSUME UNCHANGED <<cur, lastMD5, mode, arg, pc>> PROVE PollInv'
  BY <1>3 DEF PollInv, RemembersCache
<1>k. ASSUME NEW k \in Callbacks, pc[k] # "down", lastMD5' = lastMD5, mode' = mode,
             pc'[Daemon] = pc[Daemon],
             \A j \in Callbacks : j # k => pc'[j] = pc[j]
      PROVE  PollInv'
  <2>1. pc[Daemon] = "watch" /\ mode = "watch" /\ lastMD5 = None
    BY <1>k DEF PollInv
  <2> QED
    BY <1>a, <1>k, <2>1 DEF PollInv
<1>4. ASSUME Finish(Daemon, FALSE), UNCHANGED cur, pc[Daemon] \notin {"meta", "watch"}
      PROVE  PollInv'
  <2>1. /\ pc'[Daemon] = After(Daemon) /\ lastMD5' = lastMD5
        /\ mode' = NextMode(Daemon) /\ \A k \in Callbacks : pc'[k] = pc[k]
    BY <1>0, <1>4 DEF Finish, TypeOK
  <2>2. /\ After(Daemon) \in {"listen", "select"}
        /\ mode = "polling" => NextMode(Daemon) = "polling"
        /\ After(Daemon) = "listen" => mode = "watch" /\ NextMode(Daemon) = "watch"
    BY DEF After, NextMode
  <2> QED
    BY <1>4, <2>1, <2>2 DEF PollInv, RemembersCache, InApply
<1>c. ASSUME NEW k \in Callbacks, NEW ok \in BOOLEAN, Finish(k, ok), pc[k] # "down"
      PROVE  PollInv'
  <2>1. lastMD5' = lastMD5 /\ mode' = mode
    BY <1>0, <1>c DEF Finish, NextMode
  <2>2. pc'[Daemon] = pc[Daemon] /\ \A j \in Callbacks : j # k => pc'[j] = pc[j]
    BY <1>0, <1>c DEF Finish, TypeOK
  <2> QED
    BY <1>c, <1>k, <2>1, <2>2
<1>5. CASE \E c \in Contents : Publish(c)
  BY <1>5, <1>3 DEF Publish, files, daemon
<1>6. CASE StartDaemon \/ Tick
  BY <1>0, <1>6, <1>1 DEF StartDaemon, Tick, Goto, TypeOK, files, daemon, InApply
<1>7. CASE Listen
  BY <1>0, <1>7 DEF Listen, Goto, TypeOK, files, daemon, PollInv, RemembersCache,
     InApply
<1>8. CASE ListenFail
  BY <1>0, <1>8 DEF ListenFail, Goto, TypeOK, files, PollInv, RemembersCache, InApply
<1>9. CASE Stop
  BY <1>9, <1>3 DEF Stop, files
<1>10. CASE Exit \/ Die(DaemonThreads) \/ \E lost \in SUBSET File!Dsts : PowerLoss(lost)
  BY <1>10, <1>0, <1>2 DEF Exit, Die, PowerLoss
<1>11. CASE Get(Daemon)
  <2>1. CASE Same(Daemon) /\ Skipped(Daemon)
    BY <1>0, <1>11, <2>1, <1>1 DEF Get, Skipped, TypeOK, files, InApply
  <2>2. CASE Finish(Daemon, FALSE)
    BY <1>11, <2>2, <1>4 DEF Get, files
  <2>3. CASE ~Same(Daemon) /\ Fetched(Daemon)
    BY <1>0, <1>11, <2>3
    DEF Get, Fetched, Same, TypeOK, files, PollInv, RemembersCache, InApply
  <2> QED
    BY <1>11, <2>1, <2>2, <2>3 DEF Get
<1>12. CASE GetFail(Daemon) \/ LockFail(Daemon)
  BY <1>12, <1>4 DEF GetFail, LockFail, files
<1>13. CASE WriteFail(Daemon)
  <2>1. CASE pc[Daemon] = "meta"
    <3>1. mode # "polling" /\ lastMD5 = None
      BY <1>13, <2>1 DEF WriteFail, Fault, Alone, PollInv
    <3>2. /\ lastMD5' = None /\ pc'[Daemon] = After(Daemon)
          /\ mode' = NextMode(Daemon) /\ \A k \in Callbacks : pc'[k] = pc[k]
      BY <1>0, <1>13, <3>1 DEF WriteFail, Finish, TypeOK
    <3>3. /\ After(Daemon) \in {"listen", "watch"} => NextMode(Daemon) = "watch"
          /\ After(Daemon) # "meta"
      BY DEF After, NextMode
    <3> QED
      BY <1>a, <2>1, <3>1, <3>2, <3>3 DEF PollInv
  <2>2. CASE pc[Daemon] = "cache"
    BY <1>13, <2>2, <1>4 DEF WriteFail, files
  <2> QED
    BY <1>13, <2>1, <2>2 DEF WriteFail
<1>14. CASE Acquire(Daemon)
  BY <1>0, <1>14, <1>1 DEF Acquire, Goto, TypeOK, files, daemon, InApply
<1>15. CASE PutCache(Daemon)
  BY <1>0, <1>15 DEF PutCache, Goto, File!PublishCache, File!Dsts, TypeOK, daemon,
     PollInv, RemembersCache, InApply
<1>16. CASE PutMeta(Daemon)
  <2>1. /\ pc'[Daemon] = After(Daemon) /\ pc[Daemon] = "meta"
        /\ cur'["cache"] = cur["cache"] /\ mode' = NextMode(Daemon)
        /\ lastMD5' = IF mode = "polling" THEN arg[Daemon] ELSE lastMD5
        /\ \A k \in Callbacks : pc'[k] = pc[k]
    BY <1>0, <1>16 DEF PutMeta, Finish, File!Dsts, TypeOK
  <2>2. CASE mode = "polling"
    <3>1. After(Daemon) = "select" /\ NextMode(Daemon) = "polling"
      BY <2>2 DEF After, NextMode
    <3>2. cur["cache"] = arg[Daemon] /\ cur'["meta"] = arg[Daemon]
      BY <1>16, <2>1 DEF LockInv, PutMeta, File!Dsts, TypeOK
    <3> QED
      BY <2>1, <2>2, <3>1, <3>2 DEF PollInv, RemembersCache, InApply
  <2>3. CASE mode # "polling"
    <3>1. /\ After(Daemon) \in {"listen", "watch"} => NextMode(Daemon) = "watch"
          /\ After(Daemon) # "meta"
      BY DEF After, NextMode
    <3> QED
      BY <1>a, <2>1, <2>3, <3>1 DEF PollInv
  <2> QED
    BY <2>2, <2>3
<1>17. CASE \E d \in File!Dsts : Flush(d)
  BY <1>17, <1>3 DEF Flush, File!Persist, daemon
<1>18. CASE UNCHANGED vars
  BY <1>18, <1>3 DEF vars, files, daemon
<1>19. ASSUME NEW k \in Callbacks,
              \/ Step(k) \/ Acquire(k) \/ GetFail(k) \/ LockFail(k) \/ WriteFail(k)
       PROVE  PollInv'
  <2>1. pc[k] # "down"
    BY <1>19 DEF Step, Get, PutCache, PutMeta, Acquire, GetFail, LockFail,
       WriteFail, Goto
  <2>2. CASE \E ok \in BOOLEAN : Finish(k, ok)
    BY <1>c, <2>1, <2>2
  <2>3. CASE Get(k) /\ ~Finish(k, FALSE)
    BY <1>0, <1>k, <2>1, <2>3 DEF Get, Skipped, Fetched, Same, TypeOK
  <2>4. CASE Acquire(k) \/ PutCache(k)
    BY <1>0, <1>k, <2>1, <2>4 DEF Acquire, PutCache, Goto, TypeOK, daemon
  <2> QED
    BY <1>19, <2>2, <2>3, <2>4 DEF Step, PutMeta, GetFail, LockFail, WriteFail
<1>20. CASE \E k \in Callbacks : Notify(k)
  <2>1. PICK k \in Callbacks : Notify(k)
    BY <1>20
  <2>2. /\ pc[Daemon] = "watch" /\ pc'[Daemon] = "watch" /\ mode' = mode
        /\ lastMD5' = lastMD5
    BY <1>0, <2>1 DEF Notify, TypeOK
  <2>3. mode = "watch" /\ lastMD5 = None
    BY <2>2 DEF PollInv
  <2> QED
    BY <1>a, <2>2, <2>3
<1> QED
  BY <1>0, <1>5, <1>6, <1>7, <1>8, <1>9, <1>10, <1>11, <1>12, <1>13, <1>14,
     <1>15, <1>16, <1>17, <1>18, <1>19, <1>20 DEF Next, Step, Alone, DaemonThreads

LEMMA PollInit == Init => PollInv
  BY DaemonIsAThread DEF Init, PollInv, RemembersCache, Threads, InApply

LEMMA Polling == ASSUME Alone PROVE Spec => [](Typed /\ PollInv)
<1>1. Alone /\ Typed /\ PollInv /\ [Next]_vars => PollInv'
  BY PollStep
<1> QED
  BY <1>1, PollInit, Typing, PTL DEF Spec

\* As long as the daemon's process alone writes the cache and no meta write
\* fails while it polls, runPoll's lastMD5 is the content of the cache: an MD5
\* that did not change is never a configuration that did not arrive.
THEOREM PollRemembersTheCache ==
  ASSUME Alone PROVE Spec => []RemembersCache
<1>1. PollInv => RemembersCache
  BY DEF PollInv
<1> QED
  BY <1>1, Polling, PTL

\* Under the same conditions runPoll, once it has applied something, replaces
\* the cache only by another content.
THEOREM UnchangedIsNotRewritten ==
  ASSUME Alone PROVE Spec => NoIdleRewrite
<1> DEFINE A == pc[Daemon] = "cache" /\ pc'[Daemon] = "meta" /\ lastMD5 # None
                  => cur'["cache"] # cur["cache"]
<1>1. ASSUME Typed, PollInv, [Next]_vars PROVE A
  <2> SUFFICES ASSUME pc[Daemon] = "cache", pc'[Daemon] = "meta", lastMD5 # None
               PROVE  cur'["cache"] # cur["cache"]
    OBVIOUS
  <2>1. PutCache(Daemon)
    BY <1>1, DaemonIsAThread, FinishTyped, AfterType
    DEF Typed, TypeOK, Next, vars, Step, Get, Skipped, Fetched, Finish, PutCache,
        PutMeta, Acquire, GetFail, LockFail, WriteFail, Goto, Publish, StartDaemon,
        Listen, ListenFail, Tick, Stop, Exit, StartOnce, Die, Down, PowerLoss,
        Flush, Notify, InApply, Threads
  <2>2. cur'["cache"] = arg[Daemon] /\ cur["cache"] = lastMD5
    BY <1>1, <2>1 DEF PutCache, File!PublishCache, File!Dsts, Typed, TypeOK,
       PollInv, RemembersCache
  <2>3. arg[Daemon] # lastMD5
    BY <1>1 DEF PollInv, InApply
  <2> QED
    BY <2>2, <2>3
<1> QED
  BY <1>1, Polling, PTL DEF Spec, NoIdleRewrite

\* Under the same conditions runPoll skips only a configuration that both files
\* hold: the step of Converges that no later tick would make up for.
THEOREM NothingIsSkipped ==
  ASSUME Alone PROVE Spec => SkipsOnlyWhatIsThere
<1> DEFINE A == /\ pc[Daemon] = "get" /\ pc'[Daemon] = "select"
                /\ server \in Valid /\ faults' = faults
                => cur["cache"] = server /\ cur["meta"] = server
<1>1. ASSUME Typed, PollInv, [Next]_vars PROVE A
  <2> SUFFICES ASSUME pc[Daemon] = "get", pc'[Daemon] = "select",
                      server \in Valid, faults' = faults
               PROVE  cur["cache"] = server /\ cur["meta"] = server
    OBVIOUS
  <2>1. Get(Daemon)
    <3>1. ASSUME NEW kind, Fault(kind) PROVE FALSE
      BY <3>1, <1>1 DEF Fault, Typed, TypeOK
    <3> QED
      BY <1>1, <3>1, DaemonIsAThread, FinishTyped
      DEF Typed, TypeOK, Next, vars, Step, Get, Skipped, Fetched, Finish, PutCache,
          PutMeta, Acquire, GetFail, LockFail, WriteFail, Goto, Publish, StartDaemon,
          Listen, ListenFail, Tick, Stop, Exit, StartOnce, Die, Down, PowerLoss,
          Flush, Notify, Threads, DaemonThreads
  <2>2. Same(Daemon)
    BY <1>1, <2>1, DaemonIsAThread DEF Get, Fetched, Typed, TypeOK
  <2>3. lastMD5 = server /\ lastMD5 # None
    BY <2>2, ConfigSyncAssumption DEF Same
  <2> QED
    BY <1>1, <2>3 DEF PollInv, RemembersCache
<1> QED
  BY <1>1, Polling, PTL DEF Spec, SkipsOnlyWhatIsThere

-----------------------------------------------------------------------------
(***************************************************************************)
(* Listening.                                                              *)
(***************************************************************************)

\* The daemon's process alone writes the cache, it runs one callback at a time,
\* and while it listens no write fails; ConfigSync_lost_write shows why.
Serial == /\ Onces = {} /\ \A j, k \in Callbacks : j = k
          /\ Faults["watch"] \intersect InApply = {}

Arrived == known \in Valid => cur["cache"] = known /\ cur["meta"] = known

\* Until Watch listens nothing has been fetched or it is on its way to the files;
\* then what the SDK fetched last is in them or in the callback's hand.
ListenInv ==
  /\ pc[Daemon] \in {"listen", "watch"} => mode = "watch"
  /\ \A k \in Callbacks : /\ pc[k] \in InApply \union {"down"}
                          /\ pc[k] # "down" => pc[Daemon] = "watch"
  /\ pc[Daemon] = "down" => known = None
  /\ mode = "watch" =>
       /\ pc[Daemon] = "get" => known = None
       /\ pc[Daemon] # "select"
       /\ \A t \in DaemonThreads : pc[t] \in InApply => arg[t] = known
       /\ pc[Daemon] \in {"listen", "watch"} /\ (\A k \in Callbacks : pc[k] = "down")
            => Arrived

\* Whichever way the daemon's initial synchronisation ends, it knows nothing or
\* the files hold what it knows.
LEMMA ListenDaemonStep ==
  ASSUME Serial, Typed, ListenInv,
         \/ Step(Daemon) \/ Acquire(Daemon)
         \/ GetFail(Daemon) \/ LockFail(Daemon) \/ WriteFail(Daemon)
  PROVE  ListenInv'
<1> USE DaemonIsAThread DEF Typed
<1>0. /\ Daemon \notin Callbacks /\ Callbacks \subseteq Threads
      /\ DaemonThreads = {Daemon} \union Callbacks
      /\ None \notin Valid
  BY ConfigSyncAssumption DEF Threads, DaemonThreads
<1>1. pc[Daemon] \in InApply \union {"get"}
  BY DEF Step, Get, PutCache, PutMeta, Acquire, GetFail, LockFail, WriteFail, Goto,
     InApply
<1>2. \A k \in Callbacks : pc[k] = "down"
  BY <1>1 DEF ListenInv, InApply
<1>3. \A k \in Callbacks : pc'[k] = pc[k]
  BY <1>0, FinishTyped DEF Step, Get, Skipped, Fetched, PutCache, PutMeta, Acquire,
     GetFail, LockFail, WriteFail, Goto, TypeOK
<1>4. ASSUME pc'[Daemon] = After(Daemon), mode' = NextMode(Daemon),
             mode = "watch" => Arrived'
      PROVE  ListenInv'
  <2>1. /\ After(Daemon) \in {"listen", "select"}
        /\ After(Daemon) = "listen" <=> mode = "watch"
        /\ NextMode(Daemon) = "watch" <=> mode = "watch"
    BY DEF After, NextMode
  <2> QED
    BY <1>0, <1>2, <1>3, <1>4, <2>1 DEF ListenInv, InApply
<1>5. ASSUME pc'[Daemon] \in InApply, UNCHANGED <<mode, known>>, arg'[Daemon] = arg[Daemon],
             pc[Daemon] \in InApply
      PROVE  ListenInv'
  BY <1>0, <1>2, <1>3, <1>5 DEF ListenInv, InApply
<1>6. CASE Get(Daemon)
  <2>1. CASE Same(Daemon) /\ Skipped(Daemon)
    BY <1>0, <1>2, <1>3, <1>6, <2>1 DEF Same, Skipped, ListenInv, TypeOK, InApply
  <2>2. CASE server \notin Valid /\ Finish(Daemon, FALSE)
    BY <1>4, <1>6, <2>2 DEF Get, Finish, TypeOK, Arrived
  <2>3. CASE ~Same(Daemon) /\ Fetched(Daemon)
    <3>1. pc'[Daemon] = "lock" /\ arg'[Daemon] = known' /\ mode' = mode
      BY <1>6, <2>3 DEF Get, Fetched, TypeOK
    <3> QED
      BY <1>0, <1>2, <1>3, <3>1 DEF ListenInv, InApply
  <2> QED
    BY <1>6, <2>1, <2>2, <2>3 DEF Get
<1>7. CASE Acquire(Daemon) \/ PutCache(Daemon)
  BY <1>5, <1>7 DEF Acquire, PutCache, Goto, TypeOK, daemon, InApply
<1>8. CASE PutMeta(Daemon)
  <2>1. /\ pc'[Daemon] = After(Daemon) /\ mode' = NextMode(Daemon) /\ known' = known
        /\ cur'["cache"] = arg[Daemon] /\ cur'["meta"] = arg[Daemon]
        /\ pc[Daemon] \in InApply
    BY <1>8 DEF PutMeta, Finish, TypeOK, LockInv, File!Dsts, InApply
  <2>2. mode = "watch" => arg[Daemon] = known
    BY <1>0, <2>1 DEF ListenInv
  <2> QED
    BY <1>4, <2>1, <2>2 DEF Arrived
<1>9. CASE GetFail(Daemon) \/ LockFail(Daemon) \/ WriteFail(Daemon)
  <2>1. /\ pc'[Daemon] = After(Daemon) /\ mode' = NextMode(Daemon) /\ known' = known
    BY <1>9 DEF GetFail, LockFail, WriteFail, Finish, TypeOK
  <2>2. mode = "watch" => known = None
    BY <1>9 DEF GetFail, LockFail, WriteFail, Fault, Serial, InApply, ListenInv
  <2> QED
    BY <1>0, <1>4, <2>1, <2>2 DEF Arrived
<1> QED
  BY <1>6, <1>7, <1>8, <1>9 DEF Step

\* The one callback brings what the SDK handed it into both files.
LEMMA ListenCallbackStep ==
  ASSUME Serial, Typed, ListenInv, NEW k \in Callbacks,
         \/ Step(k) \/ Acquire(k) \/ GetFail(k) \/ LockFail(k) \/ WriteFail(k)
         \/ Notify(k)
  PROVE  ListenInv'
<1> USE DaemonIsAThread DEF Typed
<1>0. /\ Daemon # k /\ k \in Threads /\ Callbacks = {k}
      /\ DaemonThreads = {Daemon, k} /\ None \notin Valid
  BY ConfigSyncAssumption DEF Threads, DaemonThreads, Serial
<1>1. pc[Daemon] = "watch" /\ mode = "watch"
  <2>1. pc[k] # "down" \/ Notify(k)
    BY DEF Step, Get, PutCache, PutMeta, Acquire, GetFail, LockFail, WriteFail, Goto
  <2> QED
    BY <2>1 DEF ListenInv, Notify
<1>2. pc[k] \in InApply \union {"down"}
  BY DEF ListenInv
<1>3. CASE Acquire(k) \/ PutCache(k)
  <2>1. /\ pc'[Daemon] = pc[Daemon] /\ pc'[k] \in InApply /\ pc[k] \in InApply
        /\ mode' = mode /\ known' = known /\ arg'[k] = arg[k]
    BY <1>0, <1>3 DEF Acquire, PutCache, Goto, TypeOK, daemon, InApply
  <2> QED
    BY <1>0, <1>1, <2>1 DEF ListenInv, InApply
<1>4. CASE PutMeta(k)
  <2>1. /\ pc'[Daemon] = pc[Daemon] /\ pc'[k] = "down" /\ pc[k] \in InApply
        /\ mode' = mode /\ known' = known
        /\ cur'["cache"] = arg[k] /\ cur'["meta"] = arg[k]
    BY <1>0, <1>4 DEF PutMeta, Finish, After, NextMode, TypeOK, LockInv, File!Dsts, InApply
  <2>2. arg[k] = known
    BY <1>0, <1>1, <2>1 DEF ListenInv
  <2> QED
    BY <1>0, <1>1, <2>1, <2>2 DEF ListenInv, Arrived, InApply
<1>5. CASE Notify(k)
  <2>1. /\ pc'[Daemon] = pc[Daemon] /\ mode' = mode /\ known' = server
        /\ pc[k] = "down"
        /\ \/ server \notin Valid /\ pc'[k] = "down"
           \/ server \in Valid /\ pc'[k] = "lock" /\ arg'[k] = server
    BY <1>0, <1>5 DEF Notify, TypeOK
  <2> QED
    BY <1>0, <1>1, <2>1 DEF ListenInv, Arrived, InApply
<1>6. CASE Get(k) \/ GetFail(k) \/ LockFail(k) \/ WriteFail(k)
  <2>1. FALSE
    BY <1>1, <1>2, <1>6 DEF Get, GetFail, LockFail, WriteFail, Fault, Serial, InApply
  <2> QED
    BY <2>1
<1> QED
  BY <1>3, <1>4, <1>5, <1>6 DEF Step

\* Every step keeps what listening relies on.
LEMMA ListenStep ==
  ASSUME Serial, Typed, ListenInv, [Next]_vars
  PROVE  ListenInv'
<1> USE DaemonIsAThread DEF Typed
<1>0. /\ Threads = DaemonThreads /\ Daemon \notin Callbacks
      /\ Callbacks \subseteq Threads /\ None \notin Valid
  BY ConfigSyncAssumption DEF Serial, Threads, DaemonThreads
<1>1. ASSUME UNCHANGED <<cur, known, mode, arg, pc>> PROVE ListenInv'
  BY <1>1 DEF ListenInv, Arrived
<1>2. ASSUME Down(DaemonThreads) PROVE ListenInv'
  BY <1>0, <1>2 DEF Down, DaemonThreads, ListenInv, Arrived, InApply
<1>3. CASE StartDaemon \/ Listen \/ Tick
  <2>1. /\ UNCHANGED <<cur, known, mode, arg>>
        /\ \A k \in Callbacks : pc'[k] = pc[k]
        /\ \/ pc[Daemon] = "down" /\ pc'[Daemon] = "get"
           \/ pc[Daemon] = "listen" /\ pc'[Daemon] = "watch"
           \/ pc[Daemon] = "select" /\ pc'[Daemon] = "get"
    BY <1>0, <1>3 DEF StartDaemon, Listen, Tick, Goto, TypeOK, files, daemon
  <2> QED
    BY <1>0, <2>1 DEF ListenInv, Arrived, InApply, DaemonThreads
<1>4. CASE ListenFail
  <2>1. /\ known' = known /\ mode' = "polling"
        /\ \A k \in Callbacks : pc'[k] = pc[k]
        /\ pc[Daemon] = "listen" /\ pc'[Daemon] = "select"
    BY <1>0, <1>4 DEF ListenFail, Goto, TypeOK
  <2> QED
    BY <1>0, <2>1 DEF ListenInv
<1>5. CASE (\E c \in Contents : Publish(c)) \/ Stop \/ \E d \in File!Dsts : Flush(d)
  BY <1>5, <1>1 DEF Publish, Stop, Flush, File!Persist, files, daemon
<1>6. CASE Exit \/ Die(DaemonThreads) \/ \E lost \in SUBSET File!Dsts : PowerLoss(lost)
  BY <1>6, <1>0, <1>2 DEF Exit, Die, PowerLoss
<1>7. CASE UNCHANGED vars
  BY <1>7, <1>1 DEF vars, files, daemon
<1> QED
  BY <1>0, <1>3, <1>4, <1>5, <1>6, <1>7, ListenDaemonStep, ListenCallbackStep
  DEF Next, Serial, DaemonThreads

\* As long as the daemon's process alone writes the cache, one callback at a time
\* and without failing writes, a daemon that listens and runs no callback has
\* brought what the SDK fetched last into both files, through restarts, power
\* losses, failing fetches and invalid configurations.
THEOREM ListenerMissesNothing ==
  ASSUME Serial PROVE Spec => []ListenerKeepsUp
<1>1. Init => ListenInv
  BY DaemonIsAThread DEF Init, ListenInv, InApply, Threads, DaemonThreads
<1>2. Serial /\ Typed /\ ListenInv /\ [Next]_vars => ListenInv'
  BY ListenStep
<1>3. ListenInv => ListenerKeepsUp
  BY DEF ListenInv, ListenerKeepsUp, Arrived
<1> QED
  BY <1>1, <1>2, <1>3, Typing, PTL DEF Spec

-----------------------------------------------------------------------------
(***************************************************************************)
(* The files.                                                              *)
(***************************************************************************)

\* A write of the meta file describes the cache because the lock keeps everybody
\* else out between the two.
LEMMA FileStep ==
  ASSUME Typed, [Next]_vars
  PROVE  [File!Next]_<<cur, durable, <<>>>>
<1> USE DEF Typed
<1>1. ASSUME NEW t \in Threads, PutCache(t) PROVE File!Next
  <2>1. arg[t] \in Valid
    BY <1>1 DEF PutCache, Goto, LockInv, InApply
  <2> QED
    BY <1>1, <2>1 DEF PutCache, File!Next
<1>2. ASSUME NEW t \in Threads, PutMeta(t) PROVE File!Next
  <2>1. arg[t] = cur["cache"]
    BY <1>2 DEF PutMeta, LockInv
  <2> QED
    BY <1>2, <2>1 DEF PutMeta, File!PublishMeta, File!Next
<1>3. ASSUME NEW lost \in SUBSET File!Dsts, PowerLoss(lost) PROVE File!Next
  BY <1>3 DEF PowerLoss, File!Next
<1>4. ASSUME NEW d \in File!Dsts, Flush(d) PROVE File!Next
  BY <1>4 DEF Flush, File!Next
<1>5. ASSUME UNCHANGED files PROVE UNCHANGED <<cur, durable, <<>>>>
  BY <1>5 DEF files
<1> QED
  BY <1>1, <1>2, <1>3, <1>4, <1>5
  DEF Next, Step, vars, files, Publish, StartDaemon, Listen, ListenFail, Tick, Stop,
      Exit, StartOnce, Die, Get, Acquire, GetFail, LockFail, WriteFail, Notify

\* Every behaviour of the daemon, its callbacks and the --once processes uses the
\* files as PublishedConfig allows, which Cache implements: what is proved of a
\* reader of a PublishedConfig holds however many of them write.
THEOREM SyncersImplementPublishedConfig == Spec => ImplementsPublishedConfig
<1>1. Init => File!Init
  BY DEF Init
<1>2. Typed /\ [Next]_vars => [File!Next]_<<cur, durable, <<>>>>
  BY FileStep
<1> QED
  BY <1>1, <1>2, Typing, PTL DEF Spec, ImplementsPublishedConfig, File!Spec, File!vars
=============================================================================
