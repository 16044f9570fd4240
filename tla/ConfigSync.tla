----------------------------- MODULE ConfigSync -----------------------------
(***************************************************************************)
(* nacos.Syncer: the config-sync daemon (Watch: an initial SyncOnce, then  *)
(* either the SDK's asynchronous change callbacks or the polling loop) and *)
(* the --once processes, all writing the Nacos configuration to the same   *)
(* local cache through AtomicWrite, whose effect on the files is that of   *)
(* PublishedConfig (Cache is proved to implement it).                      *)
(***************************************************************************)
EXTENDS Naturals

CONSTANTS Daemon,        \* the goroutine that runs Watch
          Callbacks,     \* goroutines the SDK may have running the callback
          Onces,         \* --once processes
          Contents,      \* configurations an operator may publish
          Valid,         \* those that pass AtomicWrite's validation
          None,
          Modes,         \* what nacos.watch_enabled may select at a start
          Faults,        \* the kinds of faults that may happen in each mode
          MaxFaults,     \* bound on their number
          MaxPublish,    \* bound on changes at the Nacos server
          MaxOnce        \* bound on --once runs

\* Watch begins as watch_enabled says; "polling" is runPoll, which a daemon that
\* cannot listen falls back to.
AllModes == {"watch", "poll", "polling"}

Threads == {Daemon} \union Callbacks \union Onces
DaemonThreads == {Daemon} \union Callbacks

ASSUME ConfigSyncAssumption ==
  /\ Valid \subseteq Contents /\ None \notin Contents /\ None \notin Threads
  /\ Daemon \notin Callbacks \union Onces /\ Callbacks \intersect Onces = {}
  /\ Modes \subseteq {"watch", "poll"} /\ Modes # {}
  /\ Faults \in [AllModes -> SUBSET {"get", "lock", "cache", "meta", "listen",
                                     "stop", "die", "power"}]
  /\ MaxFaults \in Nat /\ MaxPublish \in Nat /\ MaxOnce \in Nat

VARIABLES server,        \* the configuration at the Nacos server
          known,         \* what the SDK last fetched or handed out
          cur, durable,  \* the local files, as in PublishedConfig
          lock,          \* who holds the cache's flock
          pc, arg,       \* per goroutine: where it is, the content in hand
          mode,          \* the mode the daemon is in, or will start in
          lastMD5,       \* runPoll's lastMD5
          stopping,      \* the context of Watch is cancelled
          faults, published, onces  \* counters of the bounds

files == <<cur, durable>>
daemon == <<known, mode, lastMD5, stopping>>
env == <<faults, published, onces>>
vars == <<server, files, lock, pc, arg, daemon, env>>

File == INSTANCE PublishedConfig WITH Readers <- {}, view <- <<>>

InApply == {"lock", "cache", "meta"}

TypeOK ==
  /\ server \in Contents /\ known \in Contents \union {None}
  /\ cur \in [File!Dsts -> Valid \union {None}]
  /\ durable \in [File!Dsts -> Valid \union {None}]
  /\ lock \in Threads \union {None}
  /\ pc \in [Threads -> InApply \union {"down", "get", "listen", "watch",
                                        "select"}]
  /\ arg \in [Threads -> Valid \union {None}]
  /\ mode \in AllModes /\ stopping \in BOOLEAN
  /\ lastMD5 \in Valid \union {None}
  /\ faults \in 0..MaxFaults /\ published \in 0..MaxPublish
  /\ onces \in 0..MaxOnce

Init ==
  /\ server \in Contents /\ known = None
  /\ File!Init
  /\ lock = None
  /\ pc = [t \in Threads |-> "down"]
  /\ arg = [t \in Threads |-> None]
  /\ mode \in Modes /\ lastMD5 = None /\ stopping = FALSE
  /\ faults = 0 /\ published = 0 /\ onces = 0

Goto(t, from, to) == pc[t] = from /\ pc' = [pc EXCEPT ![t] = to]

Fault(kind) == /\ kind \in Faults[mode] /\ faults < MaxFaults
               /\ faults' = faults + 1
               /\ UNCHANGED <<published, onces>>

\* An operator publishes another configuration.
Publish(c) ==
  /\ published < MaxPublish /\ c # server
  /\ server' = c
  /\ published' = published + 1
  /\ UNCHANGED <<files, lock, pc, arg, daemon, faults, onces>>

\* systemd starts the daemon: its first step is SyncOnce.
StartDaemon ==
  /\ Goto(Daemon, "down", "get")
  /\ UNCHANGED <<server, files, lock, arg, daemon, env>>

StartOnce(o) ==
  /\ onces < MaxOnce
  /\ onces' = onces + 1
  /\ Goto(o, "down", "get")
  /\ UNCHANGED <<server, files, lock, arg, daemon, faults, published>>

\* Where a goroutine goes when applyConfig, or the GetConfig before it, is
\* over.  Watch carries on after a failed initial sync; a callback and a
\* --once process end; runPoll remembers only what it has applied.
After(t) == CASE t # Daemon -> "down"
             [] t = Daemon /\ mode = "watch" -> "listen"
             [] OTHER -> "select"

NextMode(t) == IF t = Daemon /\ mode = "poll" THEN "polling" ELSE mode

\* Mutant of Finish: lastMD5 is what was tried, not what was written.
FinishRemembers(t, ok) ==
  /\ pc' = [pc EXCEPT ![t] = After(t)]
  /\ arg' = [arg EXCEPT ![t] = None]
  /\ mode' = NextMode(t)
  /\ lastMD5' = IF t = Daemon /\ mode = "polling" THEN arg[t] ELSE lastMD5
  /\ UNCHANGED <<server, stopping>>

Finish(t, ok) ==
  /\ pc' = [pc EXCEPT ![t] = After(t)]
  /\ arg' = [arg EXCEPT ![t] = None]
  /\ mode' = NextMode(t)
  /\ lastMD5' = IF t = Daemon /\ mode = "polling" /\ ok THEN arg[t] ELSE lastMD5
  /\ UNCHANGED <<server, stopping>>

Fetched(t) == /\ pc' = [pc EXCEPT ![t] = "lock"]
              /\ arg' = [arg EXCEPT ![t] = server]
              /\ UNCHANGED <<server, mode, lastMD5, stopping>>

Skipped(t) == /\ pc' = [pc EXCEPT ![t] = "select"]
              /\ UNCHANGED <<server, arg, mode, lastMD5, stopping>>

\* Mutant of Same: the comparison is dropped.
SameNever(t) == FALSE

\* The content is what runPoll applied last.
Same(t) == t = Daemon /\ mode = "polling" /\ server = lastMD5

\* Mutant of Get: runPoll skips what it fetched last, applied or not.
GetSkips(t) ==
  /\ pc[t] = "get"
  /\ known' = IF t = Daemon THEN server ELSE known
  /\ LET same == t = Daemon /\ mode = "polling" /\ server = known IN
       \/ same /\ Skipped(t)
       \/ ~same /\ server \notin Valid /\ Finish(t, FALSE)
       \/ ~same /\ server \in Valid /\ Fetched(t)
  /\ UNCHANGED <<files, lock, env>>

\* Mutant of Get: applyConfig does not validate the content.
GetUnchecked(t) ==
  /\ pc[t] = "get"
  /\ known' = IF t = Daemon THEN server ELSE known
  /\ \/ Same(t) /\ Skipped(t)
     \/ ~Same(t) /\ Fetched(t)
  /\ UNCHANGED <<files, lock, env>>

\* GetConfig answers.  runPoll skips what it applied last; applyConfig rejects
\* invalid content before it touches the lock.
Get(t) ==
  /\ pc[t] = "get"
  /\ known' = IF t = Daemon THEN server ELSE known
  /\ \/ Same(t) /\ Skipped(t)
     \/ ~Same(t) /\ server \notin Valid /\ Finish(t, FALSE)
     \/ ~Same(t) /\ server \in Valid /\ Fetched(t)
  /\ UNCHANGED <<files, lock, env>>

GetFail(t) ==
  /\ pc[t] = "get" /\ Fault("get")
  /\ Finish(t, FALSE)
  /\ UNCHANGED <<files, lock, known>>

\* AtomicWrite: the flock, the cache file, the meta file; any of them may fail.
LockFail(t) ==
  /\ pc[t] = "lock" /\ Fault("lock")
  /\ Finish(t, FALSE)
  /\ UNCHANGED <<files, lock, known>>

Acquire(t) ==
  /\ lock = None
  /\ lock' = t
  /\ Goto(t, "lock", "cache")
  /\ UNCHANGED <<server, files, arg, daemon, env>>

\* Mutant of PutCache: the lock covers the cache file only.
PutCacheUnlocks(t) ==
  /\ Goto(t, "cache", "meta")
  /\ File!PublishCache(arg[t])
  /\ lock' = None
  /\ UNCHANGED <<server, arg, daemon, env>>

PutCache(t) ==
  /\ Goto(t, "cache", "meta")
  /\ File!PublishCache(arg[t])
  /\ UNCHANGED <<server, lock, arg, daemon, env>>

PutMeta(t) ==
  /\ pc[t] = "meta"
  /\ cur' = [cur EXCEPT !["meta"] = arg[t]]
  /\ lock' = None
  /\ Finish(t, TRUE)
  /\ UNCHANGED <<durable, known, env>>

\* Mutant of WriteFail: an error return that forgets the lock.
WriteFailKeepsLock(t) ==
  /\ pc[t] \in {"cache", "meta"} /\ Fault(pc[t])
  /\ Finish(t, FALSE)
  /\ UNCHANGED <<files, lock, known>>

WriteFail(t) ==
  /\ pc[t] \in {"cache", "meta"} /\ Fault(pc[t])
  /\ lock' = None
  /\ Finish(t, FALSE)
  /\ UNCHANGED <<files, known>>

Listen ==
  /\ Goto(Daemon, "listen", "watch")
  /\ UNCHANGED <<server, files, lock, arg, daemon, env>>

ListenFail ==
  /\ Fault("listen")
  /\ Goto(Daemon, "listen", "select")
  /\ mode' = "polling"
  /\ UNCHANGED <<server, files, lock, arg, known, lastMD5, stopping>>

\* Mutant of Notify: the callback is handed the content before the change.
NotifyStale(k) ==
  /\ pc[Daemon] = "watch" /\ pc[k] = "down"
  /\ known # server
  /\ known' = server
  /\ IF known \in Valid THEN /\ pc' = [pc EXCEPT ![k] = "lock"]
                             /\ arg' = [arg EXCEPT ![k] = known]
                        ELSE UNCHANGED <<pc, arg>>
  /\ UNCHANGED <<server, files, lock, mode, lastMD5, stopping, env>>

\* The SDK finds that the server has changed and runs the callback with the
\* content it fetched, each time on a goroutine of its own.
Notify(k) ==
  /\ pc[Daemon] = "watch" /\ pc[k] = "down"
  /\ known # server
  /\ known' = server
  /\ IF server \in Valid THEN /\ pc' = [pc EXCEPT ![k] = "lock"]
                              /\ arg' = [arg EXCEPT ![k] = server]
                         ELSE UNCHANGED <<pc, arg>>
  /\ UNCHANGED <<server, files, lock, mode, lastMD5, stopping, env>>

Tick ==
  /\ Goto(Daemon, "select", "get")
  /\ UNCHANGED <<server, files, lock, arg, daemon, env>>

\* The processes with goroutines T end, and the kernel drops their locks.  The
\* bootstrap file may be another one when the daemon is started again.
Down(T) == /\ pc' = [t \in Threads |-> IF t \in T THEN "down" ELSE pc[t]]
           /\ arg' = [t \in Threads |-> IF t \in T THEN None ELSE arg[t]]
           /\ lock' = IF lock \in T THEN None ELSE lock
           /\ IF Daemon \in T THEN /\ known' = None /\ lastMD5' = None
                                  /\ mode' \in Modes /\ stopping' = FALSE
                             ELSE UNCHANGED daemon
           /\ UNCHANGED server

\* SIGTERM cancels the context; Watch notices where it selects on it, and the
\* process ends with whatever callbacks it still runs.
Stop ==
  /\ Fault("stop")
  /\ pc[Daemon] # "down" /\ ~stopping
  /\ stopping' = TRUE
  /\ UNCHANGED <<server, files, lock, pc, arg, known, mode, lastMD5>>

\* Mutant of Exit: runPoll does not select on ctx.Done.
ExitWatchOnly ==
  /\ stopping /\ pc[Daemon] = "watch"
  /\ Down(DaemonThreads)
  /\ UNCHANGED <<files, env>>

Exit ==
  /\ stopping /\ pc[Daemon] \in {"watch", "select"}
  /\ Down(DaemonThreads)
  /\ UNCHANGED <<files, env>>

Die(T) ==
  /\ Fault("die")
  /\ \E t \in T : pc[t] # "down"
  /\ Down(T)
  /\ UNCHANGED files

PowerLoss(lost) ==
  /\ Fault("power")
  /\ Down(Threads)
  /\ File!Crash(lost)

Flush(d) ==
  /\ File!Persist(d)
  /\ UNCHANGED <<server, lock, pc, arg, daemon, env>>

Step(t) == Get(t) \/ PutCache(t) \/ PutMeta(t)

Next == \/ \E c \in Contents : Publish(c)
        \/ StartDaemon \/ Listen \/ ListenFail \/ Tick \/ Stop \/ Exit
        \/ \E o \in Onces : StartOnce(o) \/ Die({o})
        \/ \E t \in Threads : \/ Step(t) \/ Acquire(t)
                              \/ GetFail(t) \/ LockFail(t) \/ WriteFail(t)
        \/ \E k \in Callbacks : Notify(k)
        \/ Die(DaemonThreads)
        \/ \E lost \in SUBSET File!Dsts : PowerLoss(lost)
        \/ \E d \in File!Dsts : Flush(d)

Spec == Init /\ [][Next]_vars

\* Goroutines are scheduled and GetConfig returns within its timeout; flock
\* queues its waiters; systemd restarts the daemon (Restart=always); the
\* ticker ticks; the SDK's long poll notices a change; select, which picks
\* among ready cases at random, does not pass over ctx.Done forever.
Fairness ==
  /\ \A t \in Threads : WF_vars(Step(t)) /\ SF_vars(Acquire(t))
  /\ WF_vars(StartDaemon) /\ WF_vars(Listen) /\ WF_vars(Tick)
  /\ WF_vars(\E k \in Callbacks : Notify(k))
  /\ SF_vars(Exit)

FairSpec == Spec /\ Fairness

-----------------------------------------------------------------------------
\* What runPoll believes it wrote last is what the cache holds, except while it
\* is replacing it: skipping an unchanged MD5 skips nothing that is missing.
RemembersCache ==
  lastMD5 # None /\ pc[Daemon] # "meta" => cur["cache"] = lastMD5

\* docs 6.5: an MD5 that has not changed writes nothing.  Once runPoll has applied
\* something, a replacement of the cache changes it; the tick before that
\* writes what the initial sync may have written already, lastMD5 being empty.
NoIdleRewrite ==
  [][pc[Daemon] = "cache" /\ pc'[Daemon] = "meta" /\ lastMD5 # None
       => cur'["cache"] # cur["cache"]]_vars

\* runPoll leaves the files as they are only when both hold what the server
\* answered: an MD5 that looks unchanged hides no configuration that a failed
\* write, a crash or a publication in between kept from arriving.
SkipsOnlyWhatIsThere ==
  [][/\ pc[Daemon] = "get" /\ pc'[Daemon] = "select"
     /\ server \in Valid /\ faults' = faults
     => cur["cache"] = server /\ cur["meta"] = server]_vars

\* While Watch listens and no callback runs, both files hold what the SDK fetched
\* last, if it is valid: a change that it does not notice again has arrived.
ListenerKeepsUp ==
  /\ pc[Daemon] = "watch" /\ known \in Valid
  /\ \A k \in Callbacks : pc[k] = "down"
  => cur["cache"] = known /\ cur["meta"] = known

\* Whoever races and whatever fails, the goroutines write the files only as a
\* PublishedConfig may change: a validated configuration at a time, and a meta
\* file that describes what is in the cache at that moment.
ImplementsPublishedConfig == File!Spec

\* While no system call has failed and nothing has crashed, whoever looks when
\* the lock is free finds a meta file that describes the cache file.
MetaDescribesCache ==
  lock = None /\ faults = 0 => cur["meta"] = cur["cache"]

\* README.md:125 and docs 6.5, 14.3: a published configuration reaches the
\* cache, and the meta file with it, once the server stops changing.
Converges ==
  <>[](server \in Valid => cur["cache"] = server /\ cur["meta"] = server)

\* README.md:125, for a change that the daemon is told of while it listens: what
\* a callback is handed reaches both files, unless the server has changed again.
ChangeArrives ==
  \A c \in Valid : (\E k \in Callbacks : pc[k] # "down" /\ arg[k] = c)
     ~> (cur["cache"] = c /\ cur["meta"] = c) \/ server # c

\* A cancelled Watch returns, wherever it was when the context was cancelled.
StopsWhenAsked == stopping ~> (pc[Daemon] = "down")

\* A --once process ends, although it may have to wait for the others' lock.
OnceEnds == \A o \in Onces : pc[o] = "get" ~> pc[o] = "down"
=============================================================================
