------------------------------- MODULE Cache -------------------------------
(***************************************************************************)
(* config.Cache.AtomicWrite: the goroutines of several sync processes      *)
(* replace the cache file and its meta file, each through a temporary file *)
(* that is written, fsynced, closed and renamed, under one flock; hooks    *)
(* open and read the cache file at any moment.  Files are names linked to  *)
(* inodes, so that a reader keeps the inode it opened and two goroutines   *)
(* of a process share the name of their temporary file.  Any system call   *)
(* may fail, a process may die, the machine may lose power.                *)
(***************************************************************************)
EXTENDS Naturals

CONSTANTS Threads,   \* goroutines that call AtomicWrite
          Procs,     \* the processes they belong to (their pids)
          ProcOf,    \* the process of each goroutine
          Readers,   \* hooks that read the cache file
          Contents,  \* configurations, as fetched
          Valid,     \* those that parse and pass Validate
          Ids,       \* inode numbers
          None,      \* no inode, no thread, no content
          Torn,      \* an empty or partly written file
          WithMeta,  \* MetaFile # ""
          MaxFaults  \* bound on deaths, power losses and stray temporaries

Dsts == {"cache", "meta"}

\* An inode is named after the file it was first created for.
Inodes == Dsts \X Ids

ASSUME CacheAssumption ==
  /\ ProcOf \in [Threads -> Procs]
  /\ Valid \subseteq Contents
  /\ WithMeta \in BOOLEAN /\ MaxFaults \in Nat
  /\ None \notin Inodes /\ None \notin Threads /\ None \notin Contents
  /\ Torn \notin Contents /\ Torn # None

VARIABLES link,    \* the inode each published file name is linked to
          dlink,   \* the same directory entries as they are on disk
          tmp,     \* the inode of each process's temporary file for a name
          data,    \* what an inode holds
          synced,  \* inodes whose data is on disk
          lock,    \* the goroutine that holds the flock
          pc, dst, fd, arg, ret,  \* goroutine: next call, file, descriptor,
                                  \* argument, result
          rfd,    \* hook: descriptor of the cache file
          faults  \* faults so far

fs == <<link, dlink, tmp, data, synced>>
thread == <<pc, dst, fd, arg, ret>>
vars == <<fs, lock, thread, rfd, faults>>

Critical == {"open", "write", "sync", "close", "rename", "unlock"}
HasTmp == {"write", "sync", "close", "rename"}

TypeOK ==
  /\ link \in [Dsts -> Inodes \union {None}]
  /\ dlink \in [Dsts -> Inodes \union {None}]
  /\ tmp \in [Dsts -> [Procs -> Inodes \union {None}]]
  /\ data \in [Inodes -> Contents \union {Torn}]
  /\ synced \in SUBSET Inodes
  /\ lock \in Threads \union {None}
  /\ pc \in [Threads -> {"idle", "lock"} \union Critical]
  /\ dst \in [Threads -> Dsts]
  /\ fd \in [Threads -> Inodes \union {None}]
  /\ arg \in [Threads -> Valid \union {None}]
  /\ ret \in [Threads -> {"none", "ok", "err"}]
  /\ rfd \in [Readers -> Inodes \union {None}]
  /\ faults \in Nat

Init ==
  /\ link = [d \in Dsts |-> None]
  /\ dlink = link
  /\ tmp = [d \in Dsts |-> [p \in Procs |-> None]]
  /\ data = [i \in Inodes |-> Torn]
  /\ synced = {}
  /\ lock = None
  /\ pc = [t \in Threads |-> "idle"]
  /\ dst = [t \in Threads |-> "cache"]
  /\ fd = [t \in Threads |-> None]
  /\ arg = [t \in Threads |-> None]
  /\ ret = [t \in Threads |-> "none"]
  /\ rfd = [r \in Readers |-> None]
  /\ faults = 0

Free == Inodes \ ( {link[d] : d \in Dsts} \union {dlink[d] : d \in Dsts}
                 \union {tmp[d][p] : d \in Dsts, p \in Procs}
                 \union {fd[t] : t \in Threads} \union {rfd[r] : r \in Readers})

CanCreate(d) == \E f \in Free : f[1] = d
Created(d) == CHOOSE f \in Free : f[1] = d

\* The temporary file of goroutine t: dst + ".tmp." + pid.
TmpOf(t) == tmp[dst[t]][ProcOf[t]]

\* The kernel frees an inode with its last name and descriptor.
Reclaim == LET free == Free' IN
           /\ data' = [i \in Inodes |-> IF i \in free THEN Torn ELSE data[i]]
           /\ synced' = synced \ free

Goto(t, from, to) == pc[t] = from /\ pc' = [pc EXCEPT ![t] = to]

\* The goroutines in T are done with AtomicWrite, or dead.
Leave(T) == /\ pc' = [t \in Threads |-> IF t \in T THEN "idle" ELSE pc[t]]
            /\ dst' = [t \in Threads |-> IF t \in T THEN "cache" ELSE dst[t]]
            /\ fd' = [t \in Threads |-> IF t \in T THEN None ELSE fd[t]]
            /\ arg' = [t \in Threads |-> IF t \in T THEN None ELSE arg[t]]
            /\ ret' = [t \in Threads |-> IF t \in T THEN "none" ELSE ret[t]]
            /\ lock' = IF lock \in T THEN None ELSE lock

Fault == faults < MaxFaults /\ faults' = faults + 1

\* Mutant of Call: the content is not validated.
CallUnchecked(t, c) ==
  /\ Goto(t, "idle", "lock")
  /\ arg' = [arg EXCEPT ![t] = c]
  /\ UNCHANGED <<fs, lock, dst, fd, ret, rfd, faults>>

\* AtomicWrite(content) passes its validation.  Content that fails
\* yaml.Unmarshal or Validate is rejected before any file, the lock file
\* included, is opened: such a call changes no variable.
Call(t, c) ==
  /\ c \in Valid
  /\ Goto(t, "idle", "lock")
  /\ arg' = [arg EXCEPT ![t] = c]
  /\ UNCHANGED <<fs, lock, dst, fd, ret, rfd, faults>>

\* Opening or locking the lock file fails.
LockFail(t) ==
  /\ pc[t] = "lock"
  /\ Leave({t})
  /\ UNCHANGED <<fs, rfd, faults>>

\* Mutant of Lock: a shared lock.
LockShared(t) ==
  /\ lock' = t
  /\ Goto(t, "lock", "open")
  /\ UNCHANGED <<fs, dst, fd, arg, ret, rfd, faults>>

Lock(t) ==
  /\ lock = None
  /\ lock' = t
  /\ Goto(t, "lock", "open")
  /\ UNCHANGED <<fs, dst, fd, arg, ret, rfd, faults>>

\* Mutant of OpenTmp: the published file is truncated and written in place.
OpenInPlace(t) ==
  /\ Goto(t, "open", "write")
  /\ LET i == IF link[dst[t]] = None THEN Created(dst[t]) ELSE link[dst[t]]
     IN /\ tmp' = [tmp EXCEPT ![dst[t]][ProcOf[t]] = i]
        /\ fd' = [fd EXCEPT ![t] = i]
        /\ data' = [data EXCEPT ![i] = Torn]
        /\ synced' = synced \ {i}
  /\ UNCHANGED <<link, dlink, lock, dst, arg, ret, rfd, faults>>

\* O_CREATE|O_TRUNC: a temporary file left by an earlier failure or crash of
\* the same pid is emptied and used again.
OpenTmp(t) ==
  /\ Goto(t, "open", "write")
  /\ TmpOf(t) = None => CanCreate(dst[t])
  /\ LET i == IF TmpOf(t) = None THEN Created(dst[t]) ELSE TmpOf(t)
     IN /\ tmp' = [tmp EXCEPT ![dst[t]][ProcOf[t]] = i]
        /\ fd' = [fd EXCEPT ![t] = i]
        /\ data' = [data EXCEPT ![i] = Torn]
        /\ synced' = synced \ {i}
  /\ UNCHANGED <<link, dlink, lock, dst, arg, ret, rfd, faults>>

Write(t) ==
  /\ Goto(t, "write", "sync")
  /\ data' = [data EXCEPT ![fd[t]] = arg[t]]
  /\ synced' = synced \ {fd[t]}
  /\ UNCHANGED <<link, dlink, tmp, lock, dst, fd, arg, ret, rfd, faults>>

\* Mutant of Sync: no fsync before the rename.
SyncSkipped(t) ==
  /\ Goto(t, "sync", "close")
  /\ UNCHANGED <<fs, lock, dst, fd, arg, ret, rfd, faults>>

Sync(t) ==
  /\ Goto(t, "sync", "close")
  /\ synced' = synced \union {fd[t]}
  /\ UNCHANGED <<link, dlink, tmp, data, lock, dst, fd, arg, ret, rfd, faults>>

Close(t) ==
  /\ Goto(t, "close", "rename")
  /\ fd' = [fd EXCEPT ![t] = None]
  /\ UNCHANGED <<fs, lock, dst, arg, ret, rfd, faults>>

\* The cache file comes first; the meta file follows when one is configured.
More(t) == dst[t] = "cache" /\ WithMeta

\* Mutant of Rename: the lock covers the cache file only.
RenameUnlocks(t) ==
  /\ TmpOf(t) # None
  /\ link' = [link EXCEPT ![dst[t]] = TmpOf(t)]
  /\ tmp' = [tmp EXCEPT ![dst[t]][ProcOf[t]] = None]
  /\ Goto(t, "rename", IF More(t) THEN "open" ELSE "unlock")
  /\ dst' = [dst EXCEPT ![t] = "meta"]
  /\ lock' = None
  /\ UNCHANGED <<dlink, data, synced, fd, arg, ret, rfd, faults>>

Rename(t) ==
  /\ TmpOf(t) # None
  /\ link' = [link EXCEPT ![dst[t]] = TmpOf(t)]
  /\ tmp' = [tmp EXCEPT ![dst[t]][ProcOf[t]] = None]
  /\ Goto(t, "rename", IF More(t) THEN "open" ELSE "unlock")
  /\ dst' = [dst EXCEPT ![t] = IF More(t) THEN "meta" ELSE @]
  /\ ret' = [ret EXCEPT ![t] = IF More(t) THEN @ ELSE "ok"]
  /\ UNCHANGED <<dlink, lock, fd, arg, rfd, faults>>
  /\ Reclaim

\* Mutant of Fail: an error return that forgets the lock.
FailKeepsLock(t, removed) ==
  /\ pc[t] \in HasTmp
  /\ pc' = [pc EXCEPT ![t] = "idle"]
  /\ fd' = [fd EXCEPT ![t] = None]
  /\ UNCHANGED <<fs, lock, dst, arg, ret, rfd, faults>>

\* open, write, fsync, close or rename returns an error: the temporary file
\* is removed unless it was never opened, and a failing remove is ignored.
Fail(t, removed) ==
  /\ \/ pc[t] = "open" /\ ~removed /\ UNCHANGED faults
     \/ pc[t] \in HasTmp /\ removed /\ UNCHANGED faults
     \/ pc[t] \in HasTmp /\ ~removed /\ Fault
  /\ tmp' = IF removed THEN [tmp EXCEPT ![dst[t]][ProcOf[t]] = None] ELSE tmp
  /\ pc' = [pc EXCEPT ![t] = "unlock"]
  /\ ret' = [ret EXCEPT ![t] = "err"]
  /\ fd' = [fd EXCEPT ![t] = None]
  /\ UNCHANGED <<link, dlink, lock, dst, arg, rfd>>
  /\ Reclaim

\* The deferred releaseLock, on every return after acquireLock.
Unlock(t) ==
  /\ pc[t] = "unlock"
  /\ Leave({t})
  /\ UNCHANGED <<fs, rfd, faults>>

\* A process dies: its lock goes, its temporary files stay.
Kill(p) ==
  /\ Fault
  /\ Leave({t \in Threads : ProcOf[t] = p})
  /\ UNCHANGED <<link, dlink, tmp, rfd>>
  /\ Reclaim

\* The kernel writes a directory entry back.
Flush(d) ==
  /\ dlink' = [dlink EXCEPT ![d] = link[d]]
  /\ UNCHANGED <<link, tmp, lock, thread, rfd, faults>>
  /\ Reclaim

\* Inodes a power loss may damage.
Unsynced == {i \in Inodes \ synced : data[i] # Torn}

\* Power is lost: the names in lost fall back to their entries on disk, the
\* inodes in torn lose their data, the processes in kept find their
\* temporary files again.
PowerLoss(lost, torn, kept) ==
  /\ Fault
  /\ link' = [d \in Dsts |-> IF d \in lost THEN dlink[d] ELSE link[d]]
  /\ dlink' = link'
  /\ tmp' = [d \in Dsts |-> [p \in Procs |-> IF p \in kept THEN tmp[d][p]
                                                          ELSE None]]
  /\ rfd' = [r \in Readers |-> None]
  /\ Leave(Threads)
  /\ data' = [i \in Inodes |-> IF i \in torn \union Free' THEN Torn
                                                        ELSE data[i]]
  /\ synced' = synced \ Free'

\* The hook's Load reads the file with os.ReadFile: it opens the file, reads
\* it in as many calls as it takes, and closes it.
ReaderOpen(r) ==
  /\ rfd[r] = None
  /\ rfd' = [rfd EXCEPT ![r] = link["cache"]]
  /\ UNCHANGED <<fs, lock, thread, faults>>

ReaderClose(r) ==
  /\ rfd[r] # None
  /\ rfd' = [rfd EXCEPT ![r] = None]
  /\ UNCHANGED <<link, dlink, tmp, lock, thread, faults>>
  /\ Reclaim

Work(t) == \/ OpenTmp(t) \/ Write(t) \/ Sync(t) \/ Close(t) \/ Rename(t)
           \/ Unlock(t)

Next == \/ \E t \in Threads : \/ \E c \in Contents : Call(t, c)
                              \/ LockFail(t) \/ Lock(t) \/ Work(t)
                              \/ \E removed \in BOOLEAN : Fail(t, removed)
        \/ \E p \in Procs : Kill(p)
        \/ \E d \in Dsts : Flush(d)
        \/ \E lost \in SUBSET Dsts, torn \in SUBSET Unsynced,
              kept \in SUBSET Procs : PowerLoss(lost, torn, kept)
        \/ \E r \in Readers : ReaderOpen(r) \/ ReaderClose(r)

Spec == Init /\ [][Next]_vars

\* A goroutine in AtomicWrite is scheduled, and the kernel queues the waiters
\* of a flock, so none of them is passed over forever.
FairSpec == Spec /\ \A t \in Threads : WF_vars(Work(t)) /\ SF_vars(Lock(t))

-----------------------------------------------------------------------------
Content(i) == IF i = None THEN None ELSE data[i]
Holds(d) == Content(link[d])

\* Whatever a hook has open is a whole configuration that passed validation,
\* however long it reads and whatever the writers do meanwhile.
NoTornRead == \A r \in Readers : rfd[r] # None => data[rfd[r]] \in Valid

\* The published files, and the versions a power loss may bring back, are
\* validated and on disk: atomicWriteFile renames only what it has fsynced.
PublishedIsDurable ==
  \A d \in Dsts, i \in Inodes :
    i \in {link[d], dlink[d]} => data[i] \in Valid /\ i \in synced

\* AtomicWrite returns nil only while both files hold its content, although
\* other goroutines and processes write the same two names.
AckMeansPublished ==
  \A t \in Threads : pc[t] = "unlock" /\ ret[t] = "ok" =>
    Holds("cache") = arg[t] /\ (WithMeta => Holds("meta") = arg[t])

\* AtomicWrite keeps the promise of PublishedConfig: the cache changes in one
\* step to a valid configuration, the meta file only to what the cache then
\* holds, an open file does not change, a power loss undoes whole versions.
PC == INSTANCE PublishedConfig
        WITH cur <- [d \in Dsts |-> Content(link[d])],
             durable <- [d \in Dsts |-> Content(dlink[d])],
             view <- [r \in Readers |-> Content(rfd[r])]
Implements == PC!Spec

\* A call that waits for the flock returns: no failed or killed holder keeps
\* the lock.
Returns == \A t \in Threads : pc[t] = "lock" ~> pc[t] = "idle"
=============================================================================
