---------------------------- MODULE CacheProofs ----------------------------
(***************************************************************************)
(* Proofs about Cache, for any goroutines, processes, readers, contents    *)
(* and inodes.                                                             *)
(***************************************************************************)
EXTENDS Cache, TLAPS

\* What Reclaim leaves in the inodes.
LEMMA ReclaimType ==
  ASSUME TypeOK, Reclaim
  PROVE  data' \in [Inodes -> Contents \union {Torn}] /\ synced' \in SUBSET Inodes
  BY DEF TypeOK, Reclaim

\* A goroutine that leaves keeps the types of its variables.
LEMMA LeaveType ==
  ASSUME TypeOK, NEW T \in SUBSET Threads, Leave(T)
  PROVE  /\ pc' \in [Threads -> {"idle", "lock"} \union Critical]
         /\ dst' \in [Threads -> Dsts]
         /\ fd' \in [Threads -> Inodes \union {None}]
         /\ arg' \in [Threads -> Valid \union {None}]
         /\ ret' \in [Threads -> {"none", "ok", "err"}]
         /\ lock' \in Threads \union {None}
  BY DEF TypeOK, Leave, Dsts

\* O_CREAT makes a file of an inode nobody uses.
LEMMA CreatedIsFree ==
  ASSUME NEW d, CanCreate(d)
  PROVE  Created(d) \in Free
  BY DEF CanCreate, Created

\* TypeOK is not inductive on its own: a goroutine inside AtomicWrite has a
\* valid argument, and an open descriptor until it closes it.
Busy == \A t \in Threads :
  /\ pc[t] # "idle" => arg[t] \in Valid
  /\ pc[t] \in {"write", "sync", "close"} => fd[t] \in Inodes

Typed == TypeOK /\ Busy

\* The inode that OpenTmp opens, new or left over.
LEMMA OpenedInode ==
  ASSUME TypeOK, NEW t \in Threads, OpenTmp(t)
  PROVE  (IF TmpOf(t) = None THEN Created(dst[t]) ELSE TmpOf(t)) \in Inodes
<1>1. TmpOf(t) \in Inodes \union {None}
  BY CacheAssumption DEF TypeOK, TmpOf
<1>2. TmpOf(t) = None => Created(dst[t]) \in Inodes
  BY CreatedIsFree DEF OpenTmp, Free
<1> QED
  BY <1>1, <1>2

\* Busy survives goroutines leaving AtomicWrite.
LEMMA LeaveBusy ==
  ASSUME Busy, NEW T \in SUBSET Threads, Leave(T)
  PROVE  Busy'
  BY DEF Busy, Leave

\* TypeOK and Busy hold in every behaviour.
LEMMA Typing == Spec => []Typed
<1>1. Init => Typed
  BY CacheAssumption DEF Init, Typed, Busy, TypeOK, Dsts
<1>2. TypeOK /\ Busy /\ [Next]_vars => TypeOK'
  <2> SUFFICES ASSUME TypeOK, Busy, [Next]_vars PROVE TypeOK'
    OBVIOUS
  <2>1. ASSUME NEW t \in Threads, NEW c \in Contents, Call(t, c) PROVE TypeOK'
    BY <2>1 DEF TypeOK, Call, Goto, fs, Critical
  <2>2. ASSUME NEW t \in Threads, LockFail(t) PROVE TypeOK'
    BY <2>2, LeaveType DEF TypeOK, LockFail, fs
  <2>3. ASSUME NEW t \in Threads, Lock(t) PROVE TypeOK'
    BY <2>3 DEF TypeOK, Lock, Goto, fs, Critical
  <2>4. ASSUME NEW t \in Threads, OpenTmp(t) PROVE TypeOK'
    <3> DEFINE i == IF TmpOf(t) = None THEN Created(dst[t]) ELSE TmpOf(t)
    <3>1. i \in Inodes
      BY <2>4, OpenedInode
    <3> HIDE DEF i
    <3>2. /\ tmp' = [tmp EXCEPT ![dst[t]][ProcOf[t]] = i]
          /\ fd' = [fd EXCEPT ![t] = i]
          /\ data' = [data EXCEPT ![i] = Torn]
          /\ synced' = synced \ {i}
          /\ pc' = [pc EXCEPT ![t] = "write"]
          /\ UNCHANGED <<link, dlink, lock, dst, arg, ret, rfd, faults>>
      BY <2>4 DEF OpenTmp, Goto, i
    <3>3. tmp' \in [Dsts -> [Procs -> Inodes \union {None}]]
      BY <3>1, <3>2, CacheAssumption DEF TypeOK
    <3> QED
      BY <3>1, <3>2, <3>3 DEF TypeOK, Critical
  <2>5. ASSUME NEW t \in Threads, Write(t) PROVE TypeOK'
    BY <2>5, CacheAssumption DEF TypeOK, Busy, Write, Goto, Critical
  <2>6. ASSUME NEW t \in Threads, Sync(t) PROVE TypeOK'
    BY <2>6 DEF TypeOK, Busy, Sync, Goto, Critical
  <2>7. ASSUME NEW t \in Threads, Close(t) PROVE TypeOK'
    BY <2>7 DEF TypeOK, Close, Goto, fs, Critical
  <2>8. ASSUME NEW t \in Threads, Rename(t) PROVE TypeOK'
    <3>1. TmpOf(t) \in Inodes \union {None}
      BY CacheAssumption DEF TypeOK, TmpOf
    <3>3. link' \in [Dsts -> Inodes \union {None}]
      BY <2>8, <3>1 DEF TypeOK, Rename
    <3>4. tmp' \in [Dsts -> [Procs -> Inodes \union {None}]]
      BY <2>8, CacheAssumption DEF TypeOK, Rename
    <3>2. dst' \in [Threads -> Dsts]
      BY <2>8 DEF TypeOK, Rename, Dsts
    <3> QED
      BY <2>8, <3>2, <3>3, <3>4, ReclaimType DEF TypeOK, Rename, Goto, Critical
  <2>9. ASSUME NEW t \in Threads, NEW removed \in BOOLEAN, Fail(t, removed)
        PROVE TypeOK'
    <3>1. tmp' \in [Dsts -> [Procs -> Inodes \union {None}]]
      BY <2>9, CacheAssumption DEF TypeOK, Fail
    <3>2. faults' \in Nat
      BY <2>9 DEF TypeOK, Fail, Fault
    <3> QED
      BY <2>9, <3>1, <3>2, ReclaimType DEF TypeOK, Fail, Critical
  <2>10. ASSUME NEW t \in Threads, Unlock(t) PROVE TypeOK'
    BY <2>10, LeaveType DEF TypeOK, Unlock, fs
  <2>11. ASSUME NEW p \in Procs, Kill(p) PROVE TypeOK'
    <3>1. Leave({t \in Threads : ProcOf[t] = p}) /\ Reclaim
          /\ faults' \in Nat /\ UNCHANGED <<link, dlink, tmp, rfd>>
      BY <2>11 DEF TypeOK, Kill, Fault
    <3> QED
      BY <3>1, LeaveType, ReclaimType DEF TypeOK
  <2>12. ASSUME NEW d \in Dsts, Flush(d) PROVE TypeOK'
    BY <2>12, ReclaimType DEF TypeOK, Flush, thread
  <2>13. ASSUME NEW lost \in SUBSET Dsts, NEW torn \in SUBSET Unsynced,
                NEW kept \in SUBSET Procs, PowerLoss(lost, torn, kept)
         PROVE TypeOK'
    <3>1. /\ link' \in [Dsts -> Inodes \union {None}]
          /\ dlink' = link'
          /\ tmp' \in [Dsts -> [Procs -> Inodes \union {None}]]
          /\ rfd' \in [Readers -> Inodes \union {None}]
      BY <2>13 DEF TypeOK, PowerLoss
    <3>2. /\ data' \in [Inodes -> Contents \union {Torn}]
          /\ synced' \in SUBSET Inodes
          /\ faults' \in Nat
      BY <2>13 DEF TypeOK, PowerLoss, Fault
    <3>3. Leave(Threads)
      BY <2>13 DEF PowerLoss
    <3> QED
      BY <3>1, <3>2, <3>3, LeaveType DEF TypeOK
  <2>14. ASSUME NEW r \in Readers, ReaderOpen(r) PROVE TypeOK'
    BY <2>14 DEF TypeOK, ReaderOpen, fs, thread, Dsts
  <2>15. ASSUME NEW r \in Readers, ReaderClose(r) PROVE TypeOK'
    BY <2>15, ReclaimType DEF TypeOK, ReaderClose, thread
  <2>16. CASE UNCHANGED vars
    BY <2>16 DEF TypeOK, vars, fs, thread
  <2> QED
    BY <2>1, <2>2, <2>3, <2>4, <2>5, <2>6, <2>7, <2>8, <2>9, <2>10, <2>11,
       <2>12, <2>13, <2>14, <2>15, <2>16 DEF Next, Work
<1>3. TypeOK /\ Busy /\ [Next]_vars => Busy'
  <2> SUFFICES ASSUME TypeOK, Busy, [Next]_vars PROVE Busy'
    OBVIOUS
  <2>1. ASSUME NEW t \in Threads, NEW c \in Contents, Call(t, c) PROVE Busy'
    BY <2>1 DEF TypeOK, Busy, Call, Goto
  <2>2. ASSUME NEW t \in Threads, LockFail(t) PROVE Busy'
    BY <2>2, LeaveBusy DEF LockFail
  <2>3. ASSUME NEW t \in Threads, Lock(t) PROVE Busy'
    BY <2>3 DEF TypeOK, Busy, Lock, Goto
  <2>4. ASSUME NEW t \in Threads, OpenTmp(t) PROVE Busy'
    BY <2>4, OpenedInode DEF TypeOK, Busy, OpenTmp, Goto
  <2>5. ASSUME NEW t \in Threads, Write(t) PROVE Busy'
    BY <2>5 DEF TypeOK, Busy, Write, Goto
  <2>6. ASSUME NEW t \in Threads, Sync(t) PROVE Busy'
    BY <2>6 DEF TypeOK, Busy, Sync, Goto
  <2>7. ASSUME NEW t \in Threads, Close(t) PROVE Busy'
    BY <2>7 DEF TypeOK, Busy, Close, Goto
  <2>8. ASSUME NEW t \in Threads, Rename(t) PROVE Busy'
    BY <2>8 DEF TypeOK, Busy, Rename, Goto
  <2>9. ASSUME NEW t \in Threads, NEW removed \in BOOLEAN, Fail(t, removed)
        PROVE Busy'
    BY <2>9 DEF TypeOK, Busy, Fail, HasTmp
  <2>10. ASSUME NEW t \in Threads, Unlock(t) PROVE Busy'
    BY <2>10, LeaveBusy DEF Unlock
  <2>11. ASSUME NEW p \in Procs, Kill(p) PROVE Busy'
    BY <2>11, LeaveBusy DEF Kill
  <2>12. ASSUME NEW d \in Dsts, Flush(d) PROVE Busy'
    BY <2>12 DEF Busy, Flush, thread
  <2>13. ASSUME NEW lost \in SUBSET Dsts, NEW torn \in SUBSET Unsynced,
                NEW kept \in SUBSET Procs, PowerLoss(lost, torn, kept)
         PROVE Busy'
    BY <2>13, LeaveBusy DEF PowerLoss
  <2>14. ASSUME NEW r \in Readers, ReaderOpen(r) \/ ReaderClose(r) PROVE Busy'
    BY <2>14 DEF Busy, ReaderOpen, ReaderClose, thread
  <2>15. CASE UNCHANGED vars
    BY <2>15 DEF Busy, vars, thread
  <2> QED
    BY <2>1, <2>2, <2>3, <2>4, <2>5, <2>6, <2>7, <2>8, <2>9, <2>10, <2>11,
       <2>12, <2>13, <2>14, <2>15 DEF Next, Work
<1> QED
  BY <1>1, <1>2, <1>3, PTL DEF Spec, Typed

\* Cache keeps its types: every reachable state assigns AtomicWrite's locals,
\* the file names and the descriptors values of the kinds they have.
THEOREM TypeCorrect == Spec => []TypeOK
  BY Typing, PTL DEF Typed

-----------------------------------------------------------------------------
(***************************************************************************)
(* The inductive invariant.                                                *)
(***************************************************************************)

\* The goroutine between acquireLock and releaseLock is the lock's holder.
LockInv == \A t \in Threads : pc[t] \in Critical <=> lock = t

\* How far the holder has come with its temporary file.
TmpInv == \A t \in Threads :
  /\ pc[t] \in HasTmp => TmpOf(t) # None
  /\ pc[t] \in {"write", "sync", "close"} => fd[t] = TmpOf(t)
  /\ pc[t] \in {"sync", "close", "rename"} => data[TmpOf(t)] = arg[t]
  /\ pc[t] \in {"close", "rename"} => TmpOf(t) \in synced

\* A temporary file shares its inode with no published, durable or open file
\* and with no other temporary file.
Apart == \A d \in Dsts, p \in Procs : tmp[d][p] # None =>
  /\ \A e \in Dsts : tmp[d][p] # link[e] /\ tmp[d][p] # dlink[e]
  /\ \A r \in Readers : tmp[d][p] # rfd[r]
  /\ \A e \in Dsts, q \in Procs : tmp[e][q] = tmp[d][p] => e = d /\ q = p

\* Others may see inode i: it is published, or may be after a power loss, or
\* a hook has it open.
Visible(i) == \/ \E d \in Dsts : i = link[d] \/ i = dlink[d]
              \/ \E r \in Readers : i = rfd[r]

\* What others may see is valid and on disk.
Sealed == \A i \in Inodes : Visible(i) => data[i] \in Valid /\ i \in synced

\* How far the holder has come with its two files.
Progress == \A t \in Threads :
  /\ pc[t] \in {"idle", "lock"} => dst[t] = "cache"
  /\ pc[t] # "unlock" => ret[t] = "none"
  /\ dst[t] = "meta" => WithMeta /\ Holds("cache") = arg[t]
  /\ ret[t] = "ok" => /\ Holds("cache") = arg[t]
                      /\ WithMeta => Holds("meta") = arg[t]

IInv == Typed /\ LockInv /\ TmpInv /\ Apart /\ Sealed /\ Progress

-----------------------------------------------------------------------------
(***************************************************************************)
(* Every step keeps each part of the invariant.                            *)
(***************************************************************************)

\* An inode that stays in use keeps its data when others are freed.
LEMMA Kept ==
  ASSUME TypeOK, Reclaim, NEW i \in Inodes,
         \/ Visible(i)'
         \/ \E d \in Dsts, p \in Procs : i = tmp'[d][p]
  PROVE  data'[i] = data[i] /\ (i \in synced <=> i \in synced')
  BY DEF TypeOK, Reclaim, Free, Visible

\* A published file whose inode keeps its data keeps its content.
LEMMA HoldsKept ==
  ASSUME TypeOK, Reclaim, UNCHANGED link, NEW d \in Dsts
  PROVE  Holds(d)' = Holds(d)
<1>1. ASSUME link[d] # None PROVE data'[link[d]] = data[link[d]]
  <2>1. link[d] \in Inodes /\ Visible(link[d])'
    BY <1>1 DEF TypeOK, Visible
  <2> QED
    BY <2>1, Kept
<1> QED
  BY <1>1 DEF Holds, Content

\* A write to an inode that nobody else sees changes no published file.
LEMMA HoldsApart ==
  ASSUME TypeOK, UNCHANGED link, NEW i \in Inodes, ~Visible(i),
         NEW c, data' = [data EXCEPT ![i] = c], NEW d \in Dsts
  PROVE  Holds(d)' = Holds(d)
  BY DEF TypeOK, Visible, Holds, Content

\* What OpenTmp opens is nobody else's.
LEMMA Opened ==
  ASSUME IInv, NEW t \in Threads, OpenTmp(t)
  PROVE  \E i \in Inodes :
           /\ ~Visible(i)
           /\ \A d \in Dsts, p \in Procs :
                tmp[d][p] = i => d = dst[t] /\ p = ProcOf[t]
           /\ tmp' = [tmp EXCEPT ![dst[t]][ProcOf[t]] = i]
           /\ fd' = [fd EXCEPT ![t] = i]
           /\ data' = [data EXCEPT ![i] = Torn]
           /\ synced' = synced \ {i}
           /\ pc[t] = "open" /\ pc' = [pc EXCEPT ![t] = "write"]
           /\ UNCHANGED <<link, dlink, lock, dst, arg, ret, rfd>>
<1> DEFINE i == IF TmpOf(t) = None THEN Created(dst[t]) ELSE TmpOf(t)
<1>1. i \in Inodes
  BY OpenedInode DEF IInv, Typed
<1>2. CASE TmpOf(t) = None
  <2>1. i \in Free
    BY <1>2, CreatedIsFree DEF OpenTmp
  <2>2. ~Visible(i) /\ \A d \in Dsts, p \in Procs : tmp[d][p] # i
    BY <2>1 DEF Free, Visible
  <2> QED
    BY <1>1, <2>2 DEF OpenTmp, Goto
<1>3. CASE TmpOf(t) # None
  <2>1. i = tmp[dst[t]][ProcOf[t]] /\ dst[t] \in Dsts /\ ProcOf[t] \in Procs
    BY <1>3, CacheAssumption DEF TmpOf, IInv, Typed, TypeOK
  <2>2. ~Visible(i)
    BY <1>1, <2>1, CacheAssumption DEF IInv, Apart, Visible
  <2>3. \A d \in Dsts, p \in Procs : tmp[d][p] = i => d = dst[t] /\ p = ProcOf[t]
    BY <1>1, <2>1, CacheAssumption DEF IInv, Apart
  <2> QED
    BY <1>1, <2>2, <2>3 DEF OpenTmp, Goto
<1> QED
  BY <1>2, <1>3

\* The holder's temporary file is an inode that nobody else sees.
LEMMA HoldersTmp ==
  ASSUME IInv, NEW t \in Threads, pc[t] \in HasTmp
  PROVE  /\ TmpOf(t) \in Inodes /\ ~Visible(TmpOf(t))
         /\ \A d \in Dsts, p \in Procs :
              tmp[d][p] = TmpOf(t) => d = dst[t] /\ p = ProcOf[t]
<1>1. TmpOf(t) # None /\ dst[t] \in Dsts /\ ProcOf[t] \in Procs
  BY CacheAssumption DEF IInv, TmpInv, Typed, TypeOK
<1>2. TmpOf(t) = tmp[dst[t]][ProcOf[t]] /\ TmpOf(t) \in Inodes
  BY <1>1 DEF TmpOf, IInv, Typed, TypeOK
<1> QED
  BY <1>1, <1>2 DEF IInv, Apart, Visible

\* Rename makes the holder's content the content of the file it replaces, and
\* leaves the other file alone.
LEMMA RenamePublishes ==
  ASSUME IInv, NEW t \in Threads, Rename(t)
  PROVE  /\ \A d \in Dsts : d = dst[t] => Holds(d)' = arg[t]
         /\ \A d \in Dsts : d # dst[t] => Holds(d)' = Holds(d)
<1>1. TmpOf(t) \in Inodes /\ data[TmpOf(t)] = arg[t] /\ TmpOf(t) # None
  BY HoldersTmp DEF Rename, Goto, HasTmp, IInv, TmpInv
<1>2. /\ link' = [link EXCEPT ![dst[t]] = TmpOf(t)] /\ Reclaim
      /\ dst[t] \in Dsts /\ TypeOK
  BY DEF Rename, IInv, Typed, TypeOK
<1>3. ASSUME NEW d \in Dsts, d = dst[t] PROVE Holds(d)' = arg[t]
  <2>1. link'[d] = TmpOf(t)
    BY <1>2, <1>3 DEF TypeOK
  <2>2. data'[TmpOf(t)] = data[TmpOf(t)]
    BY <1>1, <1>2, <2>1, Kept DEF Visible
  <2> QED
    BY <1>1, <2>1, <2>2 DEF Holds, Content
<1>4. ASSUME NEW d \in Dsts, d # dst[t] PROVE Holds(d)' = Holds(d)
  <2>1. link'[d] = link[d]
    BY <1>2, <1>4 DEF TypeOK
  <2>2. link[d] # None => data'[link[d]] = data[link[d]]
    BY <1>2, <2>1, Kept DEF Visible, TypeOK
  <2> QED
    BY <2>1, <2>2 DEF Holds, Content
<1> QED
  BY <1>3, <1>4

\* Only the holder of the lock is in the critical section.
LEMMA LockStep ==
  ASSUME IInv, [Next]_vars
  PROVE  LockInv'
<1>1. ASSUME NEW t \in Threads, NEW c \in Contents, Call(t, c) PROVE LockInv'
  BY <1>1 DEF IInv, Typed, TypeOK, LockInv, Critical, HasTmp, Call, Goto, fs
<1>2. ASSUME NEW t \in Threads, LockFail(t) PROVE LockInv'
  BY <1>2 DEF IInv, Typed, TypeOK, LockInv, Critical, HasTmp, LockFail,
     Leave, fs
<1>3. ASSUME NEW t \in Threads, Lock(t) PROVE LockInv'
  BY <1>3, CacheAssumption DEF IInv, Typed, TypeOK, LockInv, Critical, Lock,
     Goto, fs
<1>4. ASSUME NEW t \in Threads, OpenTmp(t) PROVE LockInv'
  BY <1>4 DEF IInv, Typed, TypeOK, LockInv, Critical, HasTmp, OpenTmp, Goto
<1>5. ASSUME NEW t \in Threads, Write(t) PROVE LockInv'
  BY <1>5 DEF IInv, Typed, TypeOK, LockInv, Critical, HasTmp, Write, Goto
<1>6. ASSUME NEW t \in Threads, Sync(t) PROVE LockInv'
  BY <1>6 DEF IInv, Typed, TypeOK, LockInv, Critical, HasTmp, Sync, Goto
<1>7. ASSUME NEW t \in Threads, Close(t) PROVE LockInv'
  BY <1>7 DEF IInv, Typed, TypeOK, LockInv, Critical, HasTmp, Close, Goto, fs
<1>8. ASSUME NEW t \in Threads, Rename(t) PROVE LockInv'
  BY <1>8 DEF IInv, Typed, TypeOK, LockInv, Critical, HasTmp, Rename, Goto,
     More
<1>9. ASSUME NEW t \in Threads, NEW removed \in BOOLEAN, Fail(t, removed)
        PROVE LockInv'
  BY <1>9 DEF IInv, Typed, TypeOK, LockInv, Critical, HasTmp, Fail
<1>10. ASSUME NEW t \in Threads, Unlock(t) PROVE LockInv'
  BY <1>10, CacheAssumption DEF IInv, Typed, TypeOK, LockInv, Critical,
     Unlock, Leave, fs
<1>11. ASSUME NEW p \in Procs, Kill(p) PROVE LockInv'
  BY <1>11, CacheAssumption DEF IInv, Typed, TypeOK, LockInv, Critical, Kill,
     Leave
<1>12. ASSUME NEW d \in Dsts, Flush(d) PROVE LockInv'
  BY <1>12 DEF IInv, Typed, TypeOK, LockInv, Critical, HasTmp, Flush, thread
<1>13. ASSUME NEW lost \in SUBSET Dsts, NEW torn \in SUBSET Unsynced,
             NEW kept \in SUBSET Procs, PowerLoss(lost, torn, kept)
        PROVE LockInv'
  BY <1>13, CacheAssumption DEF IInv, Typed, TypeOK, LockInv, Critical,
     PowerLoss, Leave, Unsynced
<1>14. ASSUME NEW r \in Readers, ReaderOpen(r) PROVE LockInv'
  BY <1>14 DEF IInv, Typed, TypeOK, LockInv, Critical, HasTmp, ReaderOpen,
     fs, thread
<1>15. ASSUME NEW r \in Readers, ReaderClose(r) PROVE LockInv'
  BY <1>15 DEF IInv, Typed, TypeOK, LockInv, Critical, HasTmp, ReaderClose,
     thread
<1>16. CASE UNCHANGED vars
  BY <1>16 DEF IInv, LockInv, Critical, HasTmp, vars, fs, thread
<1> QED
  BY <1>1, <1>2, <1>3, <1>4, <1>5, <1>6, <1>7, <1>8, <1>9, <1>10, <1>11,
     <1>12, <1>13, <1>14, <1>15, <1>16 DEF Next, Work

\* The holder knows its temporary file.
LEMMA TmpStep ==
  ASSUME IInv, [Next]_vars
  PROVE  TmpInv'
<1>1. ASSUME NEW t \in Threads, NEW c \in Contents, Call(t, c) PROVE TmpInv'
  BY <1>1 DEF IInv, Typed, TypeOK, LockInv, TmpInv, TmpOf, Critical, HasTmp,
     Call, Goto, fs
<1>2. ASSUME NEW t \in Threads, LockFail(t) PROVE TmpInv'
  BY <1>2 DEF IInv, Typed, TypeOK, LockInv, TmpInv, TmpOf, Critical, HasTmp,
     LockFail, Leave, fs
<1>3. ASSUME NEW t \in Threads, Lock(t) PROVE TmpInv'
  BY <1>3 DEF IInv, Typed, TypeOK, LockInv, TmpInv, TmpOf, Critical, HasTmp,
     Lock, Goto, fs
<1>4. ASSUME NEW t \in Threads, OpenTmp(t) PROVE TmpInv'
  <2>1. PICK i \in Inodes :
          /\ tmp' = [tmp EXCEPT ![dst[t]][ProcOf[t]] = i]
          /\ fd' = [fd EXCEPT ![t] = i]
          /\ pc[t] = "open" /\ pc' = [pc EXCEPT ![t] = "write"]
          /\ UNCHANGED <<lock, dst>>
    BY <1>4, Opened
  <2>2. tmp'[dst[t]][ProcOf[t]] = i /\ i # None
    BY <2>1, CacheAssumption DEF IInv, Typed, TypeOK
  <2>3. \A u \in Threads : u # t => pc[u] \notin Critical /\ pc'[u] = pc[u]
    BY <2>1 DEF IInv, LockInv, Typed, TypeOK, Critical
  <2> QED
    BY <2>1, <2>2, <2>3 DEF IInv, Typed, TypeOK, TmpInv, TmpOf, Critical, HasTmp
<1>5. ASSUME NEW t \in Threads, Write(t) PROVE TmpInv'
  BY <1>5, CacheAssumption DEF IInv, Typed, TypeOK, LockInv, TmpInv, TmpOf,
     Critical, HasTmp, Write, Goto
<1>6. ASSUME NEW t \in Threads, Sync(t) PROVE TmpInv'
  BY <1>6, CacheAssumption DEF IInv, Typed, TypeOK, LockInv, TmpInv, TmpOf,
     Critical, HasTmp, Sync, Goto
<1>7. ASSUME NEW t \in Threads, Close(t) PROVE TmpInv'
  BY <1>7 DEF IInv, Typed, TypeOK, LockInv, TmpInv, TmpOf, Critical, HasTmp,
     Close, Goto, fs
<1>8. ASSUME NEW t \in Threads, Rename(t) PROVE TmpInv'
  BY <1>8, CacheAssumption, Kept DEF IInv, Typed, TypeOK, LockInv, TmpInv,
     TmpOf, Critical, HasTmp, Rename, Goto, More
<1>9. ASSUME NEW t \in Threads, NEW removed \in BOOLEAN, Fail(t, removed)
        PROVE TmpInv'
  BY <1>9, CacheAssumption, Kept DEF IInv, Typed, TypeOK, LockInv, TmpInv,
     TmpOf, Critical, HasTmp, Fail
<1>10. ASSUME NEW t \in Threads, Unlock(t) PROVE TmpInv'
  BY <1>10 DEF IInv, Typed, TypeOK, LockInv, TmpInv, TmpOf, Critical, HasTmp,
     Unlock, Leave, fs
<1>11. ASSUME NEW p \in Procs, Kill(p) PROVE TmpInv'
  BY <1>11, CacheAssumption, Kept DEF IInv, Typed, TypeOK, LockInv, TmpInv,
     TmpOf, Critical, HasTmp, Kill, Leave
<1>12. ASSUME NEW d \in Dsts, Flush(d) PROVE TmpInv'
  BY <1>12, CacheAssumption, Kept DEF IInv, Typed, TypeOK, LockInv, TmpInv,
     TmpOf, Critical, HasTmp, Flush, thread
<1>13. ASSUME NEW lost \in SUBSET Dsts, NEW torn \in SUBSET Unsynced,
             NEW kept \in SUBSET Procs, PowerLoss(lost, torn, kept)
        PROVE TmpInv'
  BY <1>13 DEF IInv, Typed, TypeOK, LockInv, TmpInv, TmpOf, Critical, HasTmp,
     PowerLoss, Leave, Unsynced
<1>14. ASSUME NEW r \in Readers, ReaderOpen(r) PROVE TmpInv'
  BY <1>14 DEF IInv, Typed, TypeOK, LockInv, TmpInv, TmpOf, Critical, HasTmp,
     ReaderOpen, fs, thread
<1>15. ASSUME NEW r \in Readers, ReaderClose(r) PROVE TmpInv'
  BY <1>15, CacheAssumption, Kept DEF IInv, Typed, TypeOK, LockInv, TmpInv,
     TmpOf, Critical, HasTmp, ReaderClose, thread
<1>16. CASE UNCHANGED vars
  BY <1>16 DEF IInv, LockInv, TmpInv, TmpOf, Critical, HasTmp, vars, fs,
     thread
<1> QED
  BY <1>1, <1>2, <1>3, <1>4, <1>5, <1>6, <1>7, <1>8, <1>9, <1>10, <1>11,
     <1>12, <1>13, <1>14, <1>15, <1>16 DEF Next, Work

\* Temporary files stay apart from what others may see.
LEMMA ApartStep ==
  ASSUME IInv, [Next]_vars
  PROVE  Apart'
<1>1. ASSUME NEW t \in Threads, NEW c \in Contents, Call(t, c) PROVE Apart'
  BY <1>1 DEF IInv, Typed, TypeOK, Apart, Call, Goto, fs
<1>2. ASSUME NEW t \in Threads, LockFail(t) PROVE Apart'
  BY <1>2 DEF IInv, Typed, TypeOK, Apart, LockFail, Leave, fs
<1>3. ASSUME NEW t \in Threads, Lock(t) PROVE Apart'
  BY <1>3 DEF IInv, Typed, TypeOK, Apart, Lock, Goto, fs
<1>4. ASSUME NEW t \in Threads, OpenTmp(t) PROVE Apart'
  <2>1. PICK i \in Inodes :
          /\ ~Visible(i)
          /\ \A d \in Dsts, p \in Procs :
               tmp[d][p] = i => d = dst[t] /\ p = ProcOf[t]
          /\ tmp' = [tmp EXCEPT ![dst[t]][ProcOf[t]] = i]
          /\ UNCHANGED <<link, dlink, rfd>>
    BY <1>4, Opened
  <2> QED
    BY <2>1 DEF IInv, Typed, TypeOK, Apart, Visible
<1>5. ASSUME NEW t \in Threads, Write(t) PROVE Apart'
  BY <1>5 DEF IInv, Typed, TypeOK, Apart, Write, Goto
<1>6. ASSUME NEW t \in Threads, Sync(t) PROVE Apart'
  BY <1>6 DEF IInv, Typed, TypeOK, Apart, Sync, Goto
<1>7. ASSUME NEW t \in Threads, Close(t) PROVE Apart'
  BY <1>7 DEF IInv, Typed, TypeOK, Apart, Close, Goto, fs
<1>8. ASSUME NEW t \in Threads, Rename(t) PROVE Apart'
  <2>1. /\ TmpOf(t) \in Inodes
        /\ \A d \in Dsts, p \in Procs :
             tmp[d][p] = TmpOf(t) => d = dst[t] /\ p = ProcOf[t]
    BY <1>8, HoldersTmp DEF Rename, Goto, HasTmp
  <2>2. /\ link' = [link EXCEPT ![dst[t]] = TmpOf(t)]
        /\ tmp' = [tmp EXCEPT ![dst[t]][ProcOf[t]] = None]
        /\ UNCHANGED <<dlink, rfd>>
    BY <1>8 DEF Rename
  <2> QED
    BY <2>1, <2>2 DEF IInv, Typed, TypeOK, Apart
<1>9. ASSUME NEW t \in Threads, NEW removed \in BOOLEAN, Fail(t, removed)
        PROVE Apart'
  BY <1>9 DEF IInv, Typed, TypeOK, Apart, Fail
<1>10. ASSUME NEW t \in Threads, Unlock(t) PROVE Apart'
  BY <1>10 DEF IInv, Typed, TypeOK, Apart, Unlock, Leave, fs
<1>11. ASSUME NEW p \in Procs, Kill(p) PROVE Apart'
  BY <1>11 DEF IInv, Typed, TypeOK, Apart, Kill, Leave
<1>12. ASSUME NEW d \in Dsts, Flush(d) PROVE Apart'
  BY <1>12 DEF IInv, Typed, TypeOK, Apart, Flush, thread
<1>13. ASSUME NEW lost \in SUBSET Dsts, NEW torn \in SUBSET Unsynced,
             NEW kept \in SUBSET Procs, PowerLoss(lost, torn, kept)
        PROVE Apart'
  BY <1>13 DEF IInv, Typed, TypeOK, Apart, PowerLoss, Leave, Unsynced
<1>14. ASSUME NEW r \in Readers, ReaderOpen(r) PROVE Apart'
  BY <1>14, CacheAssumption DEF IInv, Typed, TypeOK, Apart, Dsts, ReaderOpen,
     fs, thread
<1>15. ASSUME NEW r \in Readers, ReaderClose(r) PROVE Apart'
  BY <1>15 DEF IInv, Typed, TypeOK, Apart, ReaderClose, thread
<1>16. CASE UNCHANGED vars
  BY <1>16 DEF IInv, Apart, vars, fs, thread
<1> QED
  BY <1>1, <1>2, <1>3, <1>4, <1>5, <1>6, <1>7, <1>8, <1>9, <1>10, <1>11,
     <1>12, <1>13, <1>14, <1>15, <1>16 DEF Next, Work

\* What others may see stays valid and on disk.
LEMMA SealedStep ==
  ASSUME IInv, [Next]_vars
  PROVE  Sealed'
<1>1. ASSUME NEW t \in Threads, NEW c \in Contents, Call(t, c) PROVE Sealed'
  BY <1>1 DEF IInv, Typed, TypeOK, Sealed, Visible, Call, Goto, fs
<1>2. ASSUME NEW t \in Threads, LockFail(t) PROVE Sealed'
  BY <1>2 DEF IInv, Typed, TypeOK, Sealed, Visible, LockFail, Leave, fs
<1>3. ASSUME NEW t \in Threads, Lock(t) PROVE Sealed'
  BY <1>3 DEF IInv, Typed, TypeOK, Sealed, Visible, Lock, Goto, fs
<1>4. ASSUME NEW t \in Threads, OpenTmp(t) PROVE Sealed'
  <2>1. PICK i \in Inodes :
          /\ ~Visible(i)
          /\ data' = [data EXCEPT ![i] = Torn]
          /\ synced' = synced \ {i}
          /\ UNCHANGED <<link, dlink, rfd>>
    BY <1>4, Opened
  <2> QED
    BY <2>1 DEF IInv, Typed, TypeOK, Sealed, Visible
<1>5. ASSUME NEW t \in Threads, Write(t) PROVE Sealed'
  <2>1. fd[t] \in Inodes /\ ~Visible(fd[t])
    BY <1>5, HoldersTmp DEF Write, Goto, HasTmp, IInv, TmpInv
  <2> QED
    BY <1>5, <2>1 DEF Write, IInv, Typed, TypeOK, Sealed, Visible
<1>6. ASSUME NEW t \in Threads, Sync(t) PROVE Sealed'
  BY <1>6 DEF IInv, Typed, TypeOK, Sealed, Visible, Sync, Goto
<1>7. ASSUME NEW t \in Threads, Close(t) PROVE Sealed'
  BY <1>7 DEF IInv, Typed, TypeOK, Sealed, Visible, Close, Goto, fs
<1>8. ASSUME NEW t \in Threads, Rename(t) PROVE Sealed'
  <2>1. /\ TmpOf(t) \in Inodes /\ data[TmpOf(t)] \in Valid /\ TmpOf(t) \in synced
    BY <1>8, HoldersTmp DEF Rename, Goto, HasTmp, IInv, TmpInv, Typed, Busy
  <2>2. /\ link' = [link EXCEPT ![dst[t]] = TmpOf(t)]
        /\ UNCHANGED <<dlink, rfd>> /\ Reclaim
    BY <1>8 DEF Rename
  <2>3. ASSUME NEW i \in Inodes, Visible(i)'
        PROVE  data[i] \in Valid /\ i \in synced
    BY <2>1, <2>2, <2>3 DEF IInv, Typed, TypeOK, Sealed, Visible
  <2> QED
    BY <2>2, <2>3, Kept DEF IInv, Typed, Sealed
<1>9. ASSUME NEW t \in Threads, NEW removed \in BOOLEAN, Fail(t, removed)
        PROVE Sealed'
  BY <1>9, Kept DEF IInv, Typed, TypeOK, Sealed, Visible, Fail
<1>10. ASSUME NEW t \in Threads, Unlock(t) PROVE Sealed'
  BY <1>10 DEF IInv, Typed, TypeOK, Sealed, Visible, Unlock, Leave, fs
<1>11. ASSUME NEW p \in Procs, Kill(p) PROVE Sealed'
  BY <1>11, Kept DEF IInv, Typed, TypeOK, Sealed, Visible, Kill, Leave
<1>12. ASSUME NEW d \in Dsts, Flush(d) PROVE Sealed'
  BY <1>12, Kept DEF IInv, Typed, TypeOK, Sealed, Visible, Flush, thread
<1>13. ASSUME NEW lost \in SUBSET Dsts, NEW torn \in SUBSET Unsynced,
             NEW kept \in SUBSET Procs, PowerLoss(lost, torn, kept)
        PROVE Sealed'
  <2>1. ASSUME NEW i \in Inodes, Visible(i)'
        PROVE  data[i] \in Valid /\ i \in synced
    <3>1. PICK d \in Dsts : i = link'[d]
      BY <1>13, <2>1, CacheAssumption DEF PowerLoss, Visible
    <3>2. i = link[d] \/ i = dlink[d]
      BY <1>13, <3>1 DEF PowerLoss
    <3> QED
      BY <3>2 DEF IInv, Sealed, Visible
  <2>2. ASSUME NEW i \in Inodes, Visible(i)' PROVE i \notin torn /\ i \notin Free'
    BY <2>1, <2>2 DEF Unsynced, Visible, Free
  <2> QED
    BY <1>13, <2>1, <2>2 DEF PowerLoss, Sealed
<1>14. ASSUME NEW r \in Readers, ReaderOpen(r) PROVE Sealed'
  BY <1>14, CacheAssumption DEF IInv, Typed, TypeOK, Sealed, Visible, Dsts,
     ReaderOpen, fs, thread
<1>15. ASSUME NEW r \in Readers, ReaderClose(r) PROVE Sealed'
  BY <1>15, CacheAssumption, Kept DEF IInv, Typed, TypeOK, Sealed, Visible,
     ReaderClose, thread
<1>16. CASE UNCHANGED vars
  BY <1>16 DEF IInv, Sealed, Visible, vars, fs, thread
<1> QED
  BY <1>1, <1>2, <1>3, <1>4, <1>5, <1>6, <1>7, <1>8, <1>9, <1>10, <1>11,
     <1>12, <1>13, <1>14, <1>15, <1>16 DEF Next, Work

\* The holder's files hold its argument as far as it has come.
LEMMA ProgressStep ==
  ASSUME IInv, [Next]_vars
  PROVE  Progress'
<1>1. ASSUME NEW t \in Threads, NEW c \in Contents, Call(t, c) PROVE Progress'
  BY <1>1, CacheAssumption DEF IInv, Typed, TypeOK, LockInv, Critical,
     Progress, Dsts, Holds, Content, Call, Goto, fs
<1>2. ASSUME NEW t \in Threads, LockFail(t) PROVE Progress'
  BY <1>2, CacheAssumption DEF IInv, Typed, TypeOK, LockInv, Critical,
     Progress, Dsts, Holds, Content, LockFail, Leave, fs
<1>3. ASSUME NEW t \in Threads, Lock(t) PROVE Progress'
  BY <1>3, CacheAssumption DEF IInv, Typed, TypeOK, LockInv, Critical,
     Progress, Dsts, Holds, Content, Lock, Goto, fs
<1>4. ASSUME NEW t \in Threads, OpenTmp(t) PROVE Progress'
  <2>1. PICK i \in Inodes :
          /\ ~Visible(i)
          /\ data' = [data EXCEPT ![i] = Torn]
          /\ pc[t] = "open" /\ pc' = [pc EXCEPT ![t] = "write"]
          /\ UNCHANGED <<link, dst, arg, ret>>
    BY <1>4, Opened
  <2>2. \A d \in Dsts : Holds(d)' = Holds(d)
    BY <2>1, HoldsApart DEF IInv, Typed
  <2> QED
    BY <2>1, <2>2 DEF IInv, Typed, TypeOK, Progress, Dsts
<1>5. ASSUME NEW t \in Threads, Write(t) PROVE Progress'
  <2>1. fd[t] \in Inodes /\ ~Visible(fd[t])
    BY <1>5, HoldersTmp DEF Write, Goto, HasTmp, IInv, TmpInv
  <2>2. \A d \in Dsts : Holds(d)' = Holds(d)
    BY <1>5, <2>1, HoldsApart DEF Write, IInv, Typed
  <2> QED
    BY <1>5, <2>2 DEF Write, Goto, IInv, Typed, TypeOK, Progress, Dsts
<1>6. ASSUME NEW t \in Threads, Sync(t) PROVE Progress'
  BY <1>6, CacheAssumption DEF IInv, Typed, TypeOK, LockInv, Critical,
     Progress, Dsts, Holds, Content, Sync, Goto
<1>7. ASSUME NEW t \in Threads, Close(t) PROVE Progress'
  BY <1>7, CacheAssumption DEF IInv, Typed, TypeOK, LockInv, Critical,
     Progress, Dsts, Holds, Content, Close, Goto, fs
<1>8. ASSUME NEW t \in Threads, Rename(t) PROVE Progress'
  <2>1. \A d \in Dsts : d = dst[t] => Holds(d)' = arg[t]
    BY <1>8, RenamePublishes
  <2>2. dst[t] = "meta" => Holds("cache")' = arg[t]
    BY <1>8, RenamePublishes DEF IInv, Progress, Dsts
  <2>3. \A u \in Threads : u # t => pc[u] \in {"idle", "lock"}
    BY <1>8 DEF Rename, Goto, IInv, LockInv, Typed, TypeOK, Critical
  <2>4. /\ pc' = [pc EXCEPT ![t] = IF More(t) THEN "open" ELSE "unlock"]
        /\ dst' = [dst EXCEPT ![t] = IF More(t) THEN "meta" ELSE @]
        /\ ret' = [ret EXCEPT ![t] = IF More(t) THEN @ ELSE "ok"]
        /\ arg' = arg /\ pc[t] = "rename" /\ dst[t] \in Dsts
    BY <1>8 DEF Rename, Goto, IInv, Typed, TypeOK
  <2>5. ASSUME NEW u \in Threads, u # t
        PROVE  pc'[u] \in {"idle", "lock"} /\ dst'[u] = "cache" /\ ret'[u] = "none"
    BY <2>3, <2>4, <2>5 DEF IInv, Progress, Typed, TypeOK
  <2>6. CASE More(t)
    <3>1. /\ dst[t] = "cache" /\ dst'[t] = "meta" /\ WithMeta
          /\ ret'[t] = "none" /\ pc'[t] = "open"
      BY <2>4, <2>6 DEF More, IInv, Progress, Typed, TypeOK
    <3> QED
      BY <2>1, <2>4, <2>5, <3>1 DEF Progress, Dsts
  <2>7. CASE ~More(t)
    <3>1. /\ dst'[t] = dst[t] /\ ret'[t] = "ok" /\ pc'[t] = "unlock"
          /\ dst[t] = "cache" => ~WithMeta
          /\ dst[t] = "meta" => WithMeta
      BY <2>4, <2>7 DEF More, IInv, Progress, Typed, TypeOK
    <3> QED
      BY <2>1, <2>2, <2>4, <2>5, <3>1 DEF Progress, Dsts
  <2> QED
    BY <2>6, <2>7
<1>9. ASSUME NEW t \in Threads, NEW removed \in BOOLEAN, Fail(t, removed)
        PROVE Progress'
  BY <1>9, HoldsKept DEF IInv, Typed, TypeOK, LockInv, Critical, Progress,
     Dsts, Fail, HasTmp
<1>10. ASSUME NEW t \in Threads, Unlock(t) PROVE Progress'
  BY <1>10, CacheAssumption DEF IInv, Typed, TypeOK, LockInv, Critical,
     Progress, Dsts, Holds, Content, Unlock, Leave, fs
<1>11. ASSUME NEW p \in Procs, Kill(p) PROVE Progress'
  BY <1>11, HoldsKept DEF IInv, Typed, TypeOK, LockInv, Critical, Progress,
     Dsts, Kill, Leave
<1>12. ASSUME NEW d \in Dsts, Flush(d) PROVE Progress'
  BY <1>12, HoldsKept DEF IInv, Typed, TypeOK, LockInv, Critical, Progress,
     Dsts, Flush, thread
<1>13. ASSUME NEW lost \in SUBSET Dsts, NEW torn \in SUBSET Unsynced,
             NEW kept \in SUBSET Procs, PowerLoss(lost, torn, kept)
        PROVE Progress'
  BY <1>13 DEF IInv, Typed, TypeOK, LockInv, Critical, Progress, Dsts,
     PowerLoss, Leave, Unsynced
<1>14. ASSUME NEW r \in Readers, ReaderOpen(r) PROVE Progress'
  BY <1>14, CacheAssumption DEF IInv, Typed, TypeOK, LockInv, Critical,
     Progress, Dsts, Holds, Content, ReaderOpen, fs, thread
<1>15. ASSUME NEW r \in Readers, ReaderClose(r) PROVE Progress'
  BY <1>15, HoldsKept DEF IInv, Typed, TypeOK, LockInv, Critical, Progress,
     Dsts, ReaderClose, thread
<1>16. CASE UNCHANGED vars
  BY <1>16 DEF IInv, LockInv, Critical, Progress, Dsts, Holds, Content, vars,
     fs, thread
<1> QED
  BY <1>1, <1>2, <1>3, <1>4, <1>5, <1>6, <1>7, <1>8, <1>9, <1>10, <1>11,
     <1>12, <1>13, <1>14, <1>15, <1>16 DEF Next, Work

\* The inductive invariant holds in every behaviour.
LEMMA Invariance == Spec => []IInv
<1>1. Init => IInv
  <2> SUFFICES ASSUME Init PROVE IInv
    OBVIOUS
  <2>1. Typed
    BY CacheAssumption DEF Init, Typed, TypeOK, Busy, Dsts
  <2>2. LockInv
    BY CacheAssumption DEF Init, LockInv, Critical
  <2>3. TmpInv /\ Apart /\ Progress
    BY CacheAssumption DEF Init, TmpInv, HasTmp, Apart, Progress, Dsts
  <2>4. Sealed
    BY CacheAssumption DEF Init, Sealed, Visible
  <2> QED
    BY <2>1, <2>2, <2>3, <2>4 DEF IInv
<1>2. Typed' /\ IInv /\ [Next]_vars => IInv'
  BY LockStep, TmpStep, ApartStep, SealedStep, ProgressStep DEF IInv
<1> QED
  BY <1>1, <1>2, Typing, PTL DEF Spec

-----------------------------------------------------------------------------
(***************************************************************************)
(* What follows from the invariant.                                        *)
(***************************************************************************)

\* Every hook, at every moment of its read, has a whole validated
\* configuration open: rename never exposes a file still being written.
THEOREM NoHookReadsATornFile == Spec => []NoTornRead
<1>1. IInv => NoTornRead
  BY DEF IInv, Sealed, Visible, NoTornRead, Typed, TypeOK
<1> QED
  BY <1>1, Invariance, PTL

\* The published files and their last durable versions are validated and
\* fsynced: a power loss at any moment leaves a usable configuration.
THEOREM PublishedFilesAreDurable == Spec => []PublishedIsDurable
<1>1. IInv => PublishedIsDurable
  BY DEF IInv, Sealed, Visible, PublishedIsDurable
<1> QED
  BY <1>1, Invariance, PTL

\* AtomicWrite that returns nil has published its content in both files, and
\* nobody has replaced either before it gives the lock back.
THEOREM AcknowledgedIsPublished == Spec => []AckMeansPublished
<1>1. IInv => AckMeansPublished
  BY DEF IInv, Progress, AckMeansPublished
<1> QED
  BY <1>1, Invariance, PTL

-----------------------------------------------------------------------------
(***************************************************************************)
(* Cache implements PublishedConfig.                                       *)
(***************************************************************************)

\* A step that leaves every visible inode and every visible name alone is
\* invisible to PublishedConfig.
LEMMA Invisible ==
  ASSUME TypeOK, UNCHANGED <<link, dlink, rfd>>,
         \A i \in Inodes : Visible(i) => data'[i] = data[i]
  PROVE  UNCHANGED PC!vars
<1>1. \A d \in Dsts : Content(link[d])' = Content(link[d])
  BY DEF TypeOK, Visible, Content
<1>2. \A d \in Dsts : Content(dlink[d])' = Content(dlink[d])
  BY DEF TypeOK, Visible, Content
<1>3. \A r \in Readers : Content(rfd[r])' = Content(rfd[r])
  BY DEF TypeOK, Visible, Content
<1> QED
  BY <1>1, <1>2, <1>3 DEF PC!vars

\* Freeing inodes is invisible.
LEMMA ReclaimInvisible ==
  ASSUME TypeOK, UNCHANGED <<link, dlink, rfd>>, Reclaim
  PROVE  UNCHANGED PC!vars
<1>1. \A i \in Inodes : Visible(i) => data'[i] = data[i]
  BY Kept DEF Visible
<1> QED
  BY <1>1, Invisible

\* Every step is one of PublishedConfig, or a stutter.
LEMMA StepImplements ==
  ASSUME IInv, [Next]_vars
  PROVE  [PC!Next]_(PC!vars)
<1> USE DEF IInv, Typed
<1>1. ASSUME NEW t \in Threads, NEW c \in Contents, Call(t, c)
      PROVE UNCHANGED PC!vars
  BY <1>1, Invisible DEF Call, fs
<1>2. ASSUME NEW t \in Threads, LockFail(t) \/ Unlock(t) PROVE UNCHANGED PC!vars
  BY <1>2, Invisible DEF LockFail, Unlock, fs
<1>3. ASSUME NEW t \in Threads, Lock(t) \/ Sync(t) \/ Close(t)
      PROVE UNCHANGED PC!vars
  BY <1>3, Invisible DEF Lock, Sync, Close, fs
<1>4. ASSUME NEW t \in Threads, OpenTmp(t) PROVE UNCHANGED PC!vars
  <2>1. PICK i \in Inodes : /\ ~Visible(i)
                            /\ data' = [data EXCEPT ![i] = Torn]
                            /\ UNCHANGED <<link, dlink, rfd>>
    BY <1>4, Opened
  <2>2. \A j \in Inodes : Visible(j) => data'[j] = data[j]
    BY <2>1 DEF TypeOK
  <2> QED
    BY <2>1, <2>2, Invisible
<1>5. ASSUME NEW t \in Threads, Write(t) PROVE UNCHANGED PC!vars
  <2>1. fd[t] \in Inodes /\ ~Visible(fd[t])
    BY <1>5, HoldersTmp DEF Write, Goto, HasTmp, TmpInv
  <2>2. \A j \in Inodes : Visible(j) => data'[j] = data[j]
    BY <1>5, <2>1 DEF Write, TypeOK
  <2> QED
    BY <1>5, <2>2, Invisible DEF Write
<1>6. ASSUME NEW t \in Threads, NEW removed \in BOOLEAN, Fail(t, removed)
      PROVE UNCHANGED PC!vars
  BY <1>6, ReclaimInvisible DEF Fail
<1>7. ASSUME NEW p \in Procs, Kill(p) PROVE UNCHANGED PC!vars
  BY <1>7, ReclaimInvisible DEF Kill
<1>8. ASSUME NEW t \in Threads, Rename(t) PROVE PC!Next
  <2>1. /\ UNCHANGED <<dlink, rfd>> /\ Reclaim /\ TypeOK /\ dst[t] \in Dsts
        /\ arg[t] \in Valid
    BY <1>8 DEF Rename, Goto, TypeOK, Busy
  <2>2. \A i \in Inodes : Visible(i)' => data'[i] = data[i]
    BY <2>1, Kept
  <2>3. \A d \in Dsts : Content(dlink[d])' = Content(dlink[d])
    BY <2>1, <2>2 DEF TypeOK, Visible, Content
  <2>4. \A r \in Readers : Content(rfd[r])' = Content(rfd[r])
    BY <2>1, <2>2 DEF TypeOK, Visible, Content
  <2>5. \A d \in Dsts : Content(link[d])' =
                          IF d = dst[t] THEN arg[t] ELSE Content(link[d])
    BY <1>8, RenamePublishes DEF Holds
  <2>6. CASE dst[t] = "cache"
    <3>1. PC!PublishCache(arg[t])
      BY <2>3, <2>4, <2>5, <2>6 DEF PC!PublishCache, Dsts
    <3> QED
      BY <2>1, <3>1 DEF PC!Next
  <2>7. CASE dst[t] = "meta"
    <3>1. Content(link["cache"]) = arg[t]
      BY <2>7 DEF Progress, Holds
    <3>2. PC!PublishMeta
      BY <2>3, <2>4, <2>5, <2>7, <3>1 DEF PC!PublishMeta, Dsts
    <3> QED
      BY <3>2 DEF PC!Next
  <2> QED
    BY <2>1, <2>6, <2>7 DEF Dsts
<1>9. ASSUME NEW d \in Dsts, Flush(d) PROVE PC!Next
  <2>1. /\ UNCHANGED <<link, rfd>> /\ Reclaim /\ TypeOK
        /\ dlink' = [dlink EXCEPT ![d] = link[d]]
    BY <1>9 DEF Flush
  <2>2. \A i \in Inodes : Visible(i)' => data'[i] = data[i]
    BY <2>1, Kept
  <2>3. \A e \in Dsts : Content(link[e])' = Content(link[e])
    BY <2>1, <2>2 DEF TypeOK, Visible, Content
  <2>4. \A r \in Readers : Content(rfd[r])' = Content(rfd[r])
    BY <2>1, <2>2 DEF TypeOK, Visible, Content
  <2>5. \A e \in Dsts : Content(dlink[e])' =
                          IF e = d THEN Content(link[d]) ELSE Content(dlink[e])
    BY <2>1, <2>2 DEF TypeOK, Visible, Content
  <2>6. PC!Persist(d)
    BY <2>3, <2>4, <2>5 DEF PC!Persist, Dsts
  <2> QED
    BY <2>6 DEF PC!Next, PC!Dsts, Dsts
<1>10. ASSUME NEW lost \in SUBSET Dsts, NEW torn \in SUBSET Unsynced,
              NEW kept \in SUBSET Procs, PowerLoss(lost, torn, kept)
       PROVE PC!Next
  <2>1. /\ link' = [d \in Dsts |-> IF d \in lost THEN dlink[d] ELSE link[d]]
        /\ dlink' = link'
        /\ rfd' = [r \in Readers |-> None]
    BY <1>10 DEF PowerLoss
  <2>2. \A i \in Inodes : Visible(i)' => data'[i] = data[i]
    <3>1. ASSUME NEW i \in Inodes, Visible(i)'
          PROVE  i \in synced /\ i \notin Free'
      BY <2>1, <3>1, CacheAssumption DEF Visible, Sealed, Free
    <3> QED
      BY <1>10, <3>1 DEF PowerLoss, Unsynced
  <2>3. \A d \in Dsts : Content(link[d])' =
            IF d \in lost THEN Content(dlink[d]) ELSE Content(link[d])
    BY <2>1, <2>2 DEF TypeOK, Visible, Content
  <2>4. \A d \in Dsts : Content(dlink[d])' = Content(link[d])'
    BY <2>1
  <2>5. \A r \in Readers : Content(rfd[r])' = None
    BY <2>1 DEF Content
  <2>6. PC!Crash(lost)
    BY <2>3, <2>4, <2>5 DEF PC!Crash, PC!Dsts, Dsts
  <2> QED
    BY <2>6 DEF PC!Next, PC!Dsts, Dsts
<1>11. ASSUME NEW r \in Readers, ReaderOpen(r) PROVE PC!Next
  <2>1. UNCHANGED <<link, dlink, data>> /\ rfd' = [rfd EXCEPT ![r] = link["cache"]]
    BY <1>11 DEF ReaderOpen, fs
  <2>2. \A q \in Readers : Content(rfd[q])' =
            IF q = r THEN Content(link["cache"]) ELSE Content(rfd[q])
    BY <2>1 DEF TypeOK, Content
  <2>3. \A d \in Dsts : /\ Content(link[d])' = Content(link[d])
                        /\ Content(dlink[d])' = Content(dlink[d])
    BY <2>1 DEF Content
  <2>4. PC!Snapshot(r)
    BY <2>2, <2>3 DEF PC!Snapshot, Dsts
  <2> QED
    BY <2>4 DEF PC!Next
<1>12. ASSUME NEW r \in Readers, ReaderClose(r) PROVE PC!Next
  <2>1. /\ UNCHANGED <<link, dlink>> /\ rfd' = [rfd EXCEPT ![r] = None]
        /\ Reclaim /\ TypeOK
    BY <1>12 DEF ReaderClose
  <2>2. \A i \in Inodes : Visible(i)' => data'[i] = data[i]
    BY <2>1, Kept
  <2>3. \A d \in Dsts : /\ Content(link[d])' = Content(link[d])
                        /\ Content(dlink[d])' = Content(dlink[d])
    BY <2>1, <2>2 DEF TypeOK, Visible, Content
  <2>4. \A q \in Readers : Content(rfd[q])' =
            IF q = r THEN None ELSE Content(rfd[q])
    BY <2>1, <2>2 DEF TypeOK, Visible, Content
  <2>5. PC!Release(r)
    BY <2>3, <2>4 DEF PC!Release, Dsts
  <2> QED
    BY <2>5 DEF PC!Next
<1>13. CASE UNCHANGED vars
  BY <1>13, Invisible DEF vars, fs
<1> QED
  BY <1>1, <1>2, <1>3, <1>4, <1>5, <1>6, <1>7, <1>8, <1>9, <1>10, <1>11,
     <1>12, <1>13 DEF Next, Work

\* AtomicWrite under the flock, with temporary files, failures, deaths and
\* power losses, behaves as two registers that change in one step each, to a
\* valid configuration and to what describes it.
THEOREM CacheImplementsPublishedConfig == Spec => Implements
<1>1. Init => PC!Init
  BY DEF Init, PC!Init, PC!Dsts, Dsts, Content
<1>2. IInv /\ [Next]_vars => [PC!Next]_(PC!vars)
  BY StepImplements
<1> QED
  BY <1>1, <1>2, Invariance, PTL DEF Spec, Implements, PC!Spec
=============================================================================
