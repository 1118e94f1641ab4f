------------------------------ MODULE UnixLock ------------------------------
(***************************************************************************)
(* unixLock(), posixUnlock(), unixClose() and the open of a database file  *)
(* in os_unix.c: how handles, of threads of several processes, share the   *)
(* locks POSIX gives to a process.  One action is one fcntl() with what    *)
(* the thread does to the records of the inode around it.  An inode record *)
(* lives in a process and is guarded by a mutex of the process.            *)
(***************************************************************************)
EXTENDS Integers, FiniteSets

CONSTANTS
    Proc,       \* processes
    File,       \* file handles (sqlite3_file) that connections may open
    ProcOf,     \* the process of a handle
    MaxFd,      \* bound: descriptors a process has on the file
    MaxFail     \* bound: calls of fcntl() that fail other than by refusal

ASSUME UnixLockAssumption ==
    /\ ProcOf \in [File -> Proc]
    /\ IsFiniteSet(File)
    /\ MaxFd \in Nat /\ MaxFail \in Nat

VARIABLES
    pc,         \* where the thread that uses a handle is
    closing,    \* the handles inside unixClose()
    pLock,      \* unixFile.eFileLock
    iLock,      \* unixInodeInfo.eFileLock, .nShared, .nLock, and the
    nShared,    \*   length of the list .pUnused
    nLock,
    nUnused,
    kern,       \* the locks the system keeps for each process
    nFail       \* failed calls so far

recVars == <<iLock, nShared, nLock, nUnused>>
vars == <<pc, closing, pLock, recVars, kern, nFail>>

NO == 0
SHARED == 1
RESERVED == 2
PENDING == 3
EXCLUSIVE == 4

Region == {"pending", "reserved", "shared"}   \* PENDING_BYTE, RESERVED_BYTE, SHARED_FIRST
Mode == {"none", "read", "write"}
NoLocks == [r \in Region |-> "none"]

Init ==
    /\ pc = [f \in File |-> "closed"]
    /\ closing = {}
    /\ pLock = [f \in File |-> NO]
    /\ iLock = [p \in Proc |-> NO]
    /\ nShared = [p \in Proc |-> 0]
    /\ nLock = [p \in Proc |-> 0]
    /\ nUnused = [p \in Proc |-> 0]
    /\ kern = [p \in Proc |-> NoLocks]
    /\ nFail = 0

-----------------------------------------------------------------------------
(* fcntl(F_SETLK) on one region, by process p: locks of other processes can
   make it refuse, its own never do. *)
CanRead(p, r) == \A q \in Proc \ {p} : kern[q][r] # "write"
CanWrite(p, r) == \A q \in Proc \ {p} : kern[q][r] = "none"
SetRegion(p, r, m) == kern' = [kern EXCEPT ![p][r] = m]

(* close() of any descriptor of the file drops all locks of the process. *)
DropLocks(p) == kern' = [kern EXCEPT ![p] = NoLocks]

(* The system fails a call. *)
Fail == nFail < MaxFail /\ nFail' = nFail + 1 /\ UNCHANGED kern
NoFail == UNCHANGED nFail

FilesOf(p) == {f \in File : ProcOf[f] = p}
(* The handles counted by unixInodeInfo.nRef. *)
Opened(p) == {f \in FilesOf(p) : pc[f] \notin {"closed", "opening"}}
(* Descriptors in use: one for each handle, and those put aside. *)
NumFds(p) == nUnused[p] + Cardinality({f \in FilesOf(p) : pc[f] # "closed"})

(* Places where a thread is outside the mutex of the process. *)
Outside == {"closed", "opening", "idle", "leaveShared", "leaveNo", "release"}
MutexFree(p) == \A g \in FilesOf(p) : pc[g] \in Outside

(* Between two calls the application may lock; it, or unixClose(), unlocks. *)
MayUnlock(f) == pc[f] = "idle" /\ MutexFree(ProcOf[f])
MayLock(f) == MayUnlock(f) /\ f \notin closing

Goto(f, place) == pc' = [pc EXCEPT ![f] = place]
(* A call has ended: unixClose() goes on, whatever unixUnlock() returned. *)
Return(f) == Goto(f, IF f \in closing THEN "release" ELSE "idle")
SetBoth(f, l) == /\ pLock' = [pLock EXCEPT ![f] = l]
                 /\ iLock' = [iLock EXCEPT ![ProcOf[f]] = l]

-----------------------------------------------------------------------------
(* unixOpen(): take over a descriptor put aside with the same flags, or open
   one; then find or make the record of the inode. *)
OpenFd(f) ==
    LET p == ProcOf[f] IN
    /\ pc[f] = "closed"
    /\ MutexFree(p)
    /\ \/ nUnused[p] > 0 /\ nUnused' = [nUnused EXCEPT ![p] = @ - 1]
       \/ NumFds(p) < MaxFd /\ UNCHANGED nUnused
    /\ Goto(f, "opening")
    /\ UNCHANGED <<closing, pLock, iLock, nShared, nLock, kern, nFail>>

OpenDone(f) ==
    /\ pc[f] = "opening"
    /\ MutexFree(ProcOf[f])
    /\ Goto(f, "idle")
    /\ UNCHANGED <<closing, pLock, recVars, kern, nFail>>

(* findInodeInfo() has no memory for a new record; the descriptor is closed. *)
OpenFails(f) ==
    LET p == ProcOf[f] IN
    /\ pc[f] = "opening"
    /\ MutexFree(p)
    /\ Opened(p) = {}
    /\ DropLocks(p)
    /\ Goto(f, "closed")
    /\ UNCHANGED <<closing, pLock, recVars, nFail>>

(* Mutant: a handle that joins is not counted. *)
Joined_Not(p) == nShared[p]

Joined(p) == nShared[p] + 1

(* SHARED, when a handle of the same process has SHARED or RESERVED. *)
LockJoin(f) ==
    LET p == ProcOf[f] IN
    /\ MayLock(f)
    /\ pLock[f] = NO
    /\ iLock[p] \in {SHARED, RESERVED}
    /\ pLock' = [pLock EXCEPT ![f] = SHARED]
    /\ nShared' = [nShared EXCEPT ![p] = Joined(p)]
    /\ nLock' = [nLock EXCEPT ![p] = @ + 1]
    /\ UNCHANGED <<pc, closing, iLock, nUnused, kern, nFail>>

(* SHARED, when no handle of the process has a lock: PENDING for a moment,
   the shared range, PENDING back. *)
LockSharedPending(f) ==
    LET p == ProcOf[f] IN
    /\ MayLock(f)
    /\ pLock[f] = NO
    /\ iLock[p] = NO
    /\ CanRead(p, "pending")
    /\ SetRegion(p, "pending", "read")
    /\ Goto(f, "rdShared")
    /\ UNCHANGED <<closing, pLock, recVars, nFail>>

LockSharedRange(f) ==
    LET p == ProcOf[f] IN
    /\ pc[f] = "rdShared"
    /\ \/ CanRead(p, "shared") /\ SetRegion(p, "shared", "read") /\ NoFail /\ Goto(f, "rdOk")
       \/ ~CanRead(p, "shared") /\ NoFail /\ UNCHANGED kern /\ Goto(f, "rdBusy")
       \/ Fail /\ Goto(f, "rdBusy")
    /\ UNCHANGED <<closing, pLock, recVars>>

(* Mutant: a refusal leaves by the short way. *)
DropTempPending_IfOk(f) ==
    /\ IF pc[f] = "rdOk" THEN SetRegion(ProcOf[f], "pending", "none") ELSE UNCHANGED kern
    /\ NoFail

DropTempPending(f) == SetRegion(ProcOf[f], "pending", "none") /\ NoFail

LockSharedDone(f) ==
    LET p == ProcOf[f] IN
    /\ pc[f] \in {"rdOk", "rdBusy"}
    /\ Goto(f, "idle")
    /\ \/ /\ pc[f] = "rdOk" /\ DropTempPending(f)
          /\ SetBoth(f, SHARED)
          /\ nLock' = [nLock EXCEPT ![p] = @ + 1]
          /\ nShared' = [nShared EXCEPT ![p] = 1]
       \/ /\ (pc[f] = "rdBusy" /\ DropTempPending(f)) \/ Fail
          /\ UNCHANGED <<pLock, iLock, nLock, nShared>>
    /\ UNCHANGED <<closing, nUnused>>

(* RESERVED; refused when another handle of the process is above SHARED. *)
LockReserved(f) ==
    LET p == ProcOf[f] IN
    /\ MayLock(f)
    /\ pLock[f] = SHARED
    /\ iLock[p] = pLock[f]
    /\ CanWrite(p, "reserved")
    /\ SetRegion(p, "reserved", "write")
    /\ SetBoth(f, RESERVED)
    /\ UNCHANGED <<pc, closing, nShared, nLock, nUnused, nFail>>

(* EXCLUSIVE, in two calls; the first is left out when PENDING is held. *)
LockExclPending(f) ==
    LET p == ProcOf[f] IN
    /\ MayLock(f)
    /\ pLock[f] \in {SHARED, RESERVED}
    /\ iLock[p] = pLock[f]
    /\ CanWrite(p, "pending")
    /\ SetRegion(p, "pending", "write")
    /\ Goto(f, "wrShared")
    /\ UNCHANGED <<closing, pLock, recVars, nFail>>

(* Mutant: readers of the same process are not looked for. *)
Alone_Always(f) == TRUE

Alone(f) == nShared[ProcOf[f]] <= 1

AtExclRange(f) ==
    \/ pc[f] = "wrShared"
    \/ MayLock(f) /\ pLock[f] = PENDING /\ iLock[ProcOf[f]] = pLock[f]

LockExclRange(f) ==
    LET p == ProcOf[f] IN
    /\ AtExclRange(f)
    /\ \/ /\ Alone(f) /\ CanWrite(p, "shared")
          /\ SetRegion(p, "shared", "write") /\ NoFail /\ SetBoth(f, EXCLUSIVE)
       \/ /\ ~Alone(f) \/ ~CanWrite(p, "shared")
          /\ UNCHANGED kern /\ NoFail /\ SetBoth(f, PENDING)
       \/ Alone(f) /\ Fail /\ SetBoth(f, PENDING)
    /\ Goto(f, "idle")
    /\ UNCHANGED <<closing, nShared, nLock, nUnused>>

-----------------------------------------------------------------------------
(* posixUnlock() down to SHARED begins by making the shared range a read
   lock. *)
UnlockReadBack(f) ==
    LET p == ProcOf[f] IN
    /\ MayLock(f)
    /\ pLock[f] > SHARED
    /\ \/ /\ CanRead(p, "shared") /\ SetRegion(p, "shared", "read")
          /\ NoFail /\ Goto(f, "dropWriter")
       \/ Fail /\ Return(f)
    /\ UNCHANGED <<closing, pLock, recVars>>

(* PENDING_BYTE and RESERVED_BYTE in one call; the way to SHARED ends here
   and the way to NO goes on. *)
UnlockWriter(f) ==
    LET p == ProcOf[f]
        toNo == pc[f] = "idle"
    IN
    /\ pc[f] = "dropWriter" \/ MayUnlock(f)
    /\ pLock[f] > SHARED
    /\ \/ /\ kern' = [kern EXCEPT ![p]["pending"] = "none", ![p]["reserved"] = "none"]
          /\ iLock' = [iLock EXCEPT ![p] = SHARED]
          /\ NoFail
          /\ Goto(f, IF toNo THEN "dropAll" ELSE "leaveShared")
       \/ Fail /\ Return(f) /\ UNCHANGED iLock
    /\ UNCHANGED <<closing, pLock, nShared, nLock, nUnused>>

(* With the last lock of the process closePendingFds() is called. *)
LastLock(p) == nLock[p] = 1

(* Down to NO: the last handle that shares drops the locks, and the
   descriptors put aside are closed. *)
UnlockAll(f) ==
    LET p == ProcOf[f]
        last == nShared[p] = 1
        close == LastLock(p) /\ nUnused[p] > 0
    IN
    /\ pc[f] = "dropAll" \/ (MayUnlock(f) /\ pLock[f] = SHARED)
    /\ nShared' = [nShared EXCEPT ![p] = @ - 1]
    /\ nLock' = [nLock EXCEPT ![p] = @ - 1]
    /\ nUnused' = [nUnused EXCEPT ![p] = IF LastLock(p) THEN 0 ELSE @]
    /\ iLock' = [iLock EXCEPT ![p] = IF last THEN NO ELSE @]
    /\ \/ /\ IF last \/ close THEN DropLocks(p) ELSE UNCHANGED kern
          /\ NoFail /\ Goto(f, "leaveNo") /\ UNCHANGED pLock
       \/ /\ last /\ nFail < MaxFail /\ nFail' = nFail + 1
          /\ IF close THEN DropLocks(p) ELSE UNCHANGED kern
          /\ Return(f) /\ pLock' = [pLock EXCEPT ![f] = NO]
    /\ UNCHANGED closing

(* The level of the handle itself is set outside the mutex. *)
UnlockDone(f) ==
    /\ pc[f] \in {"leaveShared", "leaveNo"}
    /\ pLock' = [pLock EXCEPT ![f] = IF pc[f] = "leaveNo" THEN NO ELSE SHARED]
    /\ Return(f)
    /\ UNCHANGED <<closing, recVars, kern, nFail>>

-----------------------------------------------------------------------------
(* unixClose() first unlocks. *)
Close(f) ==
    /\ pc[f] = "idle" /\ f \notin closing
    /\ closing' = closing \cup {f}
    /\ Goto(f, IF pLock[f] = NO THEN "release" ELSE "idle")
    /\ UNCHANGED <<pLock, recVars, kern, nFail>>

(* Mutants: a reference to the record is lost; the descriptor is closed at
   once. *)
LastOpen_Never(f) == FALSE
PutAside_Never(f) == FALSE

LastOpen(f) == Opened(ProcOf[f]) = {f}

(* The descriptor of f cannot be closed while the process has locks. *)
PutAside(f) == nLock[ProcOf[f]] > 0

(* releaseInodeInfo(): the last handle takes the record with it. *)
ReleaseRecord(f) ==
    LET p == ProcOf[f] IN
    IF LastOpen(f)
    THEN /\ iLock' = [iLock EXCEPT ![p] = NO]
         /\ nShared' = [nShared EXCEPT ![p] = 0]
         /\ nLock' = [nLock EXCEPT ![p] = 0]
         /\ nUnused' = [nUnused EXCEPT ![p] = 0]
    ELSE /\ nUnused' = [nUnused EXCEPT ![p] = IF PutAside(f) THEN @ + 1 ELSE @]
         /\ UNCHANGED <<iLock, nShared, nLock>>

Release(f) ==
    LET p == ProcOf[f] IN
    /\ pc[f] = "release"
    /\ MutexFree(p)
    /\ ReleaseRecord(f)
    /\ IF LastOpen(f) \/ ~PutAside(f) THEN DropLocks(p) ELSE UNCHANGED kern
    /\ pLock' = [pLock EXCEPT ![f] = NO]
    /\ closing' = closing \ {f}
    /\ Goto(f, "closed")
    /\ UNCHANGED nFail

(* A process dies: the system closes its descriptors. *)
Death(p) ==
    /\ pc' = [f \in File |-> IF f \in FilesOf(p) THEN "closed" ELSE pc[f]]
    /\ closing' = closing \ FilesOf(p)
    /\ pLock' = [f \in File |-> IF f \in FilesOf(p) THEN NO ELSE pLock[f]]
    /\ iLock' = [iLock EXCEPT ![p] = NO]
    /\ nShared' = [nShared EXCEPT ![p] = 0]
    /\ nLock' = [nLock EXCEPT ![p] = 0]
    /\ nUnused' = [nUnused EXCEPT ![p] = 0]
    /\ DropLocks(p)
    /\ UNCHANGED nFail

FileStep(f) ==
    \/ OpenFd(f) \/ OpenDone(f) \/ OpenFails(f)
    \/ LockJoin(f) \/ LockSharedPending(f) \/ LockSharedRange(f) \/ LockSharedDone(f)
    \/ LockReserved(f) \/ LockExclPending(f) \/ LockExclRange(f)
    \/ UnlockReadBack(f) \/ UnlockWriter(f) \/ UnlockAll(f) \/ UnlockDone(f)
    \/ Close(f) \/ Release(f)

Next == (\E f \in File : FileStep(f)) \/ (\E p \in Proc : Death(p))

Spec == Init /\ [][Next]_vars

-----------------------------------------------------------------------------
(* Properties. *)

Place == Outside \cup {"rdShared", "rdOk", "rdBusy", "wrShared", "dropWriter", "dropAll"}

(* Type correctness. *)
TypeOK ==
    /\ pc \in [File -> Place] /\ closing \subseteq File
    /\ pLock \in [File -> NO .. EXCLUSIVE] /\ iLock \in [Proc -> NO .. EXCLUSIVE]
    /\ nShared \in [Proc -> Nat] /\ nLock \in [Proc -> Nat] /\ nUnused \in [Proc -> Nat]
    /\ kern \in [Proc -> [Region -> Mode]]
    /\ nFail \in 0 .. MaxFail

(* The level of a handle: what its caller may count on.  An unlock lowers it
   in the system before it reaches unixFile.eFileLock. *)
level == [f \in File |-> IF pc[f] \in {"dropAll", "leaveShared"} THEN SHARED
                         ELSE IF pc[f] = "leaveNo" THEN NO
                         ELSE pLock[f]]

Levels == INSTANCE FileLock WITH File <- File, level <- level

(* os.h 153-165: over any number of threads and processes the handles behave
   as one lock whose steps are atomic, and stay so when calls fail. *)
AtomicLock == Levels!Spec

(* A level is backed by locks of the system, which alone keep other processes
   out: no close, join or unlock of one handle takes them from another
   (os_unix.c 2059-2062).  When a call failed half-way down from EXCLUSIVE the
   shared range may be a read lock already. *)
LocksBacked ==
    \A f \in File :
        LET k == kern[ProcOf[f]] IN
        /\ level[f] >= SHARED => k["shared"] # "none"
        /\ level[f] = RESERVED => k["reserved"] = "write"
        /\ level[f] >= PENDING => k["pending"] = "write"
        /\ (level[f] = EXCLUSIVE /\ pc[f] # "dropWriter" /\ nFail = 0) => k["shared"] = "write"

AllQuiet == \A f \in File : pc[f] \in {"closed", "idle"} /\ f \notin closing

(* No lock is left behind on any path through lock, refusal, unlock, close and
   death: when nothing failed and nobody is inside a call, a reader is refused
   only if some handle has PENDING or more, and a handle that is alone can
   have any lock. *)
GrantsWhenFree ==
    (nFail = 0 /\ AllQuiet) =>
        \A f \in File : LET p == ProcOf[f] IN
            /\ (\A g \in File : pLock[g] < PENDING) =>
                  CanRead(p, "pending") /\ CanRead(p, "shared") /\ iLock[p] < PENDING
            /\ (pLock[f] >= SHARED /\ \A g \in File \ {f} : pLock[g] = NO) =>
                  /\ nShared[p] = 1 /\ iLock[p] = pLock[f]
                  /\ \A r \in Region : CanWrite(p, r)

(* os_unix.c 1980-1982: a descriptor is put aside only while its process has
   locks on the file; none is kept for ever. *)
PutAsideWhileLocked == \A p \in Proc : nUnused[p] > 0 => nLock[p] > 0

(* unixCheckReservedLock(), a function of the state.  The mutant asks the
   system only, which does not report the locks of the caller's process. *)
CheckReserved_SystemOnly(p) == \E q \in Proc \ {p} : kern[q]["reserved"] = "write"

CheckReserved(p) ==
    iLock[p] > SHARED \/ \E q \in Proc \ {p} : kern[q]["reserved"] = "write"

(* A RESERVED handle is seen by everyone who asks (os_unix.c 1426), whichever
   thread or process it belongs to: no journal in use is taken for hot. *)
ReservedSeen ==
    \A f \in File : level[f] = RESERVED =>
        \A p \in Proc : MutexFree(p) => CheckReserved(p)

(* When the last handle of a process is closed nothing is left of its locks,
   not even after calls that failed. *)
LastCloseFrees ==
    \A p \in Proc : Opened(p) = {} =>
        kern[p] = NoLocks /\ nUnused[p] = 0 /\ nShared[p] = 0 /\ iLock[p] = NO
=============================================================================
