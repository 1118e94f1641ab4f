------------------------------ MODULE ShmLock ------------------------------
(***************************************************************************)
(* The locks of the shared-memory wal-index, as the WAL code sees them:    *)
(* every connection owns a mask of shared and a mask of exclusive locks,   *)
(* and a request is granted or refused at once (xShmLock never blocks).    *)
(* Translated from unixShmLock() of os_unix.c and its four wrappers in     *)
(* wal.c.  Lock numbers are those of wal.c: 0 WRITE, 1 CKPT, 2 RECOVER and *)
(* 3 + i for reader slot i.                                                *)
(***************************************************************************)
EXTENDS Integers, FiniteSets

CONSTANTS
    Conn,       \* the connections open on one database file
    NReader     \* WAL_NREADER: the number of reader slots (5 in the code)

ASSUME NReaderAssumption == NReader \in Nat /\ NReader >= 2

WRITE == 0
CKPT == 1
RECOVER == 2
READ(i) == 3 + i

Lock == 0 .. NReader + 2
Slot == 1 .. NReader - 1                  \* the slots that carry a read mark
MarkLocks == {READ(i) : i \in Slot}       \* WAL_READ_LOCK(1), WAL_NREADER-1
ReadLocks == {READ(0)} \cup MarkLocks

VARIABLES
    sharedMask,   \* unixShm.sharedMask of every connection
    exclMask      \* unixShm.exclMask of every connection

lockVars == <<sharedMask, exclMask>>

LockTypeOK ==
    /\ sharedMask \in [Conn -> SUBSET Lock]
    /\ exclMask \in [Conn -> SUBSET Lock]

LockInit ==
    /\ sharedMask = [c \in Conn |-> {}]
    /\ exclMask = [c \in Conn |-> {}]

(* A shared lock is refused when any connection of the list, the caller
   included, holds it exclusively. *)
CanShare(l) == \A d \in Conn : l \notin exclMask[d]

(* Mutant: a range is refused only when it is held exclusively. *)
CanExclude_IgnoresShared(L) == \A d \in Conn : exclMask[d] \cap L = {}

(* An exclusive request for a range is refused when any connection, the
   caller included, holds any lock of the range in either mode. *)
CanExclude(L) == \A d \in Conn : (sharedMask[d] \cup exclMask[d]) \cap L = {}

LockShared(c, l) ==
    /\ CanShare(l)
    /\ sharedMask' = [sharedMask EXCEPT ![c] = @ \cup {l}]
    /\ UNCHANGED exclMask

LockExclusive(c, L) ==
    /\ CanExclude(L)
    /\ exclMask' = [exclMask EXCEPT ![c] = @ \cup L]
    /\ UNCHANGED sharedMask

(* An unlock takes the range out of both masks, whatever the mode named. *)
Unlock(c, L) ==
    /\ sharedMask' = [sharedMask EXCEPT ![c] = @ \ L]
    /\ exclMask' = [exclMask EXCEPT ![c] = @ \ L]

(* The descriptor of a dead process is closed and its locks with it. *)
UnlockAll(c) == Unlock(c, Lock)

(* A lock held exclusively is held by nobody else in any mode: the assertion
   at the head of the unlock branch of unixShmLock(). *)
LockExclusion ==
    \A c, d \in Conn : c # d => exclMask[c] \cap (sharedMask[d] \cup exclMask[d]) = {}
=============================================================================
