------------------------------ MODULE FileLock ------------------------------
(***************************************************************************)
(* The lock on a database file as the pager sees it: every file handle has *)
(* one of the five levels of os.h and xLock/xUnlock move it, each in one   *)
(* atomic step.  What a VFS promises; UnixLock shows how os_unix.c keeps   *)
(* the promise with the locks of POSIX.                                    *)
(***************************************************************************)
EXTENDS Integers

CONSTANT File      \* the handles open on one database file, in any process

VARIABLE level     \* unixFile.eFileLock

NO == 0
SHARED == 1
RESERVED == 2
PENDING == 3
EXCLUSIVE == 4
Level == NO .. EXCLUSIVE

Init == level = [f \in File |-> NO]

Others(f) == File \ {f}
SetLevel(f, l) == level' = [level EXCEPT ![f] = l]

LockShared(f) ==
    /\ level[f] = NO
    /\ \A g \in Others(f) : level[g] # EXCLUSIVE
    /\ SetLevel(f, SHARED)

LockReserved(f) ==
    /\ level[f] = SHARED
    /\ \A g \in Others(f) : level[g] \notin {RESERVED, EXCLUSIVE}
    /\ SetLevel(f, RESERVED)

(* A request for EXCLUSIVE that finds readers leaves PENDING behind. *)
LockPending(f) ==
    /\ level[f] \in {SHARED, RESERVED}
    /\ \A g \in Others(f) : level[g] < PENDING
    /\ SetLevel(f, PENDING)

LockExclusive(f) ==
    /\ level[f] \in {SHARED, RESERVED, PENDING}
    /\ \A g \in Others(f) : level[g] = NO
    /\ SetLevel(f, EXCLUSIVE)

Unlock(f) ==
    \E l \in {NO, SHARED} : l < level[f] /\ SetLevel(f, l)

(* The process that owns these handles dies. *)
Vanish(F) ==
    level' = [f \in File |-> IF f \in F THEN NO ELSE level[f]]

Next ==
    \/ \E f \in File : \/ LockShared(f) \/ LockReserved(f) \/ LockPending(f)
                       \/ LockExclusive(f) \/ Unlock(f)
    \/ \E F \in SUBSET File : Vanish(F)

Spec == Init /\ [][Next]_level

-----------------------------------------------------------------------------
TypeOK == level \in [File -> Level]

(* os.h 154-159: EXCLUSIVE precludes every other lock, and one handle at a
   time is RESERVED, and one PENDING or EXCLUSIVE. *)
Exclusion ==
    \A f \in File : \A g \in Others(f) :
        /\ level[f] = EXCLUSIVE => level[g] = NO
        /\ level[f] = RESERVED => level[g] # RESERVED
        /\ level[f] >= PENDING => level[g] < PENDING
=============================================================================
