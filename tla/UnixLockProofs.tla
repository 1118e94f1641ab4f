--------------------------- MODULE UnixLockProofs ---------------------------
(***************************************************************************)
(* What UnixLock does for any number of processes, handles and failures:   *)
(* it implements FileLock.                                                 *)
(***************************************************************************)
EXTENDS UnixLock, FiniteSetTheorems, TLAPS

-----------------------------------------------------------------------------
(* The inductive invariant. *)

(* The system grants no two processes conflicting locks. *)
KernInv ==
    \A p, q \in Proc : p # q =>
        \A r \in Region : kern[p][r] = "write" => kern[q][r] = "none"

(* One thread of a process is inside the mutex. *)
MutexInv ==
    \A f, g \in File : (f # g /\ ProcOf[f] = ProcOf[g]) => (pc[f] \in Outside \/ pc[g] \in Outside)

(* What the thread knows at each place of the calls. *)
PlaceOk(f) ==
    LET p == ProcOf[f] IN
    /\ pc[f] \in {"closed", "opening", "rdShared", "rdOk", "rdBusy"} => pLock[f] = NO
    /\ pc[f] \in {"rdShared", "rdOk", "rdBusy"} => iLock[p] = NO
    /\ pc[f] = "rdShared" => kern[p]["pending"] = "read"
    /\ pc[f] = "rdOk" => kern[p]["shared"] # "none"
    /\ pc[f] = "wrShared" => /\ pLock[f] \in {SHARED, RESERVED} /\ iLock[p] = pLock[f]
                             /\ kern[p]["pending"] = "write"
    /\ pc[f] = "dropWriter" => pLock[f] > SHARED
    /\ pc[f] = "dropAll" => pLock[f] > SHARED /\ iLock[p] = SHARED
    /\ pc[f] \in {"leaveShared", "leaveNo"} => pLock[f] # NO
PlaceInv == \A f \in File : PlaceOk(f)

(* The handles that have a lock are counted.  After a call that failed the
   count can be too high, never too low. *)
Holders(p) == {f \in FilesOf(p) : level[f] # NO}
CountInv == \A p \in Proc : Cardinality(Holders(p)) <= nShared[p]

(* The record of an inode: NO without holders, and a lock on the shared range
   otherwise. *)
RecordInv ==
    \A p \in Proc : /\ nLock[p] = nShared[p]
                    /\ iLock[p] = NO <=> nShared[p] = 0
                    /\ iLock[p] # NO => kern[p]["shared"] # "none"
                    /\ iLock[p] # NO => Opened(p) # {}

(* What stands behind a level, in the system and in the record. *)
LevelOk(f) ==
    LET p == ProcOf[f] IN
    /\ level[f] # NO => iLock[p] # NO
    /\ level[f] > SHARED => iLock[p] = level[f]
    /\ level[f] = RESERVED => kern[p]["reserved"] = "write"
    /\ level[f] >= PENDING => kern[p]["pending"] = "write"
    /\ (level[f] = EXCLUSIVE /\ pc[f] # "dropWriter" /\ nFail = 0) => kern[p]["shared"] = "write"
LevelInv == \A f \in File : LevelOk(f)

(* What a level keeps away from others. *)
OthersOk(f) ==
    LET p == ProcOf[f] IN
    /\ level[f] > SHARED => \A g \in FilesOf(p) \ {f} : level[g] <= SHARED
    /\ level[f] = EXCLUSIVE => \A g \in FilesOf(p) \ {f} : level[g] = NO
    /\ level[f] = EXCLUSIVE => \A q \in Proc \ {p} : kern[q]["shared"] = "none"
OthersInv == \A f \in File : OthersOk(f)

IInv ==
    /\ TypeOK /\ KernInv /\ MutexInv /\ PlaceInv
    /\ CountInv /\ RecordInv /\ LevelInv /\ OthersInv
-----------------------------------------------------------------------------
(* Facts about levels and holders. *)

(* The process of a handle. *)
LEMMA ProcType == \A f \in File : ProcOf[f] \in Proc /\ f \in FilesOf(ProcOf[f])
BY UnixLockAssumption DEF FilesOf

(* A level is one of the five of os.h. *)
LEMMA LevelType ==
    ASSUME TypeOK
    PROVE  level \in [File -> NO .. EXCLUSIVE]
BY DEF TypeOK, level, NO, SHARED, EXCLUSIVE

(* Only finitely many handles of a process have a level. *)
LEMMA HoldersFinite == \A p \in Proc : IsFiniteSet(Holders(p))
<1> TAKE p \in Proc
<1>1. Holders(p) \subseteq File
  BY DEF Holders, FilesOf
<1> QED
  BY <1>1, UnixLockAssumption, FS_Subset

(* A handle with a level is counted, and when it is the only one counted no
   other handle of its process has a level. *)
LEMMA HolderCounted ==
    ASSUME TypeOK, CountInv, NEW f \in File, level[f] # NO
    PROVE  nShared[ProcOf[f]] >= 1
<1> DEFINE p == ProcOf[f]
<1>1. p \in Proc /\ f \in Holders(p)
  BY ProcType DEF Holders
<1>2. Cardinality(Holders(p)) \in Nat /\ Cardinality(Holders(p)) # 0
  BY <1>1, HoldersFinite, FS_CardinalityType, FS_EmptySet
<1> QED
  BY <1>1, <1>2 DEF CountInv, TypeOK

(* One holder counted: no other handle of the process has a level. *)
LEMMA OnlyHolder ==
    ASSUME TypeOK, CountInv, NEW f \in File, level[f] # NO, nShared[ProcOf[f]] <= 1
    PROVE  \A g \in FilesOf(ProcOf[f]) \ {f} : level[g] = NO
<1> DEFINE p == ProcOf[f]
<1> SUFFICES ASSUME NEW g \in FilesOf(p) \ {f}, level[g] # NO
             PROVE  FALSE
  OBVIOUS
<1>1. p \in Proc /\ IsFiniteSet(Holders(p)) /\ {f, g} \subseteq Holders(p)
  BY ProcType, HoldersFinite DEF Holders, FilesOf
<1>2. Cardinality({f, g}) = 2
  <2>1. Cardinality({f}) = 1 /\ IsFiniteSet({f})
    BY FS_Singleton
  <2>2. g \notin {f}
    OBVIOUS
  <2>3. Cardinality({f} \cup {g}) = Cardinality({f}) + 1
    BY <2>1, <2>2, FS_AddElement
  <2>4. {f} \cup {g} = {f, g}
    OBVIOUS
  <2> QED
    BY <2>1, <2>3, <2>4
<1>3. Cardinality({f, g}) <= Cardinality(Holders(p)) /\ Cardinality(Holders(p)) \in Nat
  BY <1>1, FS_Subset, FS_CardinalityType
<1> QED
  BY <1>1, <1>2, <1>3 DEF CountInv, TypeOK

(* When no level changes the holders stay. *)
LEMMA HoldersSame ==
    ASSUME level' = level
    PROVE  \A p : Holders(p)' = Holders(p)
BY DEF Holders, FilesOf

(* How the holders follow a change of one level. *)
LEMMA HoldersStep ==
    ASSUME NEW f \in File, \A g \in File \ {f} : level'[g] = level[g]
    PROVE  /\ \A q \in Proc \ {ProcOf[f]} : Holders(q)' = Holders(q)
           /\ Holders(ProcOf[f])' = IF level'[f] = NO THEN Holders(ProcOf[f]) \ {f}
                                    ELSE Holders(ProcOf[f]) \cup {f}
BY ProcType DEF Holders, FilesOf

(* A step inside one process that moves the level of one handle. *)
LEMMA CountStep ==
    ASSUME TypeOK, TypeOK', CountInv, NEW f \in File,
           \A g \in File \ {f} : level'[g] = level[g],
           \A q \in Proc \ {ProcOf[f]} : nShared'[q] = nShared[q],
           \/ nShared'[ProcOf[f]] >= nShared[ProcOf[f]] + 1
           \/ nShared'[ProcOf[f]] >= nShared[ProcOf[f]] /\ (level[f] # NO \/ level'[f] = NO)
           \/ nShared'[ProcOf[f]] >= nShared[ProcOf[f]] - 1 /\ level[f] # NO /\ level'[f] = NO
    PROVE  CountInv'
<1> DEFINE p == ProcOf[f]
           H == Holders(p)
<1>1. p \in Proc /\ IsFiniteSet(H) /\ Cardinality(H) \in Nat /\ Cardinality(H) <= nShared[p]
  BY ProcType, HoldersFinite, FS_CardinalityType DEF CountInv
<1>2. /\ Cardinality(H \cup {f}) = IF f \in H THEN Cardinality(H) ELSE Cardinality(H) + 1
      /\ Cardinality(H \ {f}) = IF f \in H THEN Cardinality(H) - 1 ELSE Cardinality(H)
  BY <1>1, FS_AddElement, FS_RemoveElement
<1>3. f \in H <=> level[f] # NO
  BY ProcType DEF Holders
<1>4. Cardinality(Holders(p)') <= nShared'[p]
  <2>1. CASE level'[f] = NO
    <3>1. Holders(p)' = H \ {f}
      BY <2>1, HoldersStep
    <3> QED
      BY <1>1, <1>2, <1>3, <3>1 DEF TypeOK
  <2>2. CASE level'[f] # NO
    <3>1. Holders(p)' = H \cup {f}
      BY <2>2, HoldersStep
    <3> QED
      BY <1>1, <1>2, <1>3, <2>2, <3>1 DEF TypeOK
  <2> QED
    BY <2>1, <2>2
<1>5. \A q \in Proc \ {p} : Cardinality(Holders(q)') <= nShared'[q]
  BY HoldersStep DEF CountInv
<1> QED
  BY <1>4, <1>5 DEF CountInv

-----------------------------------------------------------------------------
(* The steps keep the invariant. *)

(* unixOpen() takes or opens a descriptor: no lock and no record changes. *)
LEMMA OpenFdInv ==
    ASSUME IInv, NEW f \in File, OpenFd(f)
    PROVE  IInv'
<1>1. level' = level
  BY DEF level, OpenFd, Goto
<1>2. TypeOK'
  BY DEF IInv, TypeOK, OpenFd, Goto, Place, Outside
<1>3. KernInv'
  BY DEF IInv, KernInv, OpenFd
<1>4. MutexInv'
  BY DEF IInv, MutexInv, OpenFd, Goto, MutexFree, FilesOf
<1>5. PlaceInv'
  BY DEF IInv, PlaceInv, PlaceOk, OpenFd, Goto
<1>6. CountInv'
  BY <1>1, HoldersSame DEF IInv, CountInv, OpenFd
<1>7. RecordInv'
  BY DEF IInv, RecordInv, OpenFd, Goto, Opened
<1>8. LevelInv'
  BY <1>1 DEF IInv, LevelInv, LevelOk, OpenFd, Goto
<1>9. OthersInv'
  BY <1>1 DEF IInv, OthersInv, OthersOk, OpenFd
<1> QED
  BY <1>2, <1>3, <1>4, <1>5, <1>6, <1>7, <1>8, <1>9 DEF IInv

(* A handle joins the record of its inode. *)
LEMMA OpenDoneInv ==
    ASSUME IInv, NEW f \in File, OpenDone(f)
    PROVE  IInv'
<1>1. level' = level
  BY DEF level, OpenDone, Goto
<1>2. TypeOK'
  BY DEF IInv, TypeOK, OpenDone, Goto, recVars, Place, Outside
<1>3. KernInv'
  BY DEF IInv, KernInv, OpenDone
<1>4. MutexInv'
  BY DEF IInv, MutexInv, OpenDone, Goto, MutexFree, FilesOf
<1>5. PlaceInv'
  BY DEF IInv, PlaceInv, PlaceOk, OpenDone, Goto, recVars
<1>6. CountInv'
  BY <1>1, HoldersSame DEF IInv, CountInv, OpenDone, recVars
<1>7. RecordInv'
  BY DEF IInv, RecordInv, OpenDone, Goto, recVars, Opened
<1>8. LevelInv'
  BY <1>1 DEF IInv, LevelInv, LevelOk, OpenDone, Goto, recVars
<1>9. OthersInv'
  BY <1>1 DEF IInv, OthersInv, OthersOk, OpenDone
<1> QED
  BY <1>2, <1>3, <1>4, <1>5, <1>6, <1>7, <1>8, <1>9 DEF IInv

(* No memory for a record: nobody in the process could lose a lock with the
   descriptor. *)
LEMMA OpenFailsInv ==
    ASSUME IInv, NEW f \in File, OpenFails(f)
    PROVE  IInv'
<1> DEFINE p == ProcOf[f]
<1>p. p \in Proc /\ f \in FilesOf(p)
  BY ProcType
<1>1. level' = level
  BY DEF level, OpenFails, Goto
<1>2. TypeOK'
  BY <1>p
     DEF IInv, TypeOK, OpenFails, Goto, DropLocks, NoLocks, recVars, Mode, Place, Outside
<1>3. KernInv'
  BY DEF IInv, KernInv, OpenFails, DropLocks, NoLocks
<1>4. MutexInv'
  BY DEF IInv, MutexInv, OpenFails, Goto, MutexFree, FilesOf
<1>5. PlaceInv'
  BY DEF IInv, PlaceInv, PlaceOk, OpenFails, Goto, DropLocks, recVars, Opened, FilesOf
<1>6. CountInv'
  BY <1>1, HoldersSame DEF IInv, CountInv, OpenFails, recVars
<1>7. RecordInv'
  BY DEF IInv, RecordInv, OpenFails, Goto, DropLocks, recVars, Opened
<1>8. LevelInv'
  BY <1>p, <1>1
     DEF IInv, LevelInv, LevelOk, RecordInv, OpenFails, Goto, DropLocks, recVars, NO,
         RESERVED, PENDING, EXCLUSIVE
<1>9. OthersInv'
  BY <1>1 DEF IInv, OthersInv, OthersOk, OpenFails, DropLocks, NoLocks, Region
<1> QED
  BY <1>2, <1>3, <1>4, <1>5, <1>6, <1>7, <1>8, <1>9 DEF IInv

(* SHARED from the record alone: the lock of the process is there. *)
LEMMA LockJoinInv ==
    ASSUME IInv, NEW f \in File, LockJoin(f)
    PROVE  IInv'
<1> DEFINE p == ProcOf[f]
<1>p. p \in Proc /\ f \in FilesOf(p)
  BY ProcType
<1>1. level' = [level EXCEPT ![f] = SHARED] /\ level[f] = NO
  BY DEF IInv, TypeOK, PlaceInv, PlaceOk, level, LockJoin, MayLock, MayUnlock
<1>2. TypeOK'
  BY <1>p DEF IInv, TypeOK, LockJoin, Joined, NO, SHARED, EXCLUSIVE
<1>3. KernInv'
  BY DEF IInv, KernInv, LockJoin
<1>4. MutexInv'
  BY DEF IInv, MutexInv, LockJoin
<1>5. PlaceInv'
  BY DEF IInv, PlaceInv, PlaceOk, LockJoin, MayLock, MayUnlock
<1>6. CountInv'
  <2>1. TypeOK /\ TypeOK' /\ CountInv
    BY <1>2 DEF IInv
  <2>2. \A g \in File \ {f} : level'[g] = level[g]
    BY <1>1, <2>1, LevelType
  <2>3. (\A q \in Proc \ {p} : nShared'[q] = nShared[q]) /\ nShared'[p] >= nShared[p] + 1
    BY <2>1 DEF TypeOK, LockJoin, Joined
  <2> QED
    BY <2>1, <2>2, <2>3, CountStep
<1>7. RecordInv'
  BY DEF IInv, RecordInv, TypeOK, LockJoin, Joined, Opened, NO, SHARED, RESERVED
<1>8. LevelInv'
  BY <1>1 DEF IInv, LevelInv, LevelOk, LockJoin, NO, SHARED, RESERVED, PENDING, EXCLUSIVE
<1>9. OthersInv'
  BY <1>p, <1>1
     DEF IInv, OthersInv, OthersOk, LevelInv, LevelOk, RecordInv, LockJoin, SHARED,
         RESERVED, EXCLUSIVE
<1> QED
  BY <1>2, <1>3, <1>4, <1>5, <1>6, <1>7, <1>8, <1>9 DEF IInv

(* The first step to SHARED: PENDING for a moment. *)
LEMMA LockSharedPendingInv ==
    ASSUME IInv, NEW f \in File, LockSharedPending(f)
    PROVE  IInv'
<1> DEFINE p == ProcOf[f]
<1>p. p \in Proc /\ f \in FilesOf(p)
  BY ProcType
<1>1. level' = level
  BY DEF IInv, PlaceInv, PlaceOk, level, LockSharedPending, Goto
<1>2. TypeOK'
  BY <1>p DEF IInv, TypeOK, LockSharedPending, Goto, SetRegion, recVars, Region, Mode, Place
<1>3. KernInv'
  BY DEF IInv, KernInv, LockSharedPending, CanRead, SetRegion
<1>4. MutexInv'
  BY DEF IInv, MutexInv, LockSharedPending, Goto, MayLock, MayUnlock, MutexFree, FilesOf
<1>5. PlaceInv'
  BY <1>p
     DEF IInv, PlaceInv, PlaceOk, TypeOK, LockSharedPending, Goto, SetRegion, recVars,
         MayLock, MayUnlock, MutexFree, FilesOf, Outside, Region
<1>6. CountInv'
  BY <1>1, HoldersSame DEF IInv, CountInv, LockSharedPending, recVars
<1>7. RecordInv'
  BY DEF IInv, RecordInv, LockSharedPending, Goto, SetRegion, recVars, Opened
<1>8. LevelInv'
  BY <1>1
     DEF IInv, LevelInv, LevelOk, LockSharedPending, Goto, SetRegion, recVars, MayLock,
         MayUnlock, NO, PENDING
<1>9. OthersInv'
  BY <1>1 DEF IInv, OthersInv, OthersOk, LockSharedPending, SetRegion
<1> QED
  BY <1>2, <1>3, <1>4, <1>5, <1>6, <1>7, <1>8, <1>9 DEF IInv

(* A call that fails, or is refused, with nothing to undo. *)
LEMMA CallFailsInv ==
    ASSUME IInv, NEW f \in File,
           UNCHANGED <<closing, pLock, recVars, kern>>, nFail' \in nFail .. MaxFail,
           NEW x, pc' = [pc EXCEPT ![f] = x],
           \/ pc[f] = "rdShared" /\ x = "rdBusy"
           \/ pc[f] \in {"rdOk", "rdBusy"} /\ x = "idle"
           \/ pc[f] = "idle" /\ pLock[f] > SHARED /\ x \in {"idle", "release"}
           \/ pc[f] = "dropWriter" /\ nFail' > 0 /\ x \in {"idle", "release"}
    PROVE  IInv'
<1>1. level' = level
  BY DEF level
<1>2. TypeOK'
  BY DEF IInv, TypeOK, recVars, Place, Outside
<1>3. KernInv'
  BY DEF IInv, KernInv
<1>4. MutexInv'
  BY DEF IInv, MutexInv, Outside
<1>5. PlaceInv'
  BY DEF IInv, PlaceInv, PlaceOk, recVars
<1>6. CountInv'
  BY <1>1, HoldersSame DEF IInv, CountInv, recVars
<1>7. RecordInv'
  BY DEF IInv, RecordInv, recVars, Opened
<1>8. LevelInv'
  BY <1>1 DEF IInv, LevelInv, LevelOk, TypeOK, recVars
<1>9. OthersInv'
  BY <1>1 DEF IInv, OthersInv, OthersOk
<1> QED
  BY <1>2, <1>3, <1>4, <1>5, <1>6, <1>7, <1>8, <1>9 DEF IInv

(* LockSharedRange, granted. *)
LEMMA RangeGranted ==
    ASSUME IInv, NEW f \in File,
           pc[f] = "rdShared", CanRead(ProcOf[f], "shared"),
           SetRegion(ProcOf[f], "shared", "read"), Goto(f, "rdOk"),
           UNCHANGED <<closing, pLock, recVars, nFail>>
    PROVE  IInv'
<1> DEFINE p == ProcOf[f]
<1>p. p \in Proc /\ f \in FilesOf(p)
  BY ProcType
<1>1. level' = level
  BY DEF level, Goto
<1>2. \A g \in FilesOf(p) : level[g] = NO
  BY DEF IInv, PlaceInv, PlaceOk, LevelInv, LevelOk, FilesOf
<1>3. TypeOK'
  BY <1>p DEF IInv, TypeOK, Goto, SetRegion, recVars, Region, Mode, Place
<1>4. KernInv'
  BY DEF IInv, KernInv, CanRead, SetRegion
<1>5. MutexInv'
  BY DEF IInv, MutexInv, Goto, Outside
<1>6. PlaceInv'
  BY <1>p DEF IInv, PlaceInv, PlaceOk, TypeOK, Goto, SetRegion, recVars, Region
<1>7. CountInv'
  BY <1>1, HoldersSame DEF IInv, CountInv, recVars
<1>8. RecordInv'
  BY DEF IInv, RecordInv, Goto, SetRegion, recVars, Opened
<1>9. LevelInv'
  <2>1. LevelOk(f)'
    BY <1>p, <1>1, <1>2 DEF IInv, LevelInv, LevelOk, SetRegion, recVars, NO, EXCLUSIVE
  <2>2. ASSUME NEW g \in FilesOf(p) \ {f}
       PROVE  LevelOk(g)'
    BY <1>1, <1>2 DEF IInv, LevelInv, LevelOk, SetRegion, recVars, FilesOf, NO, EXCLUSIVE
  <2>3. ASSUME NEW g \in File \ FilesOf(p)
       PROVE  LevelOk(g)'
    BY ProcType, <1>1 DEF IInv, LevelInv, LevelOk, Goto, SetRegion, recVars
  <2> QED
    BY <2>1, <2>2, <2>3 DEF LevelInv, FilesOf
<1>10. OthersInv'
  <2>1. \A h \in File : level[h] # EXCLUSIVE
    BY ProcType
       DEF IInv, KernInv, PlaceInv, PlaceOk, LevelInv, LevelOk, RecordInv, Region, PENDING,
           EXCLUSIVE
  <2> QED
    BY <1>1, <2>1 DEF IInv, OthersInv, OthersOk
<1> QED
  BY <1>3, <1>4, <1>5, <1>6, <1>7, <1>8, <1>9, <1>10 DEF IInv

(* RESERVED: nobody else in the process is above SHARED. *)
LEMMA LockReservedInv ==
    ASSUME IInv, NEW f \in File, LockReserved(f)
    PROVE  IInv'
<1> DEFINE p == ProcOf[f]
<1>p. p \in Proc /\ f \in FilesOf(p)
  BY ProcType
<1>1. level' = [level EXCEPT ![f] = RESERVED] /\ level[f] = SHARED
  BY DEF IInv, TypeOK, PlaceInv, PlaceOk, level, LockReserved, SetBoth, MayLock, MayUnlock,
         MutexFree
<1>2. TypeOK'
  BY <1>p
     DEF IInv, TypeOK, LockReserved, SetBoth, SetRegion, Region, Mode, NO, RESERVED,
         EXCLUSIVE
<1>3. KernInv'
  BY DEF IInv, KernInv, LockReserved, CanWrite, SetRegion
<1>4. MutexInv'
  BY DEF IInv, MutexInv, LockReserved
<1>5. PlaceInv'
  BY DEF IInv, PlaceInv, PlaceOk, LockReserved, SetBoth, SetRegion, MayLock, MayUnlock,
         MutexFree, FilesOf, Outside
<1>6. CountInv'
  <2>1. TypeOK /\ TypeOK' /\ CountInv
    BY <1>2 DEF IInv
  <2>2. \A g \in File \ {f} : level'[g] = level[g]
    BY <1>1, <2>1, LevelType
  <2>3. (\A q \in Proc \ {p} : nShared'[q] = nShared[q]) /\ nShared'[p] >= nShared[p] /\ level[f] # NO
    BY <1>p, <1>1, <2>1 DEF TypeOK, LockReserved, NO, SHARED
  <2> QED
    BY <2>1, <2>2, <2>3, CountStep
<1>7. RecordInv'
  BY DEF IInv, RecordInv, LockReserved, SetBoth, SetRegion, Opened, NO, SHARED, RESERVED
<1>8. LevelInv'
  BY <1>p, <1>1
     DEF IInv, LevelInv, LevelOk, TypeOK, LockReserved, SetBoth, SetRegion, Region, NO,
         RESERVED, PENDING, EXCLUSIVE
<1>9. OthersInv'
  <2>1. \A g \in FilesOf(p) : level[g] <= SHARED
    BY LevelType DEF IInv, LevelInv, LevelOk, TypeOK, LockReserved, FilesOf
  <2> QED
    BY <1>1, <2>1, LevelType
       DEF IInv, OthersInv, OthersOk, LockReserved, SetRegion, FilesOf, SHARED, RESERVED,
           EXCLUSIVE
<1> QED
  BY <1>2, <1>3, <1>4, <1>5, <1>6, <1>7, <1>8, <1>9 DEF IInv

(* The first step to EXCLUSIVE: PENDING stays. *)
LEMMA LockExclPendingInv ==
    ASSUME IInv, NEW f \in File, LockExclPending(f)
    PROVE  IInv'
<1> DEFINE p == ProcOf[f]
<1>p. p \in Proc /\ f \in FilesOf(p)
  BY ProcType
<1>1. level' = level
  BY DEF level, LockExclPending, Goto, MayLock, MayUnlock
<1>2. TypeOK'
  BY <1>p DEF IInv, TypeOK, LockExclPending, Goto, SetRegion, recVars, Region, Mode, Place
<1>3. KernInv'
  BY DEF IInv, KernInv, LockExclPending, CanWrite, SetRegion
<1>4. MutexInv'
  BY DEF IInv, MutexInv, LockExclPending, Goto, MayLock, MayUnlock, MutexFree, FilesOf
<1>5. PlaceInv'
  BY <1>p
     DEF IInv, PlaceInv, PlaceOk, TypeOK, LockExclPending, Goto, SetRegion, recVars,
         MayLock, MayUnlock, MutexFree, FilesOf, Outside, Region
<1>6. CountInv'
  BY <1>1, HoldersSame DEF IInv, CountInv, LockExclPending, recVars
<1>7. RecordInv'
  BY DEF IInv, RecordInv, LockExclPending, Goto, SetRegion, recVars, Opened
<1>8. LevelInv'
  BY <1>1
     DEF IInv, LevelInv, LevelOk, LockExclPending, Goto, SetRegion, recVars, MayLock,
         MayUnlock
<1>9. OthersInv'
  BY <1>1 DEF IInv, OthersInv, OthersOk, LockExclPending, SetRegion
<1> QED
  BY <1>2, <1>3, <1>4, <1>5, <1>6, <1>7, <1>8, <1>9 DEF IInv

(* The level of the handle follows that of the record. *)
LEMMA UnlockDoneInv ==
    ASSUME IInv, NEW f \in File, UnlockDone(f)
    PROVE  IInv'
<1>1. level' = level
  BY DEF IInv, TypeOK, level, UnlockDone, Goto, Return
<1>2. TypeOK'
  BY DEF IInv, TypeOK, UnlockDone, Goto, Return, recVars, Place, Outside, NO, SHARED,
         EXCLUSIVE
<1>3. KernInv'
  BY DEF IInv, KernInv, UnlockDone
<1>4. MutexInv'
  BY DEF IInv, MutexInv, UnlockDone, Goto, Return, Outside
<1>5. PlaceInv'
  BY DEF IInv, PlaceInv, PlaceOk, TypeOK, UnlockDone, Goto, Return, recVars
<1>6. CountInv'
  BY <1>1, HoldersSame DEF IInv, CountInv, UnlockDone, recVars
<1>7. RecordInv'
  BY DEF IInv, RecordInv, UnlockDone, Goto, Return, recVars, Opened
<1>8. LevelInv'
  BY <1>1 DEF IInv, LevelInv, LevelOk, UnlockDone, Goto, Return, recVars
<1>9. OthersInv'
  BY <1>1 DEF IInv, OthersInv, OthersOk, UnlockDone
<1> QED
  BY <1>2, <1>3, <1>4, <1>5, <1>6, <1>7, <1>8, <1>9 DEF IInv

(* unixClose() begins. *)
LEMMA CloseInv ==
    ASSUME IInv, NEW f \in File, Close(f)
    PROVE  IInv'
<1>1. level' = level
  BY DEF level, Close, Goto
<1>2. TypeOK'
  BY DEF IInv, TypeOK, Close, Goto, recVars, Place, Outside
<1>3. KernInv'
  BY DEF IInv, KernInv, Close
<1>4. MutexInv'
  BY DEF IInv, MutexInv, Close, Goto, Outside
<1>5. PlaceInv'
  BY DEF IInv, PlaceInv, PlaceOk, Close, Goto, recVars
<1>6. CountInv'
  BY <1>1, HoldersSame DEF IInv, CountInv, Close, recVars
<1>7. RecordInv'
  BY DEF IInv, RecordInv, Close, Goto, recVars, Opened
<1>8. LevelInv'
  BY <1>1 DEF IInv, LevelInv, LevelOk, Close, Goto, recVars
<1>9. OthersInv'
  BY <1>1 DEF IInv, OthersInv, OthersOk, Close
<1> QED
  BY <1>2, <1>3, <1>4, <1>5, <1>6, <1>7, <1>8, <1>9 DEF IInv

(* LockSharedDone after the shared range was granted. *)
LEMMA SharedGranted ==
    ASSUME IInv, NEW f \in File,
           pc[f] = "rdOk", DropTempPending(f), SetBoth(f, SHARED), Goto(f, "idle"),
           nLock' = [nLock EXCEPT ![ProcOf[f]] = @ + 1],
           nShared' = [nShared EXCEPT ![ProcOf[f]] = 1], UNCHANGED <<closing, nUnused>>
    PROVE  IInv'
<1> DEFINE p == ProcOf[f]
<1>p. p \in Proc /\ f \in FilesOf(p)
  BY ProcType
<1>1. level' = [level EXCEPT ![f] = SHARED] /\ level[f] = NO
  BY DEF IInv, TypeOK, PlaceInv, PlaceOk, level, Goto, SetBoth, NO, SHARED
<1>2. iLock[p] = NO /\ nShared[p] = 0 /\ nLock[p] = 0 /\ kern[p]["shared"] # "none"
  BY <1>p DEF IInv, PlaceInv, PlaceOk, RecordInv
<1>3. TypeOK'
  BY <1>p
     DEF IInv, TypeOK, DropTempPending, Goto, SetRegion, SetBoth, NoFail, Region, Mode,
         Place, Outside, NO, SHARED, EXCLUSIVE
<1>4. KernInv'
  BY DEF IInv, KernInv, DropTempPending, SetRegion
<1>5. MutexInv'
  BY DEF IInv, MutexInv, Goto, Outside
<1>6. PlaceInv'
  <2>1. ASSUME NEW g \in File PROVE PlaceOk(g)'
    <3>1. PlaceOk(g) BY DEF IInv, PlaceInv
    <3>2. CASE g = f
      BY <3>2 DEF IInv, PlaceOk, TypeOK, Goto, SetBoth, NO, SHARED
    <3>3. CASE g # f /\ ProcOf[g] = p
      <4>1. pc[g] \in Outside BY <1>p, <3>3 DEF IInv, MutexInv, FilesOf, Outside
      <4> QED BY <3>1, <3>3, <4>1
           DEF IInv, PlaceOk, TypeOK, Goto, SetBoth, Outside, NO, SHARED
    <3>4. CASE ProcOf[g] # p
      BY <1>p, <3>1, <3>4, ProcType
         DEF IInv, PlaceOk, TypeOK, DropTempPending, Goto, SetRegion, SetBoth
    <3> QED BY <3>2, <3>3, <3>4
  <2> QED BY <2>1 DEF PlaceInv
<1>7. CountInv'
  <2>1. TypeOK /\ TypeOK' /\ CountInv
    BY <1>3 DEF IInv
  <2>2. \A g \in File \ {f} : level'[g] = level[g]
    BY <1>1, <2>1, LevelType
  <2>3. (\A q \in Proc \ {p} : nShared'[q] = nShared[q]) /\ nShared'[p] >= nShared[p] + 1
    BY <1>2, <2>1 DEF TypeOK
  <2> QED
    BY <2>1, <2>2, <2>3, CountStep
<1>8. RecordInv'
  BY <1>p, <1>2
     DEF IInv, RecordInv, TypeOK, DropTempPending, Goto, SetRegion, SetBoth, Opened, NO,
         SHARED
<1>9. LevelInv'
  BY <1>p, <1>1, <1>2
     DEF IInv, LevelInv, LevelOk, TypeOK, DropTempPending, Goto, SetRegion, SetBoth, NoFail,
         NO, SHARED, RESERVED, PENDING, EXCLUSIVE
<1>10. OthersInv'
  BY <1>p, <1>1, LevelType, <1>2
     DEF IInv, OthersInv, OthersOk, LevelInv, LevelOk, SHARED, EXCLUSIVE
<1> QED
  BY <1>3, <1>4, <1>5, <1>6, <1>7, <1>8, <1>9, <1>10 DEF IInv

(* LockSharedDone after the shared range was refused. *)
LEMMA SharedRefused ==
    ASSUME IInv, NEW f \in File,
           pc[f] = "rdBusy", DropTempPending(f), Goto(f, "idle"), UNCHANGED <<closing, pLock, recVars>>
    PROVE  IInv'
<1> DEFINE p == ProcOf[f]
<1>p. p \in Proc /\ f \in FilesOf(p)
  BY ProcType
<1>1. level' = level
  BY DEF level, Goto
<1>2. \A g \in FilesOf(p) : level[g] = NO
  BY DEF IInv, PlaceInv, PlaceOk, LevelInv, LevelOk, FilesOf
<1>3. TypeOK'
  BY <1>p
     DEF IInv, TypeOK, DropTempPending, Goto, SetRegion, NoFail, recVars, Region, Mode,
         Place, Outside
<1>4. KernInv'
  BY DEF IInv, KernInv, DropTempPending, SetRegion
<1>5. MutexInv'
  BY DEF IInv, MutexInv, Goto, Outside
<1>6. PlaceInv'
  BY DEF IInv, PlaceInv, PlaceOk, MutexInv, DropTempPending, Goto, SetRegion, NoFail,
         recVars, Outside
<1>7. CountInv'
  BY <1>1, HoldersSame DEF IInv, CountInv, recVars
<1>8. RecordInv'
  BY DEF IInv, RecordInv, DropTempPending, Goto, SetRegion, recVars, Opened
<1>9. LevelInv'
  <2>1. LevelOk(f)'
    BY <1>p, <1>1, <1>2
       DEF IInv, LevelInv, LevelOk, DropTempPending, SetRegion, NoFail, recVars, NO, PENDING
  <2>2. ASSUME NEW g \in FilesOf(p) \ {f}
       PROVE  LevelOk(g)'
    BY <1>1, <1>2
       DEF IInv, LevelInv, LevelOk, DropTempPending, SetRegion, NoFail, recVars, FilesOf,
           NO, PENDING
  <2>3. ASSUME NEW g \in File \ FilesOf(p)
       PROVE  LevelOk(g)'
    BY ProcType, <1>1
       DEF IInv, LevelInv, LevelOk, DropTempPending, Goto, SetRegion, NoFail, recVars
  <2> QED
    BY <2>1, <2>2, <2>3 DEF LevelInv, FilesOf
<1>10. OthersInv'
  BY <1>1 DEF IInv, OthersInv, OthersOk, DropTempPending, SetRegion
<1> QED
  BY <1>3, <1>4, <1>5, <1>6, <1>7, <1>8, <1>9, <1>10 DEF IInv

(* LockExclRange, granted: the handle is alone in its process and its process
   alone in the system. *)
LEMMA ExclGranted ==
    ASSUME IInv, NEW f \in File,
           AtExclRange(f), Alone(f), CanWrite(ProcOf[f], "shared"), SetRegion(ProcOf[f], "shared", "write"),
           SetBoth(f, EXCLUSIVE), Goto(f, "idle"), UNCHANGED <<closing, nShared, nLock, nUnused, nFail>>
    PROVE  IInv'
<1> DEFINE p == ProcOf[f]
<1>p. p \in Proc /\ f \in FilesOf(p)
  BY ProcType
<1>1. level' = [level EXCEPT ![f] = EXCLUSIVE] /\ level[f] \in {SHARED, RESERVED, PENDING}
  BY DEF IInv, TypeOK, PlaceInv, PlaceOk, level, Goto, SetBoth, AtExclRange, MayLock,
         MayUnlock, MutexFree, NO, SHARED, RESERVED, PENDING, EXCLUSIVE
<1>2. iLock[p] = level[f] /\ kern[p]["pending"] = "write" /\ nShared[p] # 0 /\ kern[p]["shared"] # "none"
  BY <1>p
     DEF IInv, PlaceInv, PlaceOk, LevelInv, LevelOk, RecordInv, level, AtExclRange, MayLock,
         MayUnlock, NO, SHARED, RESERVED, PENDING
<1>3. \A g \in FilesOf(p) \ {f} : level[g] = NO
  BY <1>1, OnlyHolder DEF IInv, Alone, NO, SHARED, RESERVED, PENDING
<1>4. TypeOK'
  BY <1>p
     DEF IInv, TypeOK, Goto, SetRegion, SetBoth, Region, Mode, Place, Outside, NO, EXCLUSIVE
<1>5. KernInv'
  BY DEF IInv, KernInv, CanWrite, SetRegion
<1>6. MutexInv'
  BY DEF IInv, MutexInv, Goto, Outside
<1>7. PlaceInv'
  BY <1>3
     DEF IInv, PlaceInv, PlaceOk, MutexInv, TypeOK, AtExclRange, CanWrite, Goto, SetRegion,
         SetBoth, MayLock, MayUnlock, MutexFree, FilesOf, Outside
<1>8. CountInv'
  BY <1>1, <1>4, CountStep DEF IInv, TypeOK, SetRegion, NO, SHARED, RESERVED, PENDING
<1>9. RecordInv'
  BY <1>2 DEF IInv, RecordInv, TypeOK, Goto, SetRegion, SetBoth, Opened, NO
<1>10. LevelInv'
  <2>1. LevelOk(f)'
    BY <1>p, <1>1, <1>2, LevelType
       DEF IInv, LevelOk, TypeOK, SetRegion, SetBoth, Region, RESERVED, EXCLUSIVE
  <2>2. ASSUME NEW g \in FilesOf(p) \ {f}
       PROVE  LevelOk(g)'
    BY <1>1, <1>3 DEF IInv, LevelInv, LevelOk, SetRegion, Goto, FilesOf, NO, SHARED
  <2>3. ASSUME NEW g \in File \ FilesOf(p)
       PROVE  LevelOk(g)'
    BY ProcType, <1>1 DEF IInv, LevelInv, LevelOk, SetRegion, SetBoth, Goto
  <2> QED
    BY <2>1, <2>2, <2>3 DEF LevelInv, FilesOf
<1>11. OthersInv'
  BY <1>1, LevelType, <1>2, <1>3
     DEF IInv, OthersInv, OthersOk, CanWrite, SetRegion, FilesOf, SHARED
<1> QED
  BY <1>4, <1>5, <1>6, <1>7, <1>8, <1>9, <1>10, <1>11 DEF IInv

(* LockExclRange, refused or failed: the handle is left PENDING. *)
LEMMA ExclRefused ==
    ASSUME IInv, NEW f \in File,
           AtExclRange(f), SetBoth(f, PENDING), Goto(f, "idle"),
           UNCHANGED <<closing, nShared, nLock, nUnused, kern>>, nFail' \in nFail .. MaxFail
    PROVE  IInv'
<1> DEFINE p == ProcOf[f]
<1>p. p \in Proc /\ f \in FilesOf(p)
  BY ProcType
<1>1. level' = [level EXCEPT ![f] = PENDING] /\ level[f] \in {SHARED, RESERVED, PENDING}
  BY DEF IInv, TypeOK, PlaceInv, PlaceOk, level, Goto, SetBoth, AtExclRange, MayLock,
         MayUnlock, MutexFree, NO, SHARED, RESERVED, PENDING, EXCLUSIVE
<1>2. iLock[p] = level[f] /\ kern[p]["pending"] = "write" /\ nShared[p] # 0 /\ kern[p]["shared"] # "none"
  BY <1>p
     DEF IInv, PlaceInv, PlaceOk, LevelInv, LevelOk, RecordInv, level, AtExclRange, MayLock,
         MayUnlock, NO, SHARED, RESERVED, PENDING
<1>3. \A g \in FilesOf(p) \ {f} : level[g] <= SHARED
  BY <1>2, LevelType DEF IInv, LevelInv, LevelOk, OthersInv, OthersOk, FilesOf, SHARED
<1>4. TypeOK'
  BY <1>p DEF IInv, TypeOK, Goto, SetBoth, Place, Outside, NO, PENDING, EXCLUSIVE
<1>5. KernInv'
  BY DEF IInv, KernInv
<1>6. MutexInv'
  BY DEF IInv, MutexInv, Goto, Outside
<1>7. PlaceInv'
  BY <1>1 DEF IInv, PlaceInv, PlaceOk, MutexInv, TypeOK, AtExclRange, Goto, SetBoth, Outside
<1>8. CountInv'
  BY <1>p, <1>1, <1>4, CountStep DEF IInv, TypeOK, NO, SHARED, RESERVED
<1>9. RecordInv'
  BY <1>2 DEF IInv, RecordInv, Goto, SetBoth, Opened, NO, PENDING
<1>10. LevelInv'
  <2>1. LevelOk(f)'
    BY <1>p, <1>1, <1>2, LevelType
       DEF IInv, LevelOk, TypeOK, SetBoth, RESERVED, PENDING, EXCLUSIVE
  <2>2. ASSUME NEW g \in FilesOf(p) \ {f}
       PROVE  LevelOk(g)'
    BY <1>1, <1>3, LevelType
       DEF IInv, LevelInv, LevelOk, TypeOK, SetBoth, Goto, FilesOf, SHARED, PENDING
  <2>3. ASSUME NEW g \in File \ FilesOf(p)
       PROVE  LevelOk(g)'
    BY ProcType, <1>1 DEF IInv, LevelInv, LevelOk, TypeOK, SetBoth, Goto
  <2> QED
    BY <2>1, <2>2, <2>3 DEF LevelInv, FilesOf
<1>11. OthersInv'
  BY <1>1, LevelType, <1>3
     DEF IInv, OthersInv, OthersOk, FilesOf, SHARED, PENDING, EXCLUSIVE
<1> QED
  BY <1>4, <1>5, <1>6, <1>7, <1>8, <1>9, <1>10, <1>11 DEF IInv

(* UnlockReadBack, granted. *)
LEMMA ReadBackGranted ==
    ASSUME IInv, NEW f \in File,
           MayLock(f), pLock[f] > SHARED, CanRead(ProcOf[f], "shared"),
           SetRegion(ProcOf[f], "shared", "read"), Goto(f, "dropWriter"),
           UNCHANGED <<closing, pLock, recVars, nFail>>
    PROVE  IInv'
<1> DEFINE p == ProcOf[f]
<1>p. p \in Proc /\ f \in FilesOf(p)
  BY ProcType
<1>1. level' = level
  BY DEF level, Goto, MayLock, MayUnlock
<1>2. /\ level[f] = pLock[f] /\ level[f] > SHARED /\ iLock[p] = level[f]
      /\ kern[p]["shared"] # "none"
  BY <1>p DEF RecordInv, IInv, LevelInv, LevelOk, level, MayLock, MayUnlock, NO, SHARED
<1>3. \A g \in FilesOf(p) \ {f} : level[g] <= SHARED
  BY <1>2 DEF IInv, OthersInv, OthersOk
<1>4. TypeOK'
  BY <1>p DEF IInv, TypeOK, Goto, SetRegion, recVars, Region, Mode, Place
<1>5. KernInv'
  BY DEF IInv, KernInv, CanRead, SetRegion
<1>6. MutexInv'
  BY DEF IInv, MutexInv, Goto, MayLock, MayUnlock, MutexFree, FilesOf
<1>7. PlaceInv'
  BY DEF IInv, PlaceInv, PlaceOk, Goto, SetRegion, recVars
<1>8. CountInv'
  BY <1>1, HoldersSame DEF IInv, CountInv, recVars
<1>9. RecordInv'
  BY DEF IInv, RecordInv, Goto, SetRegion, recVars, Opened
<1>10. LevelInv'
  <2>1. LevelOk(f)'
    BY <1>1 DEF IInv, LevelInv, LevelOk, TypeOK, SetRegion, Goto, recVars
  <2>2. ASSUME NEW g \in FilesOf(p) \ {f}
       PROVE  LevelOk(g)'
    BY <1>1, <1>2, <1>3, LevelType
       DEF IInv, LevelInv, LevelOk, SetRegion, recVars, FilesOf, SHARED
  <2>3. ASSUME NEW g \in File \ FilesOf(p)
       PROVE  LevelOk(g)'
    BY ProcType, <1>1 DEF IInv, LevelInv, LevelOk, SetRegion, Goto, recVars
  <2> QED
    BY <2>1, <2>2, <2>3 DEF LevelInv, FilesOf
<1>11. OthersInv'
  <2>1. OthersOk(f)'
    BY <1>1 DEF IInv, OthersInv, OthersOk, SetRegion
  <2>2. ASSUME NEW g \in FilesOf(p) \ {f}
       PROVE  OthersOk(g)'
    BY <1>1, <1>3, LevelType DEF IInv, OthersOk, FilesOf, SHARED, EXCLUSIVE
  <2>3. ASSUME NEW g \in File \ FilesOf(p)
       PROVE  OthersOk(g)'
    BY ProcType, <1>1, <1>2 DEF IInv, OthersInv, OthersOk
  <2> QED
    BY <2>1, <2>2, <2>3 DEF OthersInv, FilesOf
<1> QED
  BY <1>4, <1>5, <1>6, <1>7, <1>8, <1>9, <1>10, <1>11 DEF IInv

(* UnlockWriter, done: the handle is SHARED. *)
LEMMA WriterDropped ==
    ASSUME IInv, NEW f \in File,
           pc[f] = "dropWriter" \/ MayUnlock(f), pLock[f] > SHARED,
           kern' = [kern EXCEPT ![ProcOf[f]]["pending"] = "none", ![ProcOf[f]]["reserved"] = "none"],
           iLock' = [iLock EXCEPT ![ProcOf[f]] = SHARED],
           Goto(f, IF pc[f] = "idle" THEN "dropAll" ELSE "leaveShared"),
           UNCHANGED <<closing, pLock, nShared, nLock, nUnused, nFail>>
    PROVE  IInv'
<1> DEFINE p == ProcOf[f]
<1>p. p \in Proc /\ f \in FilesOf(p)
  BY ProcType
<1>1. level' = [level EXCEPT ![f] = SHARED] /\ level[f] = pLock[f] /\ level[f] > SHARED
  BY DEF IInv, TypeOK, PlaceInv, PlaceOk, level, Goto, MayLock, MayUnlock, MutexFree, NO,
         SHARED, RESERVED, PENDING, EXCLUSIVE
<1>2. /\ \A q \in Proc \ {p} : kern'[q] = kern[q]
      /\ kern'[p]["shared"] = kern[p]["shared"]
  BY <1>p DEF IInv, TypeOK, Region
<1>3. /\ \A g \in FilesOf(p) \ {f} : level[g] <= SHARED
      /\ iLock[p] = level[f]
  BY <1>1 DEF IInv, LevelInv, LevelOk, OthersInv, OthersOk
<1>4. TypeOK'
  BY <1>p DEF IInv, TypeOK, Goto, Region, Mode, Place, Outside, NO, SHARED, EXCLUSIVE
<1>5. KernInv'
  BY DEF IInv, KernInv, TypeOK, MayUnlock, MutexFree
<1>6. MutexInv'
  BY DEF IInv, MutexInv, Goto, MayUnlock, MutexFree, FilesOf, Outside
<1>7. PlaceInv'
  <2>1. PlaceOk(f)'
    BY <1>p DEF IInv, PlaceOk, TypeOK, Goto, NO, SHARED
  <2>2. ASSUME NEW g \in FilesOf(p) \ {f}
       PROVE  PlaceOk(g)'
    BY <1>p, <1>1, <1>2, <1>3, LevelType
       DEF IInv, PlaceInv, PlaceOk, TypeOK, MutexInv, Outside, Goto, MayLock, MayUnlock,
           MutexFree, FilesOf, Region, NO, SHARED, RESERVED, PENDING, EXCLUSIVE
  <2>3. ASSUME NEW g \in File \ FilesOf(p)
       PROVE  PlaceOk(g)'
    BY ProcType DEF IInv, PlaceInv, PlaceOk, TypeOK, Goto
  <2> QED
    BY <2>1, <2>2, <2>3 DEF PlaceInv, FilesOf
<1>8. CountInv'
  <2>1. TypeOK /\ TypeOK' /\ CountInv
    BY <1>4 DEF IInv
  <2>2. \A g \in File \ {f} : level'[g] = level[g]
    BY <1>1, <2>1, LevelType
  <2>3. (\A q \in Proc \ {p} : nShared'[q] = nShared[q]) /\ nShared'[p] >= nShared[p] /\ level[f] # NO
    BY <1>1, <2>1 DEF TypeOK
  <2> QED
    BY <2>1, <2>2, <2>3, CountStep
<1>9. RecordInv'
  <2>1. /\ iLock' = [iLock EXCEPT ![p] = SHARED] /\ iLock[p] # NO
        /\ UNCHANGED <<nShared, nLock>> /\ \A q : Opened(q)' = Opened(q)
    BY <1>1, <1>3 DEF Goto, Opened, MayUnlock, NO, SHARED
  <2> QED
    BY <1>2, <2>1 DEF IInv, TypeOK, RecordInv, NO, SHARED
<1>10. LevelInv'
  <2>1. LevelOk(f)'
    BY <1>p, <1>1, LevelType DEF IInv, LevelOk, TypeOK, SHARED, RESERVED, PENDING
  <2>2. ASSUME NEW g \in FilesOf(p) \ {f}
       PROVE  LevelOk(g)'
    BY <1>p, <1>1, <1>3, LevelType
       DEF IInv, LevelInv, LevelOk, TypeOK, FilesOf, Region, SHARED, PENDING
  <2>3. ASSUME NEW g \in File \ FilesOf(p)
       PROVE  LevelOk(g)'
    BY ProcType, <1>1 DEF IInv, LevelInv, LevelOk, TypeOK, Goto
  <2> QED
    BY <2>1, <2>2, <2>3 DEF LevelInv, FilesOf
<1>11. OthersInv'
  BY <1>1, LevelType, <1>2 DEF IInv, OthersInv, OthersOk, TypeOK, SHARED
<1> QED
  BY <1>4, <1>5, <1>6, <1>7, <1>8, <1>9, <1>10, <1>11 DEF IInv

(* UnlockAll: the handle is at NO whether or not the system followed; the locks
   of the process go (k) only with its last holder. *)
LEMMA AllDropped ==
    ASSUME IInv, NEW f \in File,
           pc[f] = "dropAll" \/ (MayUnlock(f) /\ pLock[f] = SHARED),
           nShared' = [nShared EXCEPT ![ProcOf[f]] = @ - 1],
           nLock' = [nLock EXCEPT ![ProcOf[f]] = @ - 1],
           nUnused' \in [Proc -> Nat],
           iLock' = [iLock EXCEPT ![ProcOf[f]] = IF nShared[ProcOf[f]] = 1 THEN NO ELSE @],
           NEW k, kern' = [kern EXCEPT ![ProcOf[f]] = k],
           k = kern[ProcOf[f]] \/ (nShared[ProcOf[f]] = 1 /\ k = NoLocks),
           nFail' \in nFail .. MaxFail, UNCHANGED closing,
           NEW x, pc' = [pc EXCEPT ![f] = x], NEW y, pLock' = [pLock EXCEPT ![f] = y],
           (x = "leaveNo" /\ y = pLock[f]) \/ (x \in {"idle", "release"} /\ y = NO)
    PROVE  IInv'
<1> DEFINE p == ProcOf[f]
<1>p. p \in Proc /\ f \in FilesOf(p)
  BY ProcType
<1>1. level' = [level EXCEPT ![f] = NO] /\ level[f] = SHARED
  <2>1. level[f] = SHARED
    BY DEF level, MayUnlock
  <2>2. CASE x = "leaveNo"
    BY <2>1, <2>2 DEF IInv, TypeOK, level
  <2>3. CASE x \in {"idle", "release"} /\ y = NO
    BY <2>1, <2>3 DEF IInv, TypeOK, level
  <2> QED
    BY <2>2, <2>3
<1>2. nShared[p] >= 1 /\ nLock[p] = nShared[p] /\ iLock[p] # NO
  BY <1>p, <1>1, HolderCounted DEF IInv, RecordInv, NO, SHARED
<1>3. nShared[p] = 1 => \A g \in FilesOf(p) \ {f} : level[g] = NO
  BY <1>1, OnlyHolder DEF IInv, NO, SHARED
<1>4. TypeOK'
  BY <1>p, <1>2 DEF IInv, TypeOK, NoLocks, Mode, Place, Outside, NO, EXCLUSIVE
<1>5. KernInv'
  BY DEF IInv, KernInv, NoLocks
<1>6. MutexInv'
  BY DEF IInv, MutexInv, Outside
<1>7. PlaceInv'
  BY <1>1
     DEF IInv, PlaceInv, PlaceOk, MutexInv, TypeOK, MayUnlock, MutexFree, FilesOf, Outside,
         NO, SHARED
<1>8. CountInv'
  <2>1. TypeOK /\ TypeOK' /\ CountInv
    BY <1>4 DEF IInv
  <2>2. \A g \in File \ {f} : level'[g] = level[g]
    BY <1>1, <2>1, LevelType
  <2>3. (\A q \in Proc \ {p} : nShared'[q] = nShared[q]) /\ nShared'[p] >= nShared[p] - 1 /\ level[f] # NO /\ level'[f] = NO
    BY <1>1, <2>1, LevelType DEF TypeOK, NO, SHARED
  <2> QED
    BY <2>1, <2>2, <2>3, CountStep
<1>9. RecordInv'
  BY <1>p, <1>2 DEF IInv, RecordInv, TypeOK, MayUnlock, Opened, FilesOf
<1>10. LevelInv'
  <2>1. LevelOk(f)'
    BY <1>p, <1>1, <1>2, LevelType DEF IInv, LevelOk, TypeOK, NO, RESERVED, PENDING
  <2>2. ASSUME NEW g \in FilesOf(p) \ {f}
       PROVE  LevelOk(g)'
    BY <1>1, <1>2, <1>3 DEF IInv, LevelInv, LevelOk, TypeOK, FilesOf, NO, RESERVED, PENDING
  <2>3. ASSUME NEW g \in File \ FilesOf(p)
       PROVE  LevelOk(g)'
    BY ProcType, <1>1 DEF IInv, LevelInv, LevelOk, TypeOK
  <2> QED
    BY <2>1, <2>2, <2>3 DEF LevelInv, FilesOf
<1>11. OthersInv'
  BY <1>1, LevelType DEF IInv, OthersInv, OthersOk, RecordInv, NO
<1> QED
  BY <1>4, <1>5, <1>6, <1>7, <1>8, <1>9, <1>10, <1>11 DEF IInv

(* Release, while other handles of the process are open. *)
LEMMA HandleClosed ==
    ASSUME IInv, NEW f \in File,
           pc[f] = "release", MutexFree(ProcOf[f]), Opened(ProcOf[f]) # {f},
           pc' = [pc EXCEPT ![f] = "closed"], pLock' = [pLock EXCEPT ![f] = NO],
           closing' = closing \ {f}, nUnused' \in [Proc -> Nat],
           NEW k, kern' = [kern EXCEPT ![ProcOf[f]] = k],
           k = kern[ProcOf[f]] \/ (nShared[ProcOf[f]] = 0 /\ k = NoLocks),
           UNCHANGED <<iLock, nShared, nLock, nFail>>
    PROVE  IInv'
<1> DEFINE p == ProcOf[f]
<1>p. p \in Proc /\ f \in FilesOf(p)
  BY ProcType
<1>1. level' = [level EXCEPT ![f] = NO]
  BY DEF IInv, TypeOK, PlaceInv, PlaceOk, level, recVars, NO, SHARED, RESERVED, PENDING,
         EXCLUSIVE
<1>2. nShared[p] = 0 => \A g \in FilesOf(p) : level[g] = NO
  BY <1>p DEF IInv, RecordInv, LevelInv, LevelOk, FilesOf
<1>3. \A q : Opened(q)' = Opened(q) \ {f}
  BY DEF Opened, FilesOf, IInv, TypeOK
<1>4. TypeOK'
  BY <1>p DEF IInv, TypeOK, NoLocks, Mode, Place, Outside, NO, EXCLUSIVE
<1>5. KernInv'
  BY DEF IInv, KernInv, NoLocks
<1>6. MutexInv'
  BY DEF IInv, MutexInv, Outside
<1>7. PlaceInv'
  <2>1. PlaceOk(f)'
    BY DEF IInv, PlaceOk, TypeOK
  <2>2. ASSUME NEW g \in FilesOf(p) \ {f}
       PROVE  PlaceOk(g)'
    BY DEF IInv, PlaceInv, PlaceOk, MutexFree, Outside, FilesOf
  <2>3. ASSUME NEW g \in File \ FilesOf(p)
       PROVE  PlaceOk(g)'
    BY ProcType DEF IInv, PlaceInv, PlaceOk
  <2> QED
    BY <2>1, <2>2, <2>3 DEF PlaceInv, FilesOf
<1>8. CountInv'
  <2>1. TypeOK /\ TypeOK' /\ CountInv
    BY <1>4 DEF IInv
  <2>2. \A g \in File \ {f} : level'[g] = level[g]
    BY <1>1, <2>1, LevelType
  <2>3. (\A q \in Proc \ {p} : nShared'[q] = nShared[q]) /\ nShared'[p] >= nShared[p] /\ level'[f] = NO
    BY <1>1, <2>1, LevelType DEF TypeOK
  <2> QED
    BY <2>1, <2>2, <2>3, CountStep
<1>9. RecordInv'
  <2>1. \A q \in Proc \ {p} : Opened(q)' = Opened(q) /\ kern'[q] = kern[q]
    BY DEF Opened, FilesOf
  <2>2. Opened(p)' # {}
    BY <1>p DEF Opened
  <2>3. nShared[p] # 0 => kern'[p] = kern[p]
    BY <1>p DEF IInv, TypeOK
  <2> QED
    BY <2>1, <2>2 DEF IInv, RecordInv
<1>10. LevelInv'
  <2>1. LevelOk(f)'
    BY <1>1, LevelType DEF IInv, LevelOk, NO, SHARED, RESERVED, PENDING, EXCLUSIVE
  <2>2. ASSUME NEW g \in FilesOf(p) \ {f}
       PROVE  LevelOk(g)'
    BY <1>1, <1>2 DEF IInv, LevelInv, LevelOk, FilesOf, NO, RESERVED, PENDING, EXCLUSIVE
  <2>3. ASSUME NEW g \in File \ FilesOf(p)
       PROVE  LevelOk(g)'
    BY ProcType, <1>1 DEF IInv, LevelInv, LevelOk
  <2> QED
    BY <2>1, <2>2, <2>3 DEF LevelInv, FilesOf
<1>11. OthersInv'
  <2>1. OthersOk(f)'
    BY <1>1, LevelType DEF IInv, OthersInv, OthersOk, NO, SHARED
  <2>2. ASSUME NEW g \in FilesOf(p) \ {f}
       PROVE  OthersOk(g)'
    BY <1>1 DEF IInv, OthersInv, OthersOk, FilesOf, NO, SHARED
  <2>3. ASSUME NEW g \in File \ FilesOf(p)
       PROVE  OthersOk(g)'
    BY <1>1 DEF IInv, OthersInv, OthersOk, NoLocks, FilesOf, Region
  <2> QED
    BY <2>1, <2>2, <2>3 DEF OthersInv, FilesOf
<1> QED
  BY <1>4, <1>5, <1>6, <1>7, <1>8, <1>9, <1>10, <1>11 DEF IInv

(* The last handle of a process is closed, or the process dies. *)
LEMMA ProcGone ==
    ASSUME IInv, NEW p \in Proc,
           pc' \in [File -> Place], pLock' \in [File -> NO .. EXCLUSIVE], closing' \subseteq File,
           \A g \in File \ FilesOf(p) : pc'[g] = pc[g] /\ pLock'[g] = pLock[g],
           \A g \in FilesOf(p) : pc'[g] \in {"closed", "opening"} /\ pLock'[g] = NO,
           iLock' = [iLock EXCEPT ![p] = NO], nShared' = [nShared EXCEPT ![p] = 0],
           nLock' = [nLock EXCEPT ![p] = 0], nUnused' = [nUnused EXCEPT ![p] = 0],
           DropLocks(p), nFail' = nFail
    PROVE  IInv'
<1>1. /\ \A g \in File \ FilesOf(p) : level'[g] = level[g]
      /\ \A g \in FilesOf(p) : level'[g] = NO
  BY DEF IInv, TypeOK, level, FilesOf
<1>2. TypeOK'
  BY DEF IInv, TypeOK, DropLocks, NoLocks, Mode, NO, EXCLUSIVE
<1>3. KernInv'
  BY DEF IInv, KernInv, DropLocks, NoLocks
<1>4. MutexInv'
  BY DEF IInv, MutexInv, TypeOK, FilesOf, Outside
<1>5. PlaceInv'
  <2>1. ASSUME NEW g \in FilesOf(p)
        PROVE  PlaceOk(g)'
    BY <2>1 DEF PlaceOk
  <2>2. ASSUME NEW g \in File \ FilesOf(p)
        PROVE  PlaceOk(g)'
    BY ProcType DEF IInv, PlaceInv, PlaceOk, DropLocks
  <2> QED
    BY <2>1, <2>2 DEF PlaceInv
<1>6. CountInv'
  <2>1. Holders(p)' = {} /\ \A q \in Proc \ {p} : Holders(q)' = Holders(q)
    BY <1>1 DEF Holders, FilesOf
  <2>2. Cardinality({}) = 0
    BY FS_EmptySet
  <2>3. nShared'[p] = 0 /\ \A q \in Proc \ {p} : nShared'[q] = nShared[q]
    BY DEF IInv, TypeOK
  <2>4. \A q \in Proc \ {p} : Cardinality(Holders(q))' <= nShared'[q]
    BY <2>1, <2>3 DEF IInv, CountInv
  <2>5. Cardinality(Holders(p))' <= nShared'[p]
    BY <2>1, <2>2, <2>3
  <2> QED
    BY <2>4, <2>5 DEF CountInv
<1>7. RecordInv'
  <2>1. \A q \in Proc \ {p} : Opened(q)' = Opened(q)
    BY DEF Opened, FilesOf
  <2> QED
    BY <2>1 DEF IInv, RecordInv, TypeOK, DropLocks
<1>8. LevelInv'
  <2>1. ASSUME NEW g \in FilesOf(p)
        PROVE  LevelOk(g)'
    BY <1>1 DEF LevelOk, NO, SHARED, RESERVED, PENDING, EXCLUSIVE
  <2>2. ASSUME NEW g \in File \ FilesOf(p)
        PROVE  LevelOk(g)'
    BY <1>1, ProcType DEF IInv, LevelInv, LevelOk, DropLocks
  <2> QED
    BY <2>1, <2>2 DEF LevelInv
<1>9. OthersInv'
  <2>1. ASSUME NEW g \in FilesOf(p)
        PROVE  OthersOk(g)'
    BY <1>1 DEF OthersOk, NO, SHARED, EXCLUSIVE
  <2>2. ASSUME NEW g \in File \ FilesOf(p)
        PROVE  OthersOk(g)'
    BY <1>1, ProcType
       DEF IInv, OthersInv, OthersOk, TypeOK, DropLocks, NoLocks, FilesOf, Region
  <2> QED
    BY <2>1, <2>2 DEF OthersInv
<1> QED
  BY <1>2, <1>3, <1>4, <1>5, <1>6, <1>7, <1>8, <1>9 DEF IInv

-----------------------------------------------------------------------------
(* The remaining actions, by their outcomes. *)

(* Failing calls are counted. *)
LEMMA FailCount ==
    ASSUME IInv
    PROVE  /\ NoFail => nFail' \in nFail .. MaxFail
           /\ Fail => nFail' \in nFail .. MaxFail /\ nFail' > 0
BY UnixLockAssumption DEF NoFail, Fail, IInv, TypeOK

(* By outcome: RangeGranted, CallFailsInv. *)
LEMMA LockSharedRangeInv ==
    ASSUME IInv, NEW f \in File, LockSharedRange(f)
    PROVE  IInv'
<1>1. CASE CanRead(ProcOf[f], "shared") /\ SetRegion(ProcOf[f], "shared", "read") /\ NoFail /\ Goto(f, "rdOk")
  BY <1>1, RangeGranted DEF LockSharedRange, NoFail, recVars
<1>2. CASE UNCHANGED kern /\ nFail' \in nFail .. MaxFail /\ Goto(f, "rdBusy")
  BY <1>2, CallFailsInv DEF LockSharedRange, Goto, recVars
<1> QED
  BY <1>1, <1>2, FailCount DEF LockSharedRange, Fail

(* By outcome: SharedGranted, SharedRefused, CallFailsInv. *)
LEMMA LockSharedDoneInv ==
    ASSUME IInv, NEW f \in File, LockSharedDone(f)
    PROVE  IInv'
<1>1. CASE /\ pc[f] = "rdOk" /\ DropTempPending(f) /\ SetBoth(f, SHARED)
           /\ nLock' = [nLock EXCEPT ![ProcOf[f]] = @ + 1]
           /\ nShared' = [nShared EXCEPT ![ProcOf[f]] = 1]
  BY <1>1, SharedGranted DEF LockSharedDone
<1>2. CASE pc[f] = "rdBusy" /\ DropTempPending(f) /\ UNCHANGED <<pLock, iLock, nLock, nShared>>
  BY <1>2, SharedRefused DEF LockSharedDone, recVars
<1>3. CASE Fail /\ UNCHANGED <<pLock, iLock, nLock, nShared>>
  <2>1. nFail' \in nFail .. MaxFail
    BY <1>3, FailCount
  <2> QED
    BY <1>3, <2>1, CallFailsInv DEF LockSharedDone, Fail, Goto, recVars
<1> QED
  BY <1>1, <1>2, <1>3 DEF LockSharedDone

(* By outcome: ExclGranted, ExclRefused. *)
LEMMA LockExclRangeInv ==
    ASSUME IInv, NEW f \in File, LockExclRange(f)
    PROVE  IInv'
<1>1. CASE /\ Alone(f) /\ CanWrite(ProcOf[f], "shared")
           /\ SetRegion(ProcOf[f], "shared", "write") /\ NoFail /\ SetBoth(f, EXCLUSIVE)
  BY <1>1, ExclGranted DEF LockExclRange, NoFail
<1>2. CASE UNCHANGED kern /\ nFail' \in nFail .. MaxFail /\ SetBoth(f, PENDING)
  BY <1>2, ExclRefused DEF LockExclRange
<1> QED
  BY <1>1, <1>2, FailCount DEF LockExclRange, Fail

(* By outcome: ReadBackGranted, CallFailsInv. *)
LEMMA UnlockReadBackInv ==
    ASSUME IInv, NEW f \in File, UnlockReadBack(f)
    PROVE  IInv'
<1>1. CASE CanRead(ProcOf[f], "shared") /\ SetRegion(ProcOf[f], "shared", "read") /\ NoFail /\ Goto(f, "dropWriter")
  BY <1>1, ReadBackGranted DEF UnlockReadBack, NoFail, recVars
<1>2. CASE Fail /\ Return(f)
  <2>1. nFail' \in nFail .. MaxFail
    BY <1>2, FailCount
  <2>2. pc[f] = "idle" /\ pLock[f] > SHARED
    BY DEF UnlockReadBack, MayLock, MayUnlock
  <2> QED
    BY <1>2, <2>1, <2>2, CallFailsInv DEF UnlockReadBack, Fail, Return, Goto, recVars
<1> QED
  BY <1>1, <1>2 DEF UnlockReadBack

(* By outcome: WriterDropped, CallFailsInv. *)
LEMMA UnlockWriterInv ==
    ASSUME IInv, NEW f \in File, UnlockWriter(f)
    PROVE  IInv'
<1>1. CASE /\ kern' = [kern EXCEPT ![ProcOf[f]]["pending"] = "none", ![ProcOf[f]]["reserved"] = "none"]
           /\ iLock' = [iLock EXCEPT ![ProcOf[f]] = SHARED] /\ NoFail
           /\ Goto(f, IF pc[f] = "idle" THEN "dropAll" ELSE "leaveShared")
  BY <1>1, WriterDropped DEF UnlockWriter, NoFail
<1>2. CASE Fail /\ Return(f) /\ UNCHANGED iLock
  <2>1. nFail' \in nFail .. MaxFail /\ nFail' > 0
    BY <1>2, FailCount
  <2>2. (pc[f] = "idle" \/ pc[f] = "dropWriter") /\ pLock[f] > SHARED
    BY DEF UnlockWriter, MayUnlock
  <2> QED
    BY <1>2, <2>1, <2>2, CallFailsInv DEF UnlockWriter, Fail, Return, Goto, recVars
<1> QED
  BY <1>1, <1>2 DEF UnlockWriter

(* nLock = nShared: the descriptors put aside are closed, and all locks of the
   process dropped with them, only by the last holder. *)
LEMMA UnlockAllInv ==
    ASSUME IInv, NEW f \in File, UnlockAll(f)
    PROVE  IInv'
<1> DEFINE p == ProcOf[f]
           last == nShared[p] = 1
<1>1. p \in Proc /\ nLock[p] = nShared[p]
  BY ProcType DEF IInv, RecordInv
<1>2. LastLock(p) <=> last
  BY <1>1 DEF LastLock
<1>3. PICK k : /\ kern' = [kern EXCEPT ![p] = k]
               /\ k = kern[p] \/ (last /\ k = NoLocks)
  <2>1. CASE UNCHANGED kern
    <3>1. kern' = [kern EXCEPT ![p] = kern[p]]
      BY <1>1, <2>1 DEF IInv, TypeOK
    <3> QED
      BY <3>1
  <2>2. CASE last /\ DropLocks(p)
    BY <2>2 DEF DropLocks
  <2> QED
    BY <1>2, <2>1, <2>2 DEF UnlockAll
<1>4. nUnused' \in [Proc -> Nat]
  BY <1>1 DEF UnlockAll, IInv, TypeOK
<1>5. nFail' \in nFail .. MaxFail
  BY UnixLockAssumption DEF UnlockAll, NoFail, IInv, TypeOK
<1>6. PICK x, y : /\ pc' = [pc EXCEPT ![f] = x] /\ pLock' = [pLock EXCEPT ![f] = y]
                  /\ (x = "leaveNo" /\ y = pLock[f]) \/ (x \in {"idle", "release"} /\ y = NO)
  <2>1. CASE Goto(f, "leaveNo") /\ UNCHANGED pLock
    <3>1. pLock' = [pLock EXCEPT ![f] = pLock[f]] /\ pc' = [pc EXCEPT ![f] = "leaveNo"]
      BY <2>1 DEF IInv, TypeOK, Goto
    <3> QED
      BY <3>1
  <2>2. CASE Return(f) /\ pLock' = [pLock EXCEPT ![f] = NO]
    BY <2>2 DEF Return, Goto
  <2> QED
    BY <2>1, <2>2 DEF UnlockAll
<1>7. /\ pc[f] = "dropAll" \/ (MayUnlock(f) /\ pLock[f] = SHARED)
      /\ nShared' = [nShared EXCEPT ![p] = @ - 1] /\ nLock' = [nLock EXCEPT ![p] = @ - 1]
      /\ iLock' = [iLock EXCEPT ![p] = IF last THEN NO ELSE @] /\ UNCHANGED closing
  BY DEF UnlockAll
<1> QED
  BY <1>3, <1>4, <1>5, <1>6, <1>7, AllDropped

(* The last handle takes the record with it (ProcGone); another one leaves it,
   and closes its descriptor only when nobody has a lock (HandleClosed). *)
LEMMA ReleaseInv ==
    ASSUME IInv, NEW f \in File, Release(f)
    PROVE  IInv'
<1> DEFINE p == ProcOf[f]
<1>1. p \in Proc /\ nLock[p] = nShared[p] /\ nLock[p] \in Nat
  BY ProcType DEF IInv, RecordInv, TypeOK
<1>2. /\ pc[f] = "release" /\ MutexFree(p) /\ pc' = [pc EXCEPT ![f] = "closed"]
      /\ pLock' = [pLock EXCEPT ![f] = NO] /\ closing' = closing \ {f} /\ UNCHANGED nFail
  BY DEF Release, Goto
<1>3. CASE LastOpen(f)
  <2>1. /\ iLock' = [iLock EXCEPT ![p] = NO] /\ nShared' = [nShared EXCEPT ![p] = 0]
        /\ nLock' = [nLock EXCEPT ![p] = 0] /\ nUnused' = [nUnused EXCEPT ![p] = 0]
        /\ DropLocks(p)
    BY <1>3 DEF Release, ReleaseRecord
  <2>2. pc' \in [File -> Place] /\ pLock' \in [File -> NO .. EXCLUSIVE] /\ closing' \subseteq File
    BY <1>2 DEF IInv, TypeOK, Place, Outside, NO, EXCLUSIVE
  <2>3. \A g \in File \ FilesOf(p) : pc'[g] = pc[g] /\ pLock'[g] = pLock[g]
    BY <1>2, ProcType DEF IInv, TypeOK
  <2>4. \A g \in FilesOf(p) : pc'[g] \in {"closed", "opening"} /\ pLock'[g] = NO
    BY <1>2, <1>3 DEF LastOpen, Opened, FilesOf, IInv, TypeOK, PlaceInv, PlaceOk
  <2> QED
    BY <1>1, <1>2, <2>1, <2>2, <2>3, <2>4, ProcGone
<1>4. CASE ~LastOpen(f)
  <2>1. nUnused' \in [Proc -> Nat] /\ UNCHANGED <<iLock, nShared, nLock>>
    BY <1>4 DEF Release, ReleaseRecord, IInv, TypeOK
  <2>2. PICK k : /\ kern' = [kern EXCEPT ![p] = k]
                 /\ k = kern[p] \/ (nShared[p] = 0 /\ k = NoLocks)
    <3>1. CASE PutAside(f)
      <4>1. kern' = [kern EXCEPT ![p] = kern[p]]
        BY <1>4, <3>1 DEF Release, IInv, TypeOK
      <4> QED
        BY <4>1
    <3>2. CASE ~PutAside(f)
      BY <1>1, <3>2 DEF Release, PutAside, DropLocks
    <3> QED
      BY <3>1, <3>2
  <2>3. Opened(p) # {f}
    BY <1>4 DEF LastOpen
  <2> QED
    BY <1>2, <2>1, <2>2, <2>3, HandleClosed
<1> QED
  BY <1>3, <1>4

(* A process dies. *)
LEMMA DeathInv ==
    ASSUME IInv, NEW p \in Proc, Death(p)
    PROVE  IInv'
<1>1. pc' \in [File -> Place] /\ pLock' \in [File -> NO .. EXCLUSIVE] /\ closing' \subseteq File
  BY DEF Death, IInv, TypeOK, Place, Outside, NO, EXCLUSIVE
<1>2. \A g \in File \ FilesOf(p) : pc'[g] = pc[g] /\ pLock'[g] = pLock[g]
  BY DEF Death, IInv, TypeOK
<1>3. \A g \in FilesOf(p) : pc'[g] \in {"closed", "opening"} /\ pLock'[g] = NO
  BY DEF Death, FilesOf
<1> QED
  BY <1>1, <1>2, <1>3, ProcGone DEF Death

-----------------------------------------------------------------------------
(* The invariant holds when no file is open. *)
LEMMA InitInv == Init => IInv
<1> SUFFICES ASSUME Init
             PROVE  IInv
  OBVIOUS
<1>1. level = [f \in File |-> NO] /\ \A p : Holders(p) = {}
  BY DEF Init, level, Holders, FilesOf
<1>2. TypeOK
  BY UnixLockAssumption DEF Init, TypeOK, NoLocks, Mode, Place, Outside, NO, EXCLUSIVE
<1>3. KernInv /\ MutexInv /\ RecordInv
  BY DEF Init, KernInv, MutexInv, RecordInv, NoLocks, Outside
<1>4. CountInv
  BY <1>1, FS_EmptySet DEF Init, CountInv
<1>5. PlaceInv /\ LevelInv /\ OthersInv
  BY <1>1
     DEF Init, PlaceInv, PlaceOk, LevelInv, LevelOk, OthersInv, OthersOk, NO, SHARED,
         RESERVED, PENDING, EXCLUSIVE
<1> QED
  BY <1>2, <1>3, <1>4, <1>5 DEF IInv

(* A step that changes nothing keeps it. *)
LEMMA StutterInv ==
    ASSUME IInv, UNCHANGED vars
    PROVE  IInv'
<1>1. level' = level /\ \A p : Opened(p)' = Opened(p)
  BY DEF vars, level, Opened, FilesOf
<1>2. TypeOK' /\ KernInv' /\ MutexInv' /\ PlaceInv'
  BY DEF vars, recVars, IInv, TypeOK, KernInv, MutexInv, PlaceInv, PlaceOk
<1>3. CountInv' /\ RecordInv'
  BY <1>1, HoldersSame DEF vars, recVars, IInv, CountInv, RecordInv
<1>4. LevelInv' /\ OthersInv'
  BY <1>1 DEF vars, recVars, IInv, LevelInv, LevelOk, OthersInv, OthersOk
<1> QED
  BY <1>2, <1>3, <1>4 DEF IInv

(* The invariant behind all that follows. *)
THEOREM Invariance == Spec => []IInv
<1>1. ASSUME IInv, [Next]_vars
      PROVE  IInv'
  <2>1. ASSUME NEW f \in File, FileStep(f)
        PROVE  IInv'
    BY <1>1, <2>1, OpenFdInv, OpenDoneInv, OpenFailsInv, LockJoinInv, LockSharedPendingInv,
       LockSharedRangeInv, LockSharedDoneInv, LockReservedInv, LockExclPendingInv,
       LockExclRangeInv, UnlockReadBackInv, UnlockWriterInv, UnlockAllInv, UnlockDoneInv,
       CloseInv, ReleaseInv
       DEF FileStep
  <2> QED
    BY <1>1, <2>1, DeathInv, StutterInv DEF Next
<1> QED
  BY <1>1, InitInv, PTL DEF Spec

-----------------------------------------------------------------------------
(* What follows from the invariant. *)

(* Every variable keeps its type; the counts of nShared and nLock in
   posixUnlock() never fall below zero. *)
THEOREM TypeCorrect == Spec => []TypeOK
<1>1. IInv => TypeOK
  BY DEF IInv
<1> QED
  BY <1>1, Invariance, PTL

(* A handle never believes in a level that the locks of its process in the
   system do not back (os_unix.c 2059-2062). *)
THEOREM AlwaysBacked == Spec => []LocksBacked
<1>1. ASSUME IInv
      PROVE  LocksBacked
  BY <1>1, ProcType DEF IInv, LevelInv, LevelOk, RecordInv, LocksBacked, NO, SHARED
<1> QED
  BY <1>1, Invariance, PTL

(* unixCheckReservedLock() finds every RESERVED handle. *)
THEOREM AlwaysSeen == Spec => []ReservedSeen
<1>1. ASSUME IInv
      PROVE  ReservedSeen
  <2> SUFFICES ASSUME NEW f \in File, level[f] = RESERVED, NEW p \in Proc
               PROVE  CheckReserved(p)
    BY DEF ReservedSeen
  <2>1. ProcOf[f] \in Proc /\ iLock[ProcOf[f]] = RESERVED /\ kern[ProcOf[f]]["reserved"] = "write"
    BY <1>1, ProcType DEF IInv, LevelInv, LevelOk, SHARED, RESERVED
  <2>2. CASE p = ProcOf[f]
    BY <2>1, <2>2 DEF CheckReserved, SHARED, RESERVED
  <2>3. CASE p # ProcOf[f]
    BY <2>1, <2>3 DEF CheckReserved
  <2> QED
    BY <2>2, <2>3
<1> QED
  BY <1>1, Invariance, PTL

(* os_unix.c 1980-1982: descriptors are put aside only under locks. *)
THEOREM AlwaysPutAside == Spec => []PutAsideWhileLocked
<1>1. Init => PutAsideWhileLocked
  BY DEF Init, PutAsideWhileLocked
<1>2. ASSUME IInv, PutAsideWhileLocked, [Next]_vars
      PROVE  PutAsideWhileLocked'
  <2> USE <1>2
  <2>1. ASSUME NEW f \in File, FileStep(f)
        PROVE  PutAsideWhileLocked'
    <3>1. CASE OpenFd(f)
      BY <3>1 DEF OpenFd, PutAsideWhileLocked, IInv, TypeOK
    <3>2. CASE LockJoin(f)
      BY <3>2 DEF LockJoin, PutAsideWhileLocked, IInv, TypeOK
    <3>3. CASE LockSharedDone(f)
      BY <3>3 DEF LockSharedDone, PutAsideWhileLocked, IInv, TypeOK
    <3>4. CASE UnlockAll(f)
      <4>1. /\ ProcOf[f] \in Proc /\ nLock[ProcOf[f]] \in Nat
            /\ \A q \in Proc \ {ProcOf[f]} : nUnused'[q] = nUnused[q] /\ nLock'[q] = nLock[q]
            /\ nUnused'[ProcOf[f]] = IF nLock[ProcOf[f]] = 1 THEN 0 ELSE nUnused[ProcOf[f]]
            /\ nLock'[ProcOf[f]] = nLock[ProcOf[f]] - 1
        BY <3>4, ProcType DEF UnlockAll, LastLock, IInv, TypeOK
      <4> QED
        BY <4>1 DEF PutAsideWhileLocked
    <3>5. CASE Release(f)
      BY <3>5, ProcType
         DEF Release, ReleaseRecord, PutAside, PutAsideWhileLocked, IInv, TypeOK
    <3>6. CASE UNCHANGED <<nUnused, nLock>>
      BY <3>6 DEF PutAsideWhileLocked
    <3> QED
      BY <2>1, <3>1, <3>2, <3>3, <3>4, <3>5, <3>6
         DEF FileStep, OpenDone, OpenFails, LockSharedPending, LockSharedRange,
             LockReserved, LockExclPending, LockExclRange, UnlockReadBack, UnlockWriter,
             UnlockDone, Close, recVars
  <2>2. ASSUME NEW p \in Proc, Death(p)
        PROVE  PutAsideWhileLocked'
    BY <2>2 DEF Death, PutAsideWhileLocked, IInv, TypeOK
  <2>3. CASE UNCHANGED vars
    BY <2>3 DEF vars, recVars, PutAsideWhileLocked
  <2> QED
    BY <2>1, <2>2, <2>3 DEF Next
<1> QED
  BY <1>1, <1>2, Invariance, PTL DEF Spec

-----------------------------------------------------------------------------
(* Nothing is left behind.  As long as no call failed, the locks of the system
   and the record of the inode hold nothing that a handle does not account
   for: the converse of LevelInv, RecordInv and CountInv. *)

(* The shared range: taken for the record, or just granted. *)
SharedFor(p) ==
    kern[p]["shared"] # "none" => iLock[p] # NO \/ \E f \in FilesOf(p) : pc[f] = "rdOk"
(* As a write lock: for the only handle with a level, EXCLUSIVE or on its way
   down to NO. *)
WriteFor(p) ==
    kern[p]["shared"] = "write" =>
        \E f \in FilesOf(p) : /\ Holders(p) = {f}
                              /\ \/ level[f] = EXCLUSIVE /\ pc[f] # "dropWriter"
                                 \/ pc[f] = "dropAll"
(* PENDING_BYTE: a handle above RESERVED or a lock call under way. *)
PendingFor(p) ==
    kern[p]["pending"] # "none" =>
        \E f \in FilesOf(p) : \/ pc[f] \in {"rdShared", "rdOk", "rdBusy", "wrShared"}
                              \/ level[f] >= PENDING
ReservedFor(p) ==
    kern[p]["reserved"] # "none" => \E f \in FilesOf(p) : level[f] >= RESERVED
(* The record: a level above SHARED is the level of a handle, and nShared
   counts the handles that have one. *)
RecordFor(p) == iLock[p] > SHARED => \E f \in FilesOf(p) : level[f] = iLock[p]
CountFor(p) == nShared[p] = Cardinality(Holders(p))
(* unixClose() comes to the release without a level. *)
Tidy(f) ==
    /\ pc[f] \in {"dropWriter", "leaveShared"} => f \notin closing
    /\ pc[f] = "release" => pLock[f] = NO

Exact(p) == /\ SharedFor(p) /\ WriteFor(p) /\ PendingFor(p)
            /\ ReservedFor(p) /\ RecordFor(p) /\ CountFor(p)
ExactInv == nFail = 0 => (\A p \in Proc : Exact(p)) /\ (\A f \in File : Tidy(f))

(* A step by one handle touches its own process only. *)
LEMMA ExactElsewhere ==
    ASSUME ExactInv, nFail = 0, NEW f \in File,
           \A q \in Proc \ {ProcOf[f]} : /\ kern'[q] = kern[q] /\ iLock'[q] = iLock[q]
                                         /\ nShared'[q] = nShared[q],
           \A g \in File \ {f} : /\ pc'[g] = pc[g] /\ level'[g] = level[g]
                                 /\ pLock'[g] = pLock[g] /\ (g \in closing' <=> g \in closing),
           Exact(ProcOf[f])', Tidy(f)'
    PROVE  ExactInv'
<1>1. ASSUME NEW q \in Proc, q # ProcOf[f]
      PROVE  Exact(q)'
  <2>1. Exact(q)
    BY DEF ExactInv
  <2>2. kern'[q] = kern[q] /\ iLock'[q] = iLock[q] /\ nShared'[q] = nShared[q]
    BY <1>1
  <2>3. Holders(q)' = Holders(q)
    BY <1>1, HoldersStep
  <2>4. \A g \in FilesOf(q) : pc'[g] = pc[g] /\ level'[g] = level[g]
    BY <1>1 DEF FilesOf
  <2>5. FilesOf(q)' = FilesOf(q)
    BY DEF FilesOf
  <2>6. SharedFor(q)' /\ PendingFor(q)' /\ ReservedFor(q)' /\ RecordFor(q)'
    BY <2>1, <2>2, <2>4, <2>5
       DEF Exact, SharedFor, PendingFor, ReservedFor, RecordFor
  <2>7. WriteFor(q)' /\ CountFor(q)'
    BY <2>1, <2>2, <2>3, <2>4, <2>5 DEF Exact, WriteFor, CountFor
  <2> QED
    BY <2>6, <2>7 DEF Exact
<1>2. ASSUME NEW g \in File, g # f
      PROVE  Tidy(g)'
  BY <1>2 DEF ExactInv, Tidy
<1> QED
  BY <1>1, <1>2 DEF ExactInv

(* A step that moves a handle between places that hold nothing. *)
LEMMA ExactMoved ==
    ASSUME IInv, ExactInv, nFail = 0, NEW f \in File, NEW x,
           pc' = [pc EXCEPT ![f] = x],
           pc[f] \notin {"rdShared", "rdOk", "rdBusy", "wrShared", "dropAll", "dropWriter"},
           UNCHANGED <<kern, iLock, nShared>>, level' = level,
           \A g \in File \ {f} : pLock'[g] = pLock[g] /\ (g \in closing' <=> g \in closing),
           x # "dropWriter", Tidy(f)'
    PROVE  ExactInv'
<1> DEFINE p == ProcOf[f]
<1>1. p \in Proc /\ Exact(p) /\ Holders(p)' = Holders(p) /\ FilesOf(p)' = FilesOf(p)
  BY ProcType, HoldersSame DEF ExactInv, FilesOf
<1>2. \A g \in File \ {f} : pc'[g] = pc[g]
  BY DEF IInv, TypeOK
<1>3. SharedFor(p)' /\ PendingFor(p)' /\ ReservedFor(p)' /\ RecordFor(p)' /\ CountFor(p)'
  BY <1>1, <1>2 DEF Exact, SharedFor, PendingFor, ReservedFor, RecordFor, CountFor, FilesOf
<1>4. WriteFor(p)'
  BY <1>1, <1>2 DEF Exact, WriteFor, FilesOf, IInv, TypeOK
<1>5. Exact(p)'
  BY <1>3, <1>4 DEF Exact
<1> QED
  BY <1>2, <1>5, ExactElsewhere

(* A descriptor is taken or opened. *)
LEMMA OpenFdExact ==
    ASSUME IInv, ExactInv, nFail' = 0, NEW f \in File, OpenFd(f)
    PROVE  ExactInv'
<1>1. /\ pc[f] = "closed" /\ pc' = [pc EXCEPT ![f] = "opening"] /\ nFail = 0
      /\ UNCHANGED <<kern, iLock, nShared, closing, pLock>>
  BY DEF OpenFd, Goto
<1>2. level' = level
  BY <1>1 DEF level
<1>3. Tidy(f)'
  BY <1>1 DEF Tidy, IInv, TypeOK
<1> QED
  BY <1>1, <1>2, <1>3, ExactMoved

(* The handle is open, still without a level. *)
LEMMA OpenDoneExact ==
    ASSUME IInv, ExactInv, nFail' = 0, NEW f \in File, OpenDone(f)
    PROVE  ExactInv'
<1>1. /\ pc[f] = "opening" /\ pc' = [pc EXCEPT ![f] = "idle"] /\ nFail = 0
      /\ UNCHANGED <<kern, iLock, nShared, closing, pLock>>
  BY DEF OpenDone, Goto, recVars
<1>2. level' = level
  BY <1>1 DEF level
<1>3. Tidy(f)'
  BY <1>1 DEF Tidy, IInv, TypeOK
<1> QED
  BY <1>1, <1>2, <1>3, ExactMoved

(* The close begins; without a level it goes to the release at once. *)
LEMMA CloseExact ==
    ASSUME IInv, ExactInv, nFail' = 0, NEW f \in File, Close(f)
    PROVE  ExactInv'
<1> DEFINE x == IF pLock[f] = NO THEN "release" ELSE "idle"
<1>1. /\ pc[f] = "idle" /\ pc' = [pc EXCEPT ![f] = x] /\ nFail = 0
      /\ UNCHANGED <<kern, iLock, nShared, pLock>> /\ closing' = closing \cup {f}
  BY DEF Close, Goto, recVars
<1>2. level' = level
  BY <1>1 DEF level
<1>3. Tidy(f)' /\ x \notin {"dropWriter"}
  BY <1>1 DEF Tidy, IInv, TypeOK
<1> HIDE DEF x
<1> QED
  BY <1>1, <1>2, <1>3, ExactMoved

(* The level of the handle follows what the system already shows. *)
LEMMA UnlockDoneExact ==
    ASSUME IInv, ExactInv, nFail' = 0, NEW f \in File, UnlockDone(f)
    PROVE  ExactInv'
<1> DEFINE x == IF f \in closing THEN "release" ELSE "idle"
<1>1. /\ pc[f] \in {"leaveShared", "leaveNo"} /\ pc' = [pc EXCEPT ![f] = x] /\ nFail = 0
      /\ UNCHANGED <<kern, iLock, nShared, closing>>
      /\ pLock' = [pLock EXCEPT ![f] = IF pc[f] = "leaveNo" THEN NO ELSE SHARED]
  BY DEF UnlockDone, Return, Goto, recVars
<1>2. level' = level
  BY <1>1 DEF level, IInv, TypeOK
<1>3. \A g \in File \ {f} : pLock'[g] = pLock[g]
  BY <1>1 DEF IInv, TypeOK
<1>4. Tidy(f)
  BY <1>1 DEF ExactInv
<1>5. Tidy(f)' /\ x # "dropWriter"
  BY <1>1, <1>4 DEF Tidy, IInv, TypeOK
<1> HIDE DEF x
<1> QED
  BY <1>1, <1>2, <1>3, <1>5, ExactMoved

(* No record, hence no level, when the open fails. *)
LEMMA OpenFailsExact ==
    ASSUME IInv, ExactInv, nFail' = 0, NEW f \in File, OpenFails(f)
    PROVE  ExactInv'
<1> DEFINE p == ProcOf[f]
<1>1. /\ pc[f] = "opening" /\ pc' = [pc EXCEPT ![f] = "closed"] /\ nFail = 0 /\ Opened(p) = {}
      /\ UNCHANGED <<iLock, nShared, closing, pLock>> /\ kern' = [kern EXCEPT ![p] = NoLocks]
  BY DEF OpenFails, Goto, recVars, DropLocks
<1>2. level' = level /\ Holders(p)' = Holders(p)
  BY <1>1, HoldersSame DEF level
<1>3. p \in Proc /\ Exact(p) /\ iLock[p] = NO
  BY <1>1, ProcType DEF ExactInv, IInv, RecordInv
<1>4. kern'[p] = NoLocks
  BY <1>1, <1>3 DEF IInv, TypeOK
<1>5. Exact(p)'
  BY <1>1, <1>2, <1>3, <1>4
     DEF Exact, SharedFor, WriteFor, PendingFor, ReservedFor, RecordFor, CountFor, NoLocks,
         Region, NO, SHARED
<1>6. Tidy(f)' /\ \A g \in File \ {f} : pc'[g] = pc[g]
  BY <1>1 DEF Tidy, IInv, TypeOK
<1>7. \A q \in Proc \ {p} : kern'[q] = kern[q]
  BY <1>1 DEF IInv, TypeOK
<1> QED
  BY <1>1, <1>2, <1>5, <1>6, <1>7, ExactElsewhere

(* A handle that joins is one more holder. *)
LEMMA LockJoinExact ==
    ASSUME IInv, ExactInv, nFail' = 0, NEW f \in File, LockJoin(f)
    PROVE  ExactInv'
<1> DEFINE p == ProcOf[f]
<1>1. /\ pc[f] = "idle" /\ MutexFree(p) /\ nFail = 0 /\ iLock[p] \in {SHARED, RESERVED}
      /\ pLock[f] = NO
      /\ UNCHANGED <<iLock, closing, kern, pc>> /\ pLock' = [pLock EXCEPT ![f] = SHARED]
      /\ nShared' = [nShared EXCEPT ![p] = @ + 1]
  BY DEF LockJoin, MayLock, MayUnlock, Joined
<1>2. level' = [level EXCEPT ![f] = SHARED] /\ level[f] = NO
  BY <1>1 DEF level, IInv, TypeOK
<1>3. \A g \in File \ {f} : level'[g] = level[g] /\ pLock'[g] = pLock[g]
  BY <1>1, <1>2 DEF level, IInv, TypeOK
<1>4. level'[f] = SHARED
  BY <1>2 DEF level
<1>5. p \in Proc /\ f \in FilesOf(p) /\ Exact(p) /\ \A g \in FilesOf(p) : LevelOk(g)
  BY <1>1, ProcType DEF ExactInv, IInv, LevelInv, FilesOf
<1>6. Holders(p)' = Holders(p) \cup {f} /\ f \notin Holders(p)
  BY <1>2, <1>3, <1>4, HoldersStep DEF Holders, NO, SHARED
<1>7. CountFor(p)'
  <2>1. Cardinality(Holders(p) \cup {f}) = Cardinality(Holders(p)) + 1
    BY <1>5, <1>6, HoldersFinite, FS_AddElement
  <2> QED
    BY <1>1, <1>5, <1>6, <2>1 DEF Exact, CountFor, IInv, TypeOK
<1>8. SharedFor(p)' /\ WriteFor(p)'
  BY <1>1, <1>5
     DEF Exact, SharedFor, WriteFor, LevelOk, MutexFree, Outside, FilesOf, NO, SHARED, RESERVED,
         EXCLUSIVE
<1>9. PendingFor(p)' /\ ReservedFor(p)' /\ RecordFor(p)'
  BY <1>1, <1>2, <1>3, <1>5
     DEF Exact, PendingFor, ReservedFor, RecordFor, FilesOf, NO, SHARED, RESERVED, PENDING
<1>10. Exact(p)'
  BY <1>7, <1>8, <1>9 DEF Exact
<1>11. Tidy(f)' /\ \A q \in Proc \ {p} : nShared'[q] = nShared[q]
  BY <1>1 DEF Tidy, IInv, TypeOK
<1> QED
  BY <1>1, <1>3, <1>10, <1>11, ExactElsewhere

(* A step that keeps the levels and the record, and moves one region. *)
LEMMA ExactRegion ==
    ASSUME IInv, ExactInv, nFail = 0, NEW f \in File, NEW x, NEW r \in Region, NEW m \in Mode,
           pc' = [pc EXCEPT ![f] = x], SetRegion(ProcOf[f], r, m),
           UNCHANGED <<iLock, nShared, pLock, closing>>, level' = level,
           pc[f] \notin {"dropAll", "rdOk"}, Tidy(f)',
           \/ r = "pending" /\ x \in {"rdShared", "wrShared"}
           \/ /\ r = "shared" /\ m = "read" /\ x \in {"rdOk", "dropWriter"}
              /\ x = "dropWriter" => pc[f] = "idle" /\ iLock[ProcOf[f]] # NO
           \/ r = "pending" /\ m = "none" /\ pc[f] = "rdBusy" /\ x = "idle"
    PROVE  ExactInv'
<1> DEFINE p == ProcOf[f]
<1>1. /\ p \in Proc /\ f \in FilesOf(p) /\ Exact(p) /\ Holders(p)' = Holders(p)
      /\ FilesOf(p)' = FilesOf(p)
  BY ProcType, HoldersSame DEF ExactInv, FilesOf
<1>2. pc'[f] = x /\ \A g \in File \ {f} : pc'[g] = pc[g]
  BY DEF IInv, TypeOK
<1>3. /\ kern'[p][r] = m /\ \A s \in Region \ {r} : kern'[p][s] = kern[p][s]
      /\ \A q \in Proc \ {p} : kern'[q] = kern[q]
  BY <1>1 DEF SetRegion, IInv, TypeOK
<1>4. SharedFor(p)'
  BY <1>1, <1>2, <1>3 DEF Exact, SharedFor, FilesOf, Region
<1>5. WriteFor(p)'
  BY <1>1, <1>2, <1>3 DEF Exact, WriteFor, FilesOf, Region
<1>6. PendingFor(p)'
  BY <1>1, <1>2, <1>3 DEF Exact, PendingFor, FilesOf, Region
<1>7. ReservedFor(p)' /\ RecordFor(p)' /\ CountFor(p)'
  BY <1>1, <1>3 DEF Exact, ReservedFor, RecordFor, CountFor, Region
<1>8. Exact(p)'
  BY <1>4, <1>5, <1>6, <1>7 DEF Exact
<1> QED
  BY <1>2, <1>3, <1>8, ExactElsewhere

(* PENDING_BYTE on the way to SHARED. *)
LEMMA LockSharedPendingExact ==
    ASSUME IInv, ExactInv, nFail' = 0, NEW f \in File, LockSharedPending(f)
    PROVE  ExactInv'
<1>1. /\ pc[f] = "idle" /\ pc' = [pc EXCEPT ![f] = "rdShared"] /\ nFail = 0
      /\ UNCHANGED <<iLock, nShared, pLock, closing>> /\ pLock[f] = NO
      /\ SetRegion(ProcOf[f], "pending", "read")
  BY DEF LockSharedPending, MayLock, MayUnlock, Goto, recVars
<1>2. level' = level /\ Tidy(f)'
  BY <1>1 DEF level, Tidy, IInv, TypeOK
<1>3. "pending" \in Region /\ "read" \in Mode
  BY DEF Region, Mode
<1> QED
  BY <1>1, <1>2, <1>3, ExactRegion

(* PENDING_BYTE on the way to EXCLUSIVE. *)
LEMMA LockExclPendingExact ==
    ASSUME IInv, ExactInv, nFail' = 0, NEW f \in File, LockExclPending(f)
    PROVE  ExactInv'
<1>1. /\ pc[f] = "idle" /\ pc' = [pc EXCEPT ![f] = "wrShared"] /\ nFail = 0
      /\ UNCHANGED <<iLock, nShared, pLock, closing>>
      /\ SetRegion(ProcOf[f], "pending", "write")
  BY DEF LockExclPending, MayLock, MayUnlock, Goto, recVars
<1>2. level' = level /\ Tidy(f)'
  BY <1>1 DEF level, Tidy, IInv, TypeOK
<1>3. "pending" \in Region /\ "write" \in Mode
  BY DEF Region, Mode
<1> QED
  BY <1>1, <1>2, <1>3, ExactRegion

(* The shared range, granted or refused. *)
LEMMA LockSharedRangeExact ==
    ASSUME IInv, ExactInv, nFail' = 0, NEW f \in File, LockSharedRange(f)
    PROVE  ExactInv'
<1>1. /\ pc[f] = "rdShared" /\ UNCHANGED <<closing, pLock, iLock, nShared>>
      /\ nFail \in Nat
      /\ \/ SetRegion(ProcOf[f], "shared", "read") /\ UNCHANGED nFail /\ pc' = [pc EXCEPT ![f] = "rdOk"]
         \/ UNCHANGED <<kern, nFail>> /\ pc' = [pc EXCEPT ![f] = "rdBusy"]
         \/ nFail' = nFail + 1
  BY DEF LockSharedRange, Goto, NoFail, Fail, recVars, IInv, TypeOK
<1>2. level' = level /\ Tidy(f)'
  BY DEF LockSharedRange, Goto, level, Tidy, IInv, TypeOK
<1>3. CASE SetRegion(ProcOf[f], "shared", "read") /\ UNCHANGED nFail /\ pc' = [pc EXCEPT ![f] = "rdOk"]
  <2>1. "shared" \in Region /\ "read" \in Mode
    BY DEF Region, Mode
  <2> QED
    BY <1>1, <1>2, <1>3, <2>1, ExactRegion
<1>4. CASE UNCHANGED <<kern, nFail>> /\ pc' = [pc EXCEPT ![f] = "rdBusy"]
  <2> DEFINE p == ProcOf[f]
  <2>1. /\ p \in Proc /\ f \in FilesOf(p) /\ Exact(p) /\ Holders(p)' = Holders(p)
        /\ FilesOf(p)' = FilesOf(p)
    BY <1>2, <1>4, ProcType, HoldersSame DEF ExactInv, FilesOf
  <2>2. pc'[f] = "rdBusy" /\ \A g \in File \ {f} : pc'[g] = pc[g]
    BY <1>4 DEF IInv, TypeOK
  <2>3. SharedFor(p)' /\ WriteFor(p)' /\ PendingFor(p)'
    BY <1>1, <1>2, <1>4, <2>1, <2>2 DEF Exact, SharedFor, WriteFor, PendingFor, FilesOf
  <2>4. ReservedFor(p)' /\ RecordFor(p)' /\ CountFor(p)'
    BY <1>1, <1>2, <1>4, <2>1 DEF Exact, ReservedFor, RecordFor, CountFor
  <2>5. Exact(p)'
    BY <2>3, <2>4 DEF Exact
  <2> QED
    BY <1>1, <1>2, <1>4, <2>2, <2>5, ExactElsewhere
<1> QED
  BY <1>1, <1>3, <1>4

(* The shared range becomes a read lock again. *)
LEMMA UnlockReadBackExact ==
    ASSUME IInv, ExactInv, nFail' = 0, NEW f \in File, UnlockReadBack(f)
    PROVE  ExactInv'
<1>1. nFail \in Nat
  BY DEF IInv, TypeOK
<1>2. /\ pc[f] = "idle" /\ pc' = [pc EXCEPT ![f] = "dropWriter"] /\ nFail = 0 /\ f \notin closing
      /\ UNCHANGED <<iLock, nShared, pLock, closing>> /\ pLock[f] > SHARED
      /\ SetRegion(ProcOf[f], "shared", "read")
  BY <1>1 DEF UnlockReadBack, MayLock, MayUnlock, Goto, recVars, Fail, NoFail
<1>3. level' = level /\ Tidy(f)' /\ level[f] # NO
  BY <1>2 DEF level, Tidy, IInv, TypeOK, NO, SHARED
<1>4. iLock[ProcOf[f]] # NO
  BY <1>3 DEF IInv, LevelInv, LevelOk
<1>5. "shared" \in Region /\ "read" \in Mode
  BY DEF Region, Mode
<1> QED
  BY <1>2, <1>3, <1>4, <1>5, ExactRegion

(* SHARED, or back to NO after a refusal; either way PENDING_BYTE is free. *)
LEMMA LockSharedDoneExact ==
    ASSUME IInv, ExactInv, nFail' = 0, NEW f \in File, LockSharedDone(f)
    PROVE  ExactInv'
<1> DEFINE p == ProcOf[f]
<1>1. /\ nFail \in Nat /\ p \in Proc /\ f \in FilesOf(p) /\ FilesOf(p)' = FilesOf(p)
      /\ pc[f] \in {"rdOk", "rdBusy"} /\ pLock[f] = NO /\ iLock[p] = NO
      /\ \A g \in FilesOf(p) : LevelOk(g) /\ PlaceOk(g)
  BY ProcType
     DEF IInv, TypeOK, PlaceInv, PlaceOk, LevelInv, LockSharedDone, FilesOf
<1>2. nFail = 0 /\ Exact(p) /\ pc' = [pc EXCEPT ![f] = "idle"] /\ UNCHANGED closing
  BY <1>1 DEF ExactInv, LockSharedDone, DropTempPending, Fail, NoFail, Goto
<1>3. SetRegion(p, "pending", "none")
  BY <1>1, <1>2 DEF LockSharedDone, DropTempPending, Fail
<1>4. /\ pc'[f] = "idle" /\ \A g \in File \ {f} : pc'[g] = pc[g]
      /\ kern'[p]["pending"] = "none" /\ \A s \in {"shared", "reserved"} : kern'[p][s] = kern[p][s]
      /\ \A q \in Proc \ {p} : kern'[q] = kern[q]
  BY <1>1, <1>2, <1>3 DEF SetRegion, IInv, TypeOK, Region
<1>5. Holders(p) = {}
  BY <1>1 DEF LevelOk, Holders, FilesOf
<1>6. CASE pc[f] = "rdOk"
  <2>1. /\ pLock' = [pLock EXCEPT ![f] = SHARED] /\ iLock' = [iLock EXCEPT ![p] = SHARED]
        /\ nShared' = [nShared EXCEPT ![p] = 1]
    BY <1>1, <1>2, <1>6 DEF LockSharedDone, SetBoth, Fail
  <2>2. /\ iLock'[p] = SHARED /\ nShared'[p] = 1
        /\ \A q \in Proc \ {p} : iLock'[q] = iLock[q] /\ nShared'[q] = nShared[q]
    BY <1>1, <2>1 DEF IInv, TypeOK
  <2>3. /\ level'[f] = SHARED /\ \A g \in File \ {f} : level'[g] = level[g] /\ pLock'[g] = pLock[g]
    BY <1>1, <1>4, <1>6, <2>1 DEF level, IInv, TypeOK
  <2>4. Holders(p)' = {f}
    <3>1. level'[f] # NO
      BY <2>3 DEF NO, SHARED
    <3>2. Holders(p)' = Holders(p) \cup {f}
      BY <2>3, <3>1, HoldersStep
    <3> QED
      BY <1>5, <3>2
  <2>5. CountFor(p)'
    BY <2>2, <2>4, FS_Singleton DEF CountFor
  <2>6. SharedFor(p)' /\ WriteFor(p)' /\ PendingFor(p)' /\ ReservedFor(p)' /\ RecordFor(p)'
    <3>1. \A g \in FilesOf(p) : level[g] = NO
      BY <1>5 DEF Holders
    <3>2. ReservedFor(p)' /\ PendingFor(p)'
      BY <1>1, <1>2, <1>4, <3>1 DEF Exact, ReservedFor, PendingFor, NO, RESERVED
    <3>3. WriteFor(p)'
      BY <1>1, <1>2, <1>4, <1>5 DEF Exact, WriteFor
    <3> QED
      BY <2>2, <3>2, <3>3 DEF SharedFor, RecordFor, NO, SHARED
  <2>7. Exact(p)' /\ Tidy(f)'
    BY <1>4, <2>5, <2>6 DEF Exact, Tidy
  <2> QED
    BY <1>2, <1>4, <2>2, <2>3, <2>7, ExactElsewhere
<1>7. CASE pc[f] = "rdBusy"
  <2>1. UNCHANGED <<pLock, iLock, nShared>>
    BY <1>7 DEF LockSharedDone
  <2>2. level' = level
    BY <1>2, <1>7, <2>1 DEF level
  <2>3. "pending" \in Region /\ "none" \in Mode /\ Tidy(f)'
    BY <1>4 DEF Region, Mode, Tidy
  <2> QED
    BY <1>2, <1>3, <1>7, <2>1, <2>2, <2>3, ExactRegion
<1> QED
  BY <1>1, <1>6, <1>7

(* RESERVED: the record takes the level of the handle. *)
LEMMA LockReservedExact ==
    ASSUME IInv, ExactInv, nFail' = 0, NEW f \in File, LockReserved(f)
    PROVE  ExactInv'
<1> DEFINE p == ProcOf[f]
<1>1. /\ p \in Proc /\ f \in FilesOf(p) /\ FilesOf(p)' = FilesOf(p)
      /\ pc[f] = "idle" /\ MutexFree(p) /\ pLock[f] = SHARED /\ iLock[p] = SHARED
      /\ UNCHANGED <<pc, nFail, nShared, closing>> /\ SetRegion(p, "reserved", "write")
      /\ pLock' = [pLock EXCEPT ![f] = RESERVED] /\ iLock' = [iLock EXCEPT ![p] = RESERVED]
      /\ \A g \in FilesOf(p) : LevelOk(g)
  BY ProcType DEF LockReserved, MayLock, MayUnlock, SetBoth, FilesOf, IInv, LevelInv
<1>2. nFail = 0 /\ Exact(p)
  BY <1>1 DEF ExactInv
<1>3. /\ level[f] = SHARED /\ level'[f] = RESERVED
      /\ \A g \in File \ {f} : level'[g] = level[g] /\ pLock'[g] = pLock[g]
  BY <1>1 DEF level, IInv, TypeOK
<1>4. /\ \A s \in {"shared", "pending"} : kern'[p][s] = kern[p][s]
      /\ iLock'[p] = RESERVED
      /\ \A q \in Proc \ {p} : kern'[q] = kern[q] /\ iLock'[q] = iLock[q]
  BY <1>1 DEF SetRegion, IInv, TypeOK, Region
<1>5. Holders(p)' = Holders(p)
  BY <1>1, <1>3, HoldersStep DEF Holders, NO, SHARED, RESERVED
<1>6. SharedFor(p)' /\ ReservedFor(p)' /\ RecordFor(p)' /\ CountFor(p)'
  BY <1>1, <1>2, <1>3, <1>4, <1>5
     DEF Exact, SharedFor, ReservedFor, RecordFor, CountFor, NO, RESERVED
<1>7. WriteFor(p)'
  BY <1>1, <1>2, <1>4
     DEF Exact, WriteFor, LevelOk, MutexFree, Outside, FilesOf, SHARED, EXCLUSIVE
<1>8. PendingFor(p)'
  BY <1>1, <1>2, <1>3, <1>4 DEF Exact, PendingFor, FilesOf, SHARED, PENDING
<1>9. Exact(p)' /\ Tidy(f)'
  BY <1>1, <1>6, <1>7, <1>8 DEF Exact, Tidy
<1> QED
  BY <1>1, <1>2, <1>3, <1>4, <1>9, ExactElsewhere

(* Only a handle that is alone comes to EXCLUSIVE. *)
LEMMA LockExclRangeExact ==
    ASSUME IInv, ExactInv, nFail' = 0, NEW f \in File, LockExclRange(f)
    PROVE  ExactInv'
<1> DEFINE p == ProcOf[f]
<1>1. /\ p \in Proc /\ f \in FilesOf(p) /\ FilesOf(p)' = FilesOf(p) /\ nFail \in Nat
      /\ AtExclRange(f) /\ pc' = [pc EXCEPT ![f] = "idle"] /\ UNCHANGED <<nShared, closing>>
      /\ \A g \in FilesOf(p) : LevelOk(g) /\ PlaceOk(g)
  BY ProcType
     DEF LockExclRange, Goto, FilesOf, IInv, TypeOK, LevelInv, PlaceInv
<1>2. /\ pc[f] \in {"idle", "wrShared"} /\ iLock[p] = pLock[f]
      /\ pLock[f] \in {SHARED, RESERVED, PENDING}
      /\ \A g \in FilesOf(p) \ {f} : pc[g] \in Outside
  BY <1>1 DEF AtExclRange, MayLock, MayUnlock, MutexFree, PlaceOk, IInv, MutexInv, FilesOf, Outside
<1>3. level[f] = pLock[f]
  BY <1>2 DEF level
<1>4. PICK l \in {PENDING, EXCLUSIVE} :
         /\ pLock' = [pLock EXCEPT ![f] = l] /\ iLock' = [iLock EXCEPT ![p] = l] /\ nFail = 0
         /\ \/ l = PENDING /\ UNCHANGED kern
            \/ l = EXCLUSIVE /\ Alone(f) /\ SetRegion(p, "shared", "write")
  BY <1>1 DEF LockExclRange, NoFail, Fail, SetBoth
<1>5. Exact(p)
  BY <1>1, <1>4 DEF ExactInv
<1>6. /\ level'[f] = l /\ \A g \in File \ {f} : level'[g] = level[g] /\ pLock'[g] = pLock[g]
      /\ pc'[f] = "idle" /\ \A g \in File \ {f} : pc'[g] = pc[g]
  BY <1>1, <1>4 DEF level, IInv, TypeOK
<1>7. /\ \A s \in {"reserved", "pending"} : kern'[p][s] = kern[p][s]
      /\ iLock'[p] = l
      /\ \A q \in Proc \ {p} : kern'[q] = kern[q] /\ iLock'[q] = iLock[q]
  BY <1>1, <1>4 DEF SetRegion, IInv, TypeOK, Region
<1>8. Holders(p)' = Holders(p) /\ f \in Holders(p)
  BY <1>1, <1>2, <1>3, <1>6, HoldersStep DEF Holders, NO, SHARED, RESERVED, PENDING, EXCLUSIVE
<1>9. SharedFor(p)' /\ PendingFor(p)' /\ ReservedFor(p)' /\ RecordFor(p)' /\ CountFor(p)'
  BY <1>1, <1>5, <1>6, <1>7, <1>8
     DEF Exact, SharedFor, PendingFor, ReservedFor, RecordFor, CountFor, NO, RESERVED, PENDING,
         EXCLUSIVE
<1>10. WriteFor(p)'
  <2>1. CASE l = PENDING
    <3>1. kern[p]["shared"] # "write"
      <4> SUFFICES ASSUME NEW g \in FilesOf(p), level[g] = EXCLUSIVE \/ pc[g] = "dropAll"
                   PROVE  FALSE
        BY <1>5 DEF Exact, WriteFor
      <4>1. iLock[p] # EXCLUSIVE
        BY <1>2 DEF SHARED, RESERVED, PENDING, EXCLUSIVE
      <4>2. level[g] # EXCLUSIVE
        BY <1>1, <4>1 DEF LevelOk, FilesOf, SHARED, EXCLUSIVE
      <4>3. pc[g] # "dropAll"
        BY <1>2 DEF Outside
      <4> QED
        BY <4>2, <4>3
    <3> QED
      BY <1>4, <2>1, <3>1 DEF WriteFor, PENDING, EXCLUSIVE
  <2>2. CASE l = EXCLUSIVE
    <3>1. nShared[p] <= 1 /\ level[f] # NO
      BY <1>2, <1>3, <1>4, <2>2 DEF Alone, NO, SHARED, RESERVED, PENDING, EXCLUSIVE
    <3>2. \A g \in FilesOf(p) \ {f} : level[g] = NO
      BY <3>1, OnlyHolder DEF IInv
    <3>3. Holders(p) = {f}
      BY <1>1, <3>1, <3>2 DEF Holders
    <3> QED
      BY <1>1, <1>6, <1>8, <2>2, <3>3 DEF WriteFor
  <2> QED
    BY <2>1, <2>2
<1>11. Exact(p)' /\ Tidy(f)'
  BY <1>6, <1>9, <1>10 DEF Exact, Tidy
<1> QED
  BY <1>1, <1>4, <1>6, <1>7, <1>11, ExactElsewhere

(* On the way down PENDING_BYTE and RESERVED_BYTE go with the level. *)
LEMMA UnlockWriterExact ==
    ASSUME IInv, ExactInv, nFail' = 0, NEW f \in File, UnlockWriter(f)
    PROVE  ExactInv'
<1> DEFINE p == ProcOf[f]
           x == IF pc[f] = "idle" THEN "dropAll" ELSE "leaveShared"
<1>1. /\ p \in Proc /\ f \in FilesOf(p) /\ FilesOf(p)' = FilesOf(p) /\ nFail \in Nat
      /\ pc[f] \in {"idle", "dropWriter"} /\ pLock[f] > SHARED
      /\ pc[f] = "idle" => MutexFree(p)
      /\ UNCHANGED <<pLock, nShared, closing>>
  BY ProcType DEF UnlockWriter, MayUnlock, FilesOf, IInv, TypeOK
<1>2. /\ nFail = 0 /\ Exact(p) /\ Tidy(f) /\ pc' = [pc EXCEPT ![f] = x]
      /\ kern' = [kern EXCEPT ![p]["pending"] = "none", ![p]["reserved"] = "none"]
      /\ iLock' = [iLock EXCEPT ![p] = SHARED]
  BY <1>1 DEF ExactInv, UnlockWriter, NoFail, Fail, Goto
<1> HIDE DEF x
<1>3. /\ kern'[p]["pending"] = "none" /\ kern'[p]["reserved"] = "none"
      /\ kern'[p]["shared"] = kern[p]["shared"] /\ iLock'[p] = SHARED
      /\ \A q \in Proc \ {p} : kern'[q] = kern[q] /\ iLock'[q] = iLock[q]
  BY <1>1, <1>2 DEF IInv, TypeOK, Region
<1>4. pc'[f] = x /\ \A g \in File \ {f} : pc'[g] = pc[g]
  BY <1>2 DEF IInv, TypeOK
<1>5. /\ level[f] = pLock[f] /\ level'[f] = SHARED
      /\ \A g \in File \ {f} : level'[g] = level[g]
  BY <1>1, <1>4 DEF level, x
<1>6. Holders(p)' = Holders(p)
  <2>1. level[f] # NO /\ level'[f] # NO
    BY <1>1, <1>5 DEF NO, SHARED, IInv, TypeOK
  <2>2. Holders(p)' = Holders(p) \cup {f} /\ f \in Holders(p)
    BY <1>1, <1>5, <2>1, HoldersStep DEF Holders
  <2> QED
    BY <2>2
<1>7. SharedFor(p)' /\ PendingFor(p)' /\ ReservedFor(p)' /\ RecordFor(p)' /\ CountFor(p)'
  BY <1>1, <1>2, <1>3, <1>6
     DEF Exact, SharedFor, PendingFor, ReservedFor, RecordFor, CountFor, NO, SHARED
<1>8. WriteFor(p)'
  <2> SUFFICES ASSUME kern[p]["shared"] = "write"
               PROVE  WriteFor(p)'
    BY <1>3 DEF WriteFor
  <2>1. PICK g \in FilesOf(p) : /\ Holders(p) = {g}
                                /\ \/ level[g] = EXCLUSIVE /\ pc[g] # "dropWriter"
                                   \/ pc[g] = "dropAll"
    BY <1>2 DEF Exact, WriteFor
  <2>2. g = f
    BY <1>1, <1>5, <2>1 DEF Holders, NO, SHARED, IInv, TypeOK
  <2>3. pc'[f] = "dropAll"
    BY <1>1, <1>4, <2>1, <2>2 DEF x
  <2> QED
    BY <1>1, <1>6, <2>1, <2>2, <2>3 DEF WriteFor
<1>9. Exact(p)' /\ Tidy(f)'
  BY <1>1, <1>2, <1>4, <1>7, <1>8 DEF Exact, Tidy, x
<1> QED
  BY <1>1, <1>2, <1>3, <1>4, <1>5, <1>9, ExactElsewhere

(* Only the last holder of the process can take the locks with it. *)
LEMMA UnlockAllExact ==
    ASSUME IInv, ExactInv, nFail' = 0, NEW f \in File, UnlockAll(f)
    PROVE  ExactInv'
<1> DEFINE p == ProcOf[f]
<1>1. /\ p \in Proc /\ f \in FilesOf(p) /\ FilesOf(p)' = FilesOf(p) /\ nFail \in Nat
      /\ pc[f] = "dropAll" \/ (pc[f] = "idle" /\ pLock[f] = SHARED)
      /\ pc[f] # "dropAll" => MutexFree(p)
      /\ \A g \in FilesOf(p) : PlaceOk(g) /\ LevelOk(g)
      /\ nShared[p] \in Nat /\ nLock[p] = nShared[p]
  BY ProcType
     DEF UnlockAll, MayUnlock, FilesOf, IInv, TypeOK, PlaceInv, LevelInv, RecordInv
<1>2. /\ nFail = 0 /\ Exact(p) /\ pc' = [pc EXCEPT ![f] = "leaveNo"] /\ UNCHANGED <<pLock, closing>>
      /\ nShared' = [nShared EXCEPT ![p] = @ - 1]
      /\ iLock' = [iLock EXCEPT ![p] = IF nShared[p] = 1 THEN NO ELSE @]
      /\ IF nShared[p] = 1 THEN DropLocks(p) ELSE UNCHANGED kern
  <2>1. nFail' # nFail + 1
    BY <1>1
  <2>2. /\ NoFail /\ Goto(f, "leaveNo") /\ UNCHANGED <<pLock, closing>>
        /\ nShared' = [nShared EXCEPT ![p] = @ - 1]
        /\ iLock' = [iLock EXCEPT ![p] = IF nShared[p] = 1 THEN NO ELSE @]
    BY <2>1 DEF UnlockAll
  <2>3. IF nShared[p] = 1 \/ (nLock[p] = 1 /\ nUnused[p] > 0) THEN DropLocks(p) ELSE UNCHANGED kern
    BY <2>1 DEF UnlockAll, LastLock
  <2>4. nFail = 0 /\ Exact(p)
    BY <1>1, <2>2 DEF NoFail, ExactInv
  <2>5. IF nShared[p] = 1 THEN DropLocks(p) ELSE UNCHANGED kern
    <3>1. nLock[p] = nShared[p]
      BY <1>1
    <3> QED
      BY <2>3, <3>1
  <2> QED
    BY <2>2, <2>4, <2>5 DEF Goto
<1>3. pc'[f] = "leaveNo" /\ \A g \in File \ {f} : pc'[g] = pc[g]
  BY <1>2 DEF IInv, TypeOK
<1>4. /\ level[f] = SHARED /\ level'[f] = NO
      /\ \A g \in File \ {f} : level'[g] = level[g]
  BY <1>1, <1>2, <1>3 DEF level
<1>5. /\ nShared'[p] = nShared[p] - 1
      /\ iLock'[p] = IF nShared[p] = 1 THEN NO ELSE iLock[p]
      /\ nShared[p] = 1 => kern'[p] = NoLocks
      /\ nShared[p] # 1 => kern'[p] = kern[p]
      /\ \A q \in Proc \ {p} : kern'[q] = kern[q] /\ iLock'[q] = iLock[q] /\ nShared'[q] = nShared[q]
  BY <1>1, <1>2 DEF DropLocks, IInv, TypeOK
<1>6. Holders(p)' = Holders(p) \ {f} /\ f \in Holders(p)
  BY <1>1, <1>4, HoldersStep DEF Holders, NO, SHARED
<1>7. CountFor(p)'
  <2>1. Cardinality(Holders(p) \ {f}) = Cardinality(Holders(p)) - 1
    BY <1>1, <1>6, HoldersFinite, FS_RemoveElement
  <2> QED
    BY <1>2, <1>5, <1>6, <2>1 DEF Exact, CountFor
<1>8. SharedFor(p)' /\ WriteFor(p)' /\ PendingFor(p)' /\ ReservedFor(p)' /\ RecordFor(p)'
  <2>1. CASE nShared[p] = 1
    BY <1>5, <2>1
       DEF SharedFor, WriteFor, PendingFor, ReservedFor, RecordFor, NoLocks, Region, NO, SHARED
  <2>2. CASE nShared[p] # 1
    <3>1. kern'[p] = kern[p] /\ iLock'[p] = iLock[p]
      BY <1>5, <2>2
    <3>2. kern[p]["shared"] # "write"
      <4> SUFFICES ASSUME NEW g \in FilesOf(p), Holders(p) = {g}
                   PROVE  FALSE
        BY <1>2 DEF Exact, WriteFor
      <4> QED
        BY <1>2, <2>2, FS_Singleton DEF Exact, CountFor
    <3>3. WriteFor(p)'
      BY <3>1, <3>2 DEF WriteFor
    <3>4. iLock[p] # NO
      BY <1>1, <1>4 DEF LevelOk, NO, SHARED
    <3>5. SharedFor(p)'
      BY <3>1, <3>4 DEF SharedFor
    <3>6. ReservedFor(p)'
      BY <1>1, <1>2, <1>4, <3>1 DEF Exact, ReservedFor, FilesOf, SHARED, RESERVED
    <3>7. PendingFor(p)'
      BY <1>1, <1>2, <1>3, <1>4, <3>1 DEF Exact, PendingFor, FilesOf, SHARED, PENDING
    <3>8. RecordFor(p)'
      BY <1>1, <1>2, <1>4, <3>1 DEF Exact, RecordFor, FilesOf, SHARED
    <3> QED
      BY <3>3, <3>5, <3>6, <3>7, <3>8
  <2> QED
    BY <2>1, <2>2
<1>9. Exact(p)' /\ Tidy(f)'
  BY <1>3, <1>7, <1>8 DEF Exact, Tidy
<1> QED
  BY <1>2, <1>3, <1>4, <1>5, <1>9, ExactElsewhere

(* The end of a process, or of its record. *)
LEMMA ExactGone ==
    ASSUME IInv, ExactInv, nFail = 0, NEW p \in Proc,
           kern' = [kern EXCEPT ![p] = NoLocks], iLock' = [iLock EXCEPT ![p] = NO],
           nShared' = [nShared EXCEPT ![p] = 0],
           \A g \in FilesOf(p) : pc'[g] \in {"closed", "opening"} /\ pLock'[g] = NO,
           \A g \in File \ FilesOf(p) : /\ pc'[g] = pc[g] /\ pLock'[g] = pLock[g]
                                        /\ (g \in closing' <=> g \in closing)
    PROVE  ExactInv'
<1>1. /\ \A g \in FilesOf(p) : level'[g] = NO
      /\ \A g \in File \ FilesOf(p) : level'[g] = level[g]
  BY DEF level, FilesOf
<1>2. /\ kern'[p] = NoLocks /\ iLock'[p] = NO /\ nShared'[p] = 0
      /\ \A q \in Proc \ {p} : kern'[q] = kern[q] /\ iLock'[q] = iLock[q] /\ nShared'[q] = nShared[q]
  BY DEF IInv, TypeOK
<1>3. Exact(p)'
  <2>1. Holders(p)' = {}
    BY <1>1 DEF Holders, FilesOf
  <2>2. CountFor(p)'
    BY <1>2, <2>1, FS_EmptySet DEF CountFor
  <2> QED
    BY <1>2, <2>2
       DEF Exact, SharedFor, WriteFor, PendingFor, ReservedFor, RecordFor, NoLocks, Region, NO,
           SHARED
<1>4. ASSUME NEW q \in Proc, q # p
      PROVE  Exact(q)'
  <2>1. Exact(q) /\ kern'[q] = kern[q] /\ iLock'[q] = iLock[q] /\ nShared'[q] = nShared[q]
    BY <1>2, <1>4 DEF ExactInv
  <2>2. /\ \A g \in FilesOf(q) : pc'[g] = pc[g] /\ level'[g] = level[g]
        /\ FilesOf(q)' = FilesOf(q)
    BY <1>1, <1>4 DEF FilesOf
  <2>3. Holders(q)' = Holders(q)
    BY <2>2 DEF Holders
  <2>4. SharedFor(q)' /\ PendingFor(q)' /\ ReservedFor(q)' /\ RecordFor(q)'
    BY <2>1, <2>2 DEF Exact, SharedFor, PendingFor, ReservedFor, RecordFor
  <2>5. WriteFor(q)' /\ CountFor(q)'
    BY <2>1, <2>2, <2>3 DEF Exact, WriteFor, CountFor
  <2> QED
    BY <2>4, <2>5 DEF Exact
<1>5. ASSUME NEW g \in File
      PROVE  Tidy(g)'
  BY DEF ExactInv, Tidy
<1> QED
  BY <1>3, <1>4, <1>5 DEF ExactInv

(* unixClose() leaves a handle without a level, or takes the record with it. *)
LEMMA ReleaseExact ==
    ASSUME IInv, ExactInv, nFail' = 0, NEW f \in File, Release(f)
    PROVE  ExactInv'
<1> DEFINE p == ProcOf[f]
<1>1. /\ p \in Proc /\ f \in FilesOf(p) /\ FilesOf(p)' = FilesOf(p) /\ nFail = 0
      /\ pc[f] = "release" /\ pc' = [pc EXCEPT ![f] = "closed"]
      /\ pLock' = [pLock EXCEPT ![f] = NO] /\ closing' = closing \ {f}
      /\ Exact(p) /\ Tidy(f)
  BY ProcType DEF Release, Goto, FilesOf, ExactInv
<1>2. /\ pc'[f] = "closed" /\ \A g \in File \ {f} : pc'[g] = pc[g] /\ pLock'[g] = pLock[g]
      /\ pLock'[f] = NO
  BY <1>1 DEF IInv, TypeOK
<1>3. CASE LastOpen(f)
  <2>1. /\ kern' = [kern EXCEPT ![p] = NoLocks] /\ iLock' = [iLock EXCEPT ![p] = NO]
        /\ nShared' = [nShared EXCEPT ![p] = 0]
    BY <1>3 DEF Release, ReleaseRecord, DropLocks
  <2>2. \A g \in FilesOf(p) \ {f} : pc[g] \in {"closed", "opening"} /\ pLock[g] = NO
    BY <1>3 DEF LastOpen, Opened, FilesOf, IInv, TypeOK, PlaceInv, PlaceOk
  <2>3. \A g \in FilesOf(p) : pc'[g] \in {"closed", "opening"} /\ pLock'[g] = NO
    BY <1>2, <2>2 DEF FilesOf
  <2>4. \A g \in File \ FilesOf(p) : /\ pc'[g] = pc[g] /\ pLock'[g] = pLock[g]
                                     /\ (g \in closing' <=> g \in closing)
    BY <1>1, <1>2
  <2> QED
    BY <1>1, <2>1, <2>3, <2>4, ExactGone
<1>4. CASE ~LastOpen(f)
  <2>1. /\ UNCHANGED <<iLock, nShared>>
        /\ IF PutAside(f) THEN UNCHANGED kern ELSE DropLocks(p)
    BY <1>4 DEF Release, ReleaseRecord
  <2>2. /\ \A q \in Proc \ {p} : kern'[q] = kern[q]
        /\ kern'[p] = kern[p] \/ (kern'[p] = NoLocks /\ iLock[p] = NO)
    BY <1>1, <2>1 DEF DropLocks, PutAside, IInv, TypeOK, RecordInv
  <2>3. level' = level
    BY <1>1 DEF level, Tidy, IInv, TypeOK
  <2>4. Holders(p)' = Holders(p)
    BY <2>3, HoldersSame
  <2>5. SharedFor(p)' /\ PendingFor(p)'
    BY <1>1, <1>2, <2>1, <2>2, <2>3
       DEF Exact, SharedFor, PendingFor, FilesOf, NoLocks, Region
  <2>6. WriteFor(p)'
    BY <1>1, <1>2, <2>2, <2>3, <2>4
       DEF Exact, WriteFor, FilesOf, NoLocks, Region
  <2>7. ReservedFor(p)' /\ RecordFor(p)' /\ CountFor(p)'
    BY <1>1, <2>1, <2>2, <2>3, <2>4
       DEF Exact, ReservedFor, RecordFor, CountFor, NoLocks, Region
  <2>8. Exact(p)' /\ Tidy(f)'
    BY <1>2, <2>5, <2>6, <2>7 DEF Exact, Tidy
  <2> QED
    BY <1>1, <1>2, <2>1, <2>2, <2>3, <2>8, ExactElsewhere
<1> QED
  BY <1>3, <1>4

(* A process that dies keeps nothing. *)
LEMMA DeathExact ==
    ASSUME IInv, ExactInv, nFail' = 0, NEW p \in Proc, Death(p)
    PROVE  ExactInv'
<1>1. \A g \in FilesOf(p) : pc'[g] \in {"closed", "opening"} /\ pLock'[g] = NO
  BY DEF Death, FilesOf
<1>2. \A g \in File \ FilesOf(p) : /\ pc'[g] = pc[g] /\ pLock'[g] = pLock[g]
                                   /\ (g \in closing' <=> g \in closing)
  BY DEF Death
<1> QED
  BY <1>1, <1>2, ExactGone DEF Death, DropLocks

(* The state of the system is exact in every run without failures. *)
THEOREM Exactness == Spec => []ExactInv
<1>1. Init => ExactInv
  <2> SUFFICES ASSUME Init
               PROVE  ExactInv
    OBVIOUS
  <2>1. \A p : Holders(p) = {}
    BY DEF Init, Holders, FilesOf, level
  <2>2. \A p \in Proc : CountFor(p)
    BY <2>1, FS_EmptySet DEF Init, CountFor
  <2> QED
    BY <2>2
       DEF Init, ExactInv, Exact, Tidy, SharedFor, WriteFor, PendingFor, ReservedFor, RecordFor,
           NoLocks, Region, NO, SHARED
<1>2. ASSUME IInv, ExactInv, [Next]_vars
      PROVE  ExactInv'
  <2>1. CASE nFail' # 0
    BY <2>1 DEF ExactInv
  <2>2. CASE nFail' = 0
    <3>1. ASSUME NEW f \in File, FileStep(f)
          PROVE  ExactInv'
      BY <1>2, <2>2, <3>1, OpenFdExact, OpenDoneExact, OpenFailsExact, LockJoinExact,
         LockSharedPendingExact, LockSharedRangeExact, LockSharedDoneExact, LockReservedExact,
         LockExclPendingExact, LockExclRangeExact, UnlockReadBackExact, UnlockWriterExact,
         UnlockAllExact, UnlockDoneExact, CloseExact, ReleaseExact
         DEF FileStep
    <3>2. CASE UNCHANGED vars
      <4>1. level' = level /\ \A p : Holders(p)' = Holders(p)
        BY <3>2, HoldersSame DEF vars, level
      <4> QED
        BY <1>2, <3>2, <4>1
           DEF vars, recVars, ExactInv, Exact, Tidy, SharedFor, WriteFor, PendingFor,
               ReservedFor, RecordFor, CountFor, FilesOf
    <3> QED
      BY <1>2, <2>2, <3>1, <3>2, DeathExact DEF Next
  <2> QED
    BY <2>1, <2>2
<1> QED
  BY <1>1, <1>2, Invariance, PTL DEF Spec

(* No lock is left behind on any path through lock, refusal, unlock, close and
   death: while nothing fails, a reader is refused only when some handle is
   PENDING or above, and a handle that is alone can have any lock
   (os_unix.c 1564-1590). *)
THEOREM AlwaysGrants == Spec => []GrantsWhenFree
<1>1. ASSUME IInv, ExactInv
      PROVE  GrantsWhenFree
  <2> SUFFICES ASSUME nFail = 0, AllQuiet
               PROVE  \A f \in File :
                          LET p == ProcOf[f] IN
                          /\ (\A g \in File : pLock[g] < PENDING) =>
                                CanRead(p, "pending") /\ CanRead(p, "shared") /\ iLock[p] < PENDING
                          /\ (pLock[f] >= SHARED /\ \A g \in File \ {f} : pLock[g] = NO) =>
                                /\ nShared[p] = 1 /\ iLock[p] = pLock[f]
                                /\ \A r \in Region : CanWrite(p, r)
    BY DEF GrantsWhenFree
  <2> TAKE f \in File
  <2> DEFINE p == ProcOf[f]
  <2>1. /\ p \in Proc /\ f \in FilesOf(p)
        /\ \A g \in File : pc[g] \in {"closed", "idle"} /\ level[g] = pLock[g] /\ pLock[g] \in Nat
        /\ \A q \in Proc : Exact(q) /\ iLock[q] \in Nat
        /\ \A q : FilesOf(q) \subseteq File
    BY <1>1, ProcType DEF AllQuiet, level, ExactInv, IInv, TypeOK, FilesOf, NO, EXCLUSIVE
  <2>2. ASSUME \A g \in File : pLock[g] < PENDING
        PROVE  CanRead(p, "pending") /\ CanRead(p, "shared") /\ iLock[p] < PENDING
    <3>1. ASSUME NEW q \in Proc
          PROVE  kern[q]["pending"] # "write" /\ kern[q]["shared"] # "write"
      BY <2>1, <2>2 DEF Exact, PendingFor, WriteFor, PENDING, EXCLUSIVE
    <3>2. iLock[p] < PENDING
      BY <2>1, <2>2 DEF Exact, RecordFor, SHARED, PENDING
    <3> QED
      BY <3>1, <3>2 DEF CanRead
  <2>3. ASSUME pLock[f] >= SHARED, \A g \in File \ {f} : pLock[g] = NO
        PROVE  /\ nShared[p] = 1 /\ iLock[p] = pLock[f]
               /\ \A r \in Region : CanWrite(p, r)
    <3>1. Holders(p) = {f}
      BY <2>1, <2>3 DEF Holders, NO, SHARED
    <3>2. nShared[p] = 1
      <4>1. CountFor(p)
        BY <2>1 DEF Exact
      <4> QED
        BY <3>1, <4>1, FS_Singleton DEF CountFor
    <3>3. iLock[p] = pLock[f]
      <4>1. LevelOk(f) /\ level[f] = pLock[f] /\ pLock[f] \in Nat /\ iLock[p] \in Nat
        BY <1>1, <2>1 DEF IInv, LevelInv
      <4>2. iLock[p] # NO
        BY <2>3, <4>1 DEF LevelOk, NO, SHARED
      <4>3. iLock[p] > SHARED => iLock[p] = pLock[f]
        BY <2>1, <2>3 DEF Exact, RecordFor, NO, SHARED
      <4>4. pLock[f] > SHARED => iLock[p] = pLock[f]
        BY <4>1 DEF LevelOk
      <4> QED
        BY <2>3, <4>1, <4>2, <4>3, <4>4 DEF NO, SHARED
    <3>4. ASSUME NEW q \in Proc, q # p
          PROVE  \A r \in Region : kern[q][r] = "none"
      <4>1. \A g \in FilesOf(q) : level[g] = NO
        BY <2>1, <2>3, <3>4 DEF FilesOf
      <4>2. iLock[q] = NO
        <5>1. Holders(q) = {}
          BY <4>1 DEF Holders
        <5>2. nShared[q] = 0
          BY <2>1, <5>1, FS_EmptySet DEF Exact, CountFor
        <5> QED
          BY <1>1, <5>2 DEF IInv, RecordInv
      <4>3. kern[q]["shared"] = "none"
        BY <2>1, <4>2 DEF Exact, SharedFor
      <4>4. kern[q]["pending"] = "none" /\ kern[q]["reserved"] = "none"
        BY <2>1, <4>1 DEF Exact, PendingFor, ReservedFor, NO, RESERVED, PENDING
      <4> QED
        BY <4>3, <4>4 DEF Region
    <3> QED
      BY <3>2, <3>3, <3>4 DEF CanWrite
  <2> QED
    BY <2>2, <2>3
<1> QED
  BY <1>1, Invariance, Exactness, PTL

(* A process without an open handle holds nothing. *)
Clean(p) == Opened(p) = {} => kern[p] = NoLocks
CleanInv == \A p \in Proc : Clean(p)

(* A handle that is open throughout a step keeps its process out of it. *)
LEMMA CleanStep ==
    ASSUME CleanInv, NEW f \in File, \A q \in Proc \ {ProcOf[f]} : kern'[q] = kern[q],
           \A g \in File \ {f} : pc'[g] = pc[g], Clean(ProcOf[f])'
    PROVE  CleanInv'
<1>1. ASSUME NEW q \in Proc, q # ProcOf[f]
      PROVE  Clean(q)'
  BY <1>1 DEF CleanInv, Clean, Opened, FilesOf
<1> QED
  BY <1>1 DEF CleanInv

(* Every step leaves a process without open handles clean. *)
LEMMA CleanKept ==
    ASSUME IInv, CleanInv, [Next]_vars
    PROVE  CleanInv'
<1>1. ASSUME NEW f \in File, FileStep(f)
      PROVE  CleanInv'
  <2> DEFINE p == ProcOf[f]
  <2>1. p \in Proc /\ f \in FilesOf(p) /\ FilesOf(p)' = FilesOf(p)
    BY ProcType DEF FilesOf
  <2>2. \A g \in File \ {f} : pc'[g] = pc[g]
    BY <1>1
       DEF FileStep, OpenFd, OpenDone, OpenFails, LockJoin, LockSharedPending, LockSharedRange,
           LockSharedDone, LockReserved, LockExclPending, LockExclRange, UnlockReadBack,
           UnlockWriter, UnlockAll, UnlockDone, Close, Release, Goto, Return, IInv, TypeOK
  <2>3. \A q \in Proc \ {p} : kern'[q] = kern[q]
    BY <1>1
       DEF FileStep, OpenFd, OpenDone, OpenFails, LockJoin, LockSharedPending, LockSharedRange,
           LockSharedDone, DropTempPending, LockReserved, LockExclPending, LockExclRange,
           UnlockReadBack, UnlockWriter, UnlockAll, UnlockDone, Close, Release, SetRegion,
           DropLocks, Fail, IInv, TypeOK
  <2>4. CASE kern' = kern /\ (pc'[f] \notin {"closed", "opening"} \/ pc[f] \in {"closed", "opening"})
    BY <2>1, <2>2, <2>4 DEF CleanInv, Clean, Opened, FilesOf
  <2>5. CASE pc'[f] \notin {"closed", "opening"}
    BY <2>1, <2>2, <2>3, <2>5, CleanStep DEF Clean, Opened
  <2>6. CASE OpenFails(f)
    <3>1. kern'[p] = NoLocks
      BY <2>1, <2>6 DEF OpenFails, DropLocks, IInv, TypeOK
    <3> QED
      BY <2>2, <2>3, <3>1, CleanStep DEF Clean
  <2>7. CASE Release(f)
    <3>1. CASE LastOpen(f) \/ ~PutAside(f)
      <4>1. kern'[p] = NoLocks
        BY <2>1, <2>7, <3>1 DEF Release, DropLocks, IInv, TypeOK
      <4> QED
        BY <2>2, <2>3, <4>1, CleanStep DEF Clean
    <3>2. CASE ~LastOpen(f)
      <4>1. f \in Opened(p) /\ Opened(p) # {f}
        BY <2>1, <2>7, <3>2 DEF Release, LastOpen, Opened
      <4>2. PICK g \in Opened(p) : g # f
        BY <4>1
      <4>3. g \in Opened(p)'
        BY <2>1, <2>2, <4>2 DEF Opened, FilesOf
      <4>4. Clean(p)'
        BY <4>3 DEF Clean
      <4> QED
        BY <2>2, <2>3, <4>4, CleanStep
    <3> QED
      BY <3>1, <3>2
  <2>8. CASE OpenFd(f) \/ OpenDone(f)
    BY <2>1, <2>4, <2>8 DEF OpenFd, OpenDone, Goto, IInv, TypeOK
  <2>9. CASE \/ LockJoin(f) \/ LockSharedPending(f) \/ LockSharedRange(f) \/ LockSharedDone(f)
             \/ LockReserved(f) \/ LockExclPending(f) \/ LockExclRange(f)
             \/ UnlockReadBack(f) \/ UnlockWriter(f) \/ UnlockAll(f) \/ UnlockDone(f)
             \/ Close(f)
    <3>1. pc'[f] \notin {"closed", "opening"}
      BY <2>9
         DEF LockJoin, LockSharedPending, LockSharedRange, LockSharedDone, LockReserved,
             LockExclPending, LockExclRange, UnlockReadBack, UnlockWriter, UnlockAll, UnlockDone,
             Close, Goto, Return, MayLock, MayUnlock, IInv, TypeOK
    <3> QED
      BY <2>5, <3>1
  <2> QED
    BY <1>1, <2>6, <2>7, <2>8, <2>9 DEF FileStep
<1>2. ASSUME NEW p \in Proc, Death(p)
      PROVE  CleanInv'
  <2>1. kern'[p] = NoLocks /\ \A q \in Proc \ {p} : kern'[q] = kern[q]
    BY <1>2 DEF Death, DropLocks, IInv, TypeOK
  <2>2. \A g \in File \ FilesOf(p) : pc'[g] = pc[g]
    BY <1>2 DEF Death
  <2> QED
    BY <2>1, <2>2 DEF CleanInv, Clean, Opened, FilesOf
<1>3. CASE UNCHANGED vars
  BY <1>3 DEF vars, CleanInv, Clean, Opened, FilesOf
<1> QED
  BY <1>1, <1>2, <1>3 DEF Next

(* When the last handle of a process is closed nothing is left of its locks,
   its counts and its descriptors put aside, not even after calls that failed
   (releaseInodeInfo(), os_unix.c 1295). *)
THEOREM LastCloseClean == Spec => []LastCloseFrees
<1>1. Init => CleanInv
  BY DEF Init, CleanInv, Clean
<1>2. ASSUME IInv, CleanInv, PutAsideWhileLocked
      PROVE  LastCloseFrees
  <2> SUFFICES ASSUME NEW p \in Proc, Opened(p) = {}
               PROVE  kern[p] = NoLocks /\ nUnused[p] = 0 /\ nShared[p] = 0 /\ iLock[p] = NO
    BY DEF LastCloseFrees
  <2>1. iLock[p] = NO /\ nShared[p] = 0 /\ nLock[p] = 0
    BY <1>2 DEF IInv, RecordInv
  <2>2. nUnused[p] = 0
    BY <1>2, <2>1 DEF PutAsideWhileLocked, IInv, TypeOK
  <2> QED
    BY <1>2, <2>1, <2>2 DEF CleanInv, Clean
<1> QED
  BY <1>1, <1>2, CleanKept, Invariance, AlwaysPutAside, PTL DEF Spec

-----------------------------------------------------------------------------
(* UnixLock implements FileLock. *)

(* What the level of another handle means for f. *)
LEMMA OtherLevels ==
    ASSUME IInv, NEW f \in File, NEW g \in File \ {f}
    PROVE  /\ level[g] = EXCLUSIVE => level[f] = NO
           /\ level[g] = EXCLUSIVE /\ ProcOf[g] # ProcOf[f] => kern[ProcOf[f]]["shared"] = "none"
           /\ level[g] # NO => kern[ProcOf[g]]["shared"] # "none"
           /\ level[g] > SHARED /\ ProcOf[g] = ProcOf[f] => iLock[ProcOf[f]] = level[g]
           /\ level[g] = RESERVED => kern[ProcOf[g]]["reserved"] = "write"
           /\ level[g] >= PENDING => kern[ProcOf[g]]["pending"] = "write"
<1>1. /\ ProcOf[g] \in Proc /\ ProcOf[f] \in Proc
      /\ level[f] # NO => kern[ProcOf[f]]["shared"] # "none"
  BY ProcType DEF IInv, LevelInv, LevelOk, RecordInv
<1>2. level[g] = EXCLUSIVE /\ ProcOf[g] # ProcOf[f] => kern[ProcOf[f]]["shared"] = "none"
  BY <1>1 DEF IInv, OthersInv, OthersOk
<1>3. level[g] = EXCLUSIVE => level[f] = NO
  BY <1>1 DEF IInv, OthersInv, OthersOk, FilesOf
<1> QED
  BY <1>1, <1>2, <1>3 DEF IInv, LevelInv, LevelOk, RecordInv

(* The steps that move the level.  A handle that joins becomes SHARED. *)
LEMMA LockJoinLevel ==
    ASSUME IInv, NEW f \in File, LockJoin(f)
    PROVE  Levels!LockShared(f)
<1>1. level' = [level EXCEPT ![f] = SHARED] /\ level[f] = NO
  BY DEF IInv, TypeOK, level, LockJoin, MayLock, MayUnlock
<1>2. ASSUME NEW g \in File \ {f}
      PROVE  level[g] # EXCLUSIVE
  <2>1. kern[ProcOf[f]]["shared"] # "none" /\ iLock[ProcOf[f]] # EXCLUSIVE
    BY ProcType DEF LockJoin, IInv, RecordInv, NO, SHARED, RESERVED, EXCLUSIVE
  <2> QED
    BY <2>1, OtherLevels DEF SHARED, EXCLUSIVE
<1> QED
  BY <1>1, <1>2
     DEF Levels!LockShared, Levels!Others, Levels!SetLevel, Levels!NO, Levels!SHARED,
         Levels!EXCLUSIVE, NO, SHARED, EXCLUSIVE

(* SHARED, or the temporary locks given back. *)
LEMMA LockSharedDoneLevel ==
    ASSUME IInv, NEW f \in File, LockSharedDone(f)
    PROVE  Levels!LockShared(f) \/ level' = level
<1>1. CASE pc[f] = "rdOk" /\ SetBoth(f, SHARED)
  <2>1. level' = [level EXCEPT ![f] = SHARED] /\ level[f] = NO
    BY <1>1 DEF IInv, TypeOK, PlaceInv, PlaceOk, level, LockSharedDone, Goto, SetBoth
  <2>2. ASSUME NEW g \in File \ {f}
        PROVE  level[g] # EXCLUSIVE
    <3>1. kern[ProcOf[f]]["shared"] # "none" /\ iLock[ProcOf[f]] # EXCLUSIVE
      BY <1>1 DEF IInv, PlaceInv, PlaceOk, NO, EXCLUSIVE
    <3> QED
      BY <3>1, OtherLevels DEF SHARED, EXCLUSIVE
  <2> QED
    BY <2>1, <2>2
       DEF Levels!LockShared, Levels!Others, Levels!SetLevel, Levels!NO, Levels!SHARED,
           Levels!EXCLUSIVE, NO, SHARED, EXCLUSIVE
<1>2. CASE UNCHANGED pLock
  BY <1>2 DEF level, LockSharedDone, Goto
<1> QED
  BY <1>1, <1>2 DEF LockSharedDone

(* RESERVED. *)
LEMMA LockReservedLevel ==
    ASSUME IInv, NEW f \in File, LockReserved(f)
    PROVE  Levels!LockReserved(f)
<1>1. level' = [level EXCEPT ![f] = RESERVED] /\ level[f] = SHARED
  BY DEF IInv, TypeOK, level, LockReserved, SetBoth, MayLock, MayUnlock
<1>2. ASSUME NEW g \in File \ {f}
      PROVE  level[g] # RESERVED /\ level[g] # EXCLUSIVE
  <2>1. level[g] # EXCLUSIVE
    BY <1>1, OtherLevels DEF NO, SHARED
  <2>2. CASE ProcOf[g] = ProcOf[f]
    BY <2>1, <2>2, OtherLevels DEF LockReserved, SHARED, RESERVED
  <2>3. CASE ProcOf[g] # ProcOf[f]
    BY <2>1, <2>3, OtherLevels, ProcType DEF LockReserved, CanWrite
  <2> QED
    BY <2>2, <2>3
<1> QED
  BY <1>1, <1>2
     DEF Levels!LockReserved, Levels!Others, Levels!SetLevel, Levels!SHARED,
         Levels!RESERVED, Levels!EXCLUSIVE, SHARED, RESERVED, EXCLUSIVE

(* EXCLUSIVE, or PENDING when readers are left. *)
LEMMA LockExclRangeLevel ==
    ASSUME IInv, NEW f \in File, LockExclRange(f)
    PROVE  Levels!LockPending(f) \/ Levels!LockExclusive(f) \/ level' = level
<1> DEFINE p == ProcOf[f]
<1>1. /\ level[f] = pLock[f] /\ level[f] \in {SHARED, RESERVED, PENDING}
      /\ iLock[p] = level[f] /\ kern[p]["pending"] = "write" /\ p \in Proc
  <2>1. CASE pc[f] = "wrShared"
    BY <2>1, ProcType DEF IInv, PlaceInv, PlaceOk, level
  <2>2. CASE MayLock(f) /\ pLock[f] = PENDING /\ iLock[p] = pLock[f]
    BY <2>2, ProcType DEF MayLock, MayUnlock, IInv, LevelInv, LevelOk, level, PENDING
  <2> QED
    BY <2>1, <2>2 DEF LockExclRange, AtExclRange
<1>2. CASE SetBoth(f, EXCLUSIVE) /\ Alone(f) /\ CanWrite(p, "shared")
  <2>1. level' = [level EXCEPT ![f] = EXCLUSIVE]
    BY <1>2 DEF IInv, TypeOK, level, LockExclRange, Goto, SetBoth
  <2>2. ASSUME NEW g \in File \ {f}
        PROVE  level[g] = NO
    <3>1. CASE ProcOf[g] = p
      BY <1>1, <1>2, <3>1, OnlyHolder
         DEF IInv, Alone, FilesOf, NO, SHARED, RESERVED, PENDING
    <3>2. CASE ProcOf[g] # p
      BY <1>2, <3>2, OtherLevels, ProcType DEF CanWrite
    <3> QED
      BY <3>1, <3>2
  <2> QED
    BY <1>1, <2>1, <2>2
       DEF Levels!LockExclusive, Levels!Others, Levels!SetLevel, Levels!NO, Levels!SHARED,
           Levels!RESERVED, Levels!PENDING, Levels!EXCLUSIVE, NO, SHARED, RESERVED, PENDING,
           EXCLUSIVE
<1>3. CASE SetBoth(f, PENDING)
  <2>1. level' = [level EXCEPT ![f] = PENDING]
    BY <1>3 DEF IInv, TypeOK, level, LockExclRange, Goto, SetBoth
  <2>2. CASE level[f] = PENDING
    BY <2>1, <2>2, LevelType DEF IInv
  <2>3. CASE level[f] # PENDING
    <3>1. ASSUME NEW g \in File \ {f}
          PROVE  level[g] < PENDING
      <4>1. level[g] \in NO .. EXCLUSIVE
        BY LevelType DEF IInv
      <4>2. CASE ProcOf[g] = p
        BY <1>1, <2>3, <4>1, <4>2, OtherLevels DEF SHARED, RESERVED, PENDING
      <4>3. CASE ProcOf[g] # p
        <5>1. kern[ProcOf[g]]["pending"] # "write"
          BY <1>1, <4>3, ProcType DEF IInv, KernInv, Region
        <5> QED
          BY <4>1, <5>1, OtherLevels DEF PENDING
      <4> QED
        BY <4>2, <4>3
    <3> QED
      BY <1>1, <2>1, <2>3, <3>1
         DEF Levels!LockPending, Levels!Others, Levels!SetLevel, Levels!SHARED,
             Levels!RESERVED, Levels!PENDING, SHARED, RESERVED, PENDING
  <2> QED
    BY <2>2, <2>3
<1> QED
  BY <1>2, <1>3 DEF LockExclRange

(* SHARED or NO; a failed call changes no level. *)
LEMMA UnlockLevel ==
    ASSUME IInv, NEW f \in File, UnlockWriter(f) \/ UnlockAll(f)
    PROVE  Levels!Unlock(f) \/ level' = level
<1>1. CASE UnlockWriter(f)
  <2>1. level[f] = pLock[f] /\ level[f] > SHARED /\ level[f] \in NO .. EXCLUSIVE
    BY <1>1 DEF UnlockWriter, MayUnlock, IInv, TypeOK, level
  <2>2. CASE Goto(f, IF pc[f] = "idle" THEN "dropAll" ELSE "leaveShared")
    <3>1. level' = [level EXCEPT ![f] = SHARED]
      BY <1>1, <2>2 DEF UnlockWriter, Goto, IInv, TypeOK, level
    <3> QED
      BY <2>1, <3>1 DEF Levels!Unlock, Levels!SetLevel, Levels!SHARED, SHARED
  <2>3. CASE Return(f)
    BY <1>1, <2>3 DEF UnlockWriter, MayUnlock, Return, Goto, level
  <2> QED
    BY <1>1, <2>2, <2>3 DEF UnlockWriter
<1>2. CASE UnlockAll(f)
  <2>1. level[f] = SHARED
    BY <1>2 DEF UnlockAll, MayUnlock, level
  <2>2. level' = [level EXCEPT ![f] = NO]
    <3>1. CASE Goto(f, "leaveNo") /\ UNCHANGED pLock
      BY <3>1 DEF Goto, IInv, TypeOK, level
    <3>2. CASE Return(f) /\ pLock' = [pLock EXCEPT ![f] = NO]
      BY <3>2 DEF Return, Goto, IInv, TypeOK, level
    <3> QED
      BY <1>2, <3>1, <3>2 DEF UnlockAll
  <2> QED
    BY <2>1, <2>2 DEF Levels!Unlock, Levels!SetLevel, Levels!NO, NO, SHARED
<1> QED
  BY <1>1, <1>2

(* A handle that could not be unlocked loses its level when it is closed. *)
LEMMA ReleaseLevel ==
    ASSUME IInv, NEW f \in File, Release(f)
    PROVE  Levels!Unlock(f) \/ level' = level
<1>1. level' = [level EXCEPT ![f] = NO] /\ level[f] \in NO .. EXCLUSIVE
  BY LevelType DEF Release, Goto, IInv, TypeOK, level
<1>2. CASE level[f] = NO
  BY <1>1, <1>2, LevelType DEF IInv
<1>3. CASE level[f] # NO
  BY <1>1, <1>3 DEF Levels!Unlock, Levels!SetLevel, Levels!NO, NO
<1> QED
  BY <1>2, <1>3

(* The handles of a process that dies lose their levels together. *)
LEMMA DeathLevel ==
    ASSUME IInv, NEW p \in Proc, Death(p)
    PROVE  Levels!Vanish(FilesOf(p))
BY DEF Death, level, Levels!Vanish, Levels!NO, NO

(* The other steps move no level. *)
LEMMA QuietSteps ==
    ASSUME IInv, NEW f \in File,
           \/ OpenFd(f) \/ OpenDone(f) \/ OpenFails(f) \/ LockSharedPending(f) \/ LockSharedRange(f)
           \/ LockExclPending(f) \/ UnlockReadBack(f) \/ UnlockDone(f) \/ Close(f)
    PROVE  level' = level
<1>1. CASE OpenFd(f) \/ OpenDone(f) \/ OpenFails(f)
  BY <1>1 DEF OpenFd, OpenDone, OpenFails, Goto, IInv, TypeOK, level
<1>2. CASE LockSharedPending(f) \/ LockSharedRange(f) \/ LockExclPending(f)
  BY <1>2
     DEF LockSharedPending, LockSharedRange, LockExclPending, MayLock, MayUnlock, Goto,
         IInv, TypeOK, level
<1>3. CASE UnlockReadBack(f)
  BY <1>3 DEF UnlockReadBack, MayLock, MayUnlock, Goto, Return, IInv, TypeOK, level
<1>4. CASE UnlockDone(f)
  BY <1>4 DEF UnlockDone, Goto, Return, IInv, TypeOK, level
<1>5. CASE Close(f)
  BY <1>5 DEF Close, Goto, level
<1> QED
  BY <1>1, <1>2, <1>3, <1>4, <1>5

(* os.h 153-165: handles of any number of processes and threads behave as one
   lock with atomic steps. *)
THEOREM Implementation == Spec => AtomicLock
<1>1. Init => Levels!Init
  BY DEF Init, level, Levels!Init, Levels!NO, NO
<1>2. ASSUME IInv, [Next]_vars
      PROVE  [Levels!Next]_level
  <2>1. ASSUME NEW f \in File, FileStep(f)
        PROVE  [Levels!Next]_level
    BY <1>2, <2>1, LockJoinLevel, LockSharedDoneLevel, LockReservedLevel,
       LockExclRangeLevel, UnlockLevel, ReleaseLevel, QuietSteps
       DEF FileStep, Levels!Next
  <2>2. ASSUME NEW p \in Proc, Death(p)
        PROVE  [Levels!Next]_level
    <3>1. FilesOf(p) \in SUBSET File
      BY DEF FilesOf
    <3> QED
      BY <1>2, <2>2, <3>1, DeathLevel DEF Levels!Next
  <2>3. CASE UNCHANGED vars
    BY <2>3 DEF vars, level
  <2> QED
    BY <1>2, <2>1, <2>2, <2>3 DEF Next
<1> QED
  BY <1>1, <1>2, Invariance, PTL DEF Spec, AtomicLock, Levels!Spec

(* os.h 154-159: EXCLUSIVE precludes every other lock, and there is one
   RESERVED and one PENDING handle, whichever process they belong to. *)
THEOREM AlwaysExclusive == Spec => []Levels!Exclusion
<1>1. ASSUME IInv
      PROVE  Levels!Exclusion
  <2> SUFFICES ASSUME NEW f \in File, NEW g \in File \ {f}
               PROVE  /\ level[f] = EXCLUSIVE => level[g] = NO
                      /\ level[f] = RESERVED => level[g] # RESERVED
                      /\ level[f] >= PENDING => level[g] < PENDING
    BY DEF Levels!Exclusion, Levels!Others, Levels!NO, Levels!RESERVED, Levels!PENDING,
           Levels!EXCLUSIVE, NO, RESERVED, PENDING, EXCLUSIVE
  <2>1. level[f] \in NO .. EXCLUSIVE /\ level[g] \in NO .. EXCLUSIVE /\ f \in File \ {g}
    BY <1>1, LevelType DEF IInv
  <2>2. level[f] = EXCLUSIVE => level[g] = NO
    BY <1>1, <2>1, OtherLevels
  <2>3. CASE ProcOf[f] = ProcOf[g]
    <3>1. level[f] > SHARED => level[g] <= SHARED
      BY <1>1, <2>3 DEF IInv, OthersInv, OthersOk, FilesOf
    <3> QED
      BY <2>1, <2>2, <3>1 DEF SHARED, RESERVED, PENDING
  <2>4. CASE ProcOf[f] # ProcOf[g]
    <3>1. ~(kern[ProcOf[f]]["reserved"] = "write" /\ kern[ProcOf[g]]["reserved"] = "write")
      BY <1>1, <2>4, ProcType DEF IInv, KernInv, Region
    <3>2. ~(kern[ProcOf[f]]["pending"] = "write" /\ kern[ProcOf[g]]["pending"] = "write")
      BY <1>1, <2>4, ProcType DEF IInv, KernInv, Region
    <3>3. /\ level[g] = RESERVED => kern[ProcOf[g]]["reserved"] = "write"
          /\ level[g] >= PENDING => kern[ProcOf[g]]["pending"] = "write"
      BY <1>1, OtherLevels
    <3>4. /\ level[f] = RESERVED => kern[ProcOf[f]]["reserved"] = "write"
          /\ level[f] >= PENDING => kern[ProcOf[f]]["pending"] = "write"
      BY <1>1, <2>1, OtherLevels
    <3>5. ~(level[f] >= PENDING /\ level[g] >= PENDING)
      BY <3>2, <3>3, <3>4
    <3> QED
      BY <2>1, <2>2, <3>1, <3>3, <3>4, <3>5 DEF NO, PENDING, EXCLUSIVE
  <2> QED
    BY <2>3, <2>4
<1> QED
  BY <1>1, Invariance, PTL
=============================================================================
