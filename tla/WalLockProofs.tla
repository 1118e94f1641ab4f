---------------------------- MODULE WalLockProofs ----------------------------
(***************************************************************************)
(* The types and the locks of the write-ahead log of module Wal, for any   *)
(* number of connections, reader slots, pages, frames, transactions and    *)
(* failures.                                                               *)
(*                                                                         *)
(* Part 1: type correctness.  One step per action; under it one step per   *)
(* group of variables the action changes, KeepTypes accounts for the       *)
(* others.                                                                 *)
(*                                                                         *)
(* Part 2: the locks, and what they protect: which lock a connection holds *)
(* where it stands, the order of the headers a writer, a reader and the    *)
(* wal-index have, the read marks, and the page caches.                    *)
(*                                                                         *)
(* Known(c) is what connection c can count on.  A step of c keeps Known(c) *)
(* by the code of the step (one lemma per action) and Known(d) of another  *)
(* connection d because what the step changes is locked (StepOther).       *)
(***************************************************************************)
EXTENDS Wal, TLAPS, WellFoundedInduction

(* The slots that carry a mark run from 1 to WAL_NREADER-1, without a gap. *)
LEMMA SlotFacts == 1 \in Slot /\ NReader - 1 \in Slot /\ (\A i \in Slot : i # NReader - 1
    => i + 1 \in Slot)
BY NReaderAssumption DEF Slot

(* The lock numbers of wal.c are all below SQLITE_SHM_NLOCK. *)
LEMMA LockFacts ==
  /\ {WRITE, CKPT, RECOVER} \subseteq Lock
  /\ \A i \in Slot \cup {0} : READ(i) \in Lock
  /\ MarkLocks \subseteq Lock /\ ReadLocks \subseteq Lock
BY NReaderAssumption DEF Lock, Slot, WRITE, CKPT, RECOVER, READ, MarkLocks, ReadLocks

(* The zeroed header of a connection that has no snapshot is a header. *)
LEMMA ZeroTypes == 0 \in Txn /\ NoHdr \in Hdr
<1>1. 0 \in Txn BY WalAssumption DEF Txn
<1> QED BY <1>1 DEF NoHdr, Hdr

(* The bounds are numbers, and READMARK_NOT_USED is one above all frames. *)
LEMMA BoundFacts == MaxTxn \in Nat /\ MaxFrame \in Nat /\ NotUsed \in Nat
BY WalAssumption DEF NotUsed

(* A non-empty set of natural numbers has a least element. *)
LEMMA MinExists == ASSUME NEW S \in SUBSET Nat, S # {} PROVE \E x \in S : \A y \in S : x
    <= y
<1>1. PICK x \in S : \A y \in S : ~(<<y, x>> \in OpToRel(<, Nat))
  BY NatLessThanWellFounded, WFMin
<1>2. \A y \in S : ~(y < x) BY <1>1 DEF OpToRel
<1> QED BY <1>2

(* A non-empty set of numbers up to N contains its maximum. *)
LEMMA MaxIn == ASSUME NEW N \in Nat, NEW S \in SUBSET (0 .. N), S # {}
   PROVE Max(S) \in S
<1> DEFINE D == {d \in Nat : N - d \in S}
<1>1. D \in SUBSET Nat /\ D # {}
  <2>1. PICK s \in S : TRUE OBVIOUS
  <2>2. N - s \in D BY <2>1
  <2> QED BY <2>2
<1> HIDE DEF D
<1>2. PICK d \in D : \A e \in D : d <= e BY <1>1, MinExists
<1>3. N - d \in S BY <1>2 DEF D
<1>4. \A y \in S : N - y \in D BY DEF D
<1>5. \A y \in S : N - d >= y BY <1>2, <1>3, <1>4, <1>1
<1> QED BY <1>3, <1>5, Zenon DEF Max

(* The search of sqlite3WalRead() returns a frame, or 0. *)
LEMMA LastFrameType == ASSUME NEW p, NEW n PROVE LastFrame(p, n) \in FrameNo \cup {0}
<1> DEFINE F == {i \in FrameNo : i <= n /\ aPgno[i] = p} \cup {0}
<1>1. F \in SUBSET (0 .. MaxFrame) /\ F # {} BY BoundFacts DEF FrameNo
<1>2. Max(F) \in F BY <1>1, BoundFacts, MaxIn
<1> QED BY <1>2 DEF LastFrame

(* Recovery ends on a frame of the log, or finds none. *)
LEMMA LastCommitType == ASSUME NEW wh, NEW wl PROVE LastCommit(wh, wl) \in FrameNo \cup {0}
<1>1. ValidLen(wh, wl) \in 0 .. MaxFrame
  <2> DEFINE V == {n \in 0 .. MaxFrame : \A i \in 1 .. n : FrameOk(wh, wl, i)}
  <2>1. 0 \in V BY BoundFacts
  <2>2. Max(V) \in V BY <2>1, BoundFacts, MaxIn
  <2> QED BY <2>2, BoundFacts DEF ValidLen
<1> DEFINE F == {i \in 1 .. ValidLen(wh, wl) : wl[i].size # 0} \cup {0}
<1>2. F \in SUBSET (0 .. MaxFrame) /\ F # {} BY <1>1, BoundFacts
<1>3. Max(F) \in F BY <1>2, BoundFacts, MaxIn
<1> QED BY <1>1, <1>3, BoundFacts DEF LastCommit, FrameNo

(* A failed attempt to open a snapshot leaves well-typed variables. *)
LEMMA OpenFailsType ==
  ASSUME TypeOK, NEW c \in Conn, OpenFails(c)
  PROVE  /\ pc' \in [Conn -> PcSet] /\ op' \in [Conn -> {"none", "read", "frames", "ckpt"}]
       /\ cnt' \in [Conn -> Nat] /\ changed' \in [Conn -> BOOLEAN] 
       /\ cacheVer' \in [Conn -> Txn \cup {NoVer}]
<1>1. pc' \in [Conn -> PcSet] BY DEF TypeOK, OpenFails, Goto, PcSet
<1>2. cacheVer' \in [Conn -> Txn \cup {NoVer}] BY DEF TypeOK, ConnTypeOK, OpenFails
<1>3. op' \in [Conn -> {"none", "read", "frames", "ckpt"}] BY DEF TypeOK, OpenTypeOK,
    OpenFails
<1>4. cnt' \in [Conn -> Nat] BY DEF TypeOK, OpenTypeOK, OpenFails
<1>5. changed' \in [Conn -> BOOLEAN] BY DEF TypeOK, OpenTypeOK, OpenFails
<1> QED BY <1>1, <1>2, <1>3, <1>4, <1>5

(* So does WAL_RETRY. *)
LEMMA RetryType ==
  ASSUME TypeOK, NEW c \in Conn, Retry(c)
  PROVE  pc' \in [Conn -> PcSet] /\ OpenTypeOK' /\ cacheVer' \in [Conn -> Txn \cup {NoVer}]
<1>1. slot' \in [Conn -> Slot \cup {0}] BY SlotFacts DEF TypeOK, OpenTypeOK, Retry
<1>2. mxI' \in [Conn -> Slot \cup {0}] /\ mxMark' \in [Conn -> Nat] BY DEF TypeOK,
    OpenTypeOK, Retry
<1>3. CASE cnt[c] >= MaxRetry BY <1>1, <1>2, <1>3, OpenFailsType DEF Retry, OpenTypeOK
<1>4. CASE ~(cnt[c] >= MaxRetry)
  BY <1>1, <1>2, <1>4 DEF Retry, TypeOK, OpenTypeOK, ConnTypeOK, Goto, PcSet
<1> QED BY <1>3, <1>4

(* So does a successful attempt. *)
LEMMA OpenedType ==
  ASSUME TypeOK, NEW c \in Conn, NEW i \in Slot \cup {0}, Opened(c, i)
  PROVE  OpenTypeOK' /\ pc' \in [Conn -> PcSet] /\ readLock' \in [Conn -> Slot \cup {0, -1}]
        /\ cacheVer' \in [Conn -> Txn \cup {NoVer}] 
<1>1. OpenTypeOK' BY DEF Opened, TypeOK, OpenTypeOK
<1>2. pc' \in [Conn -> PcSet] BY DEF Opened, TypeOK, Goto, PcSet
<1>3. readLock' \in [Conn -> Slot \cup {0, -1}] BY DEF Opened, TypeOK, ConnTypeOK
<1>4. hdr[c].ver \in Txn BY DEF TypeOK, ConnTypeOK, Hdr
<1>5. cacheVer' \in [Conn -> Txn \cup {NoVer}] BY <1>4 DEF Opened, TypeOK, ConnTypeOK
<1> QED BY <1>1, <1>2, <1>3, <1>5

(* A group of variables that a step leaves alone keeps its type. *)
LEMMA KeepTypes ==
  ASSUME TypeOK
  PROVE  /\ UNCHANGED lockVars => LockTypeOK'
         /\ UNCHANGED shmVars => ShmTypeOK'
         /\ UNCHANGED fileVars => FileTypeOK'
         /\ UNCHANGED openVars => OpenTypeOK'
         /\ UNCHANGED connVars => ConnTypeOK'
         /\ UNCHANGED writeVars => WriteTypeOK'
         /\ UNCHANGED ckptVars => CkptTypeOK'
         /\ UNCHANGED ghostVars => GhostTypeOK'
         /\ UNCHANGED boundVars => BoundTypeOK'
<1>1. UNCHANGED lockVars => LockTypeOK' BY DEF TypeOK, LockTypeOK, lockVars
<1>2. UNCHANGED shmVars => ShmTypeOK' BY DEF TypeOK, ShmTypeOK, shmVars
<1>3. UNCHANGED fileVars => FileTypeOK' BY DEF TypeOK, FileTypeOK, fileVars
<1>4. UNCHANGED openVars => OpenTypeOK' BY DEF TypeOK, OpenTypeOK, openVars
<1>5. UNCHANGED connVars => ConnTypeOK' BY DEF TypeOK, ConnTypeOK, connVars
<1>6. UNCHANGED writeVars => WriteTypeOK' BY DEF TypeOK, WriteTypeOK, writeVars
<1>7. UNCHANGED ckptVars => CkptTypeOK' BY DEF TypeOK, CkptTypeOK, ckptVars
<1>8. UNCHANGED ghostVars => GhostTypeOK' BY DEF TypeOK, GhostTypeOK, ghostVars
<1>9. UNCHANGED boundVars => BoundTypeOK' BY DEF TypeOK, BoundTypeOK, boundVars
<1> QED BY <1>1, <1>2, <1>3, <1>4, <1>5, <1>6, <1>7, <1>8, <1>9

(* WAL_RETRY goes back to the start of a loop or leaves it. *)
LEMMA RetryLoop ==
  ASSUME TypeOK, NEW c \in Conn, Retry(c)
  PROVE  LoopTypeOK'
<1>1. CASE cnt[c] >= MaxRetry BY <1>1, OpenFailsType DEF Retry, LoopTypeOK, InMarkLoop,
    OpenFails, Goto, TypeOK, OpenTypeOK
<1>2. CASE ~(cnt[c] >= MaxRetry) BY <1>2, SlotFacts DEF Retry, LoopTypeOK, InMarkLoop,
    Goto, TypeOK, OpenTypeOK
<1> QED BY <1>1, <1>2

(* CheckRead0(): the variables it sets keep their types. *)
LEMMA CheckRead0Type ==
  ASSUME TypeOK, NEW c \in Conn, CheckRead0(c)
  PROVE  OpenTypeOK' /\ pc' \in [Conn -> PcSet] /\ ConnTypeOK'
BY OpenedType, RetryType DEF CheckRead0, TypeOK, ConnTypeOK

(* CheckMark(): the variables it sets keep their types. *)
LEMMA CheckMarkType ==
  ASSUME TypeOK, NEW c \in Conn, CheckMark(c)
  PROVE  OpenTypeOK' /\ pc' \in [Conn -> PcSet] /\ ConnTypeOK'
<1>1. mxI[c] \in Slot \cup {0} BY DEF TypeOK, OpenTypeOK
<1> QED BY <1>1, OpenedType, RetryType DEF CheckMark, TypeOK, ConnTypeOK

(* LockMark(): the variables it sets keep their types. *)
LEMMA LockMarkType ==
  ASSUME TypeOK, NEW c \in Conn, LockMark(c)
  PROVE  OpenTypeOK' /\ pc' \in [Conn -> PcSet] /\ ConnTypeOK'
<1>1. CASE LockShared(c, READ(mxI[c])) /\ Goto(c, "checkMark") /\ UNCHANGED <<slot, mxI,
    mxMark, op, cnt, changed, cacheVer>>
  BY <1>1 DEF LockMark, TypeOK, OpenTypeOK, ConnTypeOK, Goto, PcSet
<1>2. CASE Retry(c) BY <1>2, RetryType DEF LockMark, TypeOK, ConnTypeOK
<1> QED BY <1>1, <1>2 DEF LockMark

(* GrabMark(): the variables it sets keep their types. *)
LEMMA GrabMarkType ==
  ASSUME TypeOK, NEW c \in Conn, GrabMark(c)
  PROVE  OpenTypeOK' /\ pc' \in [Conn -> PcSet] /\ ConnTypeOK'
<1>1. CASE Retry(c) BY <1>1, RetryType DEF GrabMark, TypeOK, ConnTypeOK
<1>2. CASE ~Retry(c)
  <2>1. ~LastSlot(c) => slot[c] + 1 \in Slot  BY SlotFacts, NReaderAssumption DEF TypeOK,
      OpenTypeOK, LastSlot, Slot
  <2> QED BY <1>2, <2>1 DEF GrabMark, TypeOK, OpenTypeOK, ConnTypeOK, Goto, PcSet
<1> QED BY <1>1, <1>2

(* ScanMark(): the variables it sets keep their types. *)
LEMMA ScanMarkType ==
  ASSUME TypeOK, NEW c \in Conn, ScanMark(c)
  PROVE  OpenTypeOK' /\ LoopTypeOK'
<1>1. slot[c] \in Slot /\ aReadMark[slot[c]] \in Nat BY DEF TypeOK, LoopTypeOK,
    InMarkLoop, ScanMark, ShmTypeOK
<1>2. ~LastSlot(c) => slot[c] + 1 \in Slot  BY <1>1, SlotFacts DEF LastSlot
<1>3. OpenTypeOK' BY <1>1, <1>2, SlotFacts DEF ScanMark, TypeOK, OpenTypeOK
<1>4. LoopTypeOK' BY <1>1, <1>2, SlotFacts DEF ScanMark, TypeOK, OpenTypeOK, LoopTypeOK,
    InMarkLoop, Goto
<1> QED BY <1>3, <1>4

(* SetMark(): the variables it sets keep their types. *)
LEMMA SetMarkType ==
  ASSUME TypeOK, NEW c \in Conn, SetMark(c)
  PROVE  ShmTypeOK' /\ OpenTypeOK'
<1>1. hdr[c].mxFrame \in Nat BY DEF TypeOK, ConnTypeOK, Hdr
<1>2. slot[c] \in Slot BY DEF TypeOK, LoopTypeOK, InMarkLoop, SetMark
<1> QED BY <1>1, <1>2 DEF SetMark, TypeOK, ShmTypeOK, OpenTypeOK

(* RecoverInfo(): the variables it sets keep their types. *)
LEMMA RecoverInfoType ==
  ASSUME TypeOK, NEW c \in Conn, RecoverInfo(c)
  PROVE  ShmTypeOK'
<1>1. hdr[c].mxFrame \in Nat BY DEF TypeOK, ConnTypeOK, Hdr
<1>2. NotUsed \in Nat BY WalAssumption DEF NotUsed
<1> QED BY <1>1, <1>2 DEF RecoverInfo, TypeOK, ShmTypeOK

(* RestartMarks(): the variables it sets keep their types. *)
LEMMA RestartMarksType ==
  ASSUME TypeOK, NEW c \in Conn, RestartMarks(c)
  PROVE  ShmTypeOK'
<1>2. NotUsed \in Nat BY WalAssumption DEF NotUsed
<1> QED BY <1>2 DEF RestartMarks, TypeOK, ShmTypeOK

(* CkptMarkSet(): the variables it sets keep their types. *)
LEMMA CkptMarkSetShm ==
  ASSUME TypeOK, NEW c \in Conn, CkptMarkSet(c)
  PROVE  ShmTypeOK'
<1>2. NotUsed \in Nat BY WalAssumption DEF NotUsed
<1>1. mxSafe[c] \in Nat BY DEF TypeOK, CkptTypeOK
<1> QED BY <1>1, <1>2 DEF CkptMarkSet, TypeOK, ShmTypeOK

(* RestartLock(): the variables it sets keep their types. *)
LEMMA RestartLockType ==
  ASSUME TypeOK, NEW c \in Conn, RestartLock(c)
  PROVE  ConnTypeOK'
<1>1. hdr[c] \in Hdr /\ nextSalt \in Nat BY DEF TypeOK, ConnTypeOK, BoundTypeOK
<1>2. [hdr[c] EXCEPT !.mxFrame = 0, !.salt = nextSalt] \in Hdr BY <1>1 DEF Hdr
<1> QED BY <1>2 DEF RestartLock, TypeOK, ConnTypeOK

(* LogHdr(): the variables it sets keep their types. *)
LEMMA LogHdrType ==
  ASSUME TypeOK, NEW c \in Conn, LogHdr(c)
  PROVE  ConnTypeOK' /\ FileTypeOK' /\ WriteTypeOK'
<1>1. hdr[c] \in Hdr /\ nextSalt \in Nat /\ reset[c] \in BOOLEAN BY DEF TypeOK,
    ConnTypeOK, BoundTypeOK
<1>2. hdr[c].salt \in Nat /\ hdr[c].mxFrame \in Nat BY <1>1 DEF Hdr
<1>3. \A s \in Nat : [hdr[c] EXCEPT !.salt = s, !.cksum = 0] \in Hdr BY <1>1, ZeroTypes
    DEF Hdr
<1>4. \A s \in Nat : [salt |-> s, ckpt |-> reset[c], ok |-> TRUE] \in WalHdr BY <1>1 DEF
    WalHdr
<1>5. NoWalHdr \in WalHdr BY DEF NoWalHdr, WalHdr
<1>6. WriteTypeOK' BY <1>2 DEF LogHdr, TypeOK, WriteTypeOK
<1>7. FileTypeOK' BY <1>1, <1>2, <1>4, <1>5 DEF LogHdr, TypeOK, FileTypeOK
<1>8. ConnTypeOK' BY <1>1, <1>2, <1>3 DEF LogHdr, TypeOK, ConnTypeOK
<1> QED BY <1>6, <1>7, <1>8

(* WriteFrame(): the variables it sets keep their types. *)
LEMMA WriteFrameType ==
  ASSUME TypeOK, NEW c \in Conn, WriteFrame(c)
  PROVE  ConnTypeOK' /\ FileTypeOK' /\ GhostTypeOK'
<1>1. hdr[c] \in Hdr /\ txn[c] \in Txn /\ newSize[c] \in Nat BY DEF TypeOK, ConnTypeOK,
    WriteTypeOK
<1>2. hdr[c].salt \in Nat /\ hdr[c].cksum \in Txn /\ hdr[c].ver \in Txn BY <1>1 DEF Hdr
<1>3. [hdr[c] EXCEPT !.cksum = txn[c]] \in Hdr BY <1>1 DEF Hdr
<1>4. ConnTypeOK' BY <1>3 DEF WriteFrame, TypeOK, ConnTypeOK
<1>5. PICK p \in todo[c] : 
         LET n == iFrame[c] + 1
             last == todo[c] = {p}
             size == IF last THEN newSize[c] ELSE 0
         IN /\ wal' = [wal EXCEPT ![n] = [salt |-> hdr[c].salt, pg |-> p, size |-> size,
                                           txn |-> txn[c], prev |-> hdr[c].cksum]]
             /\ walOld' = [walOld EXCEPT ![n] = @ \cup {wal[n], NoFrame}]
             /\ image' = IF size = 0 THEN image
                         ELSE [image EXCEPT ![txn[c]] = [q \in Page |->
                                 IF q > size THEN NoData
                                 ELSE IF q \in spilled[c] THEN txn[c]
                                 ELSE image[hdr[c].ver][q]]]
   BY DEF WriteFrame
<1> DEFINE size == IF todo[c] = {p} THEN newSize[c] ELSE 0
           f == [salt |-> hdr[c].salt, pg |-> p, size |-> size, txn |-> txn[c], prev |->
               hdr[c].cksum]
<1>6. p \in Nat BY WalAssumption DEF TypeOK, WriteTypeOK, Page
<1>7. f \in Frame /\ NoFrame \in Frame BY <1>1, <1>2, <1>6, WalAssumption DEF Frame,
    NoFrame, Txn
<1>8. FileTypeOK'
  <2>1. wal' \in [FrameNo -> Frame] BY <1>5, <1>7 DEF TypeOK, FileTypeOK
  <2>2. walOld' \in [FrameNo -> SUBSET Frame]
    <3> DEFINE n == iFrame[c] + 1
    <3>1. walOld \in [FrameNo -> SUBSET Frame] /\ wal \in [FrameNo -> Frame]
      BY DEF TypeOK, FileTypeOK
    <3>2. walOld' = [walOld EXCEPT ![n] = @ \cup {wal[n], NoFrame}] BY <1>5
    <3> HIDE DEF n
    <3>3. n \in FrameNo => walOld[n] \cup {wal[n], NoFrame} \in SUBSET Frame
      BY <1>7, <3>1
    <3> QED BY <3>1, <3>2, <3>3
  <2> QED BY <2>1, <2>2 DEF TypeOK, FileTypeOK, WriteFrame
<1>9. \A q \in Page : image[hdr[c].ver][q] \in Txn \cup {NoData} BY <1>2 DEF TypeOK,
    GhostTypeOK, Image
<1>10. [q \in Page |-> IF q > size THEN NoData ELSE IF q \in spilled[c] THEN txn[c] ELSE
    image[hdr[c].ver][q]] \in Image
   BY <1>9, <1>1 DEF Image
<1>11. GhostTypeOK' BY <1>5, <1>10 DEF TypeOK, GhostTypeOK, WriteFrame
<1> QED BY <1>4, <1>8, <1>11

(* IndexFrame(): the variables it sets keep their types. *)
LEMMA IndexFrameType ==
  ASSUME TypeOK, NEW c \in Conn, IndexFrame(c)
  PROVE  ShmTypeOK'
<1> DEFINE n == iIdx[c] + 1
           fresh == IF n = 1 THEN [i \in FrameNo |-> 0] ELSE aPgno
           free == IF fresh[n] = 0 THEN fresh ELSE Cleaned(fresh, hdr[c].mxFrame)
<1>1. fresh \in [FrameNo -> Nat] BY DEF TypeOK, ShmTypeOK
<1>2. free \in [FrameNo -> Nat] BY <1>1 DEF Cleaned
<1>3. n \in FrameNo => wal[n].pg \in Nat BY DEF TypeOK, FileTypeOK, Frame
<1>4. aPgno' = [free EXCEPT ![n] = wal[n].pg] BY DEF IndexFrame
<1>5. aPgno' \in [FrameNo -> Nat] BY <1>2, <1>3, <1>4
<1> QED BY <1>5 DEF IndexFrame, TypeOK, ShmTypeOK

(* FramesDone(): the variables it sets keep their types. *)
LEMMA FramesDoneType ==
  ASSUME TypeOK, NEW c \in Conn, FramesDone(c)
  PROVE  ConnTypeOK'
<1>1. hdr[c] \in Hdr /\ txn[c] \in Txn /\ newSize[c] \in Nat /\ iFrame[c] \in Nat BY DEF
    TypeOK, ConnTypeOK, WriteTypeOK
<1>2. [hdr[c] EXCEPT !.mxFrame = iFrame[c]] \in Hdr BY <1>1 DEF Hdr
<1>4. hdr[c].iChange + 1 \in Nat BY <1>1 DEF Hdr
<1>5. \A n \in Nat : [hdr[c] EXCEPT !.mxFrame = iFrame[c], !.iChange = n, !.nPage =
    newSize[c], !.ver = txn[c]] \in Hdr BY <1>1, Zenon DEF Hdr
<1>3. [hdr[c] EXCEPT !.mxFrame = iFrame[c], !.iChange = hdr[c].iChange + 1, !.nPage =
    newSize[c], !.ver = txn[c]] \in Hdr BY <1>4, <1>5
<1> QED BY <1>2, <1>3 DEF FramesDone, TypeOK, ConnTypeOK

(* BeginFrames(): the variables it sets keep their types. *)
LEMMA BeginFramesType ==
  ASSUME TypeOK, NEW c \in Conn, BeginFrames(c)
  PROVE  WriteTypeOK' /\ BoundTypeOK'
<1>1. nextTxn \in Nat BY DEF TypeOK, BoundTypeOK
<1>2. nextTxn <= MaxTxn => nextTxn \in Txn BY <1>1, WalAssumption DEF Txn
<1>3. PICK b \in Batches : /\ todo' = [todo EXCEPT ![c] = b.pages]
         /\ spilled' = [spilled EXCEPT ![c] = @ \cup b.pages]
         /\ newSize' = [newSize EXCEPT ![c] = b.size]
         /\ newSync' = [newSync EXCEPT ![c] = b.sync] BY DEF BeginFrames
<1>4. b.pages \in SUBSET Page /\ b.size \in Nat /\ b.sync \in BOOLEAN BY WalAssumption DEF
    Page
<1>5. todo' \in [Conn -> SUBSET Page] /\ spilled' \in [Conn -> SUBSET Page] BY <1>3, <1>4
    DEF TypeOK, WriteTypeOK
<1>6. newSize' \in [Conn -> Nat] /\ newSync' \in [Conn -> BOOLEAN] BY <1>3, <1>4 DEF
    TypeOK, WriteTypeOK
<1>7. txn' \in [Conn -> Txn] BY <1>2 DEF BeginFrames, TypeOK, WriteTypeOK
<1>8. WriteTypeOK' BY <1>5, <1>6, <1>7 DEF BeginFrames, TypeOK, WriteTypeOK
<1>9. BoundTypeOK' BY DEF BeginFrames, TypeOK, BoundTypeOK
<1> QED BY <1>8, <1>9

(* CkptCopy(): the variables it sets keep their types. *)
LEMMA CkptCopyType ==
  ASSUME TypeOK, NEW c \in Conn, CkptCopy(c)
  PROVE  FileTypeOK'
<1>1. CASE UNCHANGED <<db, dbOld>> BY <1>1 DEF CkptCopy, TypeOK, FileTypeOK
<1>2. ASSUME NEW e \in iter[c], db' = [db EXCEPT ![e[1]] = wal[e[2]].txn], dbOld' = [dbOld
    EXCEPT ![e[1]] = @ \cup {db[e[1]], Torn}]
      PROVE FileTypeOK'
  <2>1. e[1] \in Page /\ e[2] \in FrameNo BY DEF TypeOK, CkptTypeOK
  <2>2. wal[e[2]].txn \in Value /\ db[e[1]] \in Value /\ Torn \in Value BY <2>1 DEF
      TypeOK, FileTypeOK, Frame, Value
  <2>3. db' \in [Page -> Value] /\ dbOld' \in [Page -> SUBSET Value] BY <1>2, <2>1, <2>2
      DEF TypeOK, FileTypeOK
  <2> QED BY <2>3 DEF CkptCopy, TypeOK, FileTypeOK
<1> QED BY <1>1, <1>2 DEF CkptCopy

(* CkptMark(): the variables it sets keep their types. *)
LEMMA CkptMarkType ==
  ASSUME TypeOK, NEW c \in Conn, CkptMark(c)
  PROVE  OpenTypeOK' /\ LoopTypeOK'
<1>1. slot[c] \in Slot /\ aReadMark[slot[c]] \in Nat BY DEF TypeOK, LoopTypeOK,
    InMarkLoop, CkptMark, ShmTypeOK
<1>2. ~LastSlot(c) => slot[c] + 1 \in Slot  BY <1>1, SlotFacts DEF LastSlot
<1>3. OpenTypeOK' BY <1>1, <1>2, SlotFacts DEF CkptMark, NextMark, TypeOK, OpenTypeOK
<1>4. LoopTypeOK' BY <1>1, <1>2, SlotFacts DEF CkptMark, NextMark, TypeOK, OpenTypeOK,
    LoopTypeOK, InMarkLoop, Goto
<1> QED BY <1>3, <1>4

(* GrabMark(): the variables it sets keep their types. *)
LEMMA GrabMarkLocks ==
  ASSUME TypeOK, NEW c \in Conn, GrabMark(c)
  PROVE  LockTypeOK'
<1>1. READ(slot[c]) \in Lock BY LockFacts DEF TypeOK, OpenTypeOK
<1> QED BY <1>1 DEF GrabMark, LockExclusive, lockVars, TypeOK, LockTypeOK

(* LockMark(): the variables it sets keep their types. *)
LEMMA LockMarkLocks ==
  ASSUME TypeOK, NEW c \in Conn, LockMark(c)
  PROVE  LockTypeOK'
<1>1. READ(mxI[c]) \in Lock BY LockFacts DEF TypeOK, OpenTypeOK
<1> QED BY <1>1 DEF LockMark, LockShared, lockVars, TypeOK, LockTypeOK

(* RecoverLock(): the variables it sets keep their types. *)
LEMMA RecoverLockLocks ==
  ASSUME TypeOK, NEW c \in Conn, RecoverLock(c)
  PROVE  LockTypeOK'
<1>1. RecoverLocks(c) \subseteq Lock BY LockFacts DEF RecoverLocks
<1> QED BY <1>1 DEF RecoverLock, LockExclusive, Unlock, TypeOK, LockTypeOK

(* CkptMarkLock(): the variables it sets keep their types. *)
LEMMA CkptMarkLockType ==
  ASSUME TypeOK, NEW c \in Conn, CkptMarkLock(c)
  PROVE  LockTypeOK' /\ OpenTypeOK' /\ LoopTypeOK'
<1>1. READ(slot[c]) \in Lock BY LockFacts DEF TypeOK, OpenTypeOK
<1>2. slot[c] \in Slot BY DEF TypeOK, LoopTypeOK, InMarkLoop, CkptMarkLock
<1>3. ~LastSlot(c) => slot[c] + 1 \in Slot  BY <1>2, SlotFacts DEF LastSlot
<1>4. LockTypeOK' BY <1>1 DEF CkptMarkLock, LockExclusive, lockVars, TypeOK, LockTypeOK
<1>5. OpenTypeOK' BY <1>3 DEF CkptMarkLock, NextMark, TypeOK, OpenTypeOK
<1>6. LoopTypeOK' BY <1>2, <1>3 DEF CkptMarkLock, NextMark, Goto, TypeOK, OpenTypeOK,
    LoopTypeOK, InMarkLoop
<1> QED BY <1>4, <1>5, <1>6

(* CkptMarkSet(): the variables it sets keep their types. *)
LEMMA CkptMarkSetType ==
  ASSUME TypeOK, NEW c \in Conn, CkptMarkSet(c)
  PROVE  OpenTypeOK' /\ LoopTypeOK'
<1>2. slot[c] \in Slot BY DEF TypeOK, LoopTypeOK, InMarkLoop, CkptMarkSet
<1>3. ~LastSlot(c) => slot[c] + 1 \in Slot  BY <1>2, SlotFacts DEF LastSlot
<1>5. OpenTypeOK' BY <1>3 DEF CkptMarkSet, NextMark, TypeOK, OpenTypeOK
<1>6. LoopTypeOK' BY <1>2, <1>3 DEF CkptMarkSet, NextMark, Goto, TypeOK, OpenTypeOK,
    LoopTypeOK, InMarkLoop
<1> QED BY <1>5, <1>6

(* CkptLock0(): the variables it sets keep their types. *)
LEMMA CkptLock0Type ==
  ASSUME TypeOK, NEW c \in Conn, CkptLock0(c)
  PROVE  CkptTypeOK'
<1>1. Wanted(c) \subseteq Page \X FrameNo BY DEF Wanted, TypeOK, CkptTypeOK
<1>2. nBackfill \in Nat BY DEF TypeOK, ShmTypeOK
<1> QED BY <1>1, <1>2 DEF CkptLock0, TypeOK, CkptTypeOK

(* CkptTruncate(): the variables it sets keep their types. *)
LEMMA CkptTruncateType ==
  ASSUME TypeOK, NEW c \in Conn, CkptTruncate(c)
  PROVE  FileTypeOK'
<1>1. Shrunk(c) \in [Page -> Value] BY DEF Shrunk, Value, TypeOK, FileTypeOK
<1>2. DbUnsynced \in [Page -> SUBSET Value] BY DEF DbUnsynced, TypeOK, FileTypeOK
<1> QED BY <1>1, <1>2 DEF CkptTruncate, TypeOK, FileTypeOK

(* Rollback(): the variables it sets keep their types. *)
LEMMA RollbackType ==
  ASSUME TypeOK, NEW c \in Conn, Rollback(c)
  PROVE  ShmTypeOK' /\ ConnTypeOK' /\ WriteTypeOK'
<1>1. Cleaned(aPgno, hdr0.mxFrame) \in [FrameNo -> Nat] BY DEF Cleaned, TypeOK, ShmTypeOK
<1>2. ShmTypeOK' BY <1>1 DEF Rollback, TypeOK, ShmTypeOK
<1>3. ConnTypeOK' BY DEF Rollback, TypeOK, ConnTypeOK, ShmTypeOK
<1>4. WriteTypeOK' BY ZeroTypes DEF Rollback, ForgetTxn, TypeOK, WriteTypeOK
<1> QED BY <1>2, <1>3, <1>4

(* Crash(): the variables it sets keep their types. *)
LEMMA CrashType ==
  ASSUME TypeOK, NEW c \in Conn, Crash(c)
  PROVE  ConnTypeOK' /\ WriteTypeOK'
<1>3. ConnTypeOK' BY ZeroTypes DEF Crash, TypeOK, ConnTypeOK
<1>4. WriteTypeOK' BY ZeroTypes DEF Crash, ForgetTxn, TypeOK, WriteTypeOK
<1> QED BY <1>3, <1>4

(* CkptStart(): the variables it sets keep their types. *)
LEMMA CkptStartType ==
  ASSUME TypeOK, NEW c \in Conn, CkptStart(c)
  PROVE  CkptTypeOK' 
<1>1. hdr[c].mxFrame \in Nat BY DEF TypeOK, ConnTypeOK, Hdr
<1> DEFINE L == {<<p, LastFrame(p, hdr[c].mxFrame)>> : p \in {p \in Page : LastFrame(p,
    hdr[c].mxFrame) # 0}}
<1>2. L \subseteq Page \X FrameNo BY LastFrameType
<1>3. iter' = iter \/ iter' = [iter EXCEPT ![c] = L] BY DEF CkptStart
<1> QED BY <1>1, <1>2, <1>3 DEF CkptStart, TypeOK, CkptTypeOK

(* RecoverScan(): the variables it sets keep their types. *)
LEMMA RecoverScanType ==
  ASSUME TypeOK, NEW c \in Conn, RecoverScan(c)
  PROVE  ConnTypeOK' /\ ShmTypeOK'
<1> DEFINE n == LastCommit(walHdr, wal)
           valid == ValidLen(walHdr, wal)
           h == [isInit |-> TRUE, iChange |-> 0, salt |-> walHdr.salt, mxFrame |-> n,
                 nPage |-> IF n = 0 THEN 0 ELSE wal[n].size,
                 cksum |-> IF n = 0 THEN 0 ELSE wal[n].txn,
                 ver |-> IF n = 0 THEN latest ELSE wal[n].txn]
           idx == [i \in FrameNo |-> IF i <= valid THEN wal[i].pg ELSE 0]
<1>1. n \in FrameNo \cup {0} BY LastCommitType
<1>2. n \in Nat BY <1>1, BoundFacts DEF FrameNo
<1>3. n \in FrameNo => wal[n].size \in Nat /\ wal[n].txn \in Txn BY DEF TypeOK,
    FileTypeOK, Frame
<1>4. walHdr.salt \in Nat /\ walHdr.ckpt \in BOOLEAN /\ latest \in Txn BY DEF TypeOK,
    FileTypeOK, WalHdr, GhostTypeOK
<1>5. hdr' = [hdr EXCEPT ![c] = h] /\ aPgno' = (IF valid = 0 THEN aPgno ELSE idx) BY DEF
    RecoverScan
<1> HIDE DEF n, valid
<1>6. h \in Hdr BY <1>1, <1>2, <1>3, <1>4, ZeroTypes DEF Hdr
<1>7. idx \in [FrameNo -> Nat] BY DEF TypeOK, FileTypeOK, Frame
<1> HIDE DEF h, idx
<1>8. ConnTypeOK'
  <2>1. hdr' \in [Conn -> Hdr] BY <1>5, <1>6 DEF TypeOK, ConnTypeOK
  <2>2. reset' \in [Conn -> BOOLEAN] BY <1>4 DEF RecoverScan, TypeOK, ConnTypeOK
  <2>3. UNCHANGED <<readLock, cacheVer>> BY DEF RecoverScan
  <2> QED BY <2>1, <2>2, <2>3 DEF TypeOK, ConnTypeOK
<1>9. ShmTypeOK'
  <2>1. aPgno' \in [FrameNo -> Nat] BY <1>5, <1>7 DEF TypeOK, ShmTypeOK
  <2>2. UNCHANGED <<hdr0, hdr1, nBackfill, aReadMark>> BY DEF RecoverScan
  <2> QED BY <2>1, <2>2 DEF TypeOK, ShmTypeOK
<1> QED BY <1>8, <1>9

(* GrabMark(): its loop stays on slots that have a mark. *)
LEMMA GrabMarkLoop == ASSUME TypeOK, NEW c \in Conn, GrabMark(c) PROVE LoopTypeOK'
<1>1. slot[c] \in Slot BY DEF TypeOK, LoopTypeOK, InMarkLoop, GrabMark
<1>2. CASE Retry(c) BY <1>2, RetryLoop DEF GrabMark
<1>3. CASE ~Retry(c)
  <2>1. ~LastSlot(c) => slot[c] + 1 \in Slot BY <1>1, SlotFacts DEF LastSlot
  <2> QED BY <1>1, <1>3, <2>1 DEF GrabMark, Goto, TypeOK, OpenTypeOK, LoopTypeOK, InMarkLoop
<1> QED BY <1>2, <1>3

(* Opening a snapshot (walTryBeginRead()) keeps every type. *)
LEMMA TypeOpen ==
  ASSUME TypeOK, NEW c \in Conn, OpenStep(c)
  PROVE  TypeOK'
<1>1. ASSUME ReadHdr(c) PROVE TypeOK'
  <2>1. pc' \in [Conn -> PcSet] BY <1>1 DEF TypeOK, PcSet, ReadHdr, AfterHdr, Goto
  <2>2. OpenTypeOK' BY <1>1 DEF TypeOK, OpenTypeOK, ReadHdr, LoadHdr
  <2>3. ConnTypeOK' BY <1>1 DEF TypeOK, ConnTypeOK, ShmTypeOK, ReadHdr, LoadHdr
  <2>4. LoopTypeOK' BY <1>1 DEF ReadHdr, Goto, AfterHdr, OpenTypeOK, InMarkLoop,
    LoopTypeOK, TypeOK
  <2> QED BY <1>1, <2>1, <2>2, <2>3, <2>4, KeepTypes DEF ReadHdr, TypeOK
<1>2. ASSUME LockHdr(c) PROVE TypeOK'
  <2>1. pc' \in [Conn -> PcSet] BY <1>2 DEF LockHdr, Goto, HdrBusy, PcSet, TypeOK
  <2>2. LockTypeOK' BY <1>2, LockFacts DEF LockHdr, LockExclusive, lockVars, TypeOK,
    LockTypeOK
  <2>3. CkptTypeOK' BY <1>2 DEF LockHdr, HdrBusy, CkptTypeOK, TypeOK
  <2>4. LoopTypeOK' BY <1>2 DEF LockHdr, openVars, Goto, HdrBusy, OpenTypeOK,
    InMarkLoop, LoopTypeOK, TypeOK
  <2> QED BY <1>2, <2>1, <2>2, <2>3, <2>4, KeepTypes DEF LockHdr, TypeOK
<1>3. ASSUME RereadHdr(c) PROVE TypeOK'
  <2>1. pc' \in [Conn -> PcSet] BY <1>3 DEF RereadHdr, Goto, AfterHdr, PcSet, TypeOK
  <2>2. LockTypeOK' BY <1>3 DEF RereadHdr, Unlock, lockVars, TypeOK, LockTypeOK
  <2>3. OpenTypeOK' BY <1>3 DEF TypeOK, OpenTypeOK, RereadHdr, LoadHdr
  <2>4. ConnTypeOK' BY <1>3 DEF TypeOK, ConnTypeOK, ShmTypeOK, RereadHdr, LoadHdr
  <2>5. LoopTypeOK' BY <1>3 DEF RereadHdr, Goto, AfterHdr, OpenTypeOK, InMarkLoop,
    LoopTypeOK, TypeOK
  <2> QED BY <1>3, <2>1, <2>2, <2>3, <2>4, <2>5, KeepTypes DEF RereadHdr, TypeOK
<1>4. ASSUME HdrBusyLock(c) PROVE TypeOK'
  <2>1. pc' \in [Conn -> PcSet] BY <1>4 DEF HdrBusyLock, Goto, OpenFails, PcSet, TypeOK
  <2>2. LockTypeOK' BY <1>4, LockFacts DEF HdrBusyLock, LockShared, lockVars, TypeOK,
    LockTypeOK
  <2>3. OpenTypeOK' BY <1>4, OpenFailsType DEF HdrBusyLock, TypeOK, OpenTypeOK
  <2>4. ConnTypeOK' BY <1>4 DEF HdrBusyLock, OpenFails, ConnTypeOK, TypeOK
  <2>5. LoopTypeOK' BY <1>4 DEF HdrBusyLock, Goto, OpenFails, OpenTypeOK, InMarkLoop,
    LoopTypeOK, TypeOK
  <2> QED BY <1>4, <2>1, <2>2, <2>3, <2>4, <2>5, KeepTypes DEF HdrBusyLock, TypeOK
<1>5. ASSUME HdrBusyRetry(c) PROVE TypeOK'
  <2>1. pc' \in [Conn -> PcSet] BY <1>5 DEF HdrBusyRetry, Goto, OpenFails, Retry, PcSet,
    TypeOK
  <2>2. LockTypeOK' BY <1>5 DEF HdrBusyRetry, Unlock, TypeOK, LockTypeOK
  <2>3. OpenTypeOK' BY <1>5, RetryType DEF HdrBusyRetry
  <2>4. ConnTypeOK' BY <1>5 DEF HdrBusyRetry, OpenFails, Retry, ConnTypeOK, TypeOK
  <2>5. LoopTypeOK' BY <1>5, NReaderAssumption DEF HdrBusyRetry, Slot, Goto, OpenFails,
    Retry, OpenTypeOK, InMarkLoop, LoopTypeOK, TypeOK
  <2> QED BY <1>5, <2>1, <2>2, <2>3, <2>4, <2>5, KeepTypes DEF HdrBusyRetry, TypeOK
<1>6. ASSUME ReadBackfill(c) PROVE TypeOK'
  <2>1. pc' \in [Conn -> PcSet] BY <1>6 DEF ReadBackfill, Goto, StartScan, PcSet, TypeOK
  <2>2. OpenTypeOK' BY <1>6, NReaderAssumption DEF ReadBackfill, Slot, StartScan,
    OpenTypeOK, TypeOK
  <2>3. LoopTypeOK' BY <1>6, NReaderAssumption DEF ReadBackfill, Slot, Goto, StartScan,
    OpenTypeOK, InMarkLoop, LoopTypeOK, TypeOK
  <2> QED BY <1>6, <2>1, <2>2, <2>3, KeepTypes DEF ReadBackfill, TypeOK
<1>7. ASSUME LockRead0(c) PROVE TypeOK'
  <2>1. pc' \in [Conn -> PcSet] BY <1>7 DEF LockRead0, Goto, StartScan, PcSet, TypeOK
  <2>2. LockTypeOK' BY <1>7, LockFacts DEF LockRead0, LockShared, lockVars, TypeOK,
    LockTypeOK
  <2>3. OpenTypeOK' BY <1>7, NReaderAssumption DEF LockRead0, Slot, StartScan,
    OpenTypeOK, TypeOK
  <2>4. LoopTypeOK' BY <1>7, NReaderAssumption DEF LockRead0, Slot, Goto, StartScan,
    OpenTypeOK, InMarkLoop, LoopTypeOK, TypeOK
  <2> QED BY <1>7, <2>1, <2>2, <2>3, <2>4, KeepTypes DEF LockRead0, TypeOK
<1>8. ASSUME CheckRead0(c) PROVE TypeOK'
  <2>1. pc' \in [Conn -> PcSet] /\ OpenTypeOK' /\ ConnTypeOK' BY <1>8, CheckRead0Type
  <2>2. LockTypeOK' BY <1>8 DEF CheckRead0, Unlock, lockVars, TypeOK, LockTypeOK
  <2>3. LoopTypeOK' BY <1>8, NReaderAssumption DEF CheckRead0, Slot, Goto, OpenFails,
    Retry, Opened, OpenTypeOK, InMarkLoop, LoopTypeOK, TypeOK
  <2> QED BY <1>8, <2>1, <2>2, <2>3, KeepTypes DEF CheckRead0, TypeOK
<1>9. ASSUME ScanMark(c) PROVE TypeOK'
  <2>1. pc' \in [Conn -> PcSet] BY <1>9 DEF ScanMark, Goto, PcSet, TypeOK
  <2>2. OpenTypeOK' /\ LoopTypeOK' BY <1>9, ScanMarkType
  <2> QED BY <1>9, <2>1, <2>2, KeepTypes DEF ScanMark, TypeOK
<1>10. ASSUME GrabMark(c) PROVE TypeOK'
  <2>1. pc' \in [Conn -> PcSet] /\ OpenTypeOK' /\ ConnTypeOK' BY <1>10, GrabMarkType
  <2>2. LockTypeOK' BY <1>10, GrabMarkLocks
  <2>3. LoopTypeOK' BY <1>10, GrabMarkLoop
  <2> QED BY <1>10, <2>1, <2>2, <2>3, KeepTypes DEF GrabMark, TypeOK
<1>11. ASSUME SetMark(c) PROVE TypeOK'
  <2>1. pc' \in [Conn -> PcSet] BY <1>11 DEF SetMark, Goto, PcSet, TypeOK
  <2>2. LockTypeOK' BY <1>11 DEF SetMark, Unlock, TypeOK, LockTypeOK
  <2>3. ShmTypeOK' /\ OpenTypeOK' BY <1>11, SetMarkType
  <2>4. LoopTypeOK' BY <1>11 DEF SetMark, Goto, OpenTypeOK, InMarkLoop, LoopTypeOK,
    TypeOK
  <2> QED BY <1>11, <2>1, <2>2, <2>3, <2>4, KeepTypes DEF SetMark, TypeOK
<1>12. ASSUME LockMark(c) PROVE TypeOK'
  <2>1. pc' \in [Conn -> PcSet] /\ OpenTypeOK' /\ ConnTypeOK' BY <1>12, LockMarkType
  <2>2. LockTypeOK' BY <1>12, LockMarkLocks
  <2>3. LoopTypeOK' BY <1>12, NReaderAssumption DEF LockMark, Slot, Goto, OpenFails,
    Retry, OpenTypeOK, InMarkLoop, LoopTypeOK, TypeOK
  <2> QED BY <1>12, <2>1, <2>2, <2>3, KeepTypes DEF LockMark, TypeOK
<1>13. ASSUME CheckMark(c) PROVE TypeOK'
  <2>1. pc' \in [Conn -> PcSet] /\ OpenTypeOK' /\ ConnTypeOK' BY <1>13, CheckMarkType
  <2>2. LockTypeOK' BY <1>13 DEF CheckMark, Unlock, lockVars, TypeOK, LockTypeOK
  <2>3. LoopTypeOK' BY <1>13, NReaderAssumption DEF CheckMark, Slot, Goto, OpenFails,
    Retry, Opened, OpenTypeOK, InMarkLoop, LoopTypeOK, TypeOK
  <2> QED BY <1>13, <2>1, <2>2, <2>3, KeepTypes DEF CheckMark, TypeOK
<1> QED BY <1>1, <1>2, <1>3, <1>4, <1>5, <1>6, <1>7, <1>8, <1>9, <1>10, <1>11, <1>12,
  <1>13 DEF OpenStep

(* Recovery (walIndexRecover()) keeps every type. *)
LEMMA TypeRecover ==
  ASSUME TypeOK, NEW c \in Conn, RecoverStep(c)
  PROVE  TypeOK'
<1>1. ASSUME RecoverLock(c) PROVE TypeOK'
  <2>1. pc' \in [Conn -> PcSet] BY <1>1 DEF RecoverLock, Goto, HdrBusy, PcSet, TypeOK
  <2>2. LockTypeOK' BY <1>1, RecoverLockLocks
  <2>3. CkptTypeOK' BY <1>1 DEF RecoverLock, HdrBusy, CkptTypeOK, TypeOK
  <2>4. LoopTypeOK' BY <1>1 DEF RecoverLock, openVars, Goto, HdrBusy, OpenTypeOK,
    InMarkLoop, LoopTypeOK, TypeOK
  <2> QED BY <1>1, <2>1, <2>2, <2>3, <2>4, KeepTypes DEF RecoverLock, TypeOK
<1>2. ASSUME RecoverScan(c) PROVE TypeOK'
  <2>1. pc' \in [Conn -> PcSet] BY <1>2 DEF RecoverScan, Goto, PcSet, TypeOK
  <2>2. ShmTypeOK' /\ ConnTypeOK' BY <1>2, RecoverScanType
  <2>3. LoopTypeOK' BY <1>2 DEF RecoverScan, openVars, Goto, OpenTypeOK, InMarkLoop,
    LoopTypeOK, TypeOK
  <2> QED BY <1>2, <2>1, <2>2, <2>3, KeepTypes DEF RecoverScan, TypeOK
<1>3. ASSUME RecoverHdr1(c) PROVE TypeOK'
  <2>1. pc' \in [Conn -> PcSet] BY <1>3 DEF RecoverHdr1, Goto, PcSet, TypeOK
  <2>2. ShmTypeOK' BY <1>3 DEF RecoverHdr1, ShmTypeOK, ConnTypeOK, TypeOK
  <2>3. LoopTypeOK' BY <1>3 DEF RecoverHdr1, openVars, Goto, OpenTypeOK, InMarkLoop,
    LoopTypeOK, TypeOK
  <2> QED BY <1>3, <2>1, <2>2, <2>3, KeepTypes DEF RecoverHdr1, TypeOK
<1>4. ASSUME RecoverHdr0(c) PROVE TypeOK'
  <2>1. pc' \in [Conn -> PcSet] BY <1>4 DEF RecoverHdr0, Goto, PcSet, TypeOK
  <2>2. ShmTypeOK' BY <1>4 DEF RecoverHdr0, ShmTypeOK, ConnTypeOK, GhostTypeOK, TypeOK
  <2>3. GhostTypeOK' BY <1>4 DEF RecoverHdr0, Txn, NoData, Hdr, Image, ShmTypeOK,
    ConnTypeOK, GhostTypeOK, TypeOK
  <2>4. LoopTypeOK' BY <1>4 DEF RecoverHdr0, openVars, Goto, OpenTypeOK, InMarkLoop,
    LoopTypeOK, TypeOK
  <2> QED BY <1>4, <2>1, <2>2, <2>3, <2>4, KeepTypes DEF RecoverHdr0, TypeOK
<1>5. ASSUME RecoverInfo(c) PROVE TypeOK'
  <2>1. pc' \in [Conn -> PcSet] BY <1>5 DEF RecoverInfo, Goto, PcSet, TypeOK
  <2>2. LockTypeOK' BY <1>5 DEF RecoverInfo, Unlock, RecoverLocks, TypeOK, LockTypeOK
  <2>3. ShmTypeOK' BY <1>5, RecoverInfoType
  <2>4. LoopTypeOK' BY <1>5 DEF RecoverInfo, openVars, Goto, OpenTypeOK, InMarkLoop,
    LoopTypeOK, TypeOK
  <2> QED BY <1>5, <2>1, <2>2, <2>3, <2>4, KeepTypes DEF RecoverInfo, TypeOK
<1>6. ASSUME RecoverDone(c) PROVE TypeOK'
  <2>1. pc' \in [Conn -> PcSet] BY <1>6 DEF RecoverDone, Goto, AfterHdr, PcSet, TypeOK
  <2>2. LockTypeOK' BY <1>6 DEF RecoverDone, Unlock, TypeOK, LockTypeOK
  <2>3. LoopTypeOK' BY <1>6 DEF RecoverDone, openVars, Goto, AfterHdr, OpenTypeOK,
    InMarkLoop, LoopTypeOK, TypeOK
  <2> QED BY <1>6, <2>1, <2>2, <2>3, KeepTypes DEF RecoverDone, TypeOK
<1>7. ASSUME RecoverError(c) PROVE TypeOK'
  <2>1. pc' \in [Conn -> PcSet] BY <1>7 DEF RecoverError, Goto, OpenFails, PcSet, TypeOK
  <2>2. LockTypeOK' BY <1>7 DEF RecoverError, Unlock, RecoverLocks, TypeOK, LockTypeOK
  <2>3. OpenTypeOK' BY <1>7, OpenFailsType DEF RecoverError, TypeOK, OpenTypeOK
  <2>4. ConnTypeOK' BY <1>7, ZeroTypes DEF RecoverError, OpenFails, TypeOK, ConnTypeOK
  <2>5. CkptTypeOK' BY <1>7 DEF RecoverError, CkptTypeOK, TypeOK
  <2>6. LoopTypeOK' BY <1>7 DEF RecoverError, Goto, OpenFails, OpenTypeOK, InMarkLoop,
    LoopTypeOK, TypeOK
  <2> QED BY <1>7, <2>1, <2>2, <2>3, <2>4, <2>5, <2>6, KeepTypes DEF RecoverError,
    TypeOK
<1> QED BY <1>1, <1>2, <1>3, <1>4, <1>5, <1>6, <1>7 DEF RecoverStep

(* Writing frames (sqlite3WalFrames()) keeps every type. *)
LEMMA TypeWrite ==
  ASSUME TypeOK, NEW c \in Conn, WriteStep(c)
  PROVE  TypeOK'
<1>1. ASSUME RestartLock(c) PROVE TypeOK'
  <2>1. pc' \in [Conn -> PcSet] BY <1>1 DEF RestartLock, Goto, PcSet, TypeOK
  <2>2. LockTypeOK' BY <1>1, LockFacts DEF RestartLock, LockExclusive, lockVars, TypeOK,
    LockTypeOK
  <2>3. ConnTypeOK' BY <1>1, RestartLockType
  <2>4. BoundTypeOK' BY <1>1 DEF RestartLock, BoundTypeOK, TypeOK
  <2>5. LoopTypeOK' BY <1>1 DEF RestartLock, openVars, Goto, OpenTypeOK, InMarkLoop,
    LoopTypeOK, TypeOK
  <2> QED BY <1>1, <2>1, <2>2, <2>3, <2>4, <2>5, KeepTypes DEF RestartLock, TypeOK
<1>2. ASSUME RestartHdr1(c) PROVE TypeOK'
  <2>1. pc' \in [Conn -> PcSet] BY <1>2 DEF RestartHdr1, Goto, PcSet, TypeOK
  <2>2. ShmTypeOK' BY <1>2 DEF RestartHdr1, ShmTypeOK, ConnTypeOK, TypeOK
  <2>3. LoopTypeOK' BY <1>2 DEF RestartHdr1, openVars, Goto, OpenTypeOK, InMarkLoop,
    LoopTypeOK, TypeOK
  <2> QED BY <1>2, <2>1, <2>2, <2>3, KeepTypes DEF RestartHdr1, TypeOK
<1>3. ASSUME RestartHdr0(c) PROVE TypeOK'
  <2>1. pc' \in [Conn -> PcSet] BY <1>3 DEF RestartHdr0, Goto, PcSet, TypeOK
  <2>2. ShmTypeOK' BY <1>3 DEF RestartHdr0, ShmTypeOK, ConnTypeOK, TypeOK
  <2>3. LoopTypeOK' BY <1>3 DEF RestartHdr0, openVars, Goto, OpenTypeOK, InMarkLoop,
    LoopTypeOK, TypeOK
  <2> QED BY <1>3, <2>1, <2>2, <2>3, KeepTypes DEF RestartHdr0, TypeOK
<1>4. ASSUME RestartBackfill(c) PROVE TypeOK'
  <2>1. pc' \in [Conn -> PcSet] BY <1>4 DEF RestartBackfill, Goto, PcSet, TypeOK
  <2>2. ShmTypeOK' BY <1>4 DEF RestartBackfill, ShmTypeOK, TypeOK
  <2>3. LoopTypeOK' BY <1>4 DEF RestartBackfill, openVars, Goto, OpenTypeOK, InMarkLoop,
    LoopTypeOK, TypeOK
  <2> QED BY <1>4, <2>1, <2>2, <2>3, KeepTypes DEF RestartBackfill, TypeOK
<1>5. ASSUME RestartMarks(c) PROVE TypeOK'
  <2>1. pc' \in [Conn -> PcSet] BY <1>5 DEF RestartMarks, Goto, PcSet, TypeOK
  <2>2. LockTypeOK' BY <1>5 DEF RestartMarks, Unlock, TypeOK, LockTypeOK
  <2>3. ShmTypeOK' BY <1>5, RestartMarksType
  <2>4. LoopTypeOK' BY <1>5 DEF RestartMarks, openVars, Goto, OpenTypeOK, InMarkLoop,
    LoopTypeOK, TypeOK
  <2> QED BY <1>5, <2>1, <2>2, <2>3, <2>4, KeepTypes DEF RestartMarks, TypeOK
<1>6. ASSUME LeaveRead0(c) PROVE TypeOK'
  <2>1. pc' \in [Conn -> PcSet] BY <1>6 DEF LeaveRead0, Goto, StartScan, PcSet, TypeOK
  <2>2. LockTypeOK' BY <1>6 DEF LeaveRead0, Unlock, TypeOK, LockTypeOK
  <2>3. OpenTypeOK' BY <1>6, NReaderAssumption DEF LeaveRead0, Slot, StartScan,
    OpenTypeOK, TypeOK
  <2>4. ConnTypeOK' BY <1>6 DEF LeaveRead0, ConnTypeOK, TypeOK
  <2>5. LoopTypeOK' BY <1>6, NReaderAssumption DEF LeaveRead0, Slot, Goto, StartScan,
    OpenTypeOK, InMarkLoop, LoopTypeOK, TypeOK
  <2> QED BY <1>6, <2>1, <2>2, <2>3, <2>4, <2>5, KeepTypes DEF LeaveRead0, TypeOK
<1>7. ASSUME LogHdr(c) PROVE TypeOK'
  <2>1. pc' \in [Conn -> PcSet] BY <1>7 DEF LogHdr, Goto, PcSet, TypeOK
  <2>2. FileTypeOK' /\ ConnTypeOK' /\ WriteTypeOK' BY <1>7, LogHdrType
  <2>3. BoundTypeOK' BY <1>7 DEF LogHdr, BoundTypeOK, TypeOK
  <2>4. LoopTypeOK' BY <1>7 DEF LogHdr, openVars, Goto, OpenTypeOK, InMarkLoop,
    LoopTypeOK, TypeOK
  <2> QED BY <1>7, <2>1, <2>2, <2>3, <2>4, KeepTypes DEF LogHdr, TypeOK
<1>8. ASSUME SyncHdr(c) PROVE TypeOK'
  <2>1. pc' \in [Conn -> PcSet] BY <1>8 DEF SyncHdr, Goto, PcSet, TypeOK
  <2>2. FileTypeOK' BY <1>8 DEF SyncHdr, SyncWal, FileTypeOK, TypeOK
  <2>3. LoopTypeOK' BY <1>8 DEF SyncHdr, openVars, Goto, OpenTypeOK, InMarkLoop,
    LoopTypeOK, TypeOK
  <2> QED BY <1>8, <2>1, <2>2, <2>3, KeepTypes DEF SyncHdr, TypeOK
<1>9. ASSUME WriteFrame(c) PROVE TypeOK'
  <2>1. pc' \in [Conn -> PcSet] BY <1>9 DEF WriteFrame, Goto, PcSet, TypeOK
  <2>2. FileTypeOK' /\ ConnTypeOK' /\ GhostTypeOK' BY <1>9, WriteFrameType
  <2>3. WriteTypeOK' BY <1>9 DEF WriteFrame, WriteTypeOK, TypeOK
  <2>4. LoopTypeOK' BY <1>9 DEF WriteFrame, openVars, Goto, OpenTypeOK, InMarkLoop,
    LoopTypeOK, TypeOK
  <2> QED BY <1>9, <2>1, <2>2, <2>3, <2>4, KeepTypes DEF WriteFrame, TypeOK
<1>10. ASSUME SyncFrames(c) PROVE TypeOK'
  <2>1. pc' \in [Conn -> PcSet] BY <1>10 DEF SyncFrames, Goto, PcSet, TypeOK
  <2>2. FileTypeOK' BY <1>10 DEF SyncFrames, SyncWal, FileTypeOK, TypeOK
  <2>3. LoopTypeOK' BY <1>10 DEF SyncFrames, openVars, Goto, OpenTypeOK, InMarkLoop,
    LoopTypeOK, TypeOK
  <2> QED BY <1>10, <2>1, <2>2, <2>3, KeepTypes DEF SyncFrames, TypeOK
<1>11. ASSUME IndexFrame(c) PROVE TypeOK'
  <2>1. pc' \in [Conn -> PcSet] BY <1>11 DEF IndexFrame, Goto, PcSet, TypeOK
  <2>2. ShmTypeOK' BY <1>11, IndexFrameType
  <2>3. WriteTypeOK' BY <1>11 DEF IndexFrame, WriteTypeOK, TypeOK
  <2>4. LoopTypeOK' BY <1>11 DEF IndexFrame, openVars, Goto, OpenTypeOK, InMarkLoop,
    LoopTypeOK, TypeOK
  <2> QED BY <1>11, <2>1, <2>2, <2>3, <2>4, KeepTypes DEF IndexFrame, TypeOK
<1>12. ASSUME FramesDone(c) PROVE TypeOK'
  <2>1. pc' \in [Conn -> PcSet] BY <1>12 DEF FramesDone, Goto, PcSet, TypeOK
  <2>2. ConnTypeOK' BY <1>12, FramesDoneType
  <2>3. LoopTypeOK' BY <1>12 DEF FramesDone, openVars, Goto, OpenTypeOK, InMarkLoop,
    LoopTypeOK, TypeOK
  <2> QED BY <1>12, <2>1, <2>2, <2>3, KeepTypes DEF FramesDone, TypeOK
<1>13. ASSUME Publish1(c) PROVE TypeOK'
  <2>1. pc' \in [Conn -> PcSet] BY <1>13 DEF Publish1, Goto, PcSet, TypeOK
  <2>2. ShmTypeOK' BY <1>13 DEF Publish1, ShmTypeOK, ConnTypeOK, TypeOK
  <2>3. LoopTypeOK' BY <1>13 DEF Publish1, openVars, Goto, OpenTypeOK, InMarkLoop,
    LoopTypeOK, TypeOK
  <2> QED BY <1>13, <2>1, <2>2, <2>3, KeepTypes DEF Publish1, TypeOK
<1>14. ASSUME Publish0(c) PROVE TypeOK'
  <2>1. pc' \in [Conn -> PcSet] BY <1>14 DEF Publish0, Goto, PcSet, TypeOK
  <2>2. ShmTypeOK' /\ ConnTypeOK' /\ GhostTypeOK' BY <1>14 DEF Publish0, ShmTypeOK,
    ConnTypeOK, WriteTypeOK, GhostTypeOK, TypeOK
  <2>3. LoopTypeOK' BY <1>14 DEF Publish0, openVars, Goto, OpenTypeOK, InMarkLoop,
    LoopTypeOK, TypeOK
  <2> QED BY <1>14, <2>1, <2>2, <2>3, KeepTypes DEF Publish0, TypeOK
<1>15. ASSUME EndWrite(c) PROVE TypeOK'
  <2>1. pc' \in [Conn -> PcSet] BY <1>15 DEF EndWrite, Goto, PcSet, TypeOK
  <2>2. LockTypeOK' BY <1>15 DEF EndWrite, Unlock, TypeOK, LockTypeOK
  <2>3. WriteTypeOK' BY <1>15, ZeroTypes DEF EndWrite, ForgetTxn, TypeOK, WriteTypeOK
  <2>4. LoopTypeOK' BY <1>15 DEF EndWrite, openVars, Goto, OpenTypeOK, InMarkLoop,
    LoopTypeOK, TypeOK
  <2> QED BY <1>15, <2>1, <2>2, <2>3, <2>4, KeepTypes DEF EndWrite, TypeOK
<1>16. ASSUME FramesError(c) PROVE TypeOK'
  <2>1. pc' \in [Conn -> PcSet] BY <1>16 DEF FramesError, Goto, PcSet, TypeOK
  <2>2. LoopTypeOK' BY <1>16 DEF FramesError, openVars, Goto, OpenTypeOK, InMarkLoop,
    LoopTypeOK, TypeOK
  <2> QED BY <1>16, <2>1, <2>2, KeepTypes DEF FramesError, TypeOK
<1> QED BY <1>1, <1>2, <1>3, <1>4, <1>5, <1>6, <1>7, <1>8, <1>9, <1>10, <1>11, <1>12,
  <1>13, <1>14, <1>15, <1>16 DEF WriteStep

(* A checkpoint (walCheckpoint()) keeps every type. *)
LEMMA TypeCkpt ==
  ASSUME TypeOK, NEW c \in Conn, CkptStep(c)
  PROVE  TypeOK'
<1>1. ASSUME CkptWrite(c) PROVE TypeOK'
  <2>1. pc' \in [Conn -> PcSet] BY <1>1 DEF CkptWrite, Goto, PcSet, TypeOK
  <2>2. LockTypeOK' BY <1>1, LockFacts DEF CkptWrite, LockExclusive, lockVars, TypeOK,
    LockTypeOK
  <2>3. CkptTypeOK' BY <1>1 DEF CkptWrite, CkptTypeOK, TypeOK
  <2>4. LoopTypeOK' BY <1>1 DEF CkptWrite, openVars, Goto, OpenTypeOK, InMarkLoop,
    LoopTypeOK, TypeOK
  <2> QED BY <1>1, <2>1, <2>2, <2>3, <2>4, KeepTypes DEF CkptWrite, TypeOK
<1>2. ASSUME CkptStart(c) PROVE TypeOK'
  <2>1. pc' \in [Conn -> PcSet] BY <1>2 DEF CkptStart, Goto, PcSet, TypeOK
  <2>2. OpenTypeOK' BY <1>2, NReaderAssumption DEF CkptStart, Slot, OpenTypeOK, TypeOK
  <2>3. CkptTypeOK' BY <1>2, CkptStartType
  <2>4. LoopTypeOK' BY <1>2, NReaderAssumption DEF CkptStart, Slot, Goto, OpenTypeOK,
    InMarkLoop, LoopTypeOK, TypeOK
  <2> QED BY <1>2, <2>1, <2>2, <2>3, <2>4, KeepTypes DEF CkptStart, TypeOK
<1>3. ASSUME CkptMark(c) PROVE TypeOK'
  <2>1. pc' \in [Conn -> PcSet] BY <1>3 DEF CkptMark, Goto, NextMark, PcSet, TypeOK
  <2>2. OpenTypeOK' /\ LoopTypeOK' BY <1>3, CkptMarkType
  <2> QED BY <1>3, <2>1, <2>2, KeepTypes DEF CkptMark, TypeOK
<1>4. ASSUME CkptMarkLock(c) PROVE TypeOK'
  <2>1. pc' \in [Conn -> PcSet] BY <1>4 DEF CkptMarkLock, Goto, NextMark, PcSet, TypeOK
  <2>2. LockTypeOK' /\ OpenTypeOK' /\ LoopTypeOK' BY <1>4, CkptMarkLockType
  <2>3. CkptTypeOK' BY <1>4 DEF CkptMarkLock, LockTypeOK, OpenTypeOK, CkptTypeOK, TypeOK
  <2> QED BY <1>4, <2>1, <2>2, <2>3, KeepTypes DEF CkptMarkLock, TypeOK
<1>5. ASSUME CkptMarkSet(c) PROVE TypeOK'
  <2>1. pc' \in [Conn -> PcSet] BY <1>5 DEF CkptMarkSet, Goto, NextMark, PcSet, TypeOK
  <2>2. LockTypeOK' BY <1>5 DEF CkptMarkSet, Unlock, TypeOK, LockTypeOK
  <2>3. ShmTypeOK' BY <1>5, CkptMarkSetShm
  <2>4. OpenTypeOK' /\ LoopTypeOK' BY <1>5, CkptMarkSetType
  <2> QED BY <1>5, <2>1, <2>2, <2>3, <2>4, KeepTypes DEF CkptMarkSet, TypeOK
<1>6. ASSUME CkptLock0(c) PROVE TypeOK'
  <2>1. pc' \in [Conn -> PcSet] BY <1>6 DEF CkptLock0, Goto, PcSet, TypeOK
  <2>2. LockTypeOK' BY <1>6, LockFacts DEF CkptLock0, LockExclusive, lockVars, TypeOK,
    LockTypeOK
  <2>3. CkptTypeOK' BY <1>6, CkptLock0Type
  <2>4. LoopTypeOK' BY <1>6 DEF CkptLock0, openVars, Goto, OpenTypeOK, InMarkLoop,
    LoopTypeOK, TypeOK
  <2> QED BY <1>6, <2>1, <2>2, <2>3, <2>4, KeepTypes DEF CkptLock0, TypeOK
<1>7. ASSUME CkptSync(c) PROVE TypeOK'
  <2>1. pc' \in [Conn -> PcSet] BY <1>7 DEF CkptSync, Goto, PcSet, TypeOK
  <2>2. FileTypeOK' BY <1>7 DEF CkptSync, SyncWal, FileTypeOK, TypeOK
  <2>3. GhostTypeOK' BY <1>7 DEF CkptSync, GhostTypeOK, TypeOK
  <2>4. LoopTypeOK' BY <1>7 DEF CkptSync, openVars, Goto, OpenTypeOK, InMarkLoop,
    LoopTypeOK, TypeOK
  <2> QED BY <1>7, <2>1, <2>2, <2>3, <2>4, KeepTypes DEF CkptSync, TypeOK
<1>8. ASSUME CkptCopy(c) PROVE TypeOK'
  <2>1. pc' \in [Conn -> PcSet] BY <1>8 DEF CkptCopy, Goto, PcSet, TypeOK
  <2>2. FileTypeOK' BY <1>8, CkptCopyType
  <2>3. CkptTypeOK' BY <1>8 DEF CkptCopy, CkptTypeOK, TypeOK
  <2>4. LoopTypeOK' BY <1>8 DEF CkptCopy, openVars, Goto, OpenTypeOK, InMarkLoop,
    LoopTypeOK, TypeOK
  <2> QED BY <1>8, <2>1, <2>2, <2>3, <2>4, KeepTypes DEF CkptCopy, TypeOK
<1>9. ASSUME CkptTruncate(c) PROVE TypeOK'
  <2>1. pc' \in [Conn -> PcSet] BY <1>9 DEF CkptTruncate, Goto, PcSet, TypeOK
  <2>2. FileTypeOK' BY <1>9, CkptTruncateType
  <2>3. LoopTypeOK' BY <1>9 DEF CkptTruncate, openVars, Goto, OpenTypeOK, InMarkLoop,
    LoopTypeOK, TypeOK
  <2> QED BY <1>9, <2>1, <2>2, <2>3, KeepTypes DEF CkptTruncate, TypeOK
<1>10. ASSUME CkptBackfill(c) PROVE TypeOK'
  <2>1. pc' \in [Conn -> PcSet] BY <1>10 DEF CkptBackfill, Goto, PcSet, TypeOK
  <2>2. LockTypeOK' BY <1>10 DEF CkptBackfill, Unlock, TypeOK, LockTypeOK
  <2>3. ShmTypeOK' BY <1>10 DEF CkptBackfill, LockTypeOK, ShmTypeOK, CkptTypeOK, TypeOK
  <2>4. LoopTypeOK' BY <1>10 DEF CkptBackfill, openVars, Goto, OpenTypeOK, InMarkLoop,
    LoopTypeOK, TypeOK
  <2> QED BY <1>10, <2>1, <2>2, <2>3, <2>4, KeepTypes DEF CkptBackfill, TypeOK
<1>11. ASSUME CkptTail(c) PROVE TypeOK'
  <2>1. pc' \in [Conn -> PcSet] BY <1>11 DEF CkptTail, Goto, PcSet, TypeOK
  <2>2. CkptTypeOK' BY <1>11 DEF CkptTail, CkptTypeOK, TypeOK
  <2>3. LoopTypeOK' BY <1>11 DEF CkptTail, openVars, Goto, OpenTypeOK, InMarkLoop,
    LoopTypeOK, TypeOK
  <2> QED BY <1>11, <2>1, <2>2, <2>3, KeepTypes DEF CkptTail, TypeOK
<1>12. ASSUME CkptRestart(c) PROVE TypeOK'
  <2>1. pc' \in [Conn -> PcSet] BY <1>12 DEF CkptRestart, Goto, PcSet, TypeOK
  <2>2. CkptTypeOK' BY <1>12 DEF CkptRestart, CkptTypeOK, TypeOK
  <2>3. LoopTypeOK' BY <1>12 DEF CkptRestart, openVars, Goto, OpenTypeOK, InMarkLoop,
    LoopTypeOK, TypeOK
  <2> QED BY <1>12, <2>1, <2>2, <2>3, KeepTypes DEF CkptRestart, TypeOK
<1>13. ASSUME CkptError(c) PROVE TypeOK'
  <2>1. pc' \in [Conn -> PcSet] BY <1>13 DEF CkptError, Goto, PcSet, TypeOK
  <2>2. LockTypeOK' BY <1>13 DEF CkptError, Unlock, TypeOK, LockTypeOK
  <2>3. CkptTypeOK' BY <1>13 DEF CkptError, CkptTypeOK, TypeOK
  <2>4. LoopTypeOK' BY <1>13 DEF CkptError, openVars, Goto, OpenTypeOK, InMarkLoop,
    LoopTypeOK, TypeOK
  <2> QED BY <1>13, <2>1, <2>2, <2>3, <2>4, KeepTypes DEF CkptError, TypeOK
<1>14. ASSUME CkptEnd(c) PROVE TypeOK'
  <2>1. pc' \in [Conn -> PcSet] BY <1>14 DEF CkptEnd, Goto, PcSet, TypeOK
  <2>2. LockTypeOK' BY <1>14 DEF CkptEnd, Unlock, TypeOK, LockTypeOK
  <2>3. OpenTypeOK' BY <1>14 DEF CkptEnd, OpenTypeOK, TypeOK
  <2>4. ConnTypeOK' BY <1>14, ZeroTypes DEF CkptEnd, KeptHdr, TypeOK, ConnTypeOK
  <2>5. CkptTypeOK' BY <1>14 DEF CkptEnd, CkptTypeOK, TypeOK
  <2>6. LoopTypeOK' BY <1>14 DEF CkptEnd, Goto, OpenTypeOK, InMarkLoop, LoopTypeOK,
    TypeOK
  <2> QED BY <1>14, <2>1, <2>2, <2>3, <2>4, <2>5, <2>6, KeepTypes DEF CkptEnd, TypeOK
<1> QED BY <1>1, <1>2, <1>3, <1>4, <1>5, <1>6, <1>7, <1>8, <1>9, <1>10, <1>11, <1>12,
  <1>13, <1>14 DEF CkptStep

(* Starting and ending transactions keeps every type. *)
LEMMA TypeUser ==
  ASSUME TypeOK, NEW c \in Conn, UserStep(c)
  PROVE  TypeOK'
<1>1. ASSUME BeginRead(c) PROVE TypeOK'
  <2>1. pc' \in [Conn -> PcSet] BY <1>1 DEF BeginRead, Goto, PcSet, TypeOK
  <2>2. OpenTypeOK' BY <1>1 DEF BeginRead, OpenTypeOK, TypeOK
  <2>3. LoopTypeOK' BY <1>1 DEF BeginRead, Goto, OpenTypeOK, InMarkLoop, LoopTypeOK,
    TypeOK
  <2> QED BY <1>1, <2>1, <2>2, <2>3, KeepTypes DEF BeginRead, TypeOK
<1>2. ASSUME EndRead(c) PROVE TypeOK'
  <2>1. pc' \in [Conn -> PcSet] BY <1>2 DEF EndRead, Goto, PcSet, TypeOK
  <2>2. LockTypeOK' BY <1>2 DEF EndRead, Unlock, TypeOK, LockTypeOK
  <2>3. ConnTypeOK' BY <1>2 DEF EndRead, ConnTypeOK, TypeOK
  <2>4. LoopTypeOK' BY <1>2 DEF EndRead, openVars, Goto, OpenTypeOK, InMarkLoop,
    LoopTypeOK, TypeOK
  <2> QED BY <1>2, <2>1, <2>2, <2>3, <2>4, KeepTypes DEF EndRead, TypeOK
<1>3. ASSUME BeginWrite(c) PROVE TypeOK'
  <2>1. pc' \in [Conn -> PcSet] BY <1>3 DEF BeginWrite, Goto, PcSet, TypeOK
  <2>2. LockTypeOK' BY <1>3, LockFacts DEF BeginWrite, LockExclusive, TypeOK, LockTypeOK
  <2>3. LoopTypeOK' BY <1>3 DEF BeginWrite, openVars, Goto, OpenTypeOK, InMarkLoop,
    LoopTypeOK, TypeOK
  <2> QED BY <1>3, <2>1, <2>2, <2>3, KeepTypes DEF BeginWrite, TypeOK
<1>4. ASSUME BeginFrames(c) PROVE TypeOK'
  <2>1. pc' \in [Conn -> PcSet] BY <1>4 DEF BeginFrames, Goto, PcSet, TypeOK
  <2>2. WriteTypeOK' /\ BoundTypeOK' BY <1>4, BeginFramesType
  <2>3. LoopTypeOK' BY <1>4 DEF BeginFrames, openVars, Goto, OpenTypeOK, InMarkLoop,
    LoopTypeOK, TypeOK
  <2> QED BY <1>4, <2>1, <2>2, <2>3, KeepTypes DEF BeginFrames, TypeOK
<1>5. ASSUME Rollback(c) PROVE TypeOK'
  <2>1. pc' \in [Conn -> PcSet] BY <1>5 DEF Rollback, Goto, PcSet, TypeOK
  <2>2. LockTypeOK' BY <1>5 DEF Rollback, Unlock, TypeOK, LockTypeOK
  <2>3. ShmTypeOK' /\ ConnTypeOK' /\ WriteTypeOK' BY <1>5, RollbackType
  <2>4. LoopTypeOK' BY <1>5 DEF Rollback, openVars, Goto, OpenTypeOK, InMarkLoop,
    LoopTypeOK, TypeOK
  <2> QED BY <1>5, <2>1, <2>2, <2>3, <2>4, KeepTypes DEF Rollback, TypeOK
<1>6. ASSUME CkptBegin(c) PROVE TypeOK'
  <2>1. pc' \in [Conn -> PcSet] BY <1>6 DEF CkptBegin, Goto, PcSet, TypeOK
  <2>2. LockTypeOK' BY <1>6, LockFacts DEF CkptBegin, LockExclusive, TypeOK, LockTypeOK
  <2>3. OpenTypeOK' BY <1>6 DEF CkptBegin, OpenTypeOK, TypeOK
  <2>4. CkptTypeOK' BY <1>6, WalAssumption DEF CkptBegin, TypeOK, CkptTypeOK
  <2>5. LoopTypeOK' BY <1>6 DEF CkptBegin, Goto, OpenTypeOK, InMarkLoop, LoopTypeOK,
    TypeOK
  <2> QED BY <1>6, <2>1, <2>2, <2>3, <2>4, <2>5, KeepTypes DEF CkptBegin, TypeOK
<1> QED BY <1>1, <1>2, <1>3, <1>4, <1>5, <1>6 DEF UserStep

(* The death of a process keeps every type. *)
LEMMA TypeCrash ==
  ASSUME TypeOK, NEW c \in Conn, Crash(c)
  PROVE  TypeOK'
<1>1. pc' \in [Conn -> PcSet] BY DEF Crash, Goto, PcSet, TypeOK
<1>2. LockTypeOK' BY DEF Crash, Unlock, UnlockAll, TypeOK, LockTypeOK
<1>3. OpenTypeOK' BY DEF Crash, OpenTypeOK, TypeOK
<1>4. ConnTypeOK' /\ WriteTypeOK' BY CrashType
<1>5. CkptTypeOK' BY DEF Crash, CkptTypeOK, TypeOK
<1>6. BoundTypeOK' BY DEF Crash, BoundTypeOK, TypeOK
<1>7. LoopTypeOK' BY DEF Crash, Goto, OpenTypeOK, InMarkLoop, LoopTypeOK, TypeOK
<1> QED BY <1>1, <1>2, <1>3, <1>4, <1>5, <1>6, <1>7, KeepTypes DEF Crash, TypeOK

(* What survives a loss of power in a file is, item by item, an item that was
   written to it. *)
LEMMA OnDiskType ==
  ASSUME NEW I, NEW T, NEW new \in [I -> T], NEW old \in [I -> SUBSET T],
         NEW f \in OnDisk(new, old)
  PROVE  f \in [I -> T]
<1>1. DOMAIN f = I /\ \A i \in I : f[i] \in old[i] \cup {new[i]} BY DEF OnDisk
<1>2. f = [i \in I |-> f[i]] BY <1>1 DEF OnDisk
<1> QED BY <1>1, <1>2

(* A loss of power keeps every type. *)
LEMMA TypePower ==
  ASSUME TypeOK, PowerFail
  PROVE  TypeOK'
<1>1. LockTypeOK' BY DEF PowerFail, LockTypeOK
<1>2. ShmTypeOK' BY ZeroTypes DEF PowerFail, TypeOK, ShmTypeOK
<1>3. FileTypeOK'
  <2>1. walHdr' \in WalHdr BY DEF PowerFail, TypeOK, FileTypeOK
  <2>2. wal \in [FrameNo -> Frame] /\ walOld \in [FrameNo -> SUBSET Frame]
        /\ db \in [Page -> Value] /\ dbOld \in [Page -> SUBSET Value]
    BY DEF TypeOK, FileTypeOK
  <2>5. wal' \in OnDisk(wal, walOld) /\ db' \in OnDisk(db, dbOld) BY DEF PowerFail
  <2>6. wal' \in [FrameNo -> Frame] BY <2>2, <2>5, OnDiskType
  <2>3. db' \in [Page -> Value] BY <2>2, <2>5, OnDiskType
  <2>4. walHdrOld' = {} /\ walOld' = [i \in FrameNo |-> {}] /\ dbOld' = [p \in Page |-> {}]
    BY DEF PowerFail
  <2> QED BY <2>1, <2>6, <2>3, <2>4 DEF FileTypeOK
<1>4. pc' \in [Conn -> PcSet] BY DEF PowerFail, PcSet
<1>5. OpenTypeOK' BY DEF PowerFail, OpenTypeOK
<1>6. ConnTypeOK' BY ZeroTypes DEF PowerFail, ConnTypeOK
<1>7. WriteTypeOK' BY ZeroTypes DEF PowerFail, WriteTypeOK
<1>8. CkptTypeOK' BY DEF PowerFail, CkptTypeOK
<1>9. GhostTypeOK'
  <2>1. latest' \in Txn
    <3> DEFINE Same(v, wh, w, d) == image[v] = View(wh, w, d)
    <3>1. PICK wh \in walHdrOld \cup {walHdr}, w \in OnDisk(wal, walOld), d \in OnDisk(db, dbOld) :
            latest' = IF \E v \in Txn : Same(v, wh, w, d)
                      THEN CHOOSE v \in Txn : Same(v, wh, w, d) ELSE latest
      BY DEF PowerFail
    <3> HIDE DEF Same
    <3> QED BY <3>1 DEF TypeOK, GhostTypeOK
  <2> QED BY <2>1 DEF PowerFail, TypeOK, GhostTypeOK
<1>10. BoundTypeOK' BY DEF PowerFail, TypeOK, BoundTypeOK
<1>11. LoopTypeOK' BY DEF PowerFail, LoopTypeOK, InMarkLoop
<1> QED BY <1>1, <1>2, <1>3, <1>4, <1>5, <1>6, <1>7, <1>8, <1>9, <1>10, <1>11 DEF TypeOK

(* The state in which the first connection finds an absent log is well typed. *)
LEMMA TypeInit == Init => TypeOK
<1> SUFFICES ASSUME Init PROVE TypeOK OBVIOUS
<1> USE ZeroTypes, BoundFacts DEF Init
<1>1. LockTypeOK BY DEF LockInit, LockTypeOK
<1>2. ShmTypeOK BY DEF ShmTypeOK, EmptyHdr, NoHdr, Hdr
<1>3. FileTypeOK
  <2>1. NoWalHdr \in WalHdr BY DEF NoWalHdr, WalHdr
  <2>2. NoFrame \in Frame BY DEF NoFrame, Frame
  <2>3. db \in [Page -> Value] BY DEF UpTo, Value
  <2> QED BY <2>1, <2>2, <2>3 DEF FileTypeOK
<1>4. pc \in [Conn -> PcSet] BY DEF PcSet
<1>5. OpenTypeOK BY DEF OpenTypeOK
<1>6. ConnTypeOK BY DEF ConnTypeOK
<1>7. WriteTypeOK BY DEF WriteTypeOK
<1>8. CkptTypeOK BY DEF CkptTypeOK
<1>9. GhostTypeOK BY DEF GhostTypeOK, UpTo, Image
<1>10. BoundTypeOK BY DEF BoundTypeOK
<1>11. LoopTypeOK BY DEF LoopTypeOK, InMarkLoop
<1> QED BY <1>1, <1>2, <1>3, <1>4, <1>5, <1>6, <1>7, <1>8, <1>9, <1>10, <1>11 DEF TypeOK

(* Every step of the log keeps every type. *)
LEMMA TypeStep ==
  ASSUME TypeOK, [Next]_vars
  PROVE  TypeOK'
<1>1. CASE UNCHANGED vars
  <2>1. pc' = pc /\ UNCHANGED openVars BY <1>1 DEF vars
  <2>2. LoopTypeOK' BY <2>1 DEF TypeOK, LoopTypeOK, openVars
  <2>3. LockTypeOK' /\ ShmTypeOK' /\ FileTypeOK' /\ OpenTypeOK' /\ ConnTypeOK'
        /\ WriteTypeOK' /\ CkptTypeOK' /\ GhostTypeOK' /\ BoundTypeOK'
    BY <1>1, KeepTypes DEF vars
  <2> QED BY <2>1, <2>2, <2>3 DEF TypeOK
<1>2. CASE PowerFail BY <1>2, TypePower
<1>3. ASSUME NEW c \in Conn, ConnStep(c) \/ UserStep(c) \/ Crash(c) PROVE TypeOK'
  BY <1>3, TypeOpen, TypeRecover, TypeWrite, TypeCkpt, TypeUser, TypeCrash DEF ConnStep
<1> QED BY <1>1, <1>2, <1>3 DEF Next

(* Type correctness of wal.c's state, and of the slot in every loop over the
   read marks, in every reachable state. *)
THEOREM TypeCorrect == Spec => []TypeOK
<1>1. TypeOK /\ [Next]_vars => TypeOK' BY TypeStep
<1> QED BY <1>1, TypeInit, PTL DEF Spec

-----------------------------------------------------------------------------
(* Part 2: the locks. *)

(* Places in the code, grouped by what a connection holds there. *)
Opening == {"scan", "grab", "setMark", "lockMark", "checkMark"}
RecPlaces == {"recScan", "recHdr1", "recHdr0", "recInfo"}
HdrPlaces == {"readHdr", "lockHdr", "rereadHdr", "recover", "recDone"} \cup RecPlaces
Read0Places == {"readBackfill", "lockRead0", "checkRead0", "hdrBusy", "hdrBusyRetry"}
RestartPlaces == {"restartHdr1", "restartHdr0", "restartBackfill", "restartMarks"}
FramePlaces == {"logHdr", "syncHdr", "frames", "syncFrames", "index", "framesDone"}
PublishPlaces == {"publish1", "publish0"}
TxnPlaces == {"write", "restart", "leaveRead0", "committed"}
                 \cup RestartPlaces \cup FramePlaces \cup PublishPlaces
CkptPlaces == {"ckWrite", "ckStart", "ckMark", "ckMarkLock", "ckMarkSet", "ckLock0", "ckSync",
               "ckCopy", "ckTruncate", "ckBackfill", "ckTail", "ckRestart", "ckEnd"}

(* The call a connection is in says where it can stand. *)
OpOK(c) ==
    /\ op[c] = "none" => pc[c] \in {"idle", "open", "failed"} \cup TxnPlaces
    /\ op[c] = "read" => pc[c] \in HdrPlaces \cup Read0Places \cup Opening
    /\ op[c] = "frames" => pc[c] \in Opening
    /\ op[c] = "ckpt" => pc[c] \in HdrPlaces \cup CkptPlaces
    /\ op[c] # "ckpt" => mode[c] = "passive"
    /\ (op[c] = "ckpt" /\ mode[c] \in {"full", "restart"}) =>
           pc[c] \notin {"rereadHdr", "recover", "recDone"} \cup RecPlaces

(* Where a connection holds WAL_WRITE_LOCK. *)
HasWrite(c) ==
    \/ pc[c] \in {"rereadHdr", "recover", "recDone", "failed"} \cup RecPlaces \cup TxnPlaces
    \/ op[c] = "frames"
    \/ op[c] = "ckpt" /\ mode[c] \in {"full", "restart"} /\ pc[c] # "ckWrite"

(* The locks held at each place. *)
HoldOK(c) ==
    /\ HasWrite(c) => WRITE \in exclMask[c]
    /\ op[c] = "ckpt" => CKPT \in exclMask[c]
    /\ pc[c] \in RecPlaces => {CKPT} \cup ReadLocks \subseteq exclMask[c]
    /\ pc[c] \in {"setMark", "ckMarkSet"} => READ(slot[c]) \in exclMask[c]
    /\ CkptCopying(c) => READ(0) \in exclMask[c]
    /\ pc[c] \in RestartPlaces => MarkLocks \subseteq exclMask[c]
    /\ pc[c] = "checkRead0" => READ(0) \in sharedMask[c]
    /\ pc[c] \in {"lockMark", "checkMark"} => mxI[c] \in Slot
    /\ pc[c] = "checkMark" => READ(mxI[c]) \in sharedMask[c]
    /\ readLock[c] # -1 => /\ READ(readLock[c]) \in sharedMask[c]
                           /\ pc[c] \in {"open", "failed"} \cup TxnPlaces
    /\ pc[c] \in {"open"} \cup TxnPlaces => readLock[c] # -1
    /\ pc[c] \in {"restart", "leaveRead0"} \cup RestartPlaces => readLock[c] = 0
    /\ pc[c] \in {"committed"} \cup FramePlaces \cup PublishPlaces => readLock[c] \in Slot
    /\ pc[c] = "failed" => readLock[c] # 0

(* Where a writer's header stands for the same database as the shared one,
   and where it is the same header. *)
InBase(c) ==
    \/ pc[c] \in {"write", "restart", "restartBackfill", "restartMarks", "leaveRead0"}
                 \cup FramePlaces
    \/ op[c] = "frames"
Bare(c) ==
    \/ pc[c] \in {"restart", "restartBackfill", "restartMarks", "leaveRead0", "committed"}
    \/ op[c] = "frames"
    \/ pc[c] = "write" /\ readLock[c] = 0

(* The header of a writer against the shared one. *)
BaseOK(c) ==
    /\ InBase(c) => /\ hdr[c].ver = hdr0.ver /\ hdr[c].nPage = hdr0.nPage
                    /\ hdr[c].mxFrame >= hdr0.mxFrame
    /\ Bare(c) => hdr[c] = hdr0
    /\ pc[c] \in {"restartHdr1", "restartHdr0"} =>
           hdr[c].mxFrame = 0 /\ hdr[c].ver = hdr0.ver /\ hdr[c].nPage = hdr0.nPage
    /\ pc[c] \in PublishPlaces => hdr[c].mxFrame > hdr0.mxFrame /\ hdr[c].ver = txn[c]
    /\ pc[c] \in {"syncHdr", "frames"} => iFrame[c] >= hdr[c].mxFrame
    /\ pc[c] \in {"syncFrames", "index", "framesDone"} => iFrame[c] > hdr[c].mxFrame

(* The read marks: the one a reader relies on is below its snapshot and below
   the end of the log. *)
MarkPlaces == {"scan", "grab", "setMark", "lockMark", "checkMark", "ckMarkLock", "ckMarkSet"}
MarkOK(c) ==
    /\ readLock[c] > 0 => /\ aReadMark[readLock[c]] <= hdr[c].mxFrame
                          /\ aReadMark[readLock[c]] <= hdr0.mxFrame
    /\ pc[c] \in {"scan", "grab", "lockMark", "checkMark"} => mxMark[c] <= hdr[c].mxFrame
    /\ pc[c] \notin MarkPlaces => mxMark[c] = 0

(* The page cache is empty, or of the snapshot of the private header, or known
   to be out of date. *)
Stale(c) == changed[c] \/ cacheVer[c] \in {NoVer, hdr[c].ver} \/ hdr[c] = NoHdr
CacheOK(c) ==
    /\ (InBase(c) \/ pc[c] \in {"open", "restartHdr1", "restartHdr0", "committed"}) =>
           cacheVer[c] = hdr[c].ver
    /\ pc[c] = "failed" => cacheVer[c] = hdr0.ver
    /\ op[c] \in {"read", "ckpt"} \/ pc[c] = "idle" => Stale(c)
    /\ pc[c] \in {"recover", "recDone"} \cup RecPlaces => changed[c]
    /\ op[c] \in {"none", "frames"} => ~changed[c]
    /\ pc[c] \in {"recHdr1", "recHdr0", "recInfo", "recDone"} => hdr[c].isInit
    /\ (op[c] = "read" /\ pc[c] \in {"readBackfill", "lockRead0", "checkRead0"} \cup Opening) =>
           hdr[c] # NoHdr

Known(c) == OpOK(c) /\ HoldOK(c) /\ BaseOK(c) /\ MarkOK(c) /\ CacheOK(c)

(* What a step of c leaves alone: all that is private to another connection.
   A lock it takes is one no other connection has in its way. *)
Untouched(d) ==
    /\ pc'[d] = pc[d] /\ op'[d] = op[d] /\ mode'[d] = mode[d] /\ slot'[d] = slot[d]
    /\ mxI'[d] = mxI[d] /\ mxMark'[d] = mxMark[d] /\ readLock'[d] = readLock[d]
    /\ hdr'[d] = hdr[d] /\ cacheVer'[d] = cacheVer[d] /\ changed'[d] = changed[d]
    /\ txn'[d] = txn[d] /\ iFrame'[d] = iFrame[d]
    /\ sharedMask'[d] = sharedMask[d] /\ exclMask'[d] = exclMask[d]
Granted(c, d) ==
    /\ (exclMask'[c] \ exclMask[c]) \cap (sharedMask[d] \cup exclMask[d]) = {}
    /\ (sharedMask'[c] \ sharedMask[c]) \cap exclMask[d] = {}
Alone(c) == \A d \in Conn \ {c} : Untouched(d) /\ Granted(c, d)

USE DEF lockVars, shmVars, fileVars, openVars, connVars, writeVars, ckptVars, ghostVars,
        boundVars, Opening, RecPlaces, HdrPlaces, Read0Places, RestartPlaces, FramePlaces,
        PublishPlaces, TxnPlaces, CkptPlaces, MarkPlaces

(* walIndexTryHdr() without a lock: the header loaded is initialised, and marked
   as changed if it is another one. *)
LEMMA ReadHdrKnown ==
  ASSUME TypeOK, NEW c \in Conn, Known(c), ReadHdr(c)
  PROVE  Known(c)' /\ Alone(c)
<1>0. OpOK(c) /\ HoldOK(c) /\ BaseOK(c) /\ MarkOK(c) /\ CacheOK(c) BY DEF Known
<1>1. hdr0 \in Hdr /\ hdr[c] \in Hdr /\ \A i \in Slot : aReadMark[i] \in Nat
  BY DEF TypeOK, ShmTypeOK, ConnTypeOK
<1>2. OpOK(c)'
  BY <1>0 DEF OpOK, TypeOK, OpenTypeOK, CkptTypeOK, ReadHdr, LoadHdr, AfterHdr, Goto
<1>3. HoldOK(c)'
  <2>1. CASE HdrGood
    BY <1>0, SlotFacts, <2>1 DEF OpOK, HoldOK, HasWrite, CkptCopying, TypeOK, LockTypeOK,
    OpenTypeOK, ConnTypeOK, CkptTypeOK, LoopTypeOK, InMarkLoop, Slot, ReadHdr, LoadHdr,
    AfterHdr, Goto
  <2>2. CASE ~(HdrGood)
    BY <1>0, SlotFacts, <2>2 DEF OpOK, HoldOK, HasWrite, CkptCopying, TypeOK, LockTypeOK,
    OpenTypeOK, ConnTypeOK, CkptTypeOK, LoopTypeOK, InMarkLoop, Slot, ReadHdr, LoadHdr,
    AfterHdr, Goto
  <2> QED BY <2>1, <2>2
<1>4. BaseOK(c)'
  <2>1. CASE HdrGood
    BY <1>0, <1>1, <2>1 DEF BaseOK, InBase, Bare, OpOK, HoldOK, TypeOK, OpenTypeOK,
    ConnTypeOK, WriteTypeOK, CkptTypeOK, Hdr, Slot, ReadHdr, LoadHdr, AfterHdr, Goto,
    NoHdr
  <2>2. CASE ~(HdrGood)
    BY <1>0, <1>1, <2>2 DEF BaseOK, InBase, Bare, OpOK, HoldOK, TypeOK, OpenTypeOK,
    ConnTypeOK, WriteTypeOK, CkptTypeOK, Hdr, Slot, ReadHdr, LoadHdr, AfterHdr, Goto,
    NoHdr
  <2> QED BY <2>1, <2>2
<1>5. MarkOK(c)'
  <2>1. CASE HdrGood
    BY <1>0, <1>1, SlotFacts, <2>1 DEF MarkOK, BaseOK, InBase, Bare, OpOK, HoldOK, TypeOK,
    ShmTypeOK, OpenTypeOK, ConnTypeOK, WriteTypeOK, CkptTypeOK, LoopTypeOK, InMarkLoop,
    Hdr, Slot, ReadHdr, LoadHdr, AfterHdr, Goto, NoHdr
  <2>2. CASE ~(HdrGood)
    <3>1. /\ UNCHANGED <<hdr, hdr0, aReadMark, readLock, mxMark>>
          /\ pc[c] \notin MarkPlaces /\ pc'[c] = "lockHdr"
      BY <2>2 DEF ReadHdr, Goto, TypeOK
    <3> QED BY <1>0, <3>1 DEF MarkOK, MarkPlaces
  <2> QED BY <2>1, <2>2
<1>6. CacheOK(c)'
  <2>1. HdrGood => hdr0 # NoHdr BY DEF HdrGood, NoHdr
  <2>2. CASE HdrGood
    <3>1. /\ op'[c] = op[c] /\ cacheVer'[c] = cacheVer[c] /\ hdr'[c] = hdr0
          /\ changed'[c] = (IF hdr0 = hdr[c] THEN changed[c] ELSE TRUE)
          /\ pc'[c] = IF op[c] = "read" THEN "readBackfill" ELSE "ckStart"
      BY <2>2 DEF TypeOK, OpenTypeOK, ConnTypeOK, ReadHdr, LoadHdr, AfterHdr, Goto
    <3>2. op[c] \in {"read", "ckpt"}
      BY <1>0 DEF OpOK, TypeOK, OpenTypeOK, ReadHdr
    <3>3. Stale(c)' BY <1>0, <2>1, <2>2, <3>1, <3>2 DEF CacheOK, Stale
    <3> QED BY <2>1, <2>2, <3>1, <3>2, <3>3 DEF CacheOK, InBase
  <2>3. CASE ~HdrGood
    BY <1>0, <1>1, <2>3
      DEF CacheOK, Stale, InBase, OpOK, TypeOK, OpenTypeOK, ConnTypeOK, ReadHdr, Goto
  <2> QED BY <2>2, <2>3
<1>7. Alone(c)
  <2>1. CASE HdrGood
    BY <2>1 DEF Alone, Untouched, Granted, TypeOK, LockTypeOK, OpenTypeOK, ConnTypeOK,
    WriteTypeOK, CkptTypeOK, ReadHdr, LoadHdr, AfterHdr, Goto
  <2>2. CASE ~(HdrGood)
    BY <2>2 DEF Alone, Untouched, Granted, TypeOK, LockTypeOK, OpenTypeOK, ConnTypeOK,
    WriteTypeOK, CkptTypeOK, ReadHdr, LoadHdr, AfterHdr, Goto
  <2> QED BY <2>1, <2>2
<1> QED BY <1>2, <1>3, <1>4, <1>5, <1>6, <1>7 DEF Known

(* A checkpointer other than a passive one has WRITE already and cannot take it
   twice. *)
LEMMA LockHdrKnown ==
  ASSUME TypeOK, NEW c \in Conn, Known(c), LockHdr(c)
  PROVE  Known(c)' /\ Alone(c)
<1>0. OpOK(c) /\ HoldOK(c) /\ BaseOK(c) /\ MarkOK(c) /\ CacheOK(c) BY DEF Known
<1>1. hdr0 \in Hdr /\ hdr[c] \in Hdr /\ \A i \in Slot : aReadMark[i] \in Nat
  BY DEF TypeOK, ShmTypeOK, ConnTypeOK
<1>2. OpOK(c)'
  BY <1>0 DEF OpOK, TypeOK, OpenTypeOK, CkptTypeOK, LockHdr, Goto, HdrBusy, CanExclude,
    LockExclusive, WRITE, HoldOK, HasWrite
<1>3. HoldOK(c)'
  BY <1>0, SlotFacts DEF OpOK, HoldOK, HasWrite, CkptCopying, TypeOK, LockTypeOK,
    OpenTypeOK, ConnTypeOK, CkptTypeOK, LoopTypeOK, InMarkLoop, Slot, LockHdr, Goto,
    HdrBusy, LockExclusive, CanExclude, READ, WRITE, CKPT, RECOVER, MarkLocks, ReadLocks
<1>4. BaseOK(c)'
  BY <1>0, <1>1 DEF BaseOK, InBase, Bare, OpOK, HoldOK, TypeOK, OpenTypeOK, ConnTypeOK,
    WriteTypeOK, CkptTypeOK, Hdr, Slot, LockHdr, Goto, HdrBusy, NoHdr
<1>5. MarkOK(c)'
  BY <1>0, <1>1, SlotFacts DEF MarkOK, BaseOK, InBase, Bare, OpOK, HoldOK, TypeOK,
    ShmTypeOK, OpenTypeOK, ConnTypeOK, WriteTypeOK, CkptTypeOK, LoopTypeOK, InMarkLoop,
    Hdr, Slot, LockHdr, Goto, HdrBusy, NoHdr
<1>6. CacheOK(c)'
  BY <1>0, <1>1 DEF CacheOK, Stale, BaseOK, InBase, Bare, OpOK, HoldOK, TypeOK,
    OpenTypeOK, ConnTypeOK, WriteTypeOK, CkptTypeOK, Hdr, LockHdr, Goto, HdrBusy, NoHdr
<1>7. Alone(c)
  BY DEF Alone, Untouched, Granted, TypeOK, LockTypeOK, OpenTypeOK, ConnTypeOK,
    WriteTypeOK, CkptTypeOK, LockHdr, Goto, HdrBusy, LockExclusive, CanExclude
<1> QED BY <1>2, <1>3, <1>4, <1>5, <1>6, <1>7 DEF Known

(* walIndexTryHdr() under WRITE: loaded and unlocked, or on to recovery with the
   cache marked stale. *)
LEMMA RereadHdrKnown ==
  ASSUME TypeOK, NEW c \in Conn, Known(c), RereadHdr(c)
  PROVE  Known(c)' /\ Alone(c)
<1>0. OpOK(c) /\ HoldOK(c) /\ BaseOK(c) /\ MarkOK(c) /\ CacheOK(c) BY DEF Known
<1>1. hdr0 \in Hdr /\ hdr[c] \in Hdr /\ \A i \in Slot : aReadMark[i] \in Nat
  BY DEF TypeOK, ShmTypeOK, ConnTypeOK
<1>2. OpOK(c)'
  BY <1>0 DEF OpOK, TypeOK, OpenTypeOK, CkptTypeOK, RereadHdr, LoadHdr, AfterHdr, Goto
<1>3. HoldOK(c)'
  <2>1. CASE HdrGood
    BY <1>0, SlotFacts, <2>1 DEF OpOK, HoldOK, HasWrite, CkptCopying, TypeOK, LockTypeOK,
    OpenTypeOK, ConnTypeOK, CkptTypeOK, LoopTypeOK, InMarkLoop, Slot, RereadHdr, LoadHdr,
    AfterHdr, Goto, Unlock, READ, WRITE, CKPT, RECOVER, MarkLocks, ReadLocks
  <2>2. CASE ~(HdrGood)
    BY <1>0, SlotFacts, <2>2 DEF OpOK, HoldOK, HasWrite, CkptCopying, TypeOK, LockTypeOK,
    OpenTypeOK, ConnTypeOK, CkptTypeOK, LoopTypeOK, InMarkLoop, Slot, RereadHdr, LoadHdr,
    AfterHdr, Goto, Unlock, READ, WRITE, CKPT, RECOVER, MarkLocks, ReadLocks
  <2> QED BY <2>1, <2>2
<1>4. BaseOK(c)'
  <2>1. CASE HdrGood
    BY <1>0, <1>1, <2>1 DEF BaseOK, InBase, Bare, OpOK, HoldOK, TypeOK, OpenTypeOK,
    ConnTypeOK, WriteTypeOK, CkptTypeOK, Hdr, Slot, RereadHdr, LoadHdr, AfterHdr, Goto,
    NoHdr
  <2>2. CASE ~(HdrGood)
    BY <1>0, <1>1, <2>2 DEF BaseOK, InBase, Bare, OpOK, HoldOK, TypeOK, OpenTypeOK,
    ConnTypeOK, WriteTypeOK, CkptTypeOK, Hdr, Slot, RereadHdr, LoadHdr, AfterHdr, Goto,
    NoHdr
  <2> QED BY <2>1, <2>2
<1>5. MarkOK(c)'
  <2>1. CASE HdrGood
    BY <1>0, <1>1, SlotFacts, <2>1 DEF MarkOK, BaseOK, InBase, Bare, OpOK, HoldOK, TypeOK,
    ShmTypeOK, OpenTypeOK, ConnTypeOK, WriteTypeOK, CkptTypeOK, LoopTypeOK, InMarkLoop,
    Hdr, Slot, RereadHdr, LoadHdr, AfterHdr, Goto, NoHdr
  <2>2. CASE ~(HdrGood)
    <3>1. /\ UNCHANGED <<hdr, hdr0, aReadMark, readLock, mxMark>>
          /\ pc[c] \notin MarkPlaces /\ pc'[c] = "recover"
      BY <2>2 DEF RereadHdr, Goto, TypeOK
    <3> QED BY <1>0, <3>1 DEF MarkOK, MarkPlaces
  <2> QED BY <2>1, <2>2
<1>6. CacheOK(c)'
  <2>1. HdrGood => hdr0 # NoHdr BY DEF HdrGood, NoHdr
  <2>2. CASE HdrGood
    <3>1. /\ op'[c] = op[c] /\ cacheVer'[c] = cacheVer[c] /\ hdr'[c] = hdr0
          /\ changed'[c] = (IF hdr0 = hdr[c] THEN changed[c] ELSE TRUE)
          /\ pc'[c] = IF op[c] = "read" THEN "readBackfill" ELSE "ckStart"
      BY <2>2 DEF TypeOK, OpenTypeOK, ConnTypeOK, RereadHdr, LoadHdr, AfterHdr, Goto
    <3>2. op[c] \in {"read", "ckpt"}
      BY <1>0 DEF OpOK, TypeOK, OpenTypeOK, RereadHdr
    <3>3. Stale(c)' BY <1>0, <2>1, <2>2, <3>1, <3>2 DEF CacheOK, Stale
    <3> QED BY <2>1, <2>2, <3>1, <3>2, <3>3 DEF CacheOK, InBase
  <2>3. CASE ~HdrGood
    BY <1>0, <1>1, <2>3
      DEF CacheOK, Stale, InBase, OpOK, TypeOK, OpenTypeOK, ConnTypeOK, RereadHdr, Goto
  <2> QED BY <2>2, <2>3
<1>7. Alone(c)
  <2>1. CASE HdrGood
    BY <2>1 DEF Alone, Untouched, Granted, TypeOK, LockTypeOK, OpenTypeOK, ConnTypeOK,
    WriteTypeOK, CkptTypeOK, RereadHdr, LoadHdr, AfterHdr, Goto, Unlock
  <2>2. CASE ~(HdrGood)
    BY <2>2 DEF Alone, Untouched, Granted, TypeOK, LockTypeOK, OpenTypeOK, ConnTypeOK,
    WriteTypeOK, CkptTypeOK, RereadHdr, LoadHdr, AfterHdr, Goto, Unlock
  <2> QED BY <2>1, <2>2
<1> QED BY <1>2, <1>3, <1>4, <1>5, <1>6, <1>7 DEF Known

(* The RECOVER lock is probed; a refusal ends the attempt and empties the cache. *)
LEMMA HdrBusyLockKnown ==
  ASSUME TypeOK, NEW c \in Conn, Known(c), HdrBusyLock(c)
  PROVE  Known(c)' /\ Alone(c)
<1>0. OpOK(c) /\ HoldOK(c) /\ BaseOK(c) /\ MarkOK(c) /\ CacheOK(c) BY DEF Known
<1>1. hdr0 \in Hdr /\ hdr[c] \in Hdr /\ \A i \in Slot : aReadMark[i] \in Nat
  BY DEF TypeOK, ShmTypeOK, ConnTypeOK
<1>2. OpOK(c)'
  BY <1>0 DEF OpOK, TypeOK, OpenTypeOK, CkptTypeOK, HdrBusyLock, Goto, OpenFails
<1>3. HoldOK(c)'
  BY <1>0, SlotFacts DEF OpOK, HoldOK, HasWrite, CkptCopying, TypeOK, LockTypeOK,
    OpenTypeOK, ConnTypeOK, CkptTypeOK, LoopTypeOK, InMarkLoop, Slot, HdrBusyLock, Goto,
    OpenFails, LockShared, CanShare, READ, WRITE, CKPT, RECOVER, MarkLocks, ReadLocks
<1>4. BaseOK(c)'
  BY <1>0, <1>1 DEF BaseOK, InBase, Bare, OpOK, HoldOK, TypeOK, OpenTypeOK, ConnTypeOK,
    WriteTypeOK, CkptTypeOK, Hdr, Slot, HdrBusyLock, Goto, OpenFails, NoVer, NoHdr
<1>5. MarkOK(c)'
  BY <1>0, <1>1, SlotFacts DEF MarkOK, BaseOK, InBase, Bare, OpOK, HoldOK, TypeOK,
    ShmTypeOK, OpenTypeOK, ConnTypeOK, WriteTypeOK, CkptTypeOK, LoopTypeOK, InMarkLoop,
    Hdr, Slot, HdrBusyLock, Goto, OpenFails, NoVer, NoHdr
<1>6. CacheOK(c)'
  BY <1>0, <1>1 DEF CacheOK, Stale, BaseOK, InBase, Bare, OpOK, HoldOK, TypeOK,
    OpenTypeOK, ConnTypeOK, WriteTypeOK, CkptTypeOK, Hdr, HdrBusyLock, Goto, OpenFails,
    NoVer, NoHdr
<1>7. Alone(c)
  BY DEF Alone, Untouched, Granted, TypeOK, LockTypeOK, OpenTypeOK, ConnTypeOK,
    WriteTypeOK, CkptTypeOK, HdrBusyLock, Goto, OpenFails, LockShared, CanShare
<1> QED BY <1>2, <1>3, <1>4, <1>5, <1>6, <1>7 DEF Known

(* The RECOVER lock is given back and the attempt starts again. *)
LEMMA HdrBusyRetryKnown ==
  ASSUME TypeOK, NEW c \in Conn, Known(c), HdrBusyRetry(c)
  PROVE  Known(c)' /\ Alone(c)
<1>0. OpOK(c) /\ HoldOK(c) /\ BaseOK(c) /\ MarkOK(c) /\ CacheOK(c) BY DEF Known
<1>1. hdr0 \in Hdr /\ hdr[c] \in Hdr /\ \A i \in Slot : aReadMark[i] \in Nat
  BY DEF TypeOK, ShmTypeOK, ConnTypeOK
<1>2. OpOK(c)'
  BY <1>0 DEF OpOK, TypeOK, OpenTypeOK, CkptTypeOK, HdrBusyRetry, Retry, OpenFails, Goto
<1>3. HoldOK(c)'
  BY <1>0, SlotFacts DEF OpOK, HoldOK, HasWrite, CkptCopying, TypeOK, LockTypeOK,
    OpenTypeOK, ConnTypeOK, CkptTypeOK, LoopTypeOK, InMarkLoop, Slot, HdrBusyRetry, Retry,
    OpenFails, Goto, Unlock, READ, WRITE, CKPT, RECOVER, MarkLocks, ReadLocks
<1>4. BaseOK(c)'
  BY <1>0, <1>1 DEF BaseOK, InBase, Bare, OpOK, HoldOK, TypeOK, OpenTypeOK, ConnTypeOK,
    WriteTypeOK, CkptTypeOK, Hdr, Slot, HdrBusyRetry, Retry, OpenFails, Goto, NoVer, NoHdr
<1>5. MarkOK(c)'
  BY <1>0, <1>1, SlotFacts DEF MarkOK, BaseOK, InBase, Bare, OpOK, HoldOK, TypeOK,
    ShmTypeOK, OpenTypeOK, ConnTypeOK, WriteTypeOK, CkptTypeOK, LoopTypeOK, InMarkLoop,
    Hdr, Slot, HdrBusyRetry, Retry, OpenFails, Goto, NoVer, NoHdr
<1>6. CacheOK(c)'
  BY <1>0, <1>1 DEF CacheOK, Stale, BaseOK, InBase, Bare, OpOK, HoldOK, TypeOK,
    OpenTypeOK, ConnTypeOK, WriteTypeOK, CkptTypeOK, Hdr, HdrBusyRetry, Retry, OpenFails,
    Goto, NoVer, NoHdr
<1>7. Alone(c)
  BY DEF Alone, Untouched, Granted, TypeOK, LockTypeOK, OpenTypeOK, ConnTypeOK,
    WriteTypeOK, CkptTypeOK, HdrBusyRetry, Retry, OpenFails, Goto, Unlock
<1> QED BY <1>2, <1>3, <1>4, <1>5, <1>6, <1>7 DEF Known

(* Whether READ(0) is tried or a mark looked for, nothing is held yet. *)
LEMMA ReadBackfillKnown ==
  ASSUME TypeOK, NEW c \in Conn, Known(c), ReadBackfill(c)
  PROVE  Known(c)' /\ Alone(c)
<1>0. OpOK(c) /\ HoldOK(c) /\ BaseOK(c) /\ MarkOK(c) /\ CacheOK(c) BY DEF Known
<1>1. hdr0 \in Hdr /\ hdr[c] \in Hdr /\ \A i \in Slot : aReadMark[i] \in Nat
  BY DEF TypeOK, ShmTypeOK, ConnTypeOK
<1>2. OpOK(c)'
  BY <1>0 DEF OpOK, TypeOK, OpenTypeOK, CkptTypeOK, ReadBackfill, Goto, StartScan
<1>3. HoldOK(c)'
  BY <1>0, SlotFacts DEF OpOK, HoldOK, HasWrite, CkptCopying, TypeOK, LockTypeOK,
    OpenTypeOK, ConnTypeOK, CkptTypeOK, LoopTypeOK, InMarkLoop, Slot, ReadBackfill, Goto,
    StartScan
<1>4. BaseOK(c)'
  BY <1>0, <1>1 DEF BaseOK, InBase, Bare, OpOK, HoldOK, TypeOK, OpenTypeOK, ConnTypeOK,
    WriteTypeOK, CkptTypeOK, Hdr, Slot, ReadBackfill, Goto, StartScan, NoHdr
<1>5. MarkOK(c)'
  BY <1>0, <1>1, SlotFacts DEF MarkOK, BaseOK, InBase, Bare, OpOK, HoldOK, TypeOK,
    ShmTypeOK, OpenTypeOK, ConnTypeOK, WriteTypeOK, CkptTypeOK, LoopTypeOK, InMarkLoop,
    Hdr, Slot, ReadBackfill, Goto, StartScan, NoHdr
<1>6. CacheOK(c)'
  BY <1>0, <1>1 DEF CacheOK, Stale, BaseOK, InBase, Bare, OpOK, HoldOK, TypeOK,
    OpenTypeOK, ConnTypeOK, WriteTypeOK, CkptTypeOK, Hdr, ReadBackfill, Goto, StartScan,
    NoHdr
<1>7. Alone(c)
  BY DEF Alone, Untouched, Granted, TypeOK, LockTypeOK, OpenTypeOK, ConnTypeOK,
    WriteTypeOK, CkptTypeOK, ReadBackfill, Goto, StartScan
<1> QED BY <1>2, <1>3, <1>4, <1>5, <1>6, <1>7 DEF Known

(* READ(0) is held from here to the check of the header. *)
LEMMA LockRead0Known ==
  ASSUME TypeOK, NEW c \in Conn, Known(c), LockRead0(c)
  PROVE  Known(c)' /\ Alone(c)
<1>0. OpOK(c) /\ HoldOK(c) /\ BaseOK(c) /\ MarkOK(c) /\ CacheOK(c) BY DEF Known
<1>1. hdr0 \in Hdr /\ hdr[c] \in Hdr /\ \A i \in Slot : aReadMark[i] \in Nat
  BY DEF TypeOK, ShmTypeOK, ConnTypeOK
<1>2. OpOK(c)'
  BY <1>0 DEF OpOK, TypeOK, OpenTypeOK, CkptTypeOK, LockRead0, Goto, StartScan
<1>3. HoldOK(c)'
  BY <1>0, SlotFacts DEF OpOK, HoldOK, HasWrite, CkptCopying, TypeOK, LockTypeOK,
    OpenTypeOK, ConnTypeOK, CkptTypeOK, LoopTypeOK, InMarkLoop, Slot, LockRead0, Goto,
    StartScan, LockShared, CanShare, READ, WRITE, CKPT, RECOVER, MarkLocks, ReadLocks
<1>4. BaseOK(c)'
  BY <1>0, <1>1 DEF BaseOK, InBase, Bare, OpOK, HoldOK, TypeOK, OpenTypeOK, ConnTypeOK,
    WriteTypeOK, CkptTypeOK, Hdr, Slot, LockRead0, Goto, StartScan, NoHdr
<1>5. MarkOK(c)'
  BY <1>0, <1>1, SlotFacts DEF MarkOK, BaseOK, InBase, Bare, OpOK, HoldOK, TypeOK,
    ShmTypeOK, OpenTypeOK, ConnTypeOK, WriteTypeOK, CkptTypeOK, LoopTypeOK, InMarkLoop,
    Hdr, Slot, LockRead0, Goto, StartScan, NoHdr
<1>6. CacheOK(c)'
  BY <1>0, <1>1 DEF CacheOK, Stale, BaseOK, InBase, Bare, OpOK, HoldOK, TypeOK,
    OpenTypeOK, ConnTypeOK, WriteTypeOK, CkptTypeOK, Hdr, LockRead0, Goto, StartScan,
    NoHdr
<1>7. Alone(c)
  BY DEF Alone, Untouched, Granted, TypeOK, LockTypeOK, OpenTypeOK, ConnTypeOK,
    WriteTypeOK, CkptTypeOK, LockRead0, Goto, StartScan, LockShared, CanShare
<1> QED BY <1>2, <1>3, <1>4, <1>5, <1>6, <1>7 DEF Known

(* The snapshot without a mark is open only under READ(0) and with the shared
   header. *)
LEMMA CheckRead0Known ==
  ASSUME TypeOK, NEW c \in Conn, Known(c), CheckRead0(c)
  PROVE  Known(c)' /\ Alone(c)
<1>0. OpOK(c) /\ HoldOK(c) /\ BaseOK(c) /\ MarkOK(c) /\ CacheOK(c) BY DEF Known
<1>1. hdr0 \in Hdr /\ hdr[c] \in Hdr /\ \A i \in Slot : aReadMark[i] \in Nat
  BY DEF TypeOK, ShmTypeOK, ConnTypeOK
<1>2. OpOK(c)'
  BY <1>0 DEF OpOK, TypeOK, OpenTypeOK, CkptTypeOK, CheckRead0, Retry, OpenFails, Goto,
    Opened
<1>3. HoldOK(c)'
  BY <1>0, SlotFacts DEF OpOK, HoldOK, HasWrite, CkptCopying, TypeOK, LockTypeOK,
    OpenTypeOK, ConnTypeOK, CkptTypeOK, LoopTypeOK, InMarkLoop, Slot, CheckRead0, Retry,
    OpenFails, Goto, Opened, Unlock, HdrMoved, READ, WRITE, CKPT, RECOVER, MarkLocks,
    ReadLocks
<1>4. BaseOK(c)'
  BY <1>0, <1>1 DEF BaseOK, InBase, Bare, OpOK, HoldOK, TypeOK, OpenTypeOK, ConnTypeOK,
    WriteTypeOK, CkptTypeOK, Hdr, Slot, CheckRead0, Retry, OpenFails, Goto, Opened,
    HdrMoved, NoVer, NoHdr
<1>5. MarkOK(c)'
  <2>1. /\ mxMark[c] \in Nat /\ hdr[c].mxFrame \in Nat /\ hdr0.mxFrame \in Nat
        /\ readLock[c] \in Slot \cup {0, -1} /\ slot[c] \in Slot \cup {0}
    BY <1>1 DEF TypeOK, OpenTypeOK, ConnTypeOK, Hdr
  <2>2. /\ DOMAIN pc = Conn /\ DOMAIN mxMark = Conn /\ DOMAIN readLock = Conn
        /\ DOMAIN hdr = Conn /\ DOMAIN aReadMark = Slot
    BY DEF TypeOK, OpenTypeOK, ConnTypeOK, ShmTypeOK
  <2>3. readLock'[c] > 0 => /\ aReadMark'[readLock'[c]] <= hdr'[c].mxFrame
                            /\ aReadMark'[readLock'[c]] <= hdr0'.mxFrame
    BY <1>0, <1>1, <2>1, <2>2 DEF TypeOK, OpenTypeOK, ConnTypeOK, ShmTypeOK, MarkOK, HoldOK, OpOK, CheckRead0, HdrMoved, Opened, Retry, OpenFails, Goto, NoVer
  <2>4. pc'[c] \in {"scan", "grab", "lockMark", "checkMark"} => mxMark'[c] <= hdr'[c].mxFrame
    BY <1>0, <1>1, <2>1, <2>2 DEF TypeOK, OpenTypeOK, ConnTypeOK, ShmTypeOK, MarkOK, HoldOK, OpOK, CheckRead0, HdrMoved, Opened, Retry, OpenFails, Goto, NoVer
  <2>5. pc'[c] \notin MarkPlaces => mxMark'[c] = 0
    BY <1>0, <1>1, <2>1, <2>2 DEF TypeOK, OpenTypeOK, ConnTypeOK, ShmTypeOK, MarkOK, HoldOK, OpOK, CheckRead0, HdrMoved, Opened, Retry, OpenFails, Goto, NoVer
  <2> QED BY <2>3, <2>4, <2>5 DEF MarkOK
<1>6. CacheOK(c)'
  BY <1>0, <1>1 DEF CacheOK, Stale, BaseOK, InBase, Bare, OpOK, HoldOK, TypeOK,
    OpenTypeOK, ConnTypeOK, WriteTypeOK, CkptTypeOK, Hdr, CheckRead0, Retry, OpenFails,
    Goto, Opened, HdrMoved, NoVer, NoHdr
<1>7. Alone(c)
  BY DEF Alone, Untouched, Granted, TypeOK, LockTypeOK, OpenTypeOK, ConnTypeOK,
    WriteTypeOK, CkptTypeOK, CheckRead0, Retry, OpenFails, Goto, Opened, Unlock
<1> QED BY <1>2, <1>3, <1>4, <1>5, <1>6, <1>7 DEF Known

(* The best mark found so far is not above the private header. *)
LEMMA ScanMarkKnown ==
  ASSUME TypeOK, NEW c \in Conn, Known(c), ScanMark(c)
  PROVE  Known(c)' /\ Alone(c)
<1>0. OpOK(c) /\ HoldOK(c) /\ BaseOK(c) /\ MarkOK(c) /\ CacheOK(c) BY DEF Known
<1>1. hdr0 \in Hdr /\ hdr[c] \in Hdr /\ \A i \in Slot : aReadMark[i] \in Nat
  BY DEF TypeOK, ShmTypeOK, ConnTypeOK
<1>2. OpOK(c)'
  BY <1>0 DEF OpOK, TypeOK, OpenTypeOK, CkptTypeOK, ScanMark, LastSlot, Goto
<1>3. HoldOK(c)'
  BY <1>0, SlotFacts DEF OpOK, HoldOK, HasWrite, CkptCopying, TypeOK, LockTypeOK,
    OpenTypeOK, ConnTypeOK, CkptTypeOK, LoopTypeOK, InMarkLoop, Slot, ScanMark, LastSlot,
    Goto, Better
<1>4. BaseOK(c)'
  BY <1>0, <1>1 DEF BaseOK, InBase, Bare, OpOK, HoldOK, TypeOK, OpenTypeOK, ConnTypeOK,
    WriteTypeOK, CkptTypeOK, Hdr, Slot, ScanMark, LastSlot, Goto, Better, NoHdr
<1>5. MarkOK(c)'
  BY <1>0, <1>1, SlotFacts DEF MarkOK, BaseOK, InBase, Bare, OpOK, HoldOK, TypeOK,
    ShmTypeOK, OpenTypeOK, ConnTypeOK, WriteTypeOK, CkptTypeOK, LoopTypeOK, InMarkLoop,
    Hdr, Slot, ScanMark, LastSlot, Goto, Better, NoHdr
<1>6. CacheOK(c)'
  BY <1>0, <1>1 DEF CacheOK, Stale, BaseOK, InBase, Bare, OpOK, HoldOK, TypeOK,
    OpenTypeOK, ConnTypeOK, WriteTypeOK, CkptTypeOK, Hdr, ScanMark, LastSlot, Goto,
    Better, NoHdr
<1>7. Alone(c)
  BY DEF Alone, Untouched, Granted, TypeOK, LockTypeOK, OpenTypeOK, ConnTypeOK,
    WriteTypeOK, CkptTypeOK, ScanMark, LastSlot, Goto
<1> QED BY <1>2, <1>3, <1>4, <1>5, <1>6, <1>7 DEF Known

(* The slot to be marked is locked exclusively, or the best one so far is kept. *)
LEMMA GrabMarkKnown ==
  ASSUME TypeOK, NEW c \in Conn, Known(c), GrabMark(c)
  PROVE  Known(c)' /\ Alone(c)
<1>0. OpOK(c) /\ HoldOK(c) /\ BaseOK(c) /\ MarkOK(c) /\ CacheOK(c) BY DEF Known
<1>1. hdr0 \in Hdr /\ hdr[c] \in Hdr /\ \A i \in Slot : aReadMark[i] \in Nat
  BY DEF TypeOK, ShmTypeOK, ConnTypeOK
<1>2. OpOK(c)'
  BY <1>0 DEF OpOK, TypeOK, OpenTypeOK, CkptTypeOK, GrabMark, Goto, LastSlot, Retry,
    OpenFails
<1>3. HoldOK(c)'
  BY <1>0, SlotFacts DEF OpOK, HoldOK, HasWrite, CkptCopying, TypeOK, LockTypeOK,
    OpenTypeOK, ConnTypeOK, CkptTypeOK, LoopTypeOK, InMarkLoop, Slot, GrabMark, Goto,
    LastSlot, Retry, OpenFails, LockExclusive, CanExclude, READ, WRITE, CKPT, RECOVER,
    MarkLocks, ReadLocks
<1>4. BaseOK(c)'
  BY <1>0, <1>1 DEF BaseOK, InBase, Bare, OpOK, HoldOK, TypeOK, OpenTypeOK, ConnTypeOK,
    WriteTypeOK, CkptTypeOK, Hdr, Slot, GrabMark, Goto, LastSlot, Retry, OpenFails, NoVer,
    NoHdr
<1>5. MarkOK(c)'
  <2>1. /\ mxMark[c] \in Nat /\ hdr[c].mxFrame \in Nat /\ hdr0.mxFrame \in Nat
        /\ readLock[c] \in Slot \cup {0, -1} /\ slot[c] \in Slot \cup {0}
    BY <1>1 DEF TypeOK, OpenTypeOK, ConnTypeOK, Hdr
  <2>2. /\ DOMAIN pc = Conn /\ DOMAIN mxMark = Conn /\ DOMAIN readLock = Conn
        /\ DOMAIN hdr = Conn /\ DOMAIN aReadMark = Slot
    BY DEF TypeOK, OpenTypeOK, ConnTypeOK, ShmTypeOK
  <2>3. readLock'[c] > 0 => /\ aReadMark'[readLock'[c]] <= hdr'[c].mxFrame
                            /\ aReadMark'[readLock'[c]] <= hdr0'.mxFrame
    BY <1>0, <1>1, <2>1, <2>2 DEF TypeOK, OpenTypeOK, ConnTypeOK, ShmTypeOK, MarkOK, HoldOK, OpOK, GrabMark, Retry, OpenFails, Goto, NoVer
  <2>4. pc'[c] \in {"scan", "grab", "lockMark", "checkMark"} => mxMark'[c] <= hdr'[c].mxFrame
    BY <1>0, <1>1, <2>1, <2>2 DEF TypeOK, OpenTypeOK, ConnTypeOK, ShmTypeOK, MarkOK, HoldOK, OpOK, GrabMark, Retry, OpenFails, Goto, NoVer
  <2>5. pc'[c] \notin MarkPlaces => mxMark'[c] = 0
    BY <1>0, <1>1, <2>1, <2>2 DEF TypeOK, OpenTypeOK, ConnTypeOK, ShmTypeOK, MarkOK, HoldOK, OpOK, GrabMark, Retry, OpenFails, Goto, NoVer
  <2> QED BY <2>3, <2>4, <2>5 DEF MarkOK
<1>6. CacheOK(c)'
  BY <1>0, <1>1 DEF CacheOK, Stale, BaseOK, InBase, Bare, OpOK, HoldOK, TypeOK,
    OpenTypeOK, ConnTypeOK, WriteTypeOK, CkptTypeOK, Hdr, GrabMark, Goto, LastSlot, Retry,
    OpenFails, NoVer, NoHdr
<1>7. Alone(c)
  BY DEF Alone, Untouched, Granted, TypeOK, LockTypeOK, OpenTypeOK, ConnTypeOK,
    WriteTypeOK, CkptTypeOK, GrabMark, Goto, LastSlot, Retry, OpenFails, LockExclusive,
    CanExclude
<1> QED BY <1>2, <1>3, <1>4, <1>5, <1>6, <1>7 DEF Known

(* The new mark is the private mxFrame, written under the exclusive lock of the
   slot. *)
LEMMA SetMarkKnown ==
  ASSUME TypeOK, NEW c \in Conn, Known(c), SetMark(c)
  PROVE  Known(c)' /\ Alone(c)
<1>0. OpOK(c) /\ HoldOK(c) /\ BaseOK(c) /\ MarkOK(c) /\ CacheOK(c) BY DEF Known
<1>1. hdr0 \in Hdr /\ hdr[c] \in Hdr /\ \A i \in Slot : aReadMark[i] \in Nat
  BY DEF TypeOK, ShmTypeOK, ConnTypeOK
<1>2. OpOK(c)'
  BY <1>0 DEF OpOK, TypeOK, OpenTypeOK, CkptTypeOK, SetMark, Goto
<1>3. HoldOK(c)'
  BY <1>0, SlotFacts DEF OpOK, HoldOK, HasWrite, CkptCopying, TypeOK, LockTypeOK,
    OpenTypeOK, ConnTypeOK, CkptTypeOK, LoopTypeOK, InMarkLoop, Slot, SetMark, Goto,
    Unlock, READ, WRITE, CKPT, RECOVER, MarkLocks, ReadLocks
<1>4. BaseOK(c)'
  BY <1>0, <1>1 DEF BaseOK, InBase, Bare, OpOK, HoldOK, TypeOK, OpenTypeOK, ConnTypeOK,
    WriteTypeOK, CkptTypeOK, Hdr, Slot, SetMark, Goto, NoHdr
<1>5. MarkOK(c)'
  <2>1. /\ mxMark[c] \in Nat /\ hdr[c].mxFrame \in Nat /\ hdr0.mxFrame \in Nat
        /\ readLock[c] \in Slot \cup {0, -1} /\ slot[c] \in Slot \cup {0}
    BY <1>1 DEF TypeOK, OpenTypeOK, ConnTypeOK, Hdr
  <2>2. /\ DOMAIN pc = Conn /\ DOMAIN mxMark = Conn /\ DOMAIN readLock = Conn
        /\ DOMAIN hdr = Conn /\ DOMAIN aReadMark = Slot
    BY DEF TypeOK, OpenTypeOK, ConnTypeOK, ShmTypeOK
  <2>3. readLock'[c] > 0 => /\ aReadMark'[readLock'[c]] <= hdr'[c].mxFrame
                            /\ aReadMark'[readLock'[c]] <= hdr0'.mxFrame
    BY <1>0, <1>1, <2>1, <2>2 DEF TypeOK, OpenTypeOK, ConnTypeOK, ShmTypeOK, MarkOK, HoldOK, OpOK, SetMark, Goto
  <2>4. pc'[c] \in {"scan", "grab", "lockMark", "checkMark"} => mxMark'[c] <= hdr'[c].mxFrame
    BY <1>0, <1>1, <2>1, <2>2 DEF TypeOK, OpenTypeOK, ConnTypeOK, ShmTypeOK, MarkOK, HoldOK, OpOK, SetMark, Goto
  <2>5. pc'[c] \notin MarkPlaces => mxMark'[c] = 0
    BY <1>0, <1>1, <2>1, <2>2 DEF TypeOK, OpenTypeOK, ConnTypeOK, ShmTypeOK, MarkOK, HoldOK, OpOK, SetMark, Goto
  <2> QED BY <2>3, <2>4, <2>5 DEF MarkOK
<1>6. CacheOK(c)'
  BY <1>0, <1>1 DEF CacheOK, Stale, BaseOK, InBase, Bare, OpOK, HoldOK, TypeOK,
    OpenTypeOK, ConnTypeOK, WriteTypeOK, CkptTypeOK, Hdr, SetMark, Goto, NoHdr
<1>7. Alone(c)
  BY DEF Alone, Untouched, Granted, TypeOK, LockTypeOK, OpenTypeOK, ConnTypeOK,
    WriteTypeOK, CkptTypeOK, SetMark, Goto, Unlock
<1> QED BY <1>2, <1>3, <1>4, <1>5, <1>6, <1>7 DEF Known

(* The chosen slot is locked shared, or the attempt starts again. *)
LEMMA LockMarkKnown ==
  ASSUME TypeOK, NEW c \in Conn, Known(c), LockMark(c)
  PROVE  Known(c)' /\ Alone(c)
<1>0. OpOK(c) /\ HoldOK(c) /\ BaseOK(c) /\ MarkOK(c) /\ CacheOK(c) BY DEF Known
<1>1. hdr0 \in Hdr /\ hdr[c] \in Hdr /\ \A i \in Slot : aReadMark[i] \in Nat
  BY DEF TypeOK, ShmTypeOK, ConnTypeOK
<1>2. OpOK(c)'
  BY <1>0 DEF OpOK, TypeOK, OpenTypeOK, CkptTypeOK, LockMark, Goto, Retry, OpenFails
<1>3. HoldOK(c)'
  BY <1>0, SlotFacts DEF OpOK, HoldOK, HasWrite, CkptCopying, TypeOK, LockTypeOK,
    OpenTypeOK, ConnTypeOK, CkptTypeOK, LoopTypeOK, InMarkLoop, Slot, LockMark, Goto,
    Retry, OpenFails, LockShared, CanShare, READ, WRITE, CKPT, RECOVER, MarkLocks,
    ReadLocks
<1>4. BaseOK(c)'
  BY <1>0, <1>1 DEF BaseOK, InBase, Bare, OpOK, HoldOK, TypeOK, OpenTypeOK, ConnTypeOK,
    WriteTypeOK, CkptTypeOK, Hdr, Slot, LockMark, Goto, Retry, OpenFails, NoVer, NoHdr
<1>5. MarkOK(c)'
  <2>1. /\ mxMark[c] \in Nat /\ hdr[c].mxFrame \in Nat /\ hdr0.mxFrame \in Nat
        /\ readLock[c] \in Slot \cup {0, -1} /\ slot[c] \in Slot \cup {0}
    BY <1>1 DEF TypeOK, OpenTypeOK, ConnTypeOK, Hdr
  <2>2. /\ DOMAIN pc = Conn /\ DOMAIN mxMark = Conn /\ DOMAIN readLock = Conn
        /\ DOMAIN hdr = Conn /\ DOMAIN aReadMark = Slot
    BY DEF TypeOK, OpenTypeOK, ConnTypeOK, ShmTypeOK
  <2>3. readLock'[c] > 0 => /\ aReadMark'[readLock'[c]] <= hdr'[c].mxFrame
                            /\ aReadMark'[readLock'[c]] <= hdr0'.mxFrame
    BY <1>0, <1>1, <2>1, <2>2 DEF TypeOK, OpenTypeOK, ConnTypeOK, ShmTypeOK, MarkOK, HoldOK, OpOK, LockMark, Retry, OpenFails, Goto, NoVer
  <2>4. pc'[c] \in {"scan", "grab", "lockMark", "checkMark"} => mxMark'[c] <= hdr'[c].mxFrame
    BY <1>0, <1>1, <2>1, <2>2 DEF TypeOK, OpenTypeOK, ConnTypeOK, ShmTypeOK, MarkOK, HoldOK, OpOK, LockMark, Retry, OpenFails, Goto, NoVer
  <2>5. pc'[c] \notin MarkPlaces => mxMark'[c] = 0
    BY <1>0, <1>1, <2>1, <2>2 DEF TypeOK, OpenTypeOK, ConnTypeOK, ShmTypeOK, MarkOK, HoldOK, OpOK, LockMark, Retry, OpenFails, Goto, NoVer
  <2> QED BY <2>3, <2>4, <2>5 DEF MarkOK
<1>6. CacheOK(c)'
  BY <1>0, <1>1 DEF CacheOK, Stale, BaseOK, InBase, Bare, OpOK, HoldOK, TypeOK,
    OpenTypeOK, ConnTypeOK, WriteTypeOK, CkptTypeOK, Hdr, LockMark, Goto, Retry,
    OpenFails, NoVer, NoHdr
<1>7. Alone(c)
  BY DEF Alone, Untouched, Granted, TypeOK, LockTypeOK, OpenTypeOK, ConnTypeOK,
    WriteTypeOK, CkptTypeOK, LockMark, Goto, Retry, OpenFails, LockShared, CanShare
<1> QED BY <1>2, <1>3, <1>4, <1>5, <1>6, <1>7 DEF Known

(* The mark read under the shared lock is the one chosen, and the header has not
   moved. *)
LEMMA CheckMarkKnown ==
  ASSUME TypeOK, NEW c \in Conn, Known(c), CheckMark(c)
  PROVE  Known(c)' /\ Alone(c)
<1>0. OpOK(c) /\ HoldOK(c) /\ BaseOK(c) /\ MarkOK(c) /\ CacheOK(c) BY DEF Known
<1>1. hdr0 \in Hdr /\ hdr[c] \in Hdr /\ \A i \in Slot : aReadMark[i] \in Nat
  BY DEF TypeOK, ShmTypeOK, ConnTypeOK
<1>2. OpOK(c)'
  BY <1>0 DEF OpOK, TypeOK, OpenTypeOK, CkptTypeOK, CheckMark, Retry, OpenFails, Goto,
    Opened
<1>3. HoldOK(c)'
  BY <1>0, SlotFacts DEF OpOK, HoldOK, HasWrite, CkptCopying, TypeOK, LockTypeOK,
    OpenTypeOK, ConnTypeOK, CkptTypeOK, LoopTypeOK, InMarkLoop, Slot, CheckMark, Retry,
    OpenFails, Goto, Opened, Unlock, MarkMoved, HdrMoved, READ, WRITE, CKPT, RECOVER,
    MarkLocks, ReadLocks
<1>4. BaseOK(c)'
  BY <1>0, <1>1 DEF BaseOK, InBase, Bare, OpOK, HoldOK, TypeOK, OpenTypeOK, ConnTypeOK,
    WriteTypeOK, CkptTypeOK, Hdr, Slot, CheckMark, Retry, OpenFails, Goto, Opened,
    MarkMoved, HdrMoved, NoVer, NoHdr
<1>5. MarkOK(c)'
  <2>1. /\ mxMark[c] \in Nat /\ hdr[c].mxFrame \in Nat /\ hdr0.mxFrame \in Nat
        /\ readLock[c] \in Slot \cup {0, -1} /\ slot[c] \in Slot \cup {0}
    BY <1>1 DEF TypeOK, OpenTypeOK, ConnTypeOK, Hdr
  <2>2. /\ DOMAIN pc = Conn /\ DOMAIN mxMark = Conn /\ DOMAIN readLock = Conn
        /\ DOMAIN hdr = Conn /\ DOMAIN aReadMark = Slot
    BY DEF TypeOK, OpenTypeOK, ConnTypeOK, ShmTypeOK
  <2>3. readLock'[c] > 0 => /\ aReadMark'[readLock'[c]] <= hdr'[c].mxFrame
                            /\ aReadMark'[readLock'[c]] <= hdr0'.mxFrame
    BY <1>0, <1>1, <2>1, <2>2 DEF TypeOK, OpenTypeOK, ConnTypeOK, ShmTypeOK, MarkOK, HoldOK, OpOK, CheckMark, MarkMoved, HdrMoved, Opened, Retry, OpenFails, Goto, NoVer
  <2>4. pc'[c] \in {"scan", "grab", "lockMark", "checkMark"} => mxMark'[c] <= hdr'[c].mxFrame
    BY <1>0, <1>1, <2>1, <2>2 DEF TypeOK, OpenTypeOK, ConnTypeOK, ShmTypeOK, MarkOK, HoldOK, OpOK, CheckMark, MarkMoved, HdrMoved, Opened, Retry, OpenFails, Goto, NoVer
  <2>5. pc'[c] \notin MarkPlaces => mxMark'[c] = 0
    BY <1>0, <1>1, <2>1, <2>2 DEF TypeOK, OpenTypeOK, ConnTypeOK, ShmTypeOK, MarkOK, HoldOK, OpOK, CheckMark, MarkMoved, HdrMoved, Opened, Retry, OpenFails, Goto, NoVer
  <2> QED BY <2>3, <2>4, <2>5 DEF MarkOK
<1>6. CacheOK(c)'
  BY <1>0, <1>1 DEF CacheOK, Stale, BaseOK, InBase, Bare, OpOK, HoldOK, TypeOK,
    OpenTypeOK, ConnTypeOK, WriteTypeOK, CkptTypeOK, Hdr, CheckMark, Retry, OpenFails,
    Goto, Opened, MarkMoved, HdrMoved, NoVer, NoHdr
<1>7. Alone(c)
  BY DEF Alone, Untouched, Granted, TypeOK, LockTypeOK, OpenTypeOK, ConnTypeOK,
    WriteTypeOK, CkptTypeOK, CheckMark, Retry, OpenFails, Goto, Opened, Unlock
<1> QED BY <1>2, <1>3, <1>4, <1>5, <1>6, <1>7 DEF Known

(* Recovery takes RECOVER and every reader lock, or gives WRITE back. *)
LEMMA RecoverLockKnown ==
  ASSUME TypeOK, NEW c \in Conn, Known(c), RecoverLock(c)
  PROVE  Known(c)' /\ Alone(c)
<1>0. OpOK(c) /\ HoldOK(c) /\ BaseOK(c) /\ MarkOK(c) /\ CacheOK(c) BY DEF Known
<1>1. hdr0 \in Hdr /\ hdr[c] \in Hdr /\ \A i \in Slot : aReadMark[i] \in Nat
  BY DEF TypeOK, ShmTypeOK, ConnTypeOK
<1>2. OpOK(c)'
  BY <1>0 DEF OpOK, TypeOK, OpenTypeOK, CkptTypeOK, RecoverLock, Goto, HdrBusy
<1>3. HoldOK(c)'
  BY <1>0, SlotFacts DEF OpOK, HoldOK, HasWrite, CkptCopying, TypeOK, LockTypeOK,
    OpenTypeOK, ConnTypeOK, CkptTypeOK, LoopTypeOK, InMarkLoop, Slot, RecoverLock, Goto,
    HdrBusy, LockExclusive, CanExclude, RecoverLocks, Unlock, READ, WRITE, CKPT, RECOVER,
    MarkLocks, ReadLocks
<1>4. BaseOK(c)'
  BY <1>0, <1>1 DEF BaseOK, InBase, Bare, OpOK, HoldOK, TypeOK, OpenTypeOK, ConnTypeOK,
    WriteTypeOK, CkptTypeOK, Hdr, Slot, RecoverLock, Goto, HdrBusy, NoHdr
<1>5. MarkOK(c)'
  BY <1>0, <1>1, SlotFacts DEF MarkOK, BaseOK, InBase, Bare, OpOK, HoldOK, TypeOK,
    ShmTypeOK, OpenTypeOK, ConnTypeOK, WriteTypeOK, CkptTypeOK, LoopTypeOK, InMarkLoop,
    Hdr, Slot, RecoverLock, Goto, HdrBusy, NoHdr
<1>6. CacheOK(c)'
  BY <1>0, <1>1 DEF CacheOK, Stale, BaseOK, InBase, Bare, OpOK, HoldOK, TypeOK,
    OpenTypeOK, ConnTypeOK, WriteTypeOK, CkptTypeOK, Hdr, RecoverLock, Goto, HdrBusy,
    NoHdr
<1>7. Alone(c)
  BY DEF Alone, Untouched, Granted, TypeOK, LockTypeOK, OpenTypeOK, ConnTypeOK,
    WriteTypeOK, CkptTypeOK, RecoverLock, Goto, HdrBusy, LockExclusive, CanExclude,
    RecoverLocks, Unlock
<1> QED BY <1>2, <1>3, <1>4, <1>5, <1>6, <1>7 DEF Known

(* The private header becomes the recovered one; the cache is known to be stale. *)
LEMMA RecoverScanKnown ==
  ASSUME TypeOK, NEW c \in Conn, Known(c), RecoverScan(c)
  PROVE  Known(c)' /\ Alone(c)
<1>0. OpOK(c) /\ HoldOK(c) /\ BaseOK(c) /\ MarkOK(c) /\ CacheOK(c) BY DEF Known
<1>1. hdr0 \in Hdr /\ hdr[c] \in Hdr /\ \A i \in Slot : aReadMark[i] \in Nat
  BY DEF TypeOK, ShmTypeOK, ConnTypeOK
<1>2. OpOK(c)'
  BY <1>0 DEF OpOK, TypeOK, OpenTypeOK, CkptTypeOK, RecoverScan, Goto
<1>3. HoldOK(c)'
  BY <1>0, SlotFacts DEF OpOK, HoldOK, HasWrite, CkptCopying, TypeOK, LockTypeOK,
    OpenTypeOK, ConnTypeOK, CkptTypeOK, LoopTypeOK, InMarkLoop, Slot, RecoverScan, Goto
<1>4. BaseOK(c)'
  BY <1>0, <1>1 DEF BaseOK, InBase, Bare, OpOK, HoldOK, TypeOK, OpenTypeOK, ConnTypeOK,
    WriteTypeOK, CkptTypeOK, Hdr, Slot, RecoverScan, Goto, NoHdr
<1>5. MarkOK(c)'
  BY <1>0, <1>1, SlotFacts DEF MarkOK, BaseOK, InBase, Bare, OpOK, HoldOK, TypeOK,
    ShmTypeOK, OpenTypeOK, ConnTypeOK, WriteTypeOK, CkptTypeOK, LoopTypeOK, InMarkLoop,
    Hdr, Slot, RecoverScan, Goto, NoHdr
<1>6. CacheOK(c)'
  BY <1>0, <1>1 DEF CacheOK, Stale, BaseOK, InBase, Bare, OpOK, HoldOK, TypeOK,
    OpenTypeOK, ConnTypeOK, WriteTypeOK, CkptTypeOK, Hdr, RecoverScan, Goto, NoHdr
<1>7. Alone(c)
  BY DEF Alone, Untouched, Granted, TypeOK, LockTypeOK, OpenTypeOK, ConnTypeOK,
    WriteTypeOK, CkptTypeOK, RecoverScan, Goto
<1> QED BY <1>2, <1>3, <1>4, <1>5, <1>6, <1>7 DEF Known

(* The second copy of the header is written under all the locks. *)
LEMMA RecoverHdr1Known ==
  ASSUME TypeOK, NEW c \in Conn, Known(c), RecoverHdr1(c)
  PROVE  Known(c)' /\ Alone(c)
<1>0. OpOK(c) /\ HoldOK(c) /\ BaseOK(c) /\ MarkOK(c) /\ CacheOK(c) BY DEF Known
<1>1. hdr0 \in Hdr /\ hdr[c] \in Hdr /\ \A i \in Slot : aReadMark[i] \in Nat
  BY DEF TypeOK, ShmTypeOK, ConnTypeOK
<1>2. OpOK(c)'
  BY <1>0 DEF OpOK, TypeOK, OpenTypeOK, CkptTypeOK, RecoverHdr1, Goto
<1>3. HoldOK(c)'
  BY <1>0, SlotFacts DEF OpOK, HoldOK, HasWrite, CkptCopying, TypeOK, LockTypeOK,
    OpenTypeOK, ConnTypeOK, CkptTypeOK, LoopTypeOK, InMarkLoop, Slot, RecoverHdr1, Goto
<1>4. BaseOK(c)'
  BY <1>0, <1>1 DEF BaseOK, InBase, Bare, OpOK, HoldOK, TypeOK, OpenTypeOK, ConnTypeOK,
    WriteTypeOK, CkptTypeOK, Hdr, Slot, RecoverHdr1, Goto, NoHdr
<1>5. MarkOK(c)'
  BY <1>0, <1>1, SlotFacts DEF MarkOK, BaseOK, InBase, Bare, OpOK, HoldOK, TypeOK,
    ShmTypeOK, OpenTypeOK, ConnTypeOK, WriteTypeOK, CkptTypeOK, LoopTypeOK, InMarkLoop,
    Hdr, Slot, RecoverHdr1, Goto, NoHdr
<1>6. CacheOK(c)'
  BY <1>0, <1>1 DEF CacheOK, Stale, BaseOK, InBase, Bare, OpOK, HoldOK, TypeOK,
    OpenTypeOK, ConnTypeOK, WriteTypeOK, CkptTypeOK, Hdr, RecoverHdr1, Goto, NoHdr
<1>7. Alone(c)
  BY DEF Alone, Untouched, Granted, TypeOK, LockTypeOK, OpenTypeOK, ConnTypeOK,
    WriteTypeOK, CkptTypeOK, RecoverHdr1, Goto
<1> QED BY <1>2, <1>3, <1>4, <1>5, <1>6, <1>7 DEF Known

(* The first copy is written under all the locks: no reader has a mark. *)
LEMMA RecoverHdr0Known ==
  ASSUME TypeOK, NEW c \in Conn, Known(c), RecoverHdr0(c)
  PROVE  Known(c)' /\ Alone(c)
<1>0. OpOK(c) /\ HoldOK(c) /\ BaseOK(c) /\ MarkOK(c) /\ CacheOK(c) BY DEF Known
<1>1. hdr0 \in Hdr /\ hdr[c] \in Hdr /\ \A i \in Slot : aReadMark[i] \in Nat
  BY DEF TypeOK, ShmTypeOK, ConnTypeOK
<1>2. OpOK(c)'
  BY <1>0 DEF OpOK, TypeOK, OpenTypeOK, CkptTypeOK, RecoverHdr0, Goto
<1>3. HoldOK(c)'
  BY <1>0, SlotFacts DEF OpOK, HoldOK, HasWrite, CkptCopying, TypeOK, LockTypeOK,
    OpenTypeOK, ConnTypeOK, CkptTypeOK, LoopTypeOK, InMarkLoop, Slot, RecoverHdr0, Goto
<1>4. BaseOK(c)'
  BY <1>0, <1>1 DEF BaseOK, InBase, Bare, OpOK, HoldOK, TypeOK, OpenTypeOK, ConnTypeOK,
    WriteTypeOK, CkptTypeOK, Hdr, Slot, RecoverHdr0, Goto, NoHdr
<1>5. MarkOK(c)'
  BY <1>0, <1>1, SlotFacts DEF MarkOK, BaseOK, InBase, Bare, OpOK, HoldOK, TypeOK,
    ShmTypeOK, OpenTypeOK, ConnTypeOK, WriteTypeOK, CkptTypeOK, LoopTypeOK, InMarkLoop,
    Hdr, Slot, RecoverHdr0, Goto, NoHdr
<1>6. CacheOK(c)'
  BY <1>0, <1>1 DEF CacheOK, Stale, BaseOK, InBase, Bare, OpOK, HoldOK, TypeOK,
    OpenTypeOK, ConnTypeOK, WriteTypeOK, CkptTypeOK, Hdr, RecoverHdr0, Goto, NoHdr
<1>7. Alone(c)
  BY DEF Alone, Untouched, Granted, TypeOK, LockTypeOK, OpenTypeOK, ConnTypeOK,
    WriteTypeOK, CkptTypeOK, RecoverHdr0, Goto
<1> QED BY <1>2, <1>3, <1>4, <1>5, <1>6, <1>7 DEF Known

(* The marks are set afresh under the reader locks, which are then given back. *)
LEMMA RecoverInfoKnown ==
  ASSUME TypeOK, NEW c \in Conn, Known(c), RecoverInfo(c)
  PROVE  Known(c)' /\ Alone(c)
<1>0. OpOK(c) /\ HoldOK(c) /\ BaseOK(c) /\ MarkOK(c) /\ CacheOK(c) BY DEF Known
<1>1. hdr0 \in Hdr /\ hdr[c] \in Hdr /\ \A i \in Slot : aReadMark[i] \in Nat
  BY DEF TypeOK, ShmTypeOK, ConnTypeOK
<1>2. OpOK(c)'
  BY <1>0 DEF OpOK, TypeOK, OpenTypeOK, CkptTypeOK, RecoverInfo, Goto
<1>3. HoldOK(c)'
  BY <1>0, SlotFacts DEF OpOK, HoldOK, HasWrite, CkptCopying, TypeOK, LockTypeOK,
    OpenTypeOK, ConnTypeOK, CkptTypeOK, LoopTypeOK, InMarkLoop, Slot, RecoverInfo, Goto,
    Unlock, RecoverLocks, READ, WRITE, CKPT, RECOVER, MarkLocks, ReadLocks
<1>4. BaseOK(c)'
  BY <1>0, <1>1 DEF BaseOK, InBase, Bare, OpOK, HoldOK, TypeOK, OpenTypeOK, ConnTypeOK,
    WriteTypeOK, CkptTypeOK, Hdr, Slot, RecoverInfo, Goto, NoHdr
<1>5. MarkOK(c)'
  BY <1>0, <1>1, SlotFacts DEF MarkOK, BaseOK, InBase, Bare, OpOK, HoldOK, TypeOK,
    ShmTypeOK, OpenTypeOK, ConnTypeOK, WriteTypeOK, CkptTypeOK, LoopTypeOK, InMarkLoop,
    Hdr, Slot, RecoverInfo, Goto, NoHdr
<1>6. CacheOK(c)'
  BY <1>0, <1>1 DEF CacheOK, Stale, BaseOK, InBase, Bare, OpOK, HoldOK, TypeOK,
    OpenTypeOK, ConnTypeOK, WriteTypeOK, CkptTypeOK, Hdr, RecoverInfo, Goto, NoHdr
<1>7. Alone(c)
  BY DEF Alone, Untouched, Granted, TypeOK, LockTypeOK, OpenTypeOK, ConnTypeOK,
    WriteTypeOK, CkptTypeOK, RecoverInfo, Goto, Unlock, RecoverLocks
<1> QED BY <1>2, <1>3, <1>4, <1>5, <1>6, <1>7 DEF Known

(* WRITE goes back; the header in hand is initialised. *)
LEMMA RecoverDoneKnown ==
  ASSUME TypeOK, NEW c \in Conn, Known(c), RecoverDone(c)
  PROVE  Known(c)' /\ Alone(c)
<1>0. OpOK(c) /\ HoldOK(c) /\ BaseOK(c) /\ MarkOK(c) /\ CacheOK(c) BY DEF Known
<1>1. hdr0 \in Hdr /\ hdr[c] \in Hdr /\ \A i \in Slot : aReadMark[i] \in Nat
  BY DEF TypeOK, ShmTypeOK, ConnTypeOK
<1>2. OpOK(c)'
  BY <1>0 DEF OpOK, TypeOK, OpenTypeOK, CkptTypeOK, RecoverDone, AfterHdr, Goto
<1>3. HoldOK(c)'
  BY <1>0, SlotFacts DEF OpOK, HoldOK, HasWrite, CkptCopying, TypeOK, LockTypeOK,
    OpenTypeOK, ConnTypeOK, CkptTypeOK, LoopTypeOK, InMarkLoop, Slot, RecoverDone,
    AfterHdr, Goto, Unlock, READ, WRITE, CKPT, RECOVER, MarkLocks, ReadLocks
<1>4. BaseOK(c)'
  BY <1>0, <1>1 DEF BaseOK, InBase, Bare, OpOK, HoldOK, TypeOK, OpenTypeOK, ConnTypeOK,
    WriteTypeOK, CkptTypeOK, Hdr, Slot, RecoverDone, AfterHdr, Goto, NoHdr
<1>5. MarkOK(c)'
  BY <1>0, <1>1, SlotFacts DEF MarkOK, BaseOK, InBase, Bare, OpOK, HoldOK, TypeOK,
    ShmTypeOK, OpenTypeOK, ConnTypeOK, WriteTypeOK, CkptTypeOK, LoopTypeOK, InMarkLoop,
    Hdr, Slot, RecoverDone, AfterHdr, Goto, NoHdr
<1>6. CacheOK(c)'
  BY <1>0, <1>1 DEF CacheOK, Stale, BaseOK, InBase, Bare, OpOK, HoldOK, TypeOK,
    OpenTypeOK, ConnTypeOK, WriteTypeOK, CkptTypeOK, Hdr, RecoverDone, AfterHdr, Goto,
    NoHdr
<1>7. Alone(c)
  BY DEF Alone, Untouched, Granted, TypeOK, LockTypeOK, OpenTypeOK, ConnTypeOK,
    WriteTypeOK, CkptTypeOK, RecoverDone, AfterHdr, Goto, Unlock
<1> QED BY <1>2, <1>3, <1>4, <1>5, <1>6, <1>7 DEF Known

(* A failed recovery zeroes the private header and gives every lock back. *)
LEMMA RecoverErrorKnown ==
  ASSUME TypeOK, NEW c \in Conn, Known(c), RecoverError(c)
  PROVE  Known(c)' /\ Alone(c)
<1>0. OpOK(c) /\ HoldOK(c) /\ BaseOK(c) /\ MarkOK(c) /\ CacheOK(c) BY DEF Known
<1>1. hdr0 \in Hdr /\ hdr[c] \in Hdr /\ \A i \in Slot : aReadMark[i] \in Nat
  BY DEF TypeOK, ShmTypeOK, ConnTypeOK
<1>2. OpOK(c)'
  BY <1>0 DEF OpOK, TypeOK, OpenTypeOK, CkptTypeOK, RecoverError, OpenFails, Goto
<1>3. HoldOK(c)'
  BY <1>0, SlotFacts DEF OpOK, HoldOK, HasWrite, CkptCopying, TypeOK, LockTypeOK,
    OpenTypeOK, ConnTypeOK, CkptTypeOK, LoopTypeOK, InMarkLoop, Slot, RecoverError,
    OpenFails, Goto, Unlock, RecoverLocks, READ, WRITE, CKPT, RECOVER, MarkLocks,
    ReadLocks
<1>4. BaseOK(c)'
  BY <1>0, <1>1 DEF BaseOK, InBase, Bare, OpOK, HoldOK, TypeOK, OpenTypeOK, ConnTypeOK,
    WriteTypeOK, CkptTypeOK, Hdr, Slot, RecoverError, OpenFails, Goto, NoHdr, NoVer
<1>5. MarkOK(c)'
  BY <1>0, <1>1, SlotFacts DEF MarkOK, BaseOK, InBase, Bare, OpOK, HoldOK, TypeOK,
    ShmTypeOK, OpenTypeOK, ConnTypeOK, WriteTypeOK, CkptTypeOK, LoopTypeOK, InMarkLoop,
    Hdr, Slot, RecoverError, OpenFails, Goto, NoHdr, NoVer
<1>6. CacheOK(c)'
  BY <1>0, <1>1 DEF CacheOK, Stale, BaseOK, InBase, Bare, OpOK, HoldOK, TypeOK,
    OpenTypeOK, ConnTypeOK, WriteTypeOK, CkptTypeOK, Hdr, RecoverError, OpenFails, Goto,
    NoHdr, NoVer
<1>7. Alone(c)
  BY DEF Alone, Untouched, Granted, TypeOK, LockTypeOK, OpenTypeOK, ConnTypeOK,
    WriteTypeOK, CkptTypeOK, RecoverError, OpenFails, Goto, Unlock, RecoverLocks
<1> QED BY <1>2, <1>3, <1>4, <1>5, <1>6, <1>7 DEF Known

(* The restart locks every slot with a mark; the new header keeps the database. *)
LEMMA RestartLockKnown ==
  ASSUME TypeOK, NEW c \in Conn, Known(c), RestartLock(c)
  PROVE  Known(c)' /\ Alone(c)
<1>0. OpOK(c) /\ HoldOK(c) /\ BaseOK(c) /\ MarkOK(c) /\ CacheOK(c) BY DEF Known
<1>1. hdr0 \in Hdr /\ hdr[c] \in Hdr /\ \A i \in Slot : aReadMark[i] \in Nat
  BY DEF TypeOK, ShmTypeOK, ConnTypeOK
<1>2. OpOK(c)'
  BY <1>0 DEF OpOK, TypeOK, OpenTypeOK, CkptTypeOK, RestartLock, Goto
<1>3. HoldOK(c)'
  BY <1>0, SlotFacts DEF OpOK, HoldOK, HasWrite, CkptCopying, TypeOK, LockTypeOK,
    OpenTypeOK, ConnTypeOK, CkptTypeOK, LoopTypeOK, InMarkLoop, Slot, RestartLock, Goto,
    LockExclusive, CanExclude, READ, WRITE, CKPT, RECOVER, MarkLocks, ReadLocks
<1>4. BaseOK(c)'
  BY <1>0, <1>1 DEF BaseOK, InBase, Bare, OpOK, HoldOK, TypeOK, OpenTypeOK, ConnTypeOK,
    WriteTypeOK, CkptTypeOK, Hdr, Slot, RestartLock, Goto, NoHdr
<1>5. MarkOK(c)'
  <2>1. readLock'[c] = 0 BY <1>0 DEF HoldOK, RestartLock
  <2>2. pc'[c] \in {"restartHdr1", "leaveRead0"} BY DEF TypeOK, RestartLock, Goto
  <2>3. mxMark'[c] = 0 BY <1>0 DEF MarkOK, RestartLock, openVars
  <2> QED BY <2>1, <2>2, <2>3 DEF MarkOK
<1>6. CacheOK(c)'
  BY <1>0, <1>1 DEF CacheOK, Stale, BaseOK, InBase, Bare, OpOK, HoldOK, TypeOK,
    OpenTypeOK, ConnTypeOK, WriteTypeOK, CkptTypeOK, Hdr, RestartLock, Goto, NoHdr
<1>7. Alone(c)
  BY DEF Alone, Untouched, Granted, TypeOK, LockTypeOK, OpenTypeOK, ConnTypeOK,
    WriteTypeOK, CkptTypeOK, RestartLock, Goto, LockExclusive, CanExclude
<1> QED BY <1>2, <1>3, <1>4, <1>5, <1>6, <1>7 DEF Known

(* The second copy of the restarted header. *)
LEMMA RestartHdr1Known ==
  ASSUME TypeOK, NEW c \in Conn, Known(c), RestartHdr1(c)
  PROVE  Known(c)' /\ Alone(c)
<1>0. OpOK(c) /\ HoldOK(c) /\ BaseOK(c) /\ MarkOK(c) /\ CacheOK(c) BY DEF Known
<1>1. hdr0 \in Hdr /\ hdr[c] \in Hdr /\ \A i \in Slot : aReadMark[i] \in Nat
  BY DEF TypeOK, ShmTypeOK, ConnTypeOK
<1>2. OpOK(c)'
  BY <1>0 DEF OpOK, TypeOK, OpenTypeOK, CkptTypeOK, RestartHdr1, Goto
<1>3. HoldOK(c)'
  BY <1>0, SlotFacts DEF OpOK, HoldOK, HasWrite, CkptCopying, TypeOK, LockTypeOK,
    OpenTypeOK, ConnTypeOK, CkptTypeOK, LoopTypeOK, InMarkLoop, Slot, RestartHdr1, Goto
<1>4. BaseOK(c)'
  BY <1>0, <1>1 DEF BaseOK, InBase, Bare, OpOK, HoldOK, TypeOK, OpenTypeOK, ConnTypeOK,
    WriteTypeOK, CkptTypeOK, Hdr, Slot, RestartHdr1, Goto, NoHdr
<1>5. MarkOK(c)'
  BY <1>0, <1>1, SlotFacts DEF MarkOK, BaseOK, InBase, Bare, OpOK, HoldOK, TypeOK,
    ShmTypeOK, OpenTypeOK, ConnTypeOK, WriteTypeOK, CkptTypeOK, LoopTypeOK, InMarkLoop,
    Hdr, Slot, RestartHdr1, Goto, NoHdr
<1>6. CacheOK(c)'
  BY <1>0, <1>1 DEF CacheOK, Stale, BaseOK, InBase, Bare, OpOK, HoldOK, TypeOK,
    OpenTypeOK, ConnTypeOK, WriteTypeOK, CkptTypeOK, Hdr, RestartHdr1, Goto, NoHdr
<1>7. Alone(c)
  BY DEF Alone, Untouched, Granted, TypeOK, LockTypeOK, OpenTypeOK, ConnTypeOK,
    WriteTypeOK, CkptTypeOK, RestartHdr1, Goto
<1> QED BY <1>2, <1>3, <1>4, <1>5, <1>6, <1>7 DEF Known

(* The first copy: from here the private header is the shared one. *)
LEMMA RestartHdr0Known ==
  ASSUME TypeOK, NEW c \in Conn, Known(c), RestartHdr0(c)
  PROVE  Known(c)' /\ Alone(c)
<1>0. OpOK(c) /\ HoldOK(c) /\ BaseOK(c) /\ MarkOK(c) /\ CacheOK(c) BY DEF Known
<1>1. hdr0 \in Hdr /\ hdr[c] \in Hdr /\ \A i \in Slot : aReadMark[i] \in Nat
  BY DEF TypeOK, ShmTypeOK, ConnTypeOK
<1>2. OpOK(c)'
  BY <1>0 DEF OpOK, TypeOK, OpenTypeOK, CkptTypeOK, RestartHdr0, Goto
<1>3. HoldOK(c)'
  BY <1>0, SlotFacts DEF OpOK, HoldOK, HasWrite, CkptCopying, TypeOK, LockTypeOK,
    OpenTypeOK, ConnTypeOK, CkptTypeOK, LoopTypeOK, InMarkLoop, Slot, RestartHdr0, Goto
<1>4. BaseOK(c)'
  BY <1>0, <1>1 DEF BaseOK, InBase, Bare, OpOK, HoldOK, TypeOK, OpenTypeOK, ConnTypeOK,
    WriteTypeOK, CkptTypeOK, Hdr, Slot, RestartHdr0, Goto, NoHdr
<1>5. MarkOK(c)'
  BY <1>0, <1>1, SlotFacts DEF MarkOK, BaseOK, InBase, Bare, OpOK, HoldOK, TypeOK,
    ShmTypeOK, OpenTypeOK, ConnTypeOK, WriteTypeOK, CkptTypeOK, LoopTypeOK, InMarkLoop,
    Hdr, Slot, RestartHdr0, Goto, NoHdr
<1>6. CacheOK(c)'
  BY <1>0, <1>1 DEF CacheOK, Stale, BaseOK, InBase, Bare, OpOK, HoldOK, TypeOK,
    OpenTypeOK, ConnTypeOK, WriteTypeOK, CkptTypeOK, Hdr, RestartHdr0, Goto, NoHdr
<1>7. Alone(c)
  BY DEF Alone, Untouched, Granted, TypeOK, LockTypeOK, OpenTypeOK, ConnTypeOK,
    WriteTypeOK, CkptTypeOK, RestartHdr0, Goto
<1> QED BY <1>2, <1>3, <1>4, <1>5, <1>6, <1>7 DEF Known

(* nBackfill is reset under WRITE and the slot locks. *)
LEMMA RestartBackfillKnown ==
  ASSUME TypeOK, NEW c \in Conn, Known(c), RestartBackfill(c)
  PROVE  Known(c)' /\ Alone(c)
<1>0. OpOK(c) /\ HoldOK(c) /\ BaseOK(c) /\ MarkOK(c) /\ CacheOK(c) BY DEF Known
<1>1. hdr0 \in Hdr /\ hdr[c] \in Hdr /\ \A i \in Slot : aReadMark[i] \in Nat
  BY DEF TypeOK, ShmTypeOK, ConnTypeOK
<1>2. OpOK(c)'
  BY <1>0 DEF OpOK, TypeOK, OpenTypeOK, CkptTypeOK, RestartBackfill, Goto
<1>3. HoldOK(c)'
  BY <1>0, SlotFacts DEF OpOK, HoldOK, HasWrite, CkptCopying, TypeOK, LockTypeOK,
    OpenTypeOK, ConnTypeOK, CkptTypeOK, LoopTypeOK, InMarkLoop, Slot, RestartBackfill,
    Goto
<1>4. BaseOK(c)'
  BY <1>0, <1>1 DEF BaseOK, InBase, Bare, OpOK, HoldOK, TypeOK, OpenTypeOK, ConnTypeOK,
    WriteTypeOK, CkptTypeOK, Hdr, Slot, RestartBackfill, Goto, NoHdr
<1>5. MarkOK(c)'
  BY <1>0, <1>1, SlotFacts DEF MarkOK, BaseOK, InBase, Bare, OpOK, HoldOK, TypeOK,
    ShmTypeOK, OpenTypeOK, ConnTypeOK, WriteTypeOK, CkptTypeOK, LoopTypeOK, InMarkLoop,
    Hdr, Slot, RestartBackfill, Goto, NoHdr
<1>6. CacheOK(c)'
  BY <1>0, <1>1 DEF CacheOK, Stale, BaseOK, InBase, Bare, OpOK, HoldOK, TypeOK,
    OpenTypeOK, ConnTypeOK, WriteTypeOK, CkptTypeOK, Hdr, RestartBackfill, Goto, NoHdr
<1>7. Alone(c)
  BY DEF Alone, Untouched, Granted, TypeOK, LockTypeOK, OpenTypeOK, ConnTypeOK,
    WriteTypeOK, CkptTypeOK, RestartBackfill, Goto
<1> QED BY <1>2, <1>3, <1>4, <1>5, <1>6, <1>7 DEF Known

(* The marks are reset under the slot locks, which are then given back. *)
LEMMA RestartMarksKnown ==
  ASSUME TypeOK, NEW c \in Conn, Known(c), RestartMarks(c)
  PROVE  Known(c)' /\ Alone(c)
<1>0. OpOK(c) /\ HoldOK(c) /\ BaseOK(c) /\ MarkOK(c) /\ CacheOK(c) BY DEF Known
<1>1. hdr0 \in Hdr /\ hdr[c] \in Hdr /\ \A i \in Slot : aReadMark[i] \in Nat
  BY DEF TypeOK, ShmTypeOK, ConnTypeOK
<1>2. OpOK(c)'
  BY <1>0 DEF OpOK, TypeOK, OpenTypeOK, CkptTypeOK, RestartMarks, Goto
<1>3. HoldOK(c)'
  BY <1>0, SlotFacts DEF OpOK, HoldOK, HasWrite, CkptCopying, TypeOK, LockTypeOK,
    OpenTypeOK, ConnTypeOK, CkptTypeOK, LoopTypeOK, InMarkLoop, Slot, RestartMarks, Goto,
    Unlock, READ, WRITE, CKPT, RECOVER, MarkLocks, ReadLocks
<1>4. BaseOK(c)'
  BY <1>0, <1>1 DEF BaseOK, InBase, Bare, OpOK, HoldOK, TypeOK, OpenTypeOK, ConnTypeOK,
    WriteTypeOK, CkptTypeOK, Hdr, Slot, RestartMarks, Goto, NoHdr
<1>5. MarkOK(c)'
  BY <1>0, <1>1, SlotFacts DEF MarkOK, BaseOK, InBase, Bare, OpOK, HoldOK, TypeOK,
    ShmTypeOK, OpenTypeOK, ConnTypeOK, WriteTypeOK, CkptTypeOK, LoopTypeOK, InMarkLoop,
    Hdr, Slot, RestartMarks, Goto, NoHdr
<1>6. CacheOK(c)'
  BY <1>0, <1>1 DEF CacheOK, Stale, BaseOK, InBase, Bare, OpOK, HoldOK, TypeOK,
    OpenTypeOK, ConnTypeOK, WriteTypeOK, CkptTypeOK, Hdr, RestartMarks, Goto, NoHdr
<1>7. Alone(c)
  BY DEF Alone, Untouched, Granted, TypeOK, LockTypeOK, OpenTypeOK, ConnTypeOK,
    WriteTypeOK, CkptTypeOK, RestartMarks, Goto, Unlock
<1> QED BY <1>2, <1>3, <1>4, <1>5, <1>6, <1>7 DEF Known

(* The writer gives READ(0) up, keeps WRITE and looks for a mark. *)
LEMMA LeaveRead0Known ==
  ASSUME TypeOK, NEW c \in Conn, Known(c), LeaveRead0(c)
  PROVE  Known(c)' /\ Alone(c)
<1>0. OpOK(c) /\ HoldOK(c) /\ BaseOK(c) /\ MarkOK(c) /\ CacheOK(c) BY DEF Known
<1>1. hdr0 \in Hdr /\ hdr[c] \in Hdr /\ \A i \in Slot : aReadMark[i] \in Nat
  BY DEF TypeOK, ShmTypeOK, ConnTypeOK
<1>2. OpOK(c)'
  BY <1>0 DEF OpOK, TypeOK, OpenTypeOK, CkptTypeOK, LeaveRead0, StartScan, Goto
<1>3. HoldOK(c)'
  BY <1>0, SlotFacts DEF OpOK, HoldOK, HasWrite, CkptCopying, TypeOK, LockTypeOK,
    OpenTypeOK, ConnTypeOK, CkptTypeOK, LoopTypeOK, InMarkLoop, Slot, LeaveRead0,
    StartScan, Goto, Unlock, READ, WRITE, CKPT, RECOVER, MarkLocks, ReadLocks
<1>4. BaseOK(c)'
  BY <1>0, <1>1 DEF BaseOK, InBase, Bare, OpOK, HoldOK, TypeOK, OpenTypeOK, ConnTypeOK,
    WriteTypeOK, CkptTypeOK, Hdr, Slot, LeaveRead0, StartScan, Goto, NoHdr
<1>5. MarkOK(c)'
  BY <1>0, <1>1, SlotFacts DEF MarkOK, BaseOK, InBase, Bare, OpOK, HoldOK, TypeOK,
    ShmTypeOK, OpenTypeOK, ConnTypeOK, WriteTypeOK, CkptTypeOK, LoopTypeOK, InMarkLoop,
    Hdr, Slot, LeaveRead0, StartScan, Goto, NoHdr
<1>6. CacheOK(c)'
  BY <1>0, <1>1 DEF CacheOK, Stale, BaseOK, InBase, Bare, OpOK, HoldOK, TypeOK,
    OpenTypeOK, ConnTypeOK, WriteTypeOK, CkptTypeOK, Hdr, LeaveRead0, StartScan, Goto,
    NoHdr
<1>7. Alone(c)
  BY DEF Alone, Untouched, Granted, TypeOK, LockTypeOK, OpenTypeOK, ConnTypeOK,
    WriteTypeOK, CkptTypeOK, LeaveRead0, StartScan, Goto, Unlock
<1> QED BY <1>2, <1>3, <1>4, <1>5, <1>6, <1>7 DEF Known

(* A new log header: the private header keeps its database and its length. *)
LEMMA LogHdrKnown ==
  ASSUME TypeOK, NEW c \in Conn, Known(c), LogHdr(c)
  PROVE  Known(c)' /\ Alone(c)
<1>0. OpOK(c) /\ HoldOK(c) /\ BaseOK(c) /\ MarkOK(c) /\ CacheOK(c) BY DEF Known
<1>1. hdr0 \in Hdr /\ hdr[c] \in Hdr /\ \A i \in Slot : aReadMark[i] \in Nat
  BY DEF TypeOK, ShmTypeOK, ConnTypeOK
<1>2. OpOK(c)'
  BY <1>0 DEF OpOK, TypeOK, OpenTypeOK, CkptTypeOK, LogHdr, Goto
<1>3. HoldOK(c)'
  BY <1>0, SlotFacts DEF OpOK, HoldOK, HasWrite, CkptCopying, TypeOK, LockTypeOK,
    OpenTypeOK, ConnTypeOK, CkptTypeOK, LoopTypeOK, InMarkLoop, Slot, LogHdr, Goto
<1>4. BaseOK(c)'
  BY <1>0, <1>1 DEF BaseOK, InBase, Bare, OpOK, HoldOK, TypeOK, OpenTypeOK, ConnTypeOK,
    WriteTypeOK, CkptTypeOK, Hdr, Slot, LogHdr, Goto, NoHdr
<1>5. MarkOK(c)'
  <2>1. /\ mxMark[c] \in Nat /\ hdr[c].mxFrame \in Nat /\ hdr0.mxFrame \in Nat
        /\ readLock[c] \in Slot \cup {0, -1} /\ slot[c] \in Slot \cup {0}
    BY <1>1 DEF TypeOK, OpenTypeOK, ConnTypeOK, Hdr
  <2>2. /\ DOMAIN pc = Conn /\ DOMAIN mxMark = Conn /\ DOMAIN readLock = Conn
        /\ DOMAIN hdr = Conn /\ DOMAIN aReadMark = Slot
    BY DEF TypeOK, OpenTypeOK, ConnTypeOK, ShmTypeOK
  <2>0. hdr'[c].mxFrame = hdr[c].mxFrame
    BY <1>0, <1>1, <2>1 DEF Hdr, TypeOK, ConnTypeOK, WriteTypeOK, LogHdr
  <2>3. readLock'[c] > 0 => /\ aReadMark'[readLock'[c]] <= hdr'[c].mxFrame
                            /\ aReadMark'[readLock'[c]] <= hdr0'.mxFrame
    BY <2>0, <1>0, <1>1, <2>1, <2>2 DEF TypeOK, OpenTypeOK, ConnTypeOK, ShmTypeOK, MarkOK, HoldOK, OpOK, BaseOK, LogHdr, Goto
  <2>4. pc'[c] \in {"scan", "grab", "lockMark", "checkMark"} => mxMark'[c] <= hdr'[c].mxFrame
    BY <1>0, <1>1, <2>1, <2>2 DEF TypeOK, OpenTypeOK, ConnTypeOK, ShmTypeOK, MarkOK, HoldOK, OpOK, BaseOK, LogHdr, Goto
  <2>5. pc'[c] \notin MarkPlaces => mxMark'[c] = 0
    BY <1>0, <1>1, <2>1, <2>2 DEF TypeOK, OpenTypeOK, ConnTypeOK, ShmTypeOK, MarkOK, HoldOK, OpOK, BaseOK, LogHdr, Goto
  <2> QED BY <2>3, <2>4, <2>5 DEF MarkOK
<1>6. CacheOK(c)'
  BY <1>0, <1>1 DEF CacheOK, Stale, BaseOK, InBase, Bare, OpOK, HoldOK, TypeOK,
    OpenTypeOK, ConnTypeOK, WriteTypeOK, CkptTypeOK, Hdr, LogHdr, Goto, NoHdr
<1>7. Alone(c)
  BY DEF Alone, Untouched, Granted, TypeOK, LockTypeOK, OpenTypeOK, ConnTypeOK,
    WriteTypeOK, CkptTypeOK, LogHdr, Goto
<1> QED BY <1>2, <1>3, <1>4, <1>5, <1>6, <1>7 DEF Known

(* A sync of the log changes nothing a connection counts on. *)
LEMMA SyncHdrKnown ==
  ASSUME TypeOK, NEW c \in Conn, Known(c), SyncHdr(c)
  PROVE  Known(c)' /\ Alone(c)
<1>0. OpOK(c) /\ HoldOK(c) /\ BaseOK(c) /\ MarkOK(c) /\ CacheOK(c) BY DEF Known
<1>1. hdr0 \in Hdr /\ hdr[c] \in Hdr /\ \A i \in Slot : aReadMark[i] \in Nat
  BY DEF TypeOK, ShmTypeOK, ConnTypeOK
<1>2. OpOK(c)'
  BY <1>0 DEF OpOK, TypeOK, OpenTypeOK, CkptTypeOK, SyncHdr, Goto
<1>3. HoldOK(c)'
  BY <1>0, SlotFacts DEF OpOK, HoldOK, HasWrite, CkptCopying, TypeOK, LockTypeOK,
    OpenTypeOK, ConnTypeOK, CkptTypeOK, LoopTypeOK, InMarkLoop, Slot, SyncHdr, Goto
<1>4. BaseOK(c)'
  BY <1>0, <1>1 DEF BaseOK, InBase, Bare, OpOK, HoldOK, TypeOK, OpenTypeOK, ConnTypeOK,
    WriteTypeOK, CkptTypeOK, Hdr, Slot, SyncHdr, Goto, NoHdr
<1>5. MarkOK(c)'
  BY <1>0, <1>1, SlotFacts DEF MarkOK, BaseOK, InBase, Bare, OpOK, HoldOK, TypeOK,
    ShmTypeOK, OpenTypeOK, ConnTypeOK, WriteTypeOK, CkptTypeOK, LoopTypeOK, InMarkLoop,
    Hdr, Slot, SyncHdr, Goto, NoHdr
<1>6. CacheOK(c)'
  BY <1>0, <1>1 DEF CacheOK, Stale, BaseOK, InBase, Bare, OpOK, HoldOK, TypeOK,
    OpenTypeOK, ConnTypeOK, WriteTypeOK, CkptTypeOK, Hdr, SyncHdr, Goto, NoHdr
<1>7. Alone(c)
  BY DEF Alone, Untouched, Granted, TypeOK, LockTypeOK, OpenTypeOK, ConnTypeOK,
    WriteTypeOK, CkptTypeOK, SyncHdr, Goto
<1> QED BY <1>2, <1>3, <1>4, <1>5, <1>6, <1>7 DEF Known

(* One more frame: iFrame grows past the private mxFrame. *)
LEMMA WriteFrameKnown ==
  ASSUME TypeOK, NEW c \in Conn, Known(c), WriteFrame(c)
  PROVE  Known(c)' /\ Alone(c)
<1>0. OpOK(c) /\ HoldOK(c) /\ BaseOK(c) /\ MarkOK(c) /\ CacheOK(c) BY DEF Known
<1>1. hdr0 \in Hdr /\ hdr[c] \in Hdr /\ \A i \in Slot : aReadMark[i] \in Nat
  BY DEF TypeOK, ShmTypeOK, ConnTypeOK
<1>2. OpOK(c)'
  BY <1>0 DEF OpOK, TypeOK, OpenTypeOK, CkptTypeOK, WriteFrame, Goto
<1>3. HoldOK(c)'
  BY <1>0, SlotFacts DEF OpOK, HoldOK, HasWrite, CkptCopying, TypeOK, LockTypeOK,
    OpenTypeOK, ConnTypeOK, CkptTypeOK, LoopTypeOK, InMarkLoop, Slot, WriteFrame, Goto
<1>4. BaseOK(c)'
  BY <1>0, <1>1 DEF BaseOK, InBase, Bare, OpOK, HoldOK, TypeOK, OpenTypeOK, ConnTypeOK,
    WriteTypeOK, CkptTypeOK, Hdr, Slot, WriteFrame, Goto, NoHdr
<1>5. MarkOK(c)'
  BY <1>0, <1>1, SlotFacts DEF MarkOK, BaseOK, InBase, Bare, OpOK, HoldOK, TypeOK,
    ShmTypeOK, OpenTypeOK, ConnTypeOK, WriteTypeOK, CkptTypeOK, LoopTypeOK, InMarkLoop,
    Hdr, Slot, WriteFrame, Goto, NoHdr
<1>6. CacheOK(c)'
  BY <1>0, <1>1 DEF CacheOK, Stale, BaseOK, InBase, Bare, OpOK, HoldOK, TypeOK,
    OpenTypeOK, ConnTypeOK, WriteTypeOK, CkptTypeOK, Hdr, WriteFrame, Goto, NoHdr
<1>7. Alone(c)
  BY DEF Alone, Untouched, Granted, TypeOK, LockTypeOK, OpenTypeOK, ConnTypeOK,
    WriteTypeOK, CkptTypeOK, WriteFrame, Goto
<1> QED BY <1>2, <1>3, <1>4, <1>5, <1>6, <1>7 DEF Known

(* A sync of the log changes nothing a connection counts on. *)
LEMMA SyncFramesKnown ==
  ASSUME TypeOK, NEW c \in Conn, Known(c), SyncFrames(c)
  PROVE  Known(c)' /\ Alone(c)
<1>0. OpOK(c) /\ HoldOK(c) /\ BaseOK(c) /\ MarkOK(c) /\ CacheOK(c) BY DEF Known
<1>1. hdr0 \in Hdr /\ hdr[c] \in Hdr /\ \A i \in Slot : aReadMark[i] \in Nat
  BY DEF TypeOK, ShmTypeOK, ConnTypeOK
<1>2. OpOK(c)'
  BY <1>0 DEF OpOK, TypeOK, OpenTypeOK, CkptTypeOK, SyncFrames, Goto
<1>3. HoldOK(c)'
  BY <1>0, SlotFacts DEF OpOK, HoldOK, HasWrite, CkptCopying, TypeOK, LockTypeOK,
    OpenTypeOK, ConnTypeOK, CkptTypeOK, LoopTypeOK, InMarkLoop, Slot, SyncFrames, Goto
<1>4. BaseOK(c)'
  BY <1>0, <1>1 DEF BaseOK, InBase, Bare, OpOK, HoldOK, TypeOK, OpenTypeOK, ConnTypeOK,
    WriteTypeOK, CkptTypeOK, Hdr, Slot, SyncFrames, Goto, NoHdr
<1>5. MarkOK(c)'
  BY <1>0, <1>1, SlotFacts DEF MarkOK, BaseOK, InBase, Bare, OpOK, HoldOK, TypeOK,
    ShmTypeOK, OpenTypeOK, ConnTypeOK, WriteTypeOK, CkptTypeOK, LoopTypeOK, InMarkLoop,
    Hdr, Slot, SyncFrames, Goto, NoHdr
<1>6. CacheOK(c)'
  BY <1>0, <1>1 DEF CacheOK, Stale, BaseOK, InBase, Bare, OpOK, HoldOK, TypeOK,
    OpenTypeOK, ConnTypeOK, WriteTypeOK, CkptTypeOK, Hdr, SyncFrames, Goto, NoHdr
<1>7. Alone(c)
  BY DEF Alone, Untouched, Granted, TypeOK, LockTypeOK, OpenTypeOK, ConnTypeOK,
    WriteTypeOK, CkptTypeOK, SyncFrames, Goto
<1> QED BY <1>2, <1>3, <1>4, <1>5, <1>6, <1>7 DEF Known

(* The index gets an entry; headers and marks stay. *)
LEMMA IndexFrameKnown ==
  ASSUME TypeOK, NEW c \in Conn, Known(c), IndexFrame(c)
  PROVE  Known(c)' /\ Alone(c)
<1>0. OpOK(c) /\ HoldOK(c) /\ BaseOK(c) /\ MarkOK(c) /\ CacheOK(c) BY DEF Known
<1>1. hdr0 \in Hdr /\ hdr[c] \in Hdr /\ \A i \in Slot : aReadMark[i] \in Nat
  BY DEF TypeOK, ShmTypeOK, ConnTypeOK
<1>2. OpOK(c)'
  BY <1>0 DEF OpOK, TypeOK, OpenTypeOK, CkptTypeOK, IndexFrame, Goto
<1>3. HoldOK(c)'
  BY <1>0, SlotFacts DEF OpOK, HoldOK, HasWrite, CkptCopying, TypeOK, LockTypeOK,
    OpenTypeOK, ConnTypeOK, CkptTypeOK, LoopTypeOK, InMarkLoop, Slot, IndexFrame, Goto
<1>4. BaseOK(c)'
  BY <1>0, <1>1 DEF BaseOK, InBase, Bare, OpOK, HoldOK, TypeOK, OpenTypeOK, ConnTypeOK,
    WriteTypeOK, CkptTypeOK, Hdr, Slot, IndexFrame, Goto, NoHdr
<1>5. MarkOK(c)'
  BY <1>0, <1>1, SlotFacts DEF MarkOK, BaseOK, InBase, Bare, OpOK, HoldOK, TypeOK,
    ShmTypeOK, OpenTypeOK, ConnTypeOK, WriteTypeOK, CkptTypeOK, LoopTypeOK, InMarkLoop,
    Hdr, Slot, IndexFrame, Goto, NoHdr
<1>6. CacheOK(c)'
  BY <1>0, <1>1 DEF CacheOK, Stale, BaseOK, InBase, Bare, OpOK, HoldOK, TypeOK,
    OpenTypeOK, ConnTypeOK, WriteTypeOK, CkptTypeOK, Hdr, IndexFrame, Goto, NoHdr
<1>7. Alone(c)
  BY DEF Alone, Untouched, Granted, TypeOK, LockTypeOK, OpenTypeOK, ConnTypeOK,
    WriteTypeOK, CkptTypeOK, IndexFrame, Goto
<1> QED BY <1>2, <1>3, <1>4, <1>5, <1>6, <1>7 DEF Known

(* The private header takes the frames in: longer than the shared one. *)
LEMMA FramesDoneKnown ==
  ASSUME TypeOK, NEW c \in Conn, Known(c), FramesDone(c)
  PROVE  Known(c)' /\ Alone(c)
<1>0. OpOK(c) /\ HoldOK(c) /\ BaseOK(c) /\ MarkOK(c) /\ CacheOK(c) BY DEF Known
<1>1. hdr0 \in Hdr /\ hdr[c] \in Hdr /\ \A i \in Slot : aReadMark[i] \in Nat
  BY DEF TypeOK, ShmTypeOK, ConnTypeOK
<1>2. OpOK(c)'
  BY <1>0 DEF OpOK, TypeOK, OpenTypeOK, CkptTypeOK, FramesDone, Goto
<1>3. HoldOK(c)'
  BY <1>0, SlotFacts DEF OpOK, HoldOK, HasWrite, CkptCopying, TypeOK, LockTypeOK,
    OpenTypeOK, ConnTypeOK, CkptTypeOK, LoopTypeOK, InMarkLoop, Slot, FramesDone, Goto
<1>4. BaseOK(c)'
  BY <1>0, <1>1 DEF BaseOK, InBase, Bare, OpOK, HoldOK, TypeOK, OpenTypeOK, ConnTypeOK,
    WriteTypeOK, CkptTypeOK, Hdr, Slot, FramesDone, Goto, NoHdr
<1>5. MarkOK(c)'
  <2>1. /\ mxMark[c] \in Nat /\ hdr[c].mxFrame \in Nat /\ hdr0.mxFrame \in Nat
        /\ readLock[c] \in Slot \cup {0, -1} /\ slot[c] \in Slot \cup {0}
    BY <1>1 DEF TypeOK, OpenTypeOK, ConnTypeOK, Hdr
  <2>2. /\ DOMAIN pc = Conn /\ DOMAIN mxMark = Conn /\ DOMAIN readLock = Conn
        /\ DOMAIN hdr = Conn /\ DOMAIN aReadMark = Slot
    BY DEF TypeOK, OpenTypeOK, ConnTypeOK, ShmTypeOK
  <2>0. hdr'[c].mxFrame \in Nat /\ hdr'[c].mxFrame > hdr[c].mxFrame
    BY <1>0, <1>1, <2>1 DEF Hdr, TypeOK, ConnTypeOK, WriteTypeOK, BaseOK, FramesDone, OpOK
  <2>3. readLock'[c] > 0 => /\ aReadMark'[readLock'[c]] <= hdr'[c].mxFrame
                            /\ aReadMark'[readLock'[c]] <= hdr0'.mxFrame
    BY <2>0, <1>0, <1>1, <2>1, <2>2 DEF TypeOK, OpenTypeOK, ConnTypeOK, ShmTypeOK, MarkOK, HoldOK, OpOK, BaseOK, FramesDone, Goto
  <2>4. pc'[c] \in {"scan", "grab", "lockMark", "checkMark"} => mxMark'[c] <= hdr'[c].mxFrame
    BY <1>0, <1>1, <2>1, <2>2 DEF TypeOK, OpenTypeOK, ConnTypeOK, ShmTypeOK, MarkOK, HoldOK, OpOK, BaseOK, FramesDone, Goto
  <2>5. pc'[c] \notin MarkPlaces => mxMark'[c] = 0
    BY <1>0, <1>1, <2>1, <2>2 DEF TypeOK, OpenTypeOK, ConnTypeOK, ShmTypeOK, MarkOK, HoldOK, OpOK, BaseOK, FramesDone, Goto
  <2> QED BY <2>3, <2>4, <2>5 DEF MarkOK
<1>6. CacheOK(c)'
  BY <1>0, <1>1 DEF CacheOK, Stale, BaseOK, InBase, Bare, OpOK, HoldOK, TypeOK,
    OpenTypeOK, ConnTypeOK, WriteTypeOK, CkptTypeOK, Hdr, FramesDone, Goto, NoHdr
<1>7. Alone(c)
  BY DEF Alone, Untouched, Granted, TypeOK, LockTypeOK, OpenTypeOK, ConnTypeOK,
    WriteTypeOK, CkptTypeOK, FramesDone, Goto
<1> QED BY <1>2, <1>3, <1>4, <1>5, <1>6, <1>7 DEF Known

(* The second copy of a commit. *)
LEMMA Publish1Known ==
  ASSUME TypeOK, NEW c \in Conn, Known(c), Publish1(c)
  PROVE  Known(c)' /\ Alone(c)
<1>0. OpOK(c) /\ HoldOK(c) /\ BaseOK(c) /\ MarkOK(c) /\ CacheOK(c) BY DEF Known
<1>1. hdr0 \in Hdr /\ hdr[c] \in Hdr /\ \A i \in Slot : aReadMark[i] \in Nat
  BY DEF TypeOK, ShmTypeOK, ConnTypeOK
<1>2. OpOK(c)'
  BY <1>0 DEF OpOK, TypeOK, OpenTypeOK, CkptTypeOK, Publish1, Goto
<1>3. HoldOK(c)'
  BY <1>0, SlotFacts DEF OpOK, HoldOK, HasWrite, CkptCopying, TypeOK, LockTypeOK,
    OpenTypeOK, ConnTypeOK, CkptTypeOK, LoopTypeOK, InMarkLoop, Slot, Publish1, Goto
<1>4. BaseOK(c)'
  BY <1>0, <1>1 DEF BaseOK, InBase, Bare, OpOK, HoldOK, TypeOK, OpenTypeOK, ConnTypeOK,
    WriteTypeOK, CkptTypeOK, Hdr, Slot, Publish1, Goto, NoHdr
<1>5. MarkOK(c)'
  BY <1>0, <1>1, SlotFacts DEF MarkOK, BaseOK, InBase, Bare, OpOK, HoldOK, TypeOK,
    ShmTypeOK, OpenTypeOK, ConnTypeOK, WriteTypeOK, CkptTypeOK, LoopTypeOK, InMarkLoop,
    Hdr, Slot, Publish1, Goto, NoHdr
<1>6. CacheOK(c)'
  BY <1>0, <1>1 DEF CacheOK, Stale, BaseOK, InBase, Bare, OpOK, HoldOK, TypeOK,
    OpenTypeOK, ConnTypeOK, WriteTypeOK, CkptTypeOK, Hdr, Publish1, Goto, NoHdr
<1>7. Alone(c)
  BY DEF Alone, Untouched, Granted, TypeOK, LockTypeOK, OpenTypeOK, ConnTypeOK,
    WriteTypeOK, CkptTypeOK, Publish1, Goto
<1> QED BY <1>2, <1>3, <1>4, <1>5, <1>6, <1>7 DEF Known

(* The first copy: the private header is the shared one, and longer than before. *)
LEMMA Publish0Known ==
  ASSUME TypeOK, NEW c \in Conn, Known(c), Publish0(c)
  PROVE  Known(c)' /\ Alone(c)
<1>0. OpOK(c) /\ HoldOK(c) /\ BaseOK(c) /\ MarkOK(c) /\ CacheOK(c) BY DEF Known
<1>1. hdr0 \in Hdr /\ hdr[c] \in Hdr /\ \A i \in Slot : aReadMark[i] \in Nat
  BY DEF TypeOK, ShmTypeOK, ConnTypeOK
<1>2. OpOK(c)'
  BY <1>0 DEF OpOK, TypeOK, OpenTypeOK, CkptTypeOK, Publish0, Goto
<1>3. HoldOK(c)'
  BY <1>0, SlotFacts DEF OpOK, HoldOK, HasWrite, CkptCopying, TypeOK, LockTypeOK,
    OpenTypeOK, ConnTypeOK, CkptTypeOK, LoopTypeOK, InMarkLoop, Slot, Publish0, Goto
<1>4. BaseOK(c)'
  BY <1>0, <1>1 DEF BaseOK, InBase, Bare, OpOK, HoldOK, TypeOK, OpenTypeOK, ConnTypeOK,
    WriteTypeOK, CkptTypeOK, Hdr, Slot, Publish0, Goto, NoHdr
<1>5. MarkOK(c)'
  BY <1>0, <1>1, SlotFacts DEF MarkOK, BaseOK, InBase, Bare, OpOK, HoldOK, TypeOK,
    ShmTypeOK, OpenTypeOK, ConnTypeOK, WriteTypeOK, CkptTypeOK, LoopTypeOK, InMarkLoop,
    Hdr, Slot, Publish0, Goto, NoHdr
<1>6. CacheOK(c)'
  BY <1>0, <1>1 DEF CacheOK, Stale, BaseOK, InBase, Bare, OpOK, HoldOK, TypeOK,
    OpenTypeOK, ConnTypeOK, WriteTypeOK, CkptTypeOK, Hdr, Publish0, Goto, NoHdr
<1>7. Alone(c)
  BY DEF Alone, Untouched, Granted, TypeOK, LockTypeOK, OpenTypeOK, ConnTypeOK,
    WriteTypeOK, CkptTypeOK, Publish0, Goto
<1> QED BY <1>2, <1>3, <1>4, <1>5, <1>6, <1>7 DEF Known

(* WRITE goes back, the reader lock stays. *)
LEMMA EndWriteKnown ==
  ASSUME TypeOK, NEW c \in Conn, Known(c), EndWrite(c)
  PROVE  Known(c)' /\ Alone(c)
<1>0. OpOK(c) /\ HoldOK(c) /\ BaseOK(c) /\ MarkOK(c) /\ CacheOK(c) BY DEF Known
<1>1. hdr0 \in Hdr /\ hdr[c] \in Hdr /\ \A i \in Slot : aReadMark[i] \in Nat
  BY DEF TypeOK, ShmTypeOK, ConnTypeOK
<1>2. OpOK(c)'
  BY <1>0 DEF OpOK, TypeOK, OpenTypeOK, CkptTypeOK, EndWrite, ForgetTxn, Goto
<1>3. HoldOK(c)'
  BY <1>0, SlotFacts DEF OpOK, HoldOK, HasWrite, CkptCopying, TypeOK, LockTypeOK,
    OpenTypeOK, ConnTypeOK, CkptTypeOK, LoopTypeOK, InMarkLoop, Slot, EndWrite, ForgetTxn,
    Goto, Unlock, READ, WRITE, CKPT, RECOVER, MarkLocks, ReadLocks
<1>4. BaseOK(c)'
  BY <1>0, <1>1 DEF BaseOK, InBase, Bare, OpOK, HoldOK, TypeOK, OpenTypeOK, ConnTypeOK,
    WriteTypeOK, CkptTypeOK, Hdr, Slot, EndWrite, ForgetTxn, Goto, NoHdr
<1>5. MarkOK(c)'
  BY <1>0, <1>1, SlotFacts DEF MarkOK, BaseOK, InBase, Bare, OpOK, HoldOK, TypeOK,
    ShmTypeOK, OpenTypeOK, ConnTypeOK, WriteTypeOK, CkptTypeOK, LoopTypeOK, InMarkLoop,
    Hdr, Slot, EndWrite, ForgetTxn, Goto, NoHdr
<1>6. CacheOK(c)'
  BY <1>0, <1>1 DEF CacheOK, Stale, BaseOK, InBase, Bare, OpOK, HoldOK, TypeOK,
    OpenTypeOK, ConnTypeOK, WriteTypeOK, CkptTypeOK, Hdr, EndWrite, ForgetTxn, Goto, NoHdr
<1>7. Alone(c)
  BY DEF Alone, Untouched, Granted, TypeOK, LockTypeOK, OpenTypeOK, ConnTypeOK,
    WriteTypeOK, CkptTypeOK, EndWrite, ForgetTxn, Goto, Unlock
<1> QED BY <1>2, <1>3, <1>4, <1>5, <1>6, <1>7 DEF Known

(* After an error the writer still stands on the published database. *)
LEMMA FramesErrorKnown ==
  ASSUME TypeOK, NEW c \in Conn, Known(c), FramesError(c)
  PROVE  Known(c)' /\ Alone(c)
<1>0. OpOK(c) /\ HoldOK(c) /\ BaseOK(c) /\ MarkOK(c) /\ CacheOK(c) BY DEF Known
<1>1. hdr0 \in Hdr /\ hdr[c] \in Hdr /\ \A i \in Slot : aReadMark[i] \in Nat
  BY DEF TypeOK, ShmTypeOK, ConnTypeOK
<1>2. OpOK(c)'
  BY <1>0 DEF OpOK, TypeOK, OpenTypeOK, CkptTypeOK, FramesError, Goto
<1>3. HoldOK(c)'
  BY <1>0, SlotFacts DEF OpOK, HoldOK, HasWrite, CkptCopying, TypeOK, LockTypeOK,
    OpenTypeOK, ConnTypeOK, CkptTypeOK, LoopTypeOK, InMarkLoop, Slot, FramesError, Goto
<1>4. BaseOK(c)'
  BY <1>0, <1>1 DEF BaseOK, InBase, Bare, OpOK, HoldOK, TypeOK, OpenTypeOK, ConnTypeOK,
    WriteTypeOK, CkptTypeOK, Hdr, Slot, FramesError, Goto, NoHdr
<1>5. MarkOK(c)'
  BY <1>0, <1>1, SlotFacts DEF MarkOK, BaseOK, InBase, Bare, OpOK, HoldOK, TypeOK,
    ShmTypeOK, OpenTypeOK, ConnTypeOK, WriteTypeOK, CkptTypeOK, LoopTypeOK, InMarkLoop,
    Hdr, Slot, FramesError, Goto, NoHdr
<1>6. CacheOK(c)'
  BY <1>0, <1>1 DEF CacheOK, Stale, BaseOK, InBase, Bare, OpOK, HoldOK, TypeOK,
    OpenTypeOK, ConnTypeOK, WriteTypeOK, CkptTypeOK, Hdr, FramesError, Goto, NoHdr
<1>7. Alone(c)
  BY DEF Alone, Untouched, Granted, TypeOK, LockTypeOK, OpenTypeOK, ConnTypeOK,
    WriteTypeOK, CkptTypeOK, FramesError, Goto
<1> QED BY <1>2, <1>3, <1>4, <1>5, <1>6, <1>7 DEF Known

(* A full or restart checkpoint has WRITE, or becomes a passive one. *)
LEMMA CkptWriteKnown ==
  ASSUME TypeOK, NEW c \in Conn, Known(c), CkptWrite(c)
  PROVE  Known(c)' /\ Alone(c)
<1>0. OpOK(c) /\ HoldOK(c) /\ BaseOK(c) /\ MarkOK(c) /\ CacheOK(c) BY DEF Known
<1>1. hdr0 \in Hdr /\ hdr[c] \in Hdr /\ \A i \in Slot : aReadMark[i] \in Nat
  BY DEF TypeOK, ShmTypeOK, ConnTypeOK
<1>2. OpOK(c)'
  BY <1>0 DEF OpOK, TypeOK, OpenTypeOK, CkptTypeOK, CkptWrite, Goto
<1>3. HoldOK(c)'
  BY <1>0, SlotFacts DEF OpOK, HoldOK, HasWrite, CkptCopying, TypeOK, LockTypeOK,
    OpenTypeOK, ConnTypeOK, CkptTypeOK, LoopTypeOK, InMarkLoop, Slot, CkptWrite, Goto,
    LockExclusive, CanExclude, READ, WRITE, CKPT, RECOVER, MarkLocks, ReadLocks
<1>4. BaseOK(c)'
  BY <1>0, <1>1 DEF BaseOK, InBase, Bare, OpOK, HoldOK, TypeOK, OpenTypeOK, ConnTypeOK,
    WriteTypeOK, CkptTypeOK, Hdr, Slot, CkptWrite, Goto, NoHdr
<1>5. MarkOK(c)'
  BY <1>0, <1>1, SlotFacts DEF MarkOK, BaseOK, InBase, Bare, OpOK, HoldOK, TypeOK,
    ShmTypeOK, OpenTypeOK, ConnTypeOK, WriteTypeOK, CkptTypeOK, LoopTypeOK, InMarkLoop,
    Hdr, Slot, CkptWrite, Goto, NoHdr
<1>6. CacheOK(c)'
  BY <1>0, <1>1 DEF CacheOK, Stale, BaseOK, InBase, Bare, OpOK, HoldOK, TypeOK,
    OpenTypeOK, ConnTypeOK, WriteTypeOK, CkptTypeOK, Hdr, CkptWrite, Goto, NoHdr
<1>7. Alone(c)
  BY DEF Alone, Untouched, Granted, TypeOK, LockTypeOK, OpenTypeOK, ConnTypeOK,
    WriteTypeOK, CkptTypeOK, CkptWrite, Goto, LockExclusive, CanExclude
<1> QED BY <1>2, <1>3, <1>4, <1>5, <1>6, <1>7 DEF Known

(* The copy starts with its limit at the private mxFrame. *)
LEMMA CkptStartKnown ==
  ASSUME TypeOK, NEW c \in Conn, Known(c), CkptStart(c)
  PROVE  Known(c)' /\ Alone(c)
<1>0. OpOK(c) /\ HoldOK(c) /\ BaseOK(c) /\ MarkOK(c) /\ CacheOK(c) BY DEF Known
<1>1. hdr0 \in Hdr /\ hdr[c] \in Hdr /\ \A i \in Slot : aReadMark[i] \in Nat
  BY DEF TypeOK, ShmTypeOK, ConnTypeOK
<1>2. OpOK(c)'
  BY <1>0 DEF OpOK, TypeOK, OpenTypeOK, CkptTypeOK, CkptStart, Goto
<1>3. HoldOK(c)'
  BY <1>0, SlotFacts DEF OpOK, HoldOK, HasWrite, CkptCopying, TypeOK, LockTypeOK,
    OpenTypeOK, ConnTypeOK, CkptTypeOK, LoopTypeOK, InMarkLoop, Slot, CkptStart, Goto
<1>4. BaseOK(c)'
  BY <1>0, <1>1 DEF BaseOK, InBase, Bare, OpOK, HoldOK, TypeOK, OpenTypeOK, ConnTypeOK,
    WriteTypeOK, CkptTypeOK, Hdr, Slot, CkptStart, Goto, NoHdr
<1>5. MarkOK(c)'
  BY <1>0, <1>1, SlotFacts DEF MarkOK, BaseOK, InBase, Bare, OpOK, HoldOK, TypeOK,
    ShmTypeOK, OpenTypeOK, ConnTypeOK, WriteTypeOK, CkptTypeOK, LoopTypeOK, InMarkLoop,
    Hdr, Slot, CkptStart, Goto, NoHdr
<1>6. CacheOK(c)'
  BY <1>0, <1>1 DEF CacheOK, Stale, BaseOK, InBase, Bare, OpOK, HoldOK, TypeOK,
    OpenTypeOK, ConnTypeOK, WriteTypeOK, CkptTypeOK, Hdr, CkptStart, Goto, NoHdr
<1>7. Alone(c)
  BY DEF Alone, Untouched, Granted, TypeOK, LockTypeOK, OpenTypeOK, ConnTypeOK,
    WriteTypeOK, CkptTypeOK, CkptStart, Goto
<1> QED BY <1>2, <1>3, <1>4, <1>5, <1>6, <1>7 DEF Known

(* A mark below the limit is remembered before its lock is tried. *)
LEMMA CkptMarkKnown ==
  ASSUME TypeOK, NEW c \in Conn, Known(c), CkptMark(c)
  PROVE  Known(c)' /\ Alone(c)
<1>0. OpOK(c) /\ HoldOK(c) /\ BaseOK(c) /\ MarkOK(c) /\ CacheOK(c) BY DEF Known
<1>1. hdr0 \in Hdr /\ hdr[c] \in Hdr /\ \A i \in Slot : aReadMark[i] \in Nat
  BY DEF TypeOK, ShmTypeOK, ConnTypeOK
<1>2. OpOK(c)'
  BY <1>0 DEF OpOK, TypeOK, OpenTypeOK, CkptTypeOK, CkptMark, Goto, NextMark, LastSlot
<1>3. HoldOK(c)'
  BY <1>0, SlotFacts DEF OpOK, HoldOK, HasWrite, CkptCopying, TypeOK, LockTypeOK,
    OpenTypeOK, ConnTypeOK, CkptTypeOK, LoopTypeOK, InMarkLoop, Slot, CkptMark, Goto,
    NextMark, LastSlot
<1>4. BaseOK(c)'
  BY <1>0, <1>1 DEF BaseOK, InBase, Bare, OpOK, HoldOK, TypeOK, OpenTypeOK, ConnTypeOK,
    WriteTypeOK, CkptTypeOK, Hdr, Slot, CkptMark, Goto, NextMark, LastSlot, NoHdr
<1>5. MarkOK(c)'
  <2>1. /\ mxMark[c] \in Nat /\ hdr[c].mxFrame \in Nat /\ hdr0.mxFrame \in Nat
        /\ readLock[c] \in Slot \cup {0, -1} /\ slot[c] \in Slot \cup {0}
    BY <1>1 DEF TypeOK, OpenTypeOK, ConnTypeOK, Hdr
  <2>2. /\ DOMAIN pc = Conn /\ DOMAIN mxMark = Conn /\ DOMAIN readLock = Conn
        /\ DOMAIN hdr = Conn /\ DOMAIN aReadMark = Slot
    BY DEF TypeOK, OpenTypeOK, ConnTypeOK, ShmTypeOK
  <2>3. readLock'[c] > 0 => /\ aReadMark'[readLock'[c]] <= hdr'[c].mxFrame
                            /\ aReadMark'[readLock'[c]] <= hdr0'.mxFrame
    BY <1>0, <1>1, <2>1, <2>2 DEF TypeOK, OpenTypeOK, ConnTypeOK, ShmTypeOK, MarkOK, HoldOK, OpOK, CkptMark, NextMark, Goto
  <2>4. pc'[c] \in {"scan", "grab", "lockMark", "checkMark"} => mxMark'[c] <= hdr'[c].mxFrame
    BY <1>0, <1>1, <2>1, <2>2 DEF TypeOK, OpenTypeOK, ConnTypeOK, ShmTypeOK, MarkOK, HoldOK, OpOK, CkptMark, NextMark, Goto
  <2>5. pc'[c] \notin MarkPlaces => mxMark'[c] = 0
    BY <1>0, <1>1, <2>1, <2>2 DEF TypeOK, OpenTypeOK, ConnTypeOK, ShmTypeOK, MarkOK, HoldOK, OpOK, CkptMark, NextMark, Goto
  <2> QED BY <2>3, <2>4, <2>5 DEF MarkOK
<1>6. CacheOK(c)'
  BY <1>0, <1>1 DEF CacheOK, Stale, BaseOK, InBase, Bare, OpOK, HoldOK, TypeOK,
    OpenTypeOK, ConnTypeOK, WriteTypeOK, CkptTypeOK, Hdr, CkptMark, Goto, NextMark,
    LastSlot, NoHdr
<1>7. Alone(c)
  BY DEF Alone, Untouched, Granted, TypeOK, LockTypeOK, OpenTypeOK, ConnTypeOK,
    WriteTypeOK, CkptTypeOK, CkptMark, Goto, NextMark, LastSlot
<1> QED BY <1>2, <1>3, <1>4, <1>5, <1>6, <1>7 DEF Known

(* The slot is locked exclusively, or the limit falls to its mark. *)
LEMMA CkptMarkLockKnown ==
  ASSUME TypeOK, NEW c \in Conn, Known(c), CkptMarkLock(c)
  PROVE  Known(c)' /\ Alone(c)
<1>0. OpOK(c) /\ HoldOK(c) /\ BaseOK(c) /\ MarkOK(c) /\ CacheOK(c) BY DEF Known
<1>1. hdr0 \in Hdr /\ hdr[c] \in Hdr /\ \A i \in Slot : aReadMark[i] \in Nat
  BY DEF TypeOK, ShmTypeOK, ConnTypeOK
<1>2. OpOK(c)'
  BY <1>0 DEF OpOK, TypeOK, OpenTypeOK, CkptTypeOK, CkptMarkLock, Goto, NextMark, LastSlot
<1>3. HoldOK(c)'
  BY <1>0, SlotFacts DEF OpOK, HoldOK, HasWrite, CkptCopying, TypeOK, LockTypeOK,
    OpenTypeOK, ConnTypeOK, CkptTypeOK, LoopTypeOK, InMarkLoop, Slot, CkptMarkLock, Goto,
    NextMark, LastSlot, LockExclusive, CanExclude, READ, WRITE, CKPT, RECOVER, MarkLocks,
    ReadLocks
<1>4. BaseOK(c)'
  BY <1>0, <1>1 DEF BaseOK, InBase, Bare, OpOK, HoldOK, TypeOK, OpenTypeOK, ConnTypeOK,
    WriteTypeOK, CkptTypeOK, Hdr, Slot, CkptMarkLock, Goto, NextMark, LastSlot, NoHdr
<1>5. MarkOK(c)'
  <2>1. /\ mxMark[c] \in Nat /\ hdr[c].mxFrame \in Nat /\ hdr0.mxFrame \in Nat
        /\ readLock[c] \in Slot \cup {0, -1} /\ slot[c] \in Slot \cup {0}
    BY <1>1 DEF TypeOK, OpenTypeOK, ConnTypeOK, Hdr
  <2>2. /\ DOMAIN pc = Conn /\ DOMAIN mxMark = Conn /\ DOMAIN readLock = Conn
        /\ DOMAIN hdr = Conn /\ DOMAIN aReadMark = Slot
    BY DEF TypeOK, OpenTypeOK, ConnTypeOK, ShmTypeOK
  <2>3. readLock'[c] > 0 => /\ aReadMark'[readLock'[c]] <= hdr'[c].mxFrame
                            /\ aReadMark'[readLock'[c]] <= hdr0'.mxFrame
    BY <1>0, <1>1, <2>1, <2>2 DEF TypeOK, OpenTypeOK, ConnTypeOK, ShmTypeOK, MarkOK, HoldOK, OpOK, CkptMarkLock, NextMark, Goto
  <2>4. pc'[c] \in {"scan", "grab", "lockMark", "checkMark"} => mxMark'[c] <= hdr'[c].mxFrame
    BY <1>0, <1>1, <2>1, <2>2 DEF TypeOK, OpenTypeOK, ConnTypeOK, ShmTypeOK, MarkOK, HoldOK, OpOK, CkptMarkLock, NextMark, Goto
  <2>5. pc'[c] \notin MarkPlaces => mxMark'[c] = 0
    BY <1>0, <1>1, <2>1, <2>2 DEF TypeOK, OpenTypeOK, ConnTypeOK, ShmTypeOK, MarkOK, HoldOK, OpOK, CkptMarkLock, NextMark, Goto
  <2> QED BY <2>3, <2>4, <2>5 DEF MarkOK
<1>6. CacheOK(c)'
  BY <1>0, <1>1 DEF CacheOK, Stale, BaseOK, InBase, Bare, OpOK, HoldOK, TypeOK,
    OpenTypeOK, ConnTypeOK, WriteTypeOK, CkptTypeOK, Hdr, CkptMarkLock, Goto, NextMark,
    LastSlot, NoHdr
<1>7. Alone(c)
  BY DEF Alone, Untouched, Granted, TypeOK, LockTypeOK, OpenTypeOK, ConnTypeOK,
    WriteTypeOK, CkptTypeOK, CkptMarkLock, Goto, NextMark, LastSlot, LockExclusive,
    CanExclude
<1> QED BY <1>2, <1>3, <1>4, <1>5, <1>6, <1>7 DEF Known

(* The mark of a slot nobody uses is rewritten under its exclusive lock. *)
LEMMA CkptMarkSetKnown ==
  ASSUME TypeOK, NEW c \in Conn, Known(c), CkptMarkSet(c)
  PROVE  Known(c)' /\ Alone(c)
<1>0. OpOK(c) /\ HoldOK(c) /\ BaseOK(c) /\ MarkOK(c) /\ CacheOK(c) BY DEF Known
<1>1. hdr0 \in Hdr /\ hdr[c] \in Hdr /\ \A i \in Slot : aReadMark[i] \in Nat
  BY DEF TypeOK, ShmTypeOK, ConnTypeOK
<1>2. OpOK(c)'
  BY <1>0 DEF OpOK, TypeOK, OpenTypeOK, CkptTypeOK, CkptMarkSet, NextMark, LastSlot, Goto
<1>3. HoldOK(c)'
  BY <1>0, SlotFacts DEF OpOK, HoldOK, HasWrite, CkptCopying, TypeOK, LockTypeOK,
    OpenTypeOK, ConnTypeOK, CkptTypeOK, LoopTypeOK, InMarkLoop, Slot, CkptMarkSet,
    NextMark, LastSlot, Goto, Unlock, READ, WRITE, CKPT, RECOVER, MarkLocks, ReadLocks
<1>4. BaseOK(c)'
  BY <1>0, <1>1 DEF BaseOK, InBase, Bare, OpOK, HoldOK, TypeOK, OpenTypeOK, ConnTypeOK,
    WriteTypeOK, CkptTypeOK, Hdr, Slot, CkptMarkSet, NextMark, LastSlot, Goto, NoHdr
<1>5. MarkOK(c)'
  BY <1>0, <1>1, SlotFacts DEF MarkOK, BaseOK, InBase, Bare, OpOK, HoldOK, TypeOK,
    ShmTypeOK, OpenTypeOK, ConnTypeOK, WriteTypeOK, CkptTypeOK, LoopTypeOK, InMarkLoop,
    Hdr, Slot, CkptMarkSet, NextMark, LastSlot, Goto, NoHdr
<1>6. CacheOK(c)'
  BY <1>0, <1>1 DEF CacheOK, Stale, BaseOK, InBase, Bare, OpOK, HoldOK, TypeOK,
    OpenTypeOK, ConnTypeOK, WriteTypeOK, CkptTypeOK, Hdr, CkptMarkSet, NextMark, LastSlot,
    Goto, NoHdr
<1>7. Alone(c)
  BY DEF Alone, Untouched, Granted, TypeOK, LockTypeOK, OpenTypeOK, ConnTypeOK,
    WriteTypeOK, CkptTypeOK, CkptMarkSet, NextMark, LastSlot, Goto, Unlock
<1> QED BY <1>2, <1>3, <1>4, <1>5, <1>6, <1>7 DEF Known

(* The copy holds READ(0) exclusively. *)
LEMMA CkptLock0Known ==
  ASSUME TypeOK, NEW c \in Conn, Known(c), CkptLock0(c)
  PROVE  Known(c)' /\ Alone(c)
<1>0. OpOK(c) /\ HoldOK(c) /\ BaseOK(c) /\ MarkOK(c) /\ CacheOK(c) BY DEF Known
<1>1. hdr0 \in Hdr /\ hdr[c] \in Hdr /\ \A i \in Slot : aReadMark[i] \in Nat
  BY DEF TypeOK, ShmTypeOK, ConnTypeOK
<1>2. OpOK(c)'
  BY <1>0 DEF OpOK, TypeOK, OpenTypeOK, CkptTypeOK, CkptLock0, Goto
<1>3. HoldOK(c)'
  BY <1>0, SlotFacts DEF OpOK, HoldOK, HasWrite, CkptCopying, TypeOK, LockTypeOK,
    OpenTypeOK, ConnTypeOK, CkptTypeOK, LoopTypeOK, InMarkLoop, Slot, CkptLock0, Goto,
    LockExclusive, CanExclude, READ, WRITE, CKPT, RECOVER, MarkLocks, ReadLocks
<1>4. BaseOK(c)'
  BY <1>0, <1>1 DEF BaseOK, InBase, Bare, OpOK, HoldOK, TypeOK, OpenTypeOK, ConnTypeOK,
    WriteTypeOK, CkptTypeOK, Hdr, Slot, CkptLock0, Goto, NoHdr
<1>5. MarkOK(c)'
  BY <1>0, <1>1, SlotFacts DEF MarkOK, BaseOK, InBase, Bare, OpOK, HoldOK, TypeOK,
    ShmTypeOK, OpenTypeOK, ConnTypeOK, WriteTypeOK, CkptTypeOK, LoopTypeOK, InMarkLoop,
    Hdr, Slot, CkptLock0, Goto, NoHdr
<1>6. CacheOK(c)'
  BY <1>0, <1>1 DEF CacheOK, Stale, BaseOK, InBase, Bare, OpOK, HoldOK, TypeOK,
    OpenTypeOK, ConnTypeOK, WriteTypeOK, CkptTypeOK, Hdr, CkptLock0, Goto, NoHdr
<1>7. Alone(c)
  BY DEF Alone, Untouched, Granted, TypeOK, LockTypeOK, OpenTypeOK, ConnTypeOK,
    WriteTypeOK, CkptTypeOK, CkptLock0, Goto, LockExclusive, CanExclude
<1> QED BY <1>2, <1>3, <1>4, <1>5, <1>6, <1>7 DEF Known

(* A sync of the log changes nothing a connection counts on. *)
LEMMA CkptSyncKnown ==
  ASSUME TypeOK, NEW c \in Conn, Known(c), CkptSync(c)
  PROVE  Known(c)' /\ Alone(c)
<1>0. OpOK(c) /\ HoldOK(c) /\ BaseOK(c) /\ MarkOK(c) /\ CacheOK(c) BY DEF Known
<1>1. hdr0 \in Hdr /\ hdr[c] \in Hdr /\ \A i \in Slot : aReadMark[i] \in Nat
  BY DEF TypeOK, ShmTypeOK, ConnTypeOK
<1>2. OpOK(c)'
  BY <1>0 DEF OpOK, TypeOK, OpenTypeOK, CkptTypeOK, CkptSync, Goto
<1>3. HoldOK(c)'
  BY <1>0, SlotFacts DEF OpOK, HoldOK, HasWrite, CkptCopying, TypeOK, LockTypeOK,
    OpenTypeOK, ConnTypeOK, CkptTypeOK, LoopTypeOK, InMarkLoop, Slot, CkptSync, Goto
<1>4. BaseOK(c)'
  BY <1>0, <1>1 DEF BaseOK, InBase, Bare, OpOK, HoldOK, TypeOK, OpenTypeOK, ConnTypeOK,
    WriteTypeOK, CkptTypeOK, Hdr, Slot, CkptSync, Goto, NoHdr
<1>5. MarkOK(c)'
  BY <1>0, <1>1, SlotFacts DEF MarkOK, BaseOK, InBase, Bare, OpOK, HoldOK, TypeOK,
    ShmTypeOK, OpenTypeOK, ConnTypeOK, WriteTypeOK, CkptTypeOK, LoopTypeOK, InMarkLoop,
    Hdr, Slot, CkptSync, Goto, NoHdr
<1>6. CacheOK(c)'
  BY <1>0, <1>1 DEF CacheOK, Stale, BaseOK, InBase, Bare, OpOK, HoldOK, TypeOK,
    OpenTypeOK, ConnTypeOK, WriteTypeOK, CkptTypeOK, Hdr, CkptSync, Goto, NoHdr
<1>7. Alone(c)
  BY DEF Alone, Untouched, Granted, TypeOK, LockTypeOK, OpenTypeOK, ConnTypeOK,
    WriteTypeOK, CkptTypeOK, CkptSync, Goto
<1> QED BY <1>2, <1>3, <1>4, <1>5, <1>6, <1>7 DEF Known

(* A page is copied under READ(0). *)
LEMMA CkptCopyKnown ==
  ASSUME TypeOK, NEW c \in Conn, Known(c), CkptCopy(c)
  PROVE  Known(c)' /\ Alone(c)
<1>0. OpOK(c) /\ HoldOK(c) /\ BaseOK(c) /\ MarkOK(c) /\ CacheOK(c) BY DEF Known
<1>1. hdr0 \in Hdr /\ hdr[c] \in Hdr /\ \A i \in Slot : aReadMark[i] \in Nat
  BY DEF TypeOK, ShmTypeOK, ConnTypeOK
<1>2. OpOK(c)'
  BY <1>0 DEF OpOK, TypeOK, OpenTypeOK, CkptTypeOK, CkptCopy, Goto
<1>3. HoldOK(c)'
  BY <1>0, SlotFacts DEF OpOK, HoldOK, HasWrite, CkptCopying, TypeOK, LockTypeOK,
    OpenTypeOK, ConnTypeOK, CkptTypeOK, LoopTypeOK, InMarkLoop, Slot, CkptCopy, Goto
<1>4. BaseOK(c)'
  BY <1>0, <1>1 DEF BaseOK, InBase, Bare, OpOK, HoldOK, TypeOK, OpenTypeOK, ConnTypeOK,
    WriteTypeOK, CkptTypeOK, Hdr, Slot, CkptCopy, Goto, NoHdr
<1>5. MarkOK(c)'
  BY <1>0, <1>1, SlotFacts DEF MarkOK, BaseOK, InBase, Bare, OpOK, HoldOK, TypeOK,
    ShmTypeOK, OpenTypeOK, ConnTypeOK, WriteTypeOK, CkptTypeOK, LoopTypeOK, InMarkLoop,
    Hdr, Slot, CkptCopy, Goto, NoHdr
<1>6. CacheOK(c)'
  BY <1>0, <1>1 DEF CacheOK, Stale, BaseOK, InBase, Bare, OpOK, HoldOK, TypeOK,
    OpenTypeOK, ConnTypeOK, WriteTypeOK, CkptTypeOK, Hdr, CkptCopy, Goto, NoHdr
<1>7. Alone(c)
  BY DEF Alone, Untouched, Granted, TypeOK, LockTypeOK, OpenTypeOK, ConnTypeOK,
    WriteTypeOK, CkptTypeOK, CkptCopy, Goto
<1> QED BY <1>2, <1>3, <1>4, <1>5, <1>6, <1>7 DEF Known

(* The file gets its size under READ(0). *)
LEMMA CkptTruncateKnown ==
  ASSUME TypeOK, NEW c \in Conn, Known(c), CkptTruncate(c)
  PROVE  Known(c)' /\ Alone(c)
<1>0. OpOK(c) /\ HoldOK(c) /\ BaseOK(c) /\ MarkOK(c) /\ CacheOK(c) BY DEF Known
<1>1. hdr0 \in Hdr /\ hdr[c] \in Hdr /\ \A i \in Slot : aReadMark[i] \in Nat
  BY DEF TypeOK, ShmTypeOK, ConnTypeOK
<1>2. OpOK(c)'
  BY <1>0 DEF OpOK, TypeOK, OpenTypeOK, CkptTypeOK, CkptTruncate, Goto
<1>3. HoldOK(c)'
  BY <1>0, SlotFacts DEF OpOK, HoldOK, HasWrite, CkptCopying, TypeOK, LockTypeOK,
    OpenTypeOK, ConnTypeOK, CkptTypeOK, LoopTypeOK, InMarkLoop, Slot, CkptTruncate, Goto
<1>4. BaseOK(c)'
  BY <1>0, <1>1 DEF BaseOK, InBase, Bare, OpOK, HoldOK, TypeOK, OpenTypeOK, ConnTypeOK,
    WriteTypeOK, CkptTypeOK, Hdr, Slot, CkptTruncate, Goto, NoHdr
<1>5. MarkOK(c)'
  BY <1>0, <1>1, SlotFacts DEF MarkOK, BaseOK, InBase, Bare, OpOK, HoldOK, TypeOK,
    ShmTypeOK, OpenTypeOK, ConnTypeOK, WriteTypeOK, CkptTypeOK, LoopTypeOK, InMarkLoop,
    Hdr, Slot, CkptTruncate, Goto, NoHdr
<1>6. CacheOK(c)'
  BY <1>0, <1>1 DEF CacheOK, Stale, BaseOK, InBase, Bare, OpOK, HoldOK, TypeOK,
    OpenTypeOK, ConnTypeOK, WriteTypeOK, CkptTypeOK, Hdr, CkptTruncate, Goto, NoHdr
<1>7. Alone(c)
  BY DEF Alone, Untouched, Granted, TypeOK, LockTypeOK, OpenTypeOK, ConnTypeOK,
    WriteTypeOK, CkptTypeOK, CkptTruncate, Goto
<1> QED BY <1>2, <1>3, <1>4, <1>5, <1>6, <1>7 DEF Known

(* nBackfill is written and READ(0) given back. *)
LEMMA CkptBackfillKnown ==
  ASSUME TypeOK, NEW c \in Conn, Known(c), CkptBackfill(c)
  PROVE  Known(c)' /\ Alone(c)
<1>0. OpOK(c) /\ HoldOK(c) /\ BaseOK(c) /\ MarkOK(c) /\ CacheOK(c) BY DEF Known
<1>1. hdr0 \in Hdr /\ hdr[c] \in Hdr /\ \A i \in Slot : aReadMark[i] \in Nat
  BY DEF TypeOK, ShmTypeOK, ConnTypeOK
<1>2. OpOK(c)'
  BY <1>0 DEF OpOK, TypeOK, OpenTypeOK, CkptTypeOK, CkptBackfill, Goto
<1>3. HoldOK(c)'
  BY <1>0, SlotFacts DEF OpOK, HoldOK, HasWrite, CkptCopying, TypeOK, LockTypeOK,
    OpenTypeOK, ConnTypeOK, CkptTypeOK, LoopTypeOK, InMarkLoop, Slot, CkptBackfill, Goto,
    Unlock, READ, WRITE, CKPT, RECOVER, MarkLocks, ReadLocks
<1>4. BaseOK(c)'
  BY <1>0, <1>1 DEF BaseOK, InBase, Bare, OpOK, HoldOK, TypeOK, OpenTypeOK, ConnTypeOK,
    WriteTypeOK, CkptTypeOK, Hdr, Slot, CkptBackfill, Goto, NoHdr
<1>5. MarkOK(c)'
  BY <1>0, <1>1, SlotFacts DEF MarkOK, BaseOK, InBase, Bare, OpOK, HoldOK, TypeOK,
    ShmTypeOK, OpenTypeOK, ConnTypeOK, WriteTypeOK, CkptTypeOK, LoopTypeOK, InMarkLoop,
    Hdr, Slot, CkptBackfill, Goto, NoHdr
<1>6. CacheOK(c)'
  BY <1>0, <1>1 DEF CacheOK, Stale, BaseOK, InBase, Bare, OpOK, HoldOK, TypeOK,
    OpenTypeOK, ConnTypeOK, WriteTypeOK, CkptTypeOK, Hdr, CkptBackfill, Goto, NoHdr
<1>7. Alone(c)
  BY DEF Alone, Untouched, Granted, TypeOK, LockTypeOK, OpenTypeOK, ConnTypeOK,
    WriteTypeOK, CkptTypeOK, CkptBackfill, Goto, Unlock
<1> QED BY <1>2, <1>3, <1>4, <1>5, <1>6, <1>7 DEF Known

(* The result of the copy is judged. *)
LEMMA CkptTailKnown ==
  ASSUME TypeOK, NEW c \in Conn, Known(c), CkptTail(c)
  PROVE  Known(c)' /\ Alone(c)
<1>0. OpOK(c) /\ HoldOK(c) /\ BaseOK(c) /\ MarkOK(c) /\ CacheOK(c) BY DEF Known
<1>1. hdr0 \in Hdr /\ hdr[c] \in Hdr /\ \A i \in Slot : aReadMark[i] \in Nat
  BY DEF TypeOK, ShmTypeOK, ConnTypeOK
<1>2. OpOK(c)'
  BY <1>0 DEF OpOK, TypeOK, OpenTypeOK, CkptTypeOK, CkptTail, Goto
<1>3. HoldOK(c)'
  BY <1>0, SlotFacts DEF OpOK, HoldOK, HasWrite, CkptCopying, TypeOK, LockTypeOK,
    OpenTypeOK, ConnTypeOK, CkptTypeOK, LoopTypeOK, InMarkLoop, Slot, CkptTail, Goto
<1>4. BaseOK(c)'
  BY <1>0, <1>1 DEF BaseOK, InBase, Bare, OpOK, HoldOK, TypeOK, OpenTypeOK, ConnTypeOK,
    WriteTypeOK, CkptTypeOK, Hdr, Slot, CkptTail, Goto, NoHdr
<1>5. MarkOK(c)'
  BY <1>0, <1>1, SlotFacts DEF MarkOK, BaseOK, InBase, Bare, OpOK, HoldOK, TypeOK,
    ShmTypeOK, OpenTypeOK, ConnTypeOK, WriteTypeOK, CkptTypeOK, LoopTypeOK, InMarkLoop,
    Hdr, Slot, CkptTail, Goto, NoHdr
<1>6. CacheOK(c)'
  BY <1>0, <1>1 DEF CacheOK, Stale, BaseOK, InBase, Bare, OpOK, HoldOK, TypeOK,
    OpenTypeOK, ConnTypeOK, WriteTypeOK, CkptTypeOK, Hdr, CkptTail, Goto, NoHdr
<1>7. Alone(c)
  BY DEF Alone, Untouched, Granted, TypeOK, LockTypeOK, OpenTypeOK, ConnTypeOK,
    WriteTypeOK, CkptTypeOK, CkptTail, Goto
<1> QED BY <1>2, <1>3, <1>4, <1>5, <1>6, <1>7 DEF Known

(* The slot locks are only probed. *)
LEMMA CkptRestartKnown ==
  ASSUME TypeOK, NEW c \in Conn, Known(c), CkptRestart(c)
  PROVE  Known(c)' /\ Alone(c)
<1>0. OpOK(c) /\ HoldOK(c) /\ BaseOK(c) /\ MarkOK(c) /\ CacheOK(c) BY DEF Known
<1>1. hdr0 \in Hdr /\ hdr[c] \in Hdr /\ \A i \in Slot : aReadMark[i] \in Nat
  BY DEF TypeOK, ShmTypeOK, ConnTypeOK
<1>2. OpOK(c)'
  BY <1>0 DEF OpOK, TypeOK, OpenTypeOK, CkptTypeOK, CkptRestart, Goto
<1>3. HoldOK(c)'
  BY <1>0, SlotFacts DEF OpOK, HoldOK, HasWrite, CkptCopying, TypeOK, LockTypeOK,
    OpenTypeOK, ConnTypeOK, CkptTypeOK, LoopTypeOK, InMarkLoop, Slot, CkptRestart, Goto,
    CanExclude, READ, WRITE, CKPT, RECOVER, MarkLocks, ReadLocks
<1>4. BaseOK(c)'
  BY <1>0, <1>1 DEF BaseOK, InBase, Bare, OpOK, HoldOK, TypeOK, OpenTypeOK, ConnTypeOK,
    WriteTypeOK, CkptTypeOK, Hdr, Slot, CkptRestart, Goto, NoHdr
<1>5. MarkOK(c)'
  BY <1>0, <1>1, SlotFacts DEF MarkOK, BaseOK, InBase, Bare, OpOK, HoldOK, TypeOK,
    ShmTypeOK, OpenTypeOK, ConnTypeOK, WriteTypeOK, CkptTypeOK, LoopTypeOK, InMarkLoop,
    Hdr, Slot, CkptRestart, Goto, NoHdr
<1>6. CacheOK(c)'
  BY <1>0, <1>1 DEF CacheOK, Stale, BaseOK, InBase, Bare, OpOK, HoldOK, TypeOK,
    OpenTypeOK, ConnTypeOK, WriteTypeOK, CkptTypeOK, Hdr, CkptRestart, Goto, NoHdr
<1>7. Alone(c)
  BY DEF Alone, Untouched, Granted, TypeOK, LockTypeOK, OpenTypeOK, ConnTypeOK,
    WriteTypeOK, CkptTypeOK, CkptRestart, Goto, CanExclude
<1> QED BY <1>2, <1>3, <1>4, <1>5, <1>6, <1>7 DEF Known

(* An error gives READ(0) back. *)
LEMMA CkptErrorKnown ==
  ASSUME TypeOK, NEW c \in Conn, Known(c), CkptError(c)
  PROVE  Known(c)' /\ Alone(c)
<1>0. OpOK(c) /\ HoldOK(c) /\ BaseOK(c) /\ MarkOK(c) /\ CacheOK(c) BY DEF Known
<1>1. hdr0 \in Hdr /\ hdr[c] \in Hdr /\ \A i \in Slot : aReadMark[i] \in Nat
  BY DEF TypeOK, ShmTypeOK, ConnTypeOK
<1>2. OpOK(c)'
  BY <1>0 DEF OpOK, TypeOK, OpenTypeOK, CkptTypeOK, CkptError, Goto
<1>3. HoldOK(c)'
  BY <1>0, SlotFacts DEF OpOK, HoldOK, HasWrite, CkptCopying, TypeOK, LockTypeOK,
    OpenTypeOK, ConnTypeOK, CkptTypeOK, LoopTypeOK, InMarkLoop, Slot, CkptError, Goto,
    Unlock, READ, WRITE, CKPT, RECOVER, MarkLocks, ReadLocks
<1>4. BaseOK(c)'
  BY <1>0, <1>1 DEF BaseOK, InBase, Bare, OpOK, HoldOK, TypeOK, OpenTypeOK, ConnTypeOK,
    WriteTypeOK, CkptTypeOK, Hdr, Slot, CkptError, Goto, NoHdr
<1>5. MarkOK(c)'
  BY <1>0, <1>1, SlotFacts DEF MarkOK, BaseOK, InBase, Bare, OpOK, HoldOK, TypeOK,
    ShmTypeOK, OpenTypeOK, ConnTypeOK, WriteTypeOK, CkptTypeOK, LoopTypeOK, InMarkLoop,
    Hdr, Slot, CkptError, Goto, NoHdr
<1>6. CacheOK(c)'
  BY <1>0, <1>1 DEF CacheOK, Stale, BaseOK, InBase, Bare, OpOK, HoldOK, TypeOK,
    OpenTypeOK, ConnTypeOK, WriteTypeOK, CkptTypeOK, Hdr, CkptError, Goto, NoHdr
<1>7. Alone(c)
  BY DEF Alone, Untouched, Granted, TypeOK, LockTypeOK, OpenTypeOK, ConnTypeOK,
    WriteTypeOK, CkptTypeOK, CkptError, Goto, Unlock
<1> QED BY <1>2, <1>3, <1>4, <1>5, <1>6, <1>7 DEF Known

(* CKPT and WRITE go back; a reloaded header is forgotten, so the cache is not
   trusted. *)
LEMMA CkptEndKnown ==
  ASSUME TypeOK, NEW c \in Conn, Known(c), CkptEnd(c)
  PROVE  Known(c)' /\ Alone(c)
<1>0. OpOK(c) /\ HoldOK(c) /\ BaseOK(c) /\ MarkOK(c) /\ CacheOK(c) BY DEF Known
<1>1. hdr0 \in Hdr /\ hdr[c] \in Hdr /\ \A i \in Slot : aReadMark[i] \in Nat
  BY DEF TypeOK, ShmTypeOK, ConnTypeOK
<1>2. OpOK(c)'
  BY <1>0 DEF OpOK, TypeOK, OpenTypeOK, CkptTypeOK, CkptEnd, Goto
<1>3. HoldOK(c)'
  BY <1>0, SlotFacts DEF OpOK, HoldOK, HasWrite, CkptCopying, TypeOK, LockTypeOK,
    OpenTypeOK, ConnTypeOK, CkptTypeOK, LoopTypeOK, InMarkLoop, Slot, CkptEnd, Goto,
    Unlock, KeptHdr, READ, WRITE, CKPT, RECOVER, MarkLocks, ReadLocks
<1>4. BaseOK(c)'
  BY <1>0, <1>1 DEF BaseOK, InBase, Bare, OpOK, HoldOK, TypeOK, OpenTypeOK, ConnTypeOK,
    WriteTypeOK, CkptTypeOK, Hdr, Slot, CkptEnd, Goto, KeptHdr, NoHdr
<1>5. MarkOK(c)'
  BY <1>0, <1>1, SlotFacts DEF MarkOK, BaseOK, InBase, Bare, OpOK, HoldOK, TypeOK,
    ShmTypeOK, OpenTypeOK, ConnTypeOK, WriteTypeOK, CkptTypeOK, LoopTypeOK, InMarkLoop,
    Hdr, Slot, CkptEnd, Goto, KeptHdr, NoHdr
<1>6. CacheOK(c)'
  <2>1. /\ pc'[c] = "idle" /\ op'[c] = "none" /\ op[c] = "ckpt" /\ ~changed'[c]
        /\ cacheVer'[c] = cacheVer[c] /\ hdr'[c] = KeptHdr(c)
    BY <1>0 DEF OpOK, TypeOK, OpenTypeOK, ConnTypeOK, CkptEnd, Goto
  <2>2. Stale(c)' BY <1>0, <2>1 DEF CacheOK, Stale, KeptHdr
  <2> QED BY <2>1, <2>2 DEF CacheOK, InBase
<1>7. Alone(c)
  BY DEF Alone, Untouched, Granted, TypeOK, LockTypeOK, OpenTypeOK, ConnTypeOK,
    WriteTypeOK, CkptTypeOK, CkptEnd, Goto, Unlock
<1> QED BY <1>2, <1>3, <1>4, <1>5, <1>6, <1>7 DEF Known

(* A read begins with no lock. *)
LEMMA BeginReadKnown ==
  ASSUME TypeOK, NEW c \in Conn, Known(c), BeginRead(c)
  PROVE  Known(c)' /\ Alone(c)
<1>0. OpOK(c) /\ HoldOK(c) /\ BaseOK(c) /\ MarkOK(c) /\ CacheOK(c) BY DEF Known
<1>1. hdr0 \in Hdr /\ hdr[c] \in Hdr /\ \A i \in Slot : aReadMark[i] \in Nat
  BY DEF TypeOK, ShmTypeOK, ConnTypeOK
<1>2. OpOK(c)'
  BY <1>0 DEF OpOK, TypeOK, OpenTypeOK, CkptTypeOK, BeginRead, Goto
<1>3. HoldOK(c)'
  BY <1>0, SlotFacts DEF OpOK, HoldOK, HasWrite, CkptCopying, TypeOK, LockTypeOK,
    OpenTypeOK, ConnTypeOK, CkptTypeOK, LoopTypeOK, InMarkLoop, Slot, BeginRead, Goto
<1>4. BaseOK(c)'
  BY <1>0, <1>1 DEF BaseOK, InBase, Bare, OpOK, HoldOK, TypeOK, OpenTypeOK, ConnTypeOK,
    WriteTypeOK, CkptTypeOK, Hdr, Slot, BeginRead, Goto, NoHdr
<1>5. MarkOK(c)'
  BY <1>0, <1>1, SlotFacts DEF MarkOK, BaseOK, InBase, Bare, OpOK, HoldOK, TypeOK,
    ShmTypeOK, OpenTypeOK, ConnTypeOK, WriteTypeOK, CkptTypeOK, LoopTypeOK, InMarkLoop,
    Hdr, Slot, BeginRead, Goto, NoHdr
<1>6. CacheOK(c)'
  BY <1>0, <1>1 DEF CacheOK, Stale, BaseOK, InBase, Bare, OpOK, HoldOK, TypeOK,
    OpenTypeOK, ConnTypeOK, WriteTypeOK, CkptTypeOK, Hdr, BeginRead, Goto, NoHdr
<1>7. Alone(c)
  BY DEF Alone, Untouched, Granted, TypeOK, LockTypeOK, OpenTypeOK, ConnTypeOK,
    WriteTypeOK, CkptTypeOK, BeginRead, Goto
<1> QED BY <1>2, <1>3, <1>4, <1>5, <1>6, <1>7 DEF Known

(* The end of a read gives its slot back and keeps header and cache. *)
LEMMA EndReadKnown ==
  ASSUME TypeOK, NEW c \in Conn, Known(c), EndRead(c)
  PROVE  Known(c)' /\ Alone(c)
<1>0. OpOK(c) /\ HoldOK(c) /\ BaseOK(c) /\ MarkOK(c) /\ CacheOK(c) BY DEF Known
<1>1. hdr0 \in Hdr /\ hdr[c] \in Hdr /\ \A i \in Slot : aReadMark[i] \in Nat
  BY DEF TypeOK, ShmTypeOK, ConnTypeOK
<1>2. OpOK(c)'
  BY <1>0 DEF OpOK, TypeOK, OpenTypeOK, CkptTypeOK, EndRead, Goto
<1>3. HoldOK(c)'
  BY <1>0, SlotFacts DEF OpOK, HoldOK, HasWrite, CkptCopying, TypeOK, LockTypeOK,
    OpenTypeOK, ConnTypeOK, CkptTypeOK, LoopTypeOK, InMarkLoop, Slot, EndRead, Goto,
    Unlock, READ, WRITE, CKPT, RECOVER, MarkLocks, ReadLocks
<1>4. BaseOK(c)'
  BY <1>0, <1>1 DEF BaseOK, InBase, Bare, OpOK, HoldOK, TypeOK, OpenTypeOK, ConnTypeOK,
    WriteTypeOK, CkptTypeOK, Hdr, Slot, EndRead, Goto, NoHdr
<1>5. MarkOK(c)'
  BY <1>0, <1>1, SlotFacts DEF MarkOK, BaseOK, InBase, Bare, OpOK, HoldOK, TypeOK,
    ShmTypeOK, OpenTypeOK, ConnTypeOK, WriteTypeOK, CkptTypeOK, LoopTypeOK, InMarkLoop,
    Hdr, Slot, EndRead, Goto, NoHdr
<1>6. CacheOK(c)'
  BY <1>0, <1>1 DEF CacheOK, Stale, BaseOK, InBase, Bare, OpOK, HoldOK, TypeOK,
    OpenTypeOK, ConnTypeOK, WriteTypeOK, CkptTypeOK, Hdr, EndRead, Goto, NoHdr
<1>7. Alone(c)
  BY DEF Alone, Untouched, Granted, TypeOK, LockTypeOK, OpenTypeOK, ConnTypeOK,
    WriteTypeOK, CkptTypeOK, EndRead, Goto, Unlock
<1> QED BY <1>2, <1>3, <1>4, <1>5, <1>6, <1>7 DEF Known

(* A writer starts from the shared header, under WRITE. *)
LEMMA BeginWriteKnown ==
  ASSUME TypeOK, NEW c \in Conn, Known(c), BeginWrite(c)
  PROVE  Known(c)' /\ Alone(c)
<1>0. OpOK(c) /\ HoldOK(c) /\ BaseOK(c) /\ MarkOK(c) /\ CacheOK(c) BY DEF Known
<1>1. hdr0 \in Hdr /\ hdr[c] \in Hdr /\ \A i \in Slot : aReadMark[i] \in Nat
  BY DEF TypeOK, ShmTypeOK, ConnTypeOK
<1>2. OpOK(c)'
  BY <1>0 DEF OpOK, TypeOK, OpenTypeOK, CkptTypeOK, BeginWrite, Goto
<1>3. HoldOK(c)'
  BY <1>0, SlotFacts DEF OpOK, HoldOK, HasWrite, CkptCopying, TypeOK, LockTypeOK,
    OpenTypeOK, ConnTypeOK, CkptTypeOK, LoopTypeOK, InMarkLoop, Slot, BeginWrite, Goto,
    LockExclusive, CanExclude, HdrMoved, READ, WRITE, CKPT, RECOVER, MarkLocks, ReadLocks
<1>4. BaseOK(c)'
  BY <1>0, <1>1 DEF BaseOK, InBase, Bare, OpOK, HoldOK, TypeOK, OpenTypeOK, ConnTypeOK,
    WriteTypeOK, CkptTypeOK, Hdr, Slot, BeginWrite, Goto, HdrMoved, NoHdr
<1>5. MarkOK(c)'
  BY <1>0, <1>1, SlotFacts DEF MarkOK, BaseOK, InBase, Bare, OpOK, HoldOK, TypeOK,
    ShmTypeOK, OpenTypeOK, ConnTypeOK, WriteTypeOK, CkptTypeOK, LoopTypeOK, InMarkLoop,
    Hdr, Slot, BeginWrite, Goto, HdrMoved, NoHdr
<1>6. CacheOK(c)'
  BY <1>0, <1>1 DEF CacheOK, Stale, BaseOK, InBase, Bare, OpOK, HoldOK, TypeOK,
    OpenTypeOK, ConnTypeOK, WriteTypeOK, CkptTypeOK, Hdr, BeginWrite, Goto, HdrMoved,
    NoHdr
<1>7. Alone(c)
  BY DEF Alone, Untouched, Granted, TypeOK, LockTypeOK, OpenTypeOK, ConnTypeOK,
    WriteTypeOK, CkptTypeOK, BeginWrite, Goto, LockExclusive, CanExclude
<1> QED BY <1>2, <1>3, <1>4, <1>5, <1>6, <1>7 DEF Known

(* The pager hands over its pages. *)
LEMMA BeginFramesKnown ==
  ASSUME TypeOK, NEW c \in Conn, Known(c), BeginFrames(c)
  PROVE  Known(c)' /\ Alone(c)
<1>0. OpOK(c) /\ HoldOK(c) /\ BaseOK(c) /\ MarkOK(c) /\ CacheOK(c) BY DEF Known
<1>1. hdr0 \in Hdr /\ hdr[c] \in Hdr /\ \A i \in Slot : aReadMark[i] \in Nat
  BY DEF TypeOK, ShmTypeOK, ConnTypeOK
<1>2. OpOK(c)'
  BY <1>0 DEF OpOK, TypeOK, OpenTypeOK, CkptTypeOK, BeginFrames, Goto
<1>3. HoldOK(c)'
  BY <1>0, SlotFacts DEF OpOK, HoldOK, HasWrite, CkptCopying, TypeOK, LockTypeOK,
    OpenTypeOK, ConnTypeOK, CkptTypeOK, LoopTypeOK, InMarkLoop, Slot, BeginFrames, Goto
<1>4. BaseOK(c)'
  BY <1>0, <1>1 DEF BaseOK, InBase, Bare, OpOK, HoldOK, TypeOK, OpenTypeOK, ConnTypeOK,
    WriteTypeOK, CkptTypeOK, Hdr, Slot, BeginFrames, Goto, NoHdr
<1>5. MarkOK(c)'
  BY <1>0, <1>1, SlotFacts DEF MarkOK, BaseOK, InBase, Bare, OpOK, HoldOK, TypeOK,
    ShmTypeOK, OpenTypeOK, ConnTypeOK, WriteTypeOK, CkptTypeOK, LoopTypeOK, InMarkLoop,
    Hdr, Slot, BeginFrames, Goto, NoHdr
<1>6. CacheOK(c)'
  BY <1>0, <1>1 DEF CacheOK, Stale, BaseOK, InBase, Bare, OpOK, HoldOK, TypeOK,
    OpenTypeOK, ConnTypeOK, WriteTypeOK, CkptTypeOK, Hdr, BeginFrames, Goto, NoHdr
<1>7. Alone(c)
  BY DEF Alone, Untouched, Granted, TypeOK, LockTypeOK, OpenTypeOK, ConnTypeOK,
    WriteTypeOK, CkptTypeOK, BeginFrames, Goto
<1> QED BY <1>2, <1>3, <1>4, <1>5, <1>6, <1>7 DEF Known

(* The private header becomes the shared one; the cache is of that database. *)
LEMMA RollbackKnown ==
  ASSUME TypeOK, NEW c \in Conn, Known(c), Rollback(c)
  PROVE  Known(c)' /\ Alone(c)
<1>0. OpOK(c) /\ HoldOK(c) /\ BaseOK(c) /\ MarkOK(c) /\ CacheOK(c) BY DEF Known
<1>1. hdr0 \in Hdr /\ hdr[c] \in Hdr /\ \A i \in Slot : aReadMark[i] \in Nat
  BY DEF TypeOK, ShmTypeOK, ConnTypeOK
<1>2. OpOK(c)'
  BY <1>0 DEF OpOK, TypeOK, OpenTypeOK, CkptTypeOK, Rollback, ForgetTxn, Goto
<1>3. HoldOK(c)'
  BY <1>0, SlotFacts DEF OpOK, HoldOK, HasWrite, CkptCopying, TypeOK, LockTypeOK,
    OpenTypeOK, ConnTypeOK, CkptTypeOK, LoopTypeOK, InMarkLoop, Slot, Rollback, ForgetTxn,
    Goto, Unlock, READ, WRITE, CKPT, RECOVER, MarkLocks, ReadLocks
<1>4. BaseOK(c)'
  BY <1>0, <1>1 DEF BaseOK, InBase, Bare, OpOK, HoldOK, TypeOK, OpenTypeOK, ConnTypeOK,
    WriteTypeOK, CkptTypeOK, Hdr, Slot, Rollback, ForgetTxn, Goto, NoHdr
<1>5. MarkOK(c)'
  BY <1>0, <1>1, SlotFacts DEF MarkOK, BaseOK, InBase, Bare, OpOK, HoldOK, TypeOK,
    ShmTypeOK, OpenTypeOK, ConnTypeOK, WriteTypeOK, CkptTypeOK, LoopTypeOK, InMarkLoop,
    Hdr, Slot, Rollback, ForgetTxn, Goto, NoHdr
<1>6. CacheOK(c)'
  BY <1>0, <1>1 DEF CacheOK, Stale, BaseOK, InBase, Bare, OpOK, HoldOK, TypeOK,
    OpenTypeOK, ConnTypeOK, WriteTypeOK, CkptTypeOK, Hdr, Rollback, ForgetTxn, Goto, NoHdr
<1>7. Alone(c)
  BY DEF Alone, Untouched, Granted, TypeOK, LockTypeOK, OpenTypeOK, ConnTypeOK,
    WriteTypeOK, CkptTypeOK, Rollback, ForgetTxn, Goto, Unlock
<1> QED BY <1>2, <1>3, <1>4, <1>5, <1>6, <1>7 DEF Known

(* A checkpoint begins with CKPT. *)
LEMMA CkptBeginKnown ==
  ASSUME TypeOK, NEW c \in Conn, Known(c), CkptBegin(c)
  PROVE  Known(c)' /\ Alone(c)
<1>0. OpOK(c) /\ HoldOK(c) /\ BaseOK(c) /\ MarkOK(c) /\ CacheOK(c) BY DEF Known
<1>1. hdr0 \in Hdr /\ hdr[c] \in Hdr /\ \A i \in Slot : aReadMark[i] \in Nat
  BY DEF TypeOK, ShmTypeOK, ConnTypeOK
<1>2. OpOK(c)'
  BY <1>0 DEF OpOK, TypeOK, OpenTypeOK, CkptTypeOK, CkptBegin, Goto
<1>3. HoldOK(c)'
  BY <1>0, SlotFacts DEF OpOK, HoldOK, HasWrite, CkptCopying, TypeOK, LockTypeOK,
    OpenTypeOK, ConnTypeOK, CkptTypeOK, LoopTypeOK, InMarkLoop, Slot, CkptBegin, Goto,
    LockExclusive, CanExclude, READ, WRITE, CKPT, RECOVER, MarkLocks, ReadLocks
<1>4. BaseOK(c)'
  BY <1>0, <1>1 DEF BaseOK, InBase, Bare, OpOK, HoldOK, TypeOK, OpenTypeOK, ConnTypeOK,
    WriteTypeOK, CkptTypeOK, Hdr, Slot, CkptBegin, Goto, NoHdr
<1>5. MarkOK(c)'
  BY <1>0, <1>1, SlotFacts DEF MarkOK, BaseOK, InBase, Bare, OpOK, HoldOK, TypeOK,
    ShmTypeOK, OpenTypeOK, ConnTypeOK, WriteTypeOK, CkptTypeOK, LoopTypeOK, InMarkLoop,
    Hdr, Slot, CkptBegin, Goto, NoHdr
<1>6. CacheOK(c)'
  BY <1>0, <1>1 DEF CacheOK, Stale, BaseOK, InBase, Bare, OpOK, HoldOK, TypeOK,
    OpenTypeOK, ConnTypeOK, WriteTypeOK, CkptTypeOK, Hdr, CkptBegin, Goto, NoHdr
<1>7. Alone(c)
  BY DEF Alone, Untouched, Granted, TypeOK, LockTypeOK, OpenTypeOK, ConnTypeOK,
    WriteTypeOK, CkptTypeOK, CkptBegin, Goto, LockExclusive, CanExclude
<1> QED BY <1>2, <1>3, <1>4, <1>5, <1>6, <1>7 DEF Known

(* A dead process holds no lock and no cache. *)
LEMMA CrashKnown ==
  ASSUME TypeOK, NEW c \in Conn, Known(c), Crash(c)
  PROVE  Known(c)' /\ Alone(c)
<1>0. OpOK(c) /\ HoldOK(c) /\ BaseOK(c) /\ MarkOK(c) /\ CacheOK(c) BY DEF Known
<1>1. hdr0 \in Hdr /\ hdr[c] \in Hdr /\ \A i \in Slot : aReadMark[i] \in Nat
  BY DEF TypeOK, ShmTypeOK, ConnTypeOK
<1>2. OpOK(c)'
  BY <1>0 DEF OpOK, TypeOK, OpenTypeOK, CkptTypeOK, Crash, Goto, ForgetTxn
<1>3. HoldOK(c)'
  BY <1>0, SlotFacts DEF OpOK, HoldOK, HasWrite, CkptCopying, TypeOK, LockTypeOK,
    OpenTypeOK, ConnTypeOK, CkptTypeOK, LoopTypeOK, InMarkLoop, Slot, Crash, Goto,
    ForgetTxn, UnlockAll, Unlock, READ, WRITE, CKPT, RECOVER, MarkLocks, ReadLocks
<1>4. BaseOK(c)'
  BY <1>0, <1>1 DEF BaseOK, InBase, Bare, OpOK, HoldOK, TypeOK, OpenTypeOK, ConnTypeOK,
    WriteTypeOK, CkptTypeOK, Hdr, Slot, Crash, Goto, ForgetTxn, NoHdr, NoVer
<1>5. MarkOK(c)'
  <2>1. pc'[c] = "idle" /\ readLock'[c] = -1 /\ mxMark'[c] = 0
    BY DEF TypeOK, OpenTypeOK, ConnTypeOK, Crash, Goto
  <2> QED BY <2>1 DEF MarkOK
<1>6. CacheOK(c)'
  BY <1>0, <1>1 DEF CacheOK, Stale, BaseOK, InBase, Bare, OpOK, HoldOK, TypeOK,
    OpenTypeOK, ConnTypeOK, WriteTypeOK, CkptTypeOK, Hdr, Crash, Goto, ForgetTxn, NoHdr,
    NoVer
<1>7. Alone(c)
  BY DEF Alone, Untouched, Granted, TypeOK, LockTypeOK, OpenTypeOK, ConnTypeOK,
    WriteTypeOK, CkptTypeOK, Crash, Goto, ForgetTxn, UnlockAll, Unlock
<1> QED BY <1>2, <1>3, <1>4, <1>5, <1>6, <1>7 DEF Known

-----------------------------------------------------------------------------
(* A step of the code, taken together. *)
Step(c) == ConnStep(c) \/ UserStep(c) \/ Crash(c)

(* Every step of c keeps what c counts on and leaves the others' data alone. *)
LEMMA StepKnown ==
  ASSUME TypeOK, NEW c \in Conn, Known(c), Step(c)
  PROVE  Known(c)' /\ Alone(c)
<1>1. ASSUME OpenStep(c) PROVE Known(c)' /\ Alone(c)
  BY <1>1, ReadHdrKnown, LockHdrKnown, RereadHdrKnown, HdrBusyLockKnown, HdrBusyRetryKnown,
     ReadBackfillKnown, LockRead0Known, CheckRead0Known, ScanMarkKnown, GrabMarkKnown,
     SetMarkKnown, LockMarkKnown, CheckMarkKnown DEF OpenStep
<1>2. ASSUME RecoverStep(c) PROVE Known(c)' /\ Alone(c)
  BY <1>2, RecoverLockKnown, RecoverScanKnown, RecoverHdr1Known, RecoverHdr0Known,
     RecoverInfoKnown, RecoverDoneKnown, RecoverErrorKnown DEF RecoverStep
<1>3. ASSUME WriteStep(c) PROVE Known(c)' /\ Alone(c)
  BY <1>3, RestartLockKnown, RestartHdr1Known, RestartHdr0Known, RestartBackfillKnown,
     RestartMarksKnown, LeaveRead0Known, LogHdrKnown, SyncHdrKnown, WriteFrameKnown,
     SyncFramesKnown, IndexFrameKnown, FramesDoneKnown, Publish1Known, Publish0Known,
     EndWriteKnown, FramesErrorKnown DEF WriteStep
<1>4. ASSUME CkptStep(c) PROVE Known(c)' /\ Alone(c)
  BY <1>4, CkptWriteKnown, CkptStartKnown, CkptMarkKnown, CkptMarkLockKnown,
     CkptMarkSetKnown, CkptLock0Known, CkptSyncKnown, CkptCopyKnown, CkptTruncateKnown,
     CkptBackfillKnown, CkptTailKnown, CkptRestartKnown, CkptErrorKnown, CkptEndKnown
     DEF CkptStep
<1>5. ASSUME UserStep(c) PROVE Known(c)' /\ Alone(c)
  BY <1>5, BeginReadKnown, EndReadKnown, BeginWriteKnown, BeginFramesKnown, RollbackKnown,
     CkptBeginKnown DEF UserStep
<1> QED BY <1>1, <1>2, <1>3, <1>4, <1>5, CrashKnown DEF Step, ConnStep

(* A lock that is granted leaves exclusive locks exclusive. *)
LEMMA ExclusionStep ==
  ASSUME TypeOK, LockExclusion, NEW c \in Conn, Alone(c)
  PROVE  LockExclusion'
<1>1. SUFFICES ASSUME NEW a \in Conn, NEW b \in Conn, a # b
               PROVE  exclMask'[a] \cap (sharedMask'[b] \cup exclMask'[b]) = {}
  BY DEF LockExclusion
<1>2. exclMask[a] \cap (sharedMask[b] \cup exclMask[b]) = {} BY <1>1 DEF LockExclusion
<1>3. CASE a # c /\ b # c BY <1>1, <1>2, <1>3 DEF Alone, Untouched
<1>4. CASE a = c BY <1>1, <1>2, <1>4 DEF Alone, Untouched, Granted
<1>5. CASE b = c BY <1>1, <1>2, <1>5 DEF Alone, Untouched, Granted
<1> QED BY <1>3, <1>4, <1>5

(* Only one connection has the write lock; a slot whose lock is exclusive has
   no reader. *)
LEMMA Excluded ==
  ASSUME TypeOK, LockExclusion, NEW c \in Conn, NEW d \in Conn \ {c}, Known(c), Known(d)
  PROVE  /\ HasWrite(c) => ~HasWrite(d)
         /\ readLock[d] # -1 => READ(readLock[d]) \notin exclMask[c]
<1>1. exclMask[c] \cap (sharedMask[d] \cup exclMask[d]) = {} BY DEF LockExclusion
<1> QED BY <1>1 DEF Known, HoldOK

(* A connection whose data a step leaves alone keeps what it counts on, if the
   header moves only while it is not the writer, never below its mark, and its
   mark stays. *)
LEMMA OtherKnown ==
  ASSUME TypeOK, NEW d \in Conn, Known(d), Untouched(d),
         hdr0' # hdr0 => ~HasWrite(d),
         readLock[d] > 0 => /\ hdr0'.mxFrame = hdr0.mxFrame \/ aReadMark[readLock[d]] <= hdr0'.mxFrame
                            /\ aReadMark'[readLock[d]] = aReadMark[readLock[d]]
  PROVE  Known(d)'
<1>0. OpOK(d) /\ HoldOK(d) /\ BaseOK(d) /\ MarkOK(d) /\ CacheOK(d) BY DEF Known
<1>1. OpOK(d)' BY <1>0 DEF OpOK, Untouched
<1>2. HoldOK(d)' BY <1>0 DEF HoldOK, HasWrite, CkptCopying, Untouched
<1>3. BaseOK(d)' BY <1>0 DEF BaseOK, InBase, Bare, HasWrite, Untouched
<1>4. MarkOK(d)' BY <1>0 DEF MarkOK, Untouched
<1>5. CacheOK(d)' BY <1>0 DEF CacheOK, Stale, InBase, HasWrite, Untouched
<1> QED BY <1>1, <1>2, <1>3, <1>4, <1>5 DEF Known

(* The steps that change the shared header or a read mark. *)
LEMMA SharedSteps ==
  ASSUME NEW c \in Conn, Step(c), hdr0' # hdr0 \/ aReadMark' # aReadMark
  PROVE  \/ RecoverHdr0(c) \/ RestartHdr0(c) \/ Publish0(c)
         \/ SetMark(c) \/ RecoverInfo(c) \/ RestartMarks(c) \/ CkptMarkSet(c)
<1>1. ASSUME OpenStep(c) PROVE SetMark(c)
  BY <1>1 DEF OpenStep, ReadHdr, LockHdr, RereadHdr, HdrBusyLock, HdrBusyRetry,
     ReadBackfill, LockRead0, CheckRead0, ScanMark, GrabMark, LockMark, CheckMark
<1>2. ASSUME RecoverStep(c) PROVE RecoverHdr0(c) \/ RecoverInfo(c)
  BY <1>2 DEF RecoverStep, RecoverLock, RecoverScan, RecoverHdr1, RecoverDone, RecoverError
<1>3. ASSUME WriteStep(c) PROVE RestartHdr0(c) \/ RestartMarks(c) \/ Publish0(c)
  BY <1>3 DEF WriteStep, RestartLock, RestartHdr1, RestartBackfill, LeaveRead0, LogHdr,
     SyncHdr, WriteFrame, SyncFrames, IndexFrame, FramesDone, Publish1, EndWrite, FramesError
<1>4. ASSUME CkptStep(c) PROVE CkptMarkSet(c)
  BY <1>4 DEF CkptStep, CkptWrite, CkptStart, CkptMark, CkptMarkLock, CkptLock0, CkptSync,
     CkptCopy, CkptTruncate, CkptBackfill, CkptTail, CkptRestart, CkptError, CkptEnd
<1>5. ~UserStep(c)
  BY DEF UserStep, BeginRead, EndRead, BeginWrite, BeginFrames, Rollback, CkptBegin
<1>6. ~Crash(c) BY DEF Crash
<1> QED BY <1>1, <1>2, <1>3, <1>4, <1>5, <1>6 DEF Step, ConnStep

(* A step of c does not move the header under another writer, nor below the
   mark of a reader, nor the mark of a reader: each is locked. *)
LEMMA SharedLocked ==
  ASSUME TypeOK, LockExclusion, NEW c \in Conn, NEW d \in Conn \ {c}, Known(c), Known(d), Step(c)
  PROVE  /\ hdr0' # hdr0 => ~HasWrite(d)
         /\ readLock[d] > 0 =>
              /\ hdr0'.mxFrame = hdr0.mxFrame \/ aReadMark[readLock[d]] <= hdr0'.mxFrame
              /\ aReadMark'[readLock[d]] = aReadMark[readLock[d]]
<1>0. /\ HasWrite(c) => ~HasWrite(d)
      /\ readLock[d] # -1 => READ(readLock[d]) \notin exclMask[c]
      /\ readLock[d] \in Slot \cup {0, -1} /\ DOMAIN aReadMark = Slot
      /\ slot[c] \in Slot \cup {0}
      /\ aReadMark \in [Slot -> Nat] /\ hdr0.mxFrame \in Nat /\ hdr[c].mxFrame \in Nat
  BY Excluded DEF TypeOK, ConnTypeOK, OpenTypeOK, ShmTypeOK, Hdr
<1>1. readLock[d] > 0 => READ(readLock[d]) \in MarkLocks /\ READ(readLock[d]) \in ReadLocks
  BY <1>0 DEF MarkLocks, ReadLocks, Slot
<1>2. CASE RecoverHdr0(c)
  <2>1. ~(readLock[d] > 0) BY <1>0, <1>1, <1>2 DEF RecoverHdr0, Known, HoldOK, Slot
  <2> QED BY <1>0, <1>2, <2>1 DEF RecoverHdr0, HasWrite
<1>3. CASE RestartHdr0(c)
  <2>1. ~(readLock[d] > 0) BY <1>0, <1>1, <1>3 DEF RestartHdr0, Known, HoldOK, Slot
  <2> QED BY <1>0, <1>3, <2>1 DEF RestartHdr0, HasWrite
<1>4. CASE Publish0(c)
  <2>1. hdr0'.mxFrame > hdr0.mxFrame BY <1>4 DEF Publish0, Known, BaseOK
  <2>2. readLock[d] > 0 => aReadMark[readLock[d]] <= hdr0.mxFrame BY DEF Known, MarkOK
  <2>3. readLock[d] > 0 => aReadMark[readLock[d]] \in Nat BY <1>0 DEF Slot
  <2>4. hdr0'.mxFrame \in Nat BY <1>0, <1>4 DEF Publish0
  <2>5. readLock[d] > 0 => aReadMark[readLock[d]] <= hdr0'.mxFrame
    BY <1>0, <2>1, <2>2, <2>3, <2>4
  <2> QED BY <1>0, <1>4, <2>5 DEF Publish0, HasWrite
<1>5. CASE RecoverInfo(c)
  <2>1. ~(readLock[d] > 0) BY <1>0, <1>1, <1>5 DEF RecoverInfo, Known, HoldOK, Slot
  <2> QED BY <1>0, <1>5, <2>1 DEF RecoverInfo
<1>6. CASE RestartMarks(c)
  <2>1. ~(readLock[d] > 0) BY <1>0, <1>1, <1>6 DEF RestartMarks, Known, HoldOK, Slot
  <2> QED BY <1>0, <1>6, <2>1 DEF RestartMarks
<1>7. CASE SetMark(c) \/ CkptMarkSet(c)
  <2>1. READ(slot[c]) \in exclMask[c] BY <1>7 DEF SetMark, CkptMarkSet, Known, HoldOK
  <2>2. readLock[d] > 0 => readLock[d] # slot[c] BY <1>0, <2>1
  <2>3. UNCHANGED hdr0 BY <1>7 DEF SetMark, CkptMarkSet
  <2>4. PICK m : aReadMark' = [aReadMark EXCEPT ![slot[c]] = m]
    BY <1>7 DEF SetMark, CkptMarkSet
  <2>5. readLock[d] > 0 => readLock[d] \in Slot BY <1>0 DEF Slot
  <2>6. readLock[d] > 0 => aReadMark'[readLock[d]] = aReadMark[readLock[d]]
    BY <1>0, <2>2, <2>4, <2>5
  <2> QED BY <2>3, <2>6
<1>8. CASE UNCHANGED <<hdr0, aReadMark>> BY <1>8
<1> QED BY <1>2, <1>3, <1>4, <1>5, <1>6, <1>7, <1>8, SharedSteps

(* What a step does to the data another connection counts on. *)
LEMMA StepOther ==
  ASSUME TypeOK, LockExclusion, NEW c \in Conn, NEW d \in Conn \ {c}, Known(c), Known(d), Step(c)
  PROVE  Known(d)'
<1>1. Untouched(d) BY StepKnown DEF Alone
<1> QED BY <1>1, SharedLocked, OtherKnown

(* The inductive invariant. *)
LockInv == LockExclusion /\ (\A c \in Conn : Known(c))

(* Power failure empties the shared memory and everything private. *)
LEMMA PowerKnown == ASSUME PowerFail PROVE LockInv'
<1>1. LockExclusion' BY DEF PowerFail, LockExclusion
<1>2. SUFFICES ASSUME NEW c \in Conn PROVE Known(c)' BY <1>1 DEF LockInv
<1>3. OpOK(c)' BY DEF PowerFail, OpOK
<1>4. HoldOK(c)' BY DEF PowerFail, HoldOK, HasWrite, CkptCopying
<1>5. BaseOK(c)' BY DEF PowerFail, BaseOK, InBase, Bare
<1>6. MarkOK(c)' BY DEF PowerFail, MarkOK
<1>7. CacheOK(c)' BY DEF PowerFail, CacheOK, Stale, InBase
<1> QED BY <1>3, <1>4, <1>5, <1>6, <1>7 DEF Known

(* At the start nobody holds a lock or has read anything. *)
LEMMA LockInvInit == Init => LockInv
<1> SUFFICES ASSUME Init PROVE LockInv OBVIOUS
<1>1. LockExclusion BY DEF Init, LockInit, LockExclusion
<1>2. SUFFICES ASSUME NEW c \in Conn PROVE Known(c) BY <1>1 DEF LockInv
<1>3. OpOK(c) BY DEF Init, OpOK
<1>4. HoldOK(c) BY DEF Init, HoldOK, HasWrite, CkptCopying
<1>5. BaseOK(c) BY DEF Init, BaseOK, InBase, Bare
<1>6. MarkOK(c) BY DEF Init, MarkOK
<1>7. CacheOK(c) BY DEF Init, CacheOK, Stale, InBase
<1> QED BY <1>3, <1>4, <1>5, <1>6, <1>7 DEF Known

(* The invariant is inductive. *)
LEMMA LockInvStep == ASSUME TypeOK, LockInv, [Next]_vars PROVE LockInv'
<1>1. CASE UNCHANGED vars
  <2>1. LockExclusion' BY <1>1 DEF vars, LockInv, LockExclusion
  <2>2. SUFFICES ASSUME NEW c \in Conn PROVE Known(c)' BY <2>1 DEF LockInv
  <2>3. Untouched(c) /\ UNCHANGED <<hdr0, aReadMark>> BY <1>1 DEF vars, Untouched
  <2> QED BY <2>3, OtherKnown DEF LockInv
<1>2. CASE PowerFail BY <1>2, PowerKnown
<1>3. ASSUME NEW c \in Conn, Step(c) PROVE LockInv'
  <2>1. Known(c)' /\ Alone(c) BY <1>3, StepKnown DEF LockInv
  <2>2. LockExclusion' BY <2>1, ExclusionStep DEF LockInv
  <2>3. ASSUME NEW d \in Conn \ {c} PROVE Known(d)' BY <1>3, StepOther DEF LockInv
  <2> QED BY <2>1, <2>2, <2>3 DEF LockInv
<1> QED BY <1>1, <1>2, <1>3 DEF Next, Step

-----------------------------------------------------------------------------
(* Locks: an exclusive lock is nobody else's, and every connection holds,
   wherever it stands, the locks that the code there relies on: one writer,
   one checkpointer, a recovery without readers, a reader with its slot. *)
THEOREM LockSafe == Spec => []LockInv
<1>1. TypeOK /\ LockInv /\ [Next]_vars => LockInv' BY LockInvStep
<1> QED BY <1>1, LockInvInit, TypeCorrect, PTL DEF Spec

(* wal.c 329: the mark of a slot is no greater than mxFrame of its readers. *)
THEOREM ReadMarksSafe == Spec => []ReadMarkSafe
<1>1. LockInv => ReadMarkSafe BY DEF LockInv, Known, MarkOK, ReadMarkSafe
<1> QED BY <1>1, LockSafe, PTL

(* wal.c 3172: the page cache a transaction starts from is of its snapshot. *)
THEOREM CachesFresh == Spec => []CacheFresh
<1>1. LockInv => CacheFresh BY DEF LockInv, Known, CacheOK, CacheFresh
<1> QED BY <1>1, LockSafe, PTL

(* wal.c 338: a read mark changes only under the exclusive lock of its slot,
   so never while a reader relies on it. *)
THEOREM ReadMarksStable == Spec => ReadMarkStable
<1> DEFINE Held(c) == (readLock[c] > 0 /\ readLock'[c] = readLock[c])
                         => aReadMark'[readLock[c]] = aReadMark[readLock[c]]
<1>1. ASSUME TypeOK, LockInv, [Next]_vars PROVE [\A c \in Conn : Held(c)]_vars
  <2>1. CASE UNCHANGED vars BY <2>1
  <2>2. CASE PowerFail
    <3>1. \A c \in Conn : readLock'[c] = -1 BY <2>2 DEF PowerFail
    <3> QED BY <3>1
  <2>3. ASSUME NEW c \in Conn, Step(c), NEW d \in Conn PROVE Held(d)
    <3>1. CASE d # c
      <4>1. d \in Conn \ {c} /\ Known(c) /\ Known(d) /\ LockExclusion
        BY <1>1, <2>3, <3>1 DEF LockInv
      <4> QED BY <1>1, <2>3, <4>1, SharedLocked
    <3>2. CASE d = c
      <4>1. SUFFICES ASSUME readLock[c] > 0, aReadMark' # aReadMark PROVE readLock'[c] # readLock[c]
        BY <3>2
      <4>2. HoldOK(c) /\ readLock[c] # -1 BY <1>1, <2>3, <4>1 DEF LockInv, Known
      <4>3. RestartMarks(c)
        BY <1>1, <2>3, <4>1, <4>2, SharedSteps
           DEF HoldOK, RecoverHdr0, RestartHdr0, Publish0, SetMark, RecoverInfo, CkptMarkSet
      <4> QED BY <4>1, <4>2, <4>3 DEF RestartMarks, HoldOK
    <3> QED BY <3>1, <3>2
  <2> QED BY <1>1, <2>1, <2>2, <2>3 DEF Next, Step
<1>2. TypeOK /\ LockInv /\ [Next]_vars => [\A c \in Conn : Held(c)]_vars BY <1>1
<1> QED BY <1>2, TypeCorrect, LockSafe, PTL DEF Spec, ReadMarkStable
=============================================================================
