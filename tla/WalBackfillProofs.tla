--------------------------- MODULE WalBackfillProofs ---------------------------
(***************************************************************************)
(* The log and how much of it is in the database file, for any number of   *)
(* connections, slots, frames, transactions and failures.                  *)
(*                                                                         *)
(* LogKnownInv (at the end) holds with everything the code can do: what    *)
(* the shared header publishes is in the log, and the frames of an open    *)
(* snapshot stay as they are.  BackfillInv is about nBackfill: that a      *)
(* checkpoint never copies past a reader.  It holds without the three      *)
(* races of module Wal (AllowRestartRace, AllowRestartCrash and            *)
(* AllowRecoverRace), which break it; process deaths, losses of power and  *)
(* I/O errors are not assumed away.                                        *)
(*                                                                         *)
(* FillKnown(c) is what connection c can count on besides Known(c) of      *)
(* module WalLockProofs.  Each of its parts is shown to survive a step of  *)
(* c (lemmas ...Own) and a step of another connection (lemmas ...Other).   *)
(***************************************************************************)
EXTENDS WalLockProofs, FiniteSetTheorems

-----------------------------------------------------------------------------
(* What the invariant says. *)

Writing == {"syncHdr", "frames", "syncFrames", "index", "framesDone"}
Loading == {"readBackfill", "lockRead0", "checkRead0"}
RecHdrPlaces == {"recHdr1", "recHdr0"}
RestartHdrs == {"restartHdr1", "restartHdr0"}
Marking == {"ckMark", "ckMarkLock", "ckMarkSet"}
CkGoing == Marking \cup {"ckLock0", "ckSync", "ckCopy", "ckTruncate", "ckBackfill"}

(* The first n frames of the log file are a log of salt s that ends in the
   checksum e. *)
Chain(wl, s, n) ==
    \A i \in FrameNo : i <= n =>
        /\ wl[i].pg # 0 /\ wl[i].salt = s
        /\ wl[i].prev = IF i = 1 THEN 0 ELSE wl[i - 1].txn
LogOf(s, n, e) ==
    /\ n <= MaxFrame /\ walHdr.ok /\ walHdr.salt = s /\ Chain(wal, s, n)
    /\ e = IF n = 0 THEN 0 ELSE wal[n].txn

(* The shared headers, the log they stand for and nBackfill. *)
SaltInv ==
    /\ hdr0.salt < nextSalt /\ walHdr.salt < nextSalt
    /\ \A h \in walHdrOld : h.salt < nextSalt
    /\ (hdr0 # hdr1 \/ ~hdr0.isInit) => hdr0.salt <= walHdr.salt
LogInv ==
    hdr0.mxFrame > 0 => /\ LogOf(hdr0.salt, hdr0.mxFrame, hdr0.cksum)
                        /\ wal[hdr0.mxFrame].size # 0
FillInv == nBackfill <= hdr0.mxFrame \/ \E c \in Conn : pc[c] = "restartBackfill"

(* The private header against the shared ones. *)
InitOK(c) ==
    /\ pc[c] \in Loading \cup Opening \cup {"open"} \cup TxnPlaces => hdr[c].isInit /\ hdr0.isInit
    /\ pc[c] = "failed" => hdr0.isInit
    /\ pc[c] \in {"publish0", "restartHdr0", "recHdr0"} => hdr1 = hdr[c]
    /\ pc[c] \in {"recInfo", "recDone"} => hdr[c] = hdr0
SaltOK(c) ==
    /\ InBase(c) \/ pc[c] \in PublishPlaces => hdr0.salt <= hdr[c].salt /\ hdr[c].salt < nextSalt
    /\ pc[c] \in RestartHdrs => hdr0.salt < hdr[c].salt /\ hdr[c].salt < nextSalt
    /\ pc[c] \in {"recover", "recScan"} \cup RecHdrPlaces => hdr0.salt <= walHdr.salt
    /\ pc[c] \in RecHdrPlaces => hdr[c].salt = walHdr.salt /\ hdr0.mxFrame <= hdr[c].mxFrame

(* The frames a writer has written, or a recovery has read. *)
Top(c) == IF pc[c] \in Writing THEN iFrame[c] ELSE hdr[c].mxFrame
HasLog(c) ==
    \/ pc[c] \in Writing \cup PublishPlaces
    \/ pc[c] \in {"write", "logHdr"} \cup RecHdrPlaces /\ hdr[c].mxFrame > 0
ChainOK(c) ==
    /\ HasLog(c) => LogOf(hdr[c].salt, Top(c), hdr[c].cksum)
    /\ pc[c] \in {"syncFrames", "index", "framesDone"} => Top(c) > 0 /\ wal[Top(c)].size = newSize[c]
    /\ pc[c] \in PublishPlaces \cup RecHdrPlaces /\ hdr[c].mxFrame > 0 => wal[hdr[c].mxFrame].size # 0
RoomOK(c) ==
    /\ op[c] = "frames" \/ pc[c] \in {"restart", "leaveRead0", "logHdr"} \cup RestartPlaces =>
          hdr[c].mxFrame + Cardinality(todo[c]) <= MaxFrame
    /\ pc[c] \in {"syncHdr", "frames"} => iFrame[c] + Cardinality(todo[c]) <= MaxFrame

(* nBackfill as a connection that bypasses the log, or restarts it, needs it. *)
Bypassing(c) == pc[c] \in {"lockRead0", "checkRead0"} \/ (pc[c] = "open" /\ readLock[c] = 0)
BypassOK(c) ==
    /\ Bypassing(c) \/ pc[c] = "readBackfill" =>
          /\ hdr[c].salt <= hdr0.salt
          /\ hdr[c].salt = hdr0.salt => hdr[c].mxFrame <= hdr0.mxFrame
    /\ Bypassing(c) /\ hdr[c].salt = hdr0.salt /\ hdr[c].mxFrame = hdr0.mxFrame =>
          nBackfill = hdr0.mxFrame
    /\ pc[c] = "restart" \/ (pc[c] = "write" /\ readLock[c] = 0) => nBackfill = hdr0.mxFrame
    /\ pc[c] \in RestartHdrs => nBackfill = hdr0.mxFrame /\ hdr0.mxFrame > 0
    /\ pc[c] = "restartBackfill" => hdr0.mxFrame = 0

(* The target of a checkpointer. *)
TargetOK(c) ==
    /\ pc[c] = "ckStart" => hdr[c].mxFrame <= hdr0.mxFrame \/ hdr[c].mxFrame <= nBackfill
    /\ pc[c] \in CkGoing => /\ hdr[c].mxFrame <= hdr0.mxFrame /\ nBackfill < hdr[c].mxFrame
                            /\ mxSafe[c] <= hdr[c].mxFrame
    /\ CkptCopying(c) => nBackfill < mxSafe[c]
    /\ pc[c] = "ckMarkLock" => mxMark[c] < mxSafe[c]

(* Checkpointer c has passed slot j, and found reader d, or found the slot free. *)
Passed(c, j) == pc[c] \in CkGoing /\ (pc[c] \in Marking => j < slot[c])
ClearOK(c, d) ==
    /\ readLock[d] > 0 /\ Passed(c, readLock[d]) => mxSafe[c] <= hdr[d].mxFrame
    /\ pc[c] = "ckMarkLock" /\ readLock[d] = slot[c] => mxMark[c] <= hdr[d].mxFrame

FillKnown(c) == InitOK(c) /\ SaltOK(c) /\ ChainOK(c) /\ RoomOK(c) /\ BypassOK(c) /\ TargetOK(c)
BackfillInv ==
    /\ SaltInv /\ LogInv /\ FillInv
    /\ \A c \in Conn : FillKnown(c)
    /\ \A c, d \in Conn : ClearOK(c, d)

NoRaces == ~AllowRestartRace /\ ~AllowRestartCrash /\ ~AllowRecoverRace

USE DEF lockVars, shmVars, fileVars, openVars, connVars, writeVars, ckptVars, ghostVars,
        boundVars, Opening, RecPlaces, HdrPlaces, Read0Places, RestartPlaces, FramePlaces,
        PublishPlaces, TxnPlaces, CkptPlaces, MarkPlaces,
        Writing, Loading, RecHdrPlaces, RestartHdrs, Marking, CkGoing

-----------------------------------------------------------------------------
(* Which steps change what is shared. *)

(* The copies of the header are written by recovery, restart and commit. *)
LEMMA HeaderSteps ==
  ASSUME NEW c \in Conn, Step(c)
  PROVE  /\ hdr0' # hdr0 => RecoverHdr0(c) \/ RestartHdr0(c) \/ Publish0(c)
         /\ hdr1' # hdr1 => RecoverHdr1(c) \/ RestartHdr1(c) \/ Publish1(c)
<1>1. ASSUME OpenStep(c) PROVE UNCHANGED <<hdr0, hdr1>>
  BY <1>1 DEF OpenStep, ReadHdr, LockHdr, RereadHdr, HdrBusyLock, HdrBusyRetry,
     ReadBackfill, LockRead0, CheckRead0, ScanMark, GrabMark, SetMark, LockMark, CheckMark
<1>2. ASSUME RecoverStep(c), ~RecoverHdr0(c), ~RecoverHdr1(c) PROVE UNCHANGED <<hdr0, hdr1>>
  BY <1>2 DEF RecoverStep, RecoverLock, RecoverScan, RecoverInfo, RecoverDone, RecoverError
<1>3. ASSUME WriteStep(c), ~RestartHdr0(c), ~RestartHdr1(c), ~Publish0(c), ~Publish1(c)
      PROVE  UNCHANGED <<hdr0, hdr1>>
  BY <1>3 DEF WriteStep, RestartLock, RestartBackfill, RestartMarks, LeaveRead0, LogHdr,
     SyncHdr, WriteFrame, SyncFrames, IndexFrame, FramesDone, EndWrite, FramesError
<1>4. ASSUME CkptStep(c) PROVE UNCHANGED <<hdr0, hdr1>>
  BY <1>4 DEF CkptStep, CkptWrite, CkptStart, CkptMark, CkptMarkLock, CkptMarkSet, CkptLock0,
     CkptSync, CkptCopy, CkptTruncate, CkptBackfill, CkptTail, CkptRestart, CkptError, CkptEnd
<1>5. ASSUME UserStep(c) PROVE UNCHANGED <<hdr0, hdr1>>
  BY <1>5 DEF UserStep, BeginRead, EndRead, BeginWrite, BeginFrames, Rollback, CkptBegin
<1>6. ASSUME Crash(c) PROVE UNCHANGED <<hdr0, hdr1>> BY <1>6 DEF Crash
<1>7. /\ RecoverHdr0(c) \/ RestartHdr0(c) \/ Publish0(c) => UNCHANGED hdr1
      /\ RecoverHdr1(c) \/ RestartHdr1(c) \/ Publish1(c) => UNCHANGED hdr0
  BY DEF RecoverHdr0, RestartHdr0, Publish0, RecoverHdr1, RestartHdr1, Publish1
<1> QED BY <1>1, <1>2, <1>3, <1>4, <1>5, <1>6, <1>7 DEF Step, ConnStep

(* nBackfill is written by checkpoint, restart and recovery. *)
LEMMA FillSteps ==
  ASSUME NEW c \in Conn, Step(c), nBackfill' # nBackfill
  PROVE  CkptBackfill(c) \/ RestartBackfill(c) \/ RecoverInfo(c)
<1>1. ASSUME OpenStep(c) PROVE FALSE
  BY <1>1 DEF OpenStep, ReadHdr, LockHdr, RereadHdr, HdrBusyLock, HdrBusyRetry,
     ReadBackfill, LockRead0, CheckRead0, ScanMark, GrabMark, SetMark, LockMark, CheckMark
<1>2. ASSUME RecoverStep(c) PROVE RecoverInfo(c)
  BY <1>2 DEF RecoverStep, RecoverLock, RecoverScan, RecoverHdr1, RecoverHdr0, RecoverDone,
     RecoverError
<1>3. ASSUME WriteStep(c) PROVE RestartBackfill(c)
  BY <1>3 DEF WriteStep, RestartLock, RestartHdr1, RestartHdr0, RestartMarks, LeaveRead0,
     LogHdr, SyncHdr, WriteFrame, SyncFrames, IndexFrame, FramesDone, Publish1, Publish0,
     EndWrite, FramesError
<1>4. ASSUME CkptStep(c) PROVE CkptBackfill(c)
  BY <1>4 DEF CkptStep, CkptWrite, CkptStart, CkptMark, CkptMarkLock, CkptMarkSet, CkptLock0,
     CkptSync, CkptCopy, CkptTruncate, CkptTail, CkptRestart, CkptError, CkptEnd
<1>5. ~UserStep(c)
  BY DEF UserStep, BeginRead, EndRead, BeginWrite, BeginFrames, Rollback, CkptBegin
<1>6. ~Crash(c) BY DEF Crash
<1> QED BY <1>1, <1>2, <1>3, <1>4, <1>5, <1>6 DEF Step, ConnStep

(* The log is written by the writer of a transaction. *)
LEMMA LogSteps ==
  ASSUME NEW c \in Conn, Step(c), wal' # wal \/ walHdr' # walHdr
  PROVE  LogHdr(c) \/ WriteFrame(c)
<1>1. ~OpenStep(c)
  BY DEF OpenStep, ReadHdr, LockHdr, RereadHdr, HdrBusyLock, HdrBusyRetry,
     ReadBackfill, LockRead0, CheckRead0, ScanMark, GrabMark, SetMark, LockMark, CheckMark
<1>2. ~RecoverStep(c)
  BY DEF RecoverStep, RecoverLock, RecoverScan, RecoverHdr1, RecoverHdr0, RecoverInfo,
     RecoverDone, RecoverError
<1>3. ASSUME WriteStep(c) PROVE LogHdr(c) \/ WriteFrame(c)
  BY <1>3 DEF WriteStep, RestartLock, RestartHdr1, RestartHdr0, RestartBackfill, RestartMarks,
     LeaveRead0, SyncHdr, SyncFrames, IndexFrame, FramesDone, Publish1, Publish0,
     EndWrite, FramesError
<1>4. ~CkptStep(c)
  BY DEF CkptStep, CkptWrite, CkptStart, CkptMark, CkptMarkLock, CkptMarkSet, CkptLock0,
     CkptSync, CkptCopy, CkptTruncate, CkptBackfill, CkptTail, CkptRestart, CkptError, CkptEnd
<1>5. ~UserStep(c)
  BY DEF UserStep, BeginRead, EndRead, BeginWrite, BeginFrames, Rollback, CkptBegin
<1>6. ~Crash(c) BY DEF Crash
<1> QED BY <1>1, <1>2, <1>3, <1>4, <1>5, <1>6 DEF Step, ConnStep

(* Salts are drawn by a restart and by a new log; the old log headers that a
   crash may leave behind are forgotten by a sync. *)
LEMMA SaltSteps ==
  ASSUME NEW c \in Conn, Step(c), nextSalt' # nextSalt \/ walHdrOld' # walHdrOld
  PROVE  RestartLock(c) \/ LogHdr(c) \/ (UNCHANGED nextSalt /\ walHdrOld' = {})
<1>1. ~OpenStep(c)
  BY DEF OpenStep, ReadHdr, LockHdr, RereadHdr, HdrBusyLock, HdrBusyRetry,
     ReadBackfill, LockRead0, CheckRead0, ScanMark, GrabMark, SetMark, LockMark, CheckMark
<1>2. ~RecoverStep(c)
  BY DEF RecoverStep, RecoverLock, RecoverScan, RecoverHdr1, RecoverHdr0, RecoverInfo,
     RecoverDone, RecoverError
<1>3. ASSUME WriteStep(c), ~RestartLock(c), ~LogHdr(c) PROVE UNCHANGED nextSalt /\ walHdrOld' = {}
  BY <1>3 DEF WriteStep, RestartHdr1, RestartHdr0, RestartBackfill, RestartMarks, SyncWal,
     LeaveRead0, SyncHdr, WriteFrame, SyncFrames, IndexFrame, FramesDone, Publish1, Publish0,
     EndWrite, FramesError
<1>4. ASSUME CkptStep(c) PROVE UNCHANGED nextSalt /\ walHdrOld' = {}
  BY <1>4 DEF CkptStep, CkptWrite, CkptStart, CkptMark, CkptMarkLock, CkptMarkSet, CkptLock0,
     CkptSync, CkptCopy, CkptTruncate, CkptBackfill, CkptTail, CkptRestart, CkptError, CkptEnd,
     SyncWal
<1>5. ~UserStep(c)
  BY DEF UserStep, BeginRead, EndRead, BeginWrite, BeginFrames, Rollback, CkptBegin
<1>6. ~Crash(c) BY DEF Crash
<1> QED BY <1>1, <1>2, <1>3, <1>4, <1>5, <1>6 DEF Step, ConnStep

(* While one connection has WAL_WRITE_LOCK, no other changes header or log. *)
LEMMA WriterAlone ==
  ASSUME TypeOK, LockInv, NEW c \in Conn, NEW d \in Conn \ {c}, Step(c), HasWrite(d)
  PROVE  UNCHANGED <<hdr0, hdr1, wal, walHdr, nextSalt>>
<1>1. ~HasWrite(c) BY Excluded DEF LockInv
<1>2. ~RecoverHdr0(c) /\ ~RestartHdr0(c) /\ ~Publish0(c) /\ ~RecoverHdr1(c)
      /\ ~RestartHdr1(c) /\ ~Publish1(c)
  BY <1>1 DEF HasWrite, RecoverHdr0, RestartHdr0, Publish0, RecoverHdr1, RestartHdr1, Publish1
<1>3. ~LogHdr(c) /\ ~WriteFrame(c) /\ ~RestartLock(c)
  BY <1>1 DEF HasWrite, LogHdr, WriteFrame, RestartLock
<1> QED BY <1>2, <1>3, HeaderSteps, LogSteps, SaltSteps

(* While a connection has WAL_READ_LOCK(0), no checkpoint sets nBackfill; nor
   does any other connection while it has WAL_WRITE_LOCK too. *)
LEMMA BypassAlone ==
  ASSUME TypeOK, LockInv, NEW c \in Conn, NEW d \in Conn \ {c}, Step(c),
         READ(0) \in sharedMask[d]
  PROVE  /\ nBackfill' # nBackfill => RestartBackfill(c)
         /\ HasWrite(d) => UNCHANGED nBackfill
<1>1. exclMask[c] \cap sharedMask[d] = {} BY DEF LockInv, LockExclusion
<1>2. ~CkptBackfill(c) BY <1>1 DEF CkptBackfill, LockInv, Known, HoldOK, CkptCopying
<1>3. ~RecoverInfo(c) BY <1>1 DEF RecoverInfo, LockInv, Known, HoldOK, ReadLocks
<1>4. HasWrite(d) => ~RestartBackfill(c)
  BY Excluded DEF LockInv, HasWrite, RestartBackfill
<1> QED BY <1>2, <1>3, <1>4, FillSteps

-----------------------------------------------------------------------------
(* The parts of the invariant, each under a step of its connection and under a
   step of another one. *)

(* The private variables are functions of the connection. *)
LEMMA Shapes ==
  ASSUME TypeOK
  PROVE  /\ pc \in [Conn -> PcSet] /\ hdr \in [Conn -> Hdr]
         /\ op \in [Conn -> {"none", "read", "frames", "ckpt"}]
         /\ readLock \in [Conn -> Slot \cup {0, -1}] /\ slot \in [Conn -> Slot \cup {0}]
         /\ iFrame \in [Conn -> Nat] /\ mxSafe \in [Conn -> Nat] /\ mxMark \in [Conn -> Nat]
         /\ todo \in [Conn -> SUBSET Page] /\ newSize \in [Conn -> Nat]
         /\ hdr0 \in Hdr /\ hdr1 \in Hdr /\ nBackfill \in Nat /\ nextSalt \in Nat
         /\ wal \in [FrameNo -> Frame] /\ walHdr \in WalHdr
BY DEF TypeOK, OpenTypeOK, ConnTypeOK, WriteTypeOK, CkptTypeOK, ShmTypeOK, FileTypeOK,
       BoundTypeOK

(* walIndexTryHdr() loads a good header, or leads to a lock, then to recovery. *)
LEMMA LoadView ==
  ASSUME TypeOK, NEW c \in Conn, ReadHdr(c) \/ RereadHdr(c)
  PROVE  /\ UNCHANGED <<shmVars, fileVars, op, readLock, writeVars, ckptVars, boundVars>>
         /\ \/ /\ hdr0 = hdr1 /\ hdr0.isInit /\ hdr'[c] = hdr0
               /\ pc'[c] = IF op[c] = "read" THEN "readBackfill" ELSE "ckStart"
            \/ /\ hdr0 # hdr1 \/ ~hdr0.isInit
               /\ hdr'[c] = hdr[c]
               /\ pc'[c] = IF pc[c] = "readHdr" THEN "lockHdr" ELSE "recover"
<1>1. UNCHANGED <<shmVars, fileVars, op, readLock, writeVars, ckptVars, boundVars>>
  BY DEF ReadHdr, RereadHdr
<1>2. CASE HdrGood
  BY <1>1, <1>2, Shapes DEF ReadHdr, RereadHdr, HdrGood, LoadHdr, AfterHdr, Goto
<1>3. CASE ~HdrGood
  BY <1>1, <1>3, Shapes DEF ReadHdr, RereadHdr, HdrGood, Goto
<1> QED BY <1>2, <1>3

(* WAL_RETRY starts the attempt again or ends the call. *)
LEMMA RetryView ==
  ASSUME TypeOK, NEW c \in Conn, Retry(c), op[c] \in {"read", "frames"}
  PROVE  \/ op[c] = "read" /\ pc'[c] = "idle" /\ op'[c] = "none"
         \/ op[c] = "read" /\ pc'[c] = "readHdr" /\ op'[c] = "read"
         \/ op[c] = "frames" /\ pc'[c] = "failed" /\ op'[c] = "none"
         \/ op[c] = "frames" /\ pc'[c] = "scan" /\ op'[c] = "frames"
<1>1. CASE cnt[c] >= MaxRetry BY <1>1, Shapes DEF Retry, OpenFails, Goto
<1>2. CASE ~(cnt[c] >= MaxRetry) BY <1>2, Shapes DEF Retry, Goto
<1> QED BY <1>1, <1>2

(* A snapshot is open, or sqlite3WalFrames() goes on. *)
LEMMA OpenedView ==
  ASSUME TypeOK, NEW c \in Conn, NEW i, Opened(c, i), op[c] \in {"read", "frames"}
  PROVE  /\ readLock'[c] = i /\ op'[c] = "none"
         /\ pc'[c] = IF op[c] = "read" THEN "open" ELSE "logHdr"
BY Shapes DEF Opened, Goto

(* The checks under the lock that end an attempt to open a snapshot. *)
LEMMA CheckView ==
  ASSUME TypeOK, NEW c \in Conn, Known(c), CheckRead0(c) \/ CheckMark(c)
  PROVE  /\ UNCHANGED <<hdr, shmVars, fileVars, writeVars, ckptVars, boundVars>>
         /\ \/ UNCHANGED readLock /\ Retry(c)
            \/ /\ hdr[c] = hdr0 /\ op'[c] = "none"
               /\ pc'[c] = IF op[c] = "read" THEN "open" ELSE "logHdr"
               /\ pc[c] = "checkRead0" => readLock'[c] = 0
               /\ pc[c] = "checkMark" => readLock'[c] = mxI[c] /\ mxI[c] \in Slot
         /\ op[c] \in {"read", "frames"}
<1>1. op[c] \in {"read", "frames"}
  BY Shapes DEF Known, OpOK, CheckRead0, CheckMark
<1>2. pc[c] = "checkMark" => mxI[c] \in Slot BY DEF Known, HoldOK
<1>3. CASE CheckRead0(c)
  BY <1>1, <1>3, OpenedView DEF CheckRead0, HdrMoved
<1>4. CASE CheckMark(c)
  BY <1>1, <1>2, <1>4, OpenedView DEF CheckMark, MarkMoved, HdrMoved
<1> QED BY <1>3, <1>4

(* walRestartLog() draws a salt under the locks of all marks, or goes on. *)
LEMMA RestartLockView ==
  ASSUME TypeOK, NEW c \in Conn, RestartLock(c)
  PROVE  /\ UNCHANGED <<shmVars, fileVars, op, readLock, writeVars, ckptVars>>
         /\ hdr'[c].isInit = hdr[c].isInit /\ pc[c] = "restart"
         /\ \/ /\ pc'[c] = "restartHdr1" /\ nBackfill > 0 /\ nextSalt' = nextSalt + 1
               /\ hdr'[c].mxFrame = 0 /\ hdr'[c].salt = nextSalt
            \/ pc'[c] = "leaveRead0" /\ UNCHANGED <<hdr, nextSalt>>
<1>1. hdr[c] \in Hdr BY Shapes
<1> QED BY <1>1, Shapes DEF RestartLock, Goto, Hdr

(* The header of the log is written, or not touched. *)
LEMMA LogHdrView ==
  ASSUME TypeOK, NEW c \in Conn, LogHdr(c)
  PROVE  /\ UNCHANGED <<shmVars, wal, op, readLock, todo, newSize, ckptVars>>
         /\ hdr'[c].isInit = hdr[c].isInit /\ hdr'[c].mxFrame = hdr[c].mxFrame
         /\ pc[c] = "logHdr" /\ pc'[c] \in {"syncHdr", "frames"} /\ iFrame'[c] = hdr[c].mxFrame
         /\ hdr[c].mxFrame # 0 => UNCHANGED <<hdr, walHdr, walHdrOld, nextSalt>>
         /\ hdr[c].mxFrame = 0 =>
              /\ walHdr'.ok /\ walHdr'.salt = hdr'[c].salt /\ hdr'[c].cksum = 0
              /\ walHdrOld' = walHdrOld \cup {walHdr, NoWalHdr}
              /\ \/ hdr'[c].salt = hdr[c].salt /\ nextSalt' = nextSalt
                 \/ hdr'[c].salt = nextSalt /\ nextSalt' = nextSalt + 1
<1>1. hdr[c] \in Hdr BY Shapes
<1>2. CASE hdr[c].mxFrame # 0 BY <1>2, Shapes DEF LogHdr, Goto
<1>3. CASE hdr[c].mxFrame = 0
  <2>1. PICK s : /\ s = IF reset[c] THEN hdr[c].salt ELSE nextSalt
                 /\ walHdr' = [salt |-> s, ckpt |-> reset[c], ok |-> TRUE]
                 /\ hdr' = [hdr EXCEPT ![c].salt = s, ![c].cksum = 0]
                 /\ nextSalt' = IF reset[c] THEN nextSalt ELSE nextSalt + 1
    BY <1>3 DEF LogHdr
  <2>2. /\ hdr'[c].salt = s /\ hdr'[c].cksum = 0 /\ hdr'[c].isInit = hdr[c].isInit
        /\ hdr'[c].mxFrame = hdr[c].mxFrame
    BY <1>1, <2>1, Shapes DEF Hdr
  <2>3. walHdr'.ok /\ walHdr'.salt = s BY <2>1
  <2>4. \/ s = hdr[c].salt /\ nextSalt' = nextSalt
        \/ s = nextSalt /\ nextSalt' = nextSalt + 1
    BY <2>1
  <2>5. /\ UNCHANGED <<shmVars, wal, op, readLock, todo, newSize, ckptVars>>
        /\ pc[c] = "logHdr" /\ pc'[c] \in {"syncHdr", "frames"} /\ iFrame'[c] = hdr[c].mxFrame
        /\ walHdrOld' = walHdrOld \cup {walHdr, NoWalHdr}
    BY <1>3, Shapes DEF LogHdr, Goto
  <2> QED BY <1>3, <2>2, <2>3, <2>4, <2>5
<1> QED BY <1>2, <1>3

(* One frame is appended, the commit mark on the last one of the call. *)
LEMMA WriteFrameView ==
  ASSUME TypeOK, NEW c \in Conn, WriteFrame(c)
  PROVE  /\ UNCHANGED <<shmVars, walHdr, walHdrOld, op, readLock, newSize, ckptVars, boundVars>>
         /\ hdr'[c].isInit = hdr[c].isInit /\ hdr'[c].mxFrame = hdr[c].mxFrame
         /\ hdr'[c].salt = hdr[c].salt /\ hdr'[c].cksum = txn[c]
         /\ pc[c] = "frames" /\ pc'[c] \in {"frames", "syncFrames", "index"}
         /\ iFrame'[c] = iFrame[c] + 1
         /\ \E p \in todo[c], size \in Nat :
              /\ todo'[c] = todo[c] \ {p}
              /\ wal' = [wal EXCEPT ![iFrame[c] + 1] =
                           [salt |-> hdr[c].salt, pg |-> p, size |-> size,
                            txn |-> txn[c], prev |-> hdr[c].cksum]]
              /\ pc'[c] # "frames" => size = newSize[c]
<1>1. hdr[c] \in Hdr /\ newSize[c] \in Nat BY Shapes
<1>2. PICK p \in todo[c] :
        /\ wal' = [wal EXCEPT ![iFrame[c] + 1] =
                     [salt |-> hdr[c].salt, pg |-> p,
                      size |-> IF todo[c] = {p} THEN newSize[c] ELSE 0,
                      txn |-> txn[c], prev |-> hdr[c].cksum]]
        /\ hdr' = [hdr EXCEPT ![c].cksum = txn[c]]
        /\ iFrame' = [iFrame EXCEPT ![c] = iFrame[c] + 1]
        /\ todo' = [todo EXCEPT ![c] = @ \ {p}]
        /\ Goto(c, IF ~(todo[c] = {p}) THEN "frames"
                   ELSE IF (IF todo[c] = {p} THEN newSize[c] ELSE 0) # 0 /\ newSync[c]
                        THEN "syncFrames" ELSE "index")
  BY Zenon DEF WriteFrame
<1>3. /\ hdr'[c].isInit = hdr[c].isInit /\ hdr'[c].mxFrame = hdr[c].mxFrame
      /\ hdr'[c].salt = hdr[c].salt /\ hdr'[c].cksum = txn[c]
  BY <1>1, <1>2, Shapes DEF Hdr
<1>4. iFrame'[c] = iFrame[c] + 1 /\ todo'[c] = todo[c] \ {p} BY <1>2, Shapes
<1>5. /\ pc'[c] \in {"frames", "syncFrames", "index"}
      /\ pc'[c] # "frames" => todo[c] = {p}
  BY <1>2, Shapes DEF Goto
<1>6. pc[c] = "frames" /\ UNCHANGED <<shmVars, walHdr, walHdrOld, op, readLock, newSize, ckptVars, boundVars>>
  BY DEF WriteFrame
<1> DEFINE size == IF todo[c] = {p} THEN newSize[c] ELSE 0
<1>7. size \in Nat /\ (pc'[c] # "frames" => size = newSize[c]) BY <1>1, <1>5
<1>8. wal' = [wal EXCEPT ![iFrame[c] + 1] =
               [salt |-> hdr[c].salt, pg |-> p, size |-> size,
                txn |-> txn[c], prev |-> hdr[c].cksum]]
  BY <1>2
<1> HIDE DEF size
<1> QED BY <1>3, <1>4, <1>5, <1>6, <1>7, <1>8

(* The private header takes the frames in. *)
LEMMA FramesDoneView ==
  ASSUME TypeOK, NEW c \in Conn, FramesDone(c)
  PROVE  /\ UNCHANGED <<shmVars, fileVars, op, readLock, writeVars, ckptVars, boundVars>>
         /\ hdr'[c].isInit = hdr[c].isInit /\ hdr'[c].mxFrame = iFrame[c]
         /\ hdr'[c].salt = hdr[c].salt /\ hdr'[c].cksum = hdr[c].cksum
         /\ pc[c] = "framesDone"
         /\ pc'[c] = IF newSize[c] = 0 THEN "write" ELSE "publish1"
<1>1. hdr[c] \in Hdr BY Shapes
<1>2. CASE newSize[c] = 0 BY <1>1, <1>2, Shapes DEF FramesDone, Goto, Hdr
<1>3. CASE newSize[c] # 0 BY <1>1, <1>3, Shapes DEF FramesDone, Goto, Hdr
<1> QED BY <1>2, <1>3

(* A header is initialised from the moment it is loaded; a connection that
   publishes one has written the second copy first. *)
LEMMA InitOwn ==
  ASSUME TypeOK, NEW c \in Conn, Known(c), InitOK(c), Step(c)
  PROVE  InitOK(c)'
<1>1. ASSUME OpenStep(c) PROVE InitOK(c)'
  <2>1. CASE ReadHdr(c) \/ RereadHdr(c)
    BY <2>1, LoadView DEF InitOK
  <2>2. CASE LockHdr(c) \/ HdrBusyLock(c) \/ HdrBusyRetry(c)
    BY <2>2, Shapes DEF InitOK, LockHdr, HdrBusyLock, HdrBusyRetry, Goto, HdrBusy, Retry,
       OpenFails, Known, OpOK
  <2>3. CASE ReadBackfill(c) \/ LockRead0(c) \/ ScanMark(c) \/ SetMark(c)
    BY <2>3, Shapes DEF InitOK, ReadBackfill, LockRead0, ScanMark, SetMark, Goto, StartScan
  <2>4. CASE CheckRead0(c) \/ CheckMark(c)
    <3>1. hdr' = hdr /\ hdr0' = hdr0 /\ pc[c] \in {"checkRead0", "checkMark"}
      BY <2>4, CheckView DEF CheckRead0, CheckMark
    <3>2. pc'[c] \in {"idle", "readHdr", "failed", "scan", "open", "logHdr"}
      BY <2>4, CheckView, RetryView
    <3> QED BY <3>1, <3>2 DEF InitOK
  <2>5. CASE GrabMark(c) \/ LockMark(c)
    BY <2>5, Shapes DEF InitOK, GrabMark, LockMark, Goto, Retry, OpenFails
  <2> QED BY <1>1, <2>1, <2>2, <2>3, <2>4, <2>5 DEF OpenStep
<1>2. ASSUME RecoverStep(c) PROVE InitOK(c)'
  BY <1>2, Shapes DEF InitOK, RecoverStep, RecoverLock, RecoverScan, RecoverHdr1, RecoverHdr0,
     RecoverInfo, RecoverDone, RecoverError, Goto, HdrBusy, AfterHdr, OpenFails, Known, CacheOK
<1>3. ASSUME WriteStep(c) PROVE InitOK(c)'
  <2>1. CASE RestartHdr1(c) \/ RestartHdr0(c) \/ Publish1(c) \/ Publish0(c)
    BY <2>1, Shapes DEF InitOK, RestartHdr1, RestartHdr0, Publish1, Publish0, Goto
  <2>2. CASE RestartLock(c) \/ LogHdr(c) \/ WriteFrame(c) \/ FramesDone(c)
    <3>1. hdr'[c].isInit = hdr[c].isInit /\ hdr0' = hdr0
      BY <2>2, RestartLockView, LogHdrView, WriteFrameView, FramesDoneView
    <3>2. /\ pc[c] \in TxnPlaces
          /\ pc'[c] \in TxnPlaces \ {"publish0", "restartHdr0"}
      BY <2>2, RestartLockView, LogHdrView, WriteFrameView, FramesDoneView
    <3> QED BY <3>1, <3>2 DEF InitOK
  <2>3. CASE RestartBackfill(c) \/ RestartMarks(c) \/ LeaveRead0(c) \/ SyncHdr(c) \/ SyncFrames(c)
             \/ IndexFrame(c) \/ EndWrite(c) \/ FramesError(c)
    BY <2>3, Shapes DEF InitOK, RestartBackfill, RestartMarks, LeaveRead0, SyncHdr, SyncFrames,
       IndexFrame, EndWrite, FramesError, Goto, StartScan
  <2> QED BY <1>3, <2>1, <2>2, <2>3 DEF WriteStep
<1>4. ASSUME CkptStep(c) PROVE InitOK(c)'
  BY <1>4, Shapes DEF InitOK, CkptStep, CkptWrite, CkptStart, CkptMark, CkptMarkLock, CkptMarkSet,
     CkptLock0, CkptSync, CkptCopy, CkptTruncate, CkptBackfill, CkptTail, CkptRestart, CkptError,
     CkptEnd, Goto, NextMark
<1>5. ASSUME UserStep(c) PROVE InitOK(c)'
  BY <1>5, Shapes DEF InitOK, UserStep, BeginRead, EndRead, BeginWrite, BeginFrames, Rollback,
     CkptBegin, Goto
<1>6. ASSUME Crash(c) PROVE InitOK(c)' BY <1>6, Shapes DEF InitOK, Crash, Goto
<1> QED BY <1>1, <1>2, <1>3, <1>4, <1>5, <1>6 DEF Step, ConnStep

(* Another connection publishes only initialised headers, and none while d is
   between the two copies. *)
LEMMA InitOther ==
  ASSUME TypeOK, LockInv, NEW c \in Conn, NEW d \in Conn \ {c}, Step(c), InitOK(c), InitOK(d)
  PROVE  InitOK(d)'
<1>1. Untouched(d) BY StepKnown DEF LockInv, Alone
<1>2. hdr0.isInit => hdr0'.isInit
  <2>1. CASE RecoverHdr0(c) BY <2>1 DEF RecoverHdr0, LockInv, Known, CacheOK
  <2>2. CASE RestartHdr0(c) \/ Publish0(c) BY <2>2 DEF RestartHdr0, Publish0, InitOK
  <2> QED BY <2>1, <2>2, HeaderSteps
<1>3. HasWrite(d) => UNCHANGED <<hdr0, hdr1>> BY WriterAlone
<1> QED BY <1>1, <1>2, <1>3 DEF InitOK, Untouched, HasWrite

(* The maximum of a set of numbers up to N is an upper bound. *)
LEMMA MaxUpper ==
  ASSUME NEW N \in Nat, NEW S \in SUBSET (0 .. N), NEW x \in S
  PROVE  x <= Max(S)
<1>1. S # {} OBVIOUS
<1> DEFINE D == {e \in Nat : N - e \in S}
<1>2. D \in SUBSET Nat /\ D # {}
  <2>1. N - x \in D OBVIOUS
  <2> QED BY <2>1
<1> HIDE DEF D
<1>3. PICK e \in D : \A f \in D : e <= f BY <1>2, MinExists
<1>4. N - e \in S BY <1>3 DEF D
<1>5. \A y \in S : N - y \in D BY DEF D
<1>6. \A y \in S : N - e >= y BY <1>2, <1>3, <1>4, <1>5
<1>7. Max(S) \in S /\ \A y \in S : Max(S) >= y BY <1>4, <1>6, Zenon DEF Max
<1> QED BY <1>7

(* What walIndexRecover() finds is a log that ends in a commit. *)
LEMMA LastCommitIs ==
  ASSUME TypeOK, NEW n, n = LastCommit(walHdr, wal), n # 0
  PROVE  /\ n \in FrameNo /\ walHdr.ok /\ Chain(wal, walHdr.salt, n) /\ wal[n].size # 0
<1> DEFINE V == {m \in 0 .. MaxFrame : \A i \in 1 .. m : FrameOk(walHdr, wal, i)}
           C == {i \in 1 .. ValidLen(walHdr, wal) : wal[i].size # 0} \cup {0}
<1>1. V \in SUBSET (0 .. MaxFrame) /\ 0 \in V BY BoundFacts
<1>2. Max(V) \in V BY <1>1, BoundFacts, MaxIn
<1>3. ValidLen(walHdr, wal) = IF walHdr.ok THEN Max(V) ELSE 0 BY DEF ValidLen
<1>4. ValidLen(walHdr, wal) \in 0 .. MaxFrame BY <1>1, <1>2, <1>3, BoundFacts
<1>5. C \in SUBSET (0 .. MaxFrame) /\ C # {} BY <1>4, BoundFacts
<1>6. n \in C BY <1>5, BoundFacts, MaxIn DEF LastCommit
<1>7. n \in 1 .. ValidLen(walHdr, wal) /\ wal[n].size # 0 BY <1>6
<1>8. walHdr.ok /\ n <= Max(V) /\ n \in FrameNo BY <1>3, <1>4, <1>7, BoundFacts DEF FrameNo
<1>9. \A i \in 1 .. Max(V) : FrameOk(walHdr, wal, i) BY <1>2
<1>10. ASSUME NEW i \in FrameNo, i <= n PROVE FrameOk(walHdr, wal, i)
  <2>1. Max(V) \in 0 .. MaxFrame BY <1>1, <1>2
  <2>2. i \in 1 .. Max(V) BY <1>8, <1>10, <2>1, BoundFacts DEF FrameNo
  <2> QED BY <1>9, <2>2
<1>11. Chain(wal, walHdr.salt, n) BY <1>10 DEF Chain, FrameOk
<1> QED BY <1>7, <1>8, <1>11

(* It finds every committed prefix of the log. *)
LEMMA LastCommitFinds ==
  ASSUME TypeOK, NEW m \in FrameNo, walHdr.ok, Chain(wal, walHdr.salt, m), wal[m].size # 0
  PROVE  m <= LastCommit(walHdr, wal)
<1> DEFINE V == {n \in 0 .. MaxFrame : \A i \in 1 .. n : FrameOk(walHdr, wal, i)}
           C == {i \in 1 .. ValidLen(walHdr, wal) : wal[i].size # 0} \cup {0}
<1>1. V \in SUBSET (0 .. MaxFrame) /\ 0 \in V BY BoundFacts
<1>2. \A i \in 1 .. m : FrameOk(walHdr, wal, i)
  <2>1. \A i \in 1 .. m : i \in FrameNo /\ i <= m BY BoundFacts DEF FrameNo
  <2> QED BY <2>1 DEF Chain, FrameOk
<1>3. m \in V BY <1>2, BoundFacts DEF FrameNo
<1>4. m <= Max(V) BY <1>1, <1>3, BoundFacts, MaxUpper
<1>5. Max(V) \in 0 .. MaxFrame BY <1>1, BoundFacts, MaxIn
<1>6. ValidLen(walHdr, wal) = Max(V) BY DEF ValidLen
<1>7. m \in 1 .. ValidLen(walHdr, wal) BY <1>4, <1>5, <1>6, BoundFacts DEF FrameNo
<1>8. C \in SUBSET (0 .. MaxFrame) /\ m \in C BY <1>5, <1>6, <1>7, BoundFacts
<1>9. m <= Max(C) BY <1>8, BoundFacts, MaxUpper
<1> QED BY <1>9 DEF LastCommit

(* The header that recovery rebuilds is no shorter than the shared one, if it is
   of the same log or the shared one says there is none. *)
LEMMA RecoverScanView ==
  ASSUME TypeOK, LogInv, NEW c \in Conn, RecoverScan(c)
  PROVE  /\ UNCHANGED <<hdr0, hdr1, nBackfill, fileVars, op, readLock, writeVars, ckptVars, boundVars>>
         /\ pc[c] = "recScan" /\ pc'[c] = "recHdr1"
         /\ hdr'[c].salt = walHdr.salt /\ hdr0.mxFrame <= hdr'[c].mxFrame
         /\ hdr'[c].mxFrame > 0 =>
              /\ LogOf(hdr'[c].salt, hdr'[c].mxFrame, hdr'[c].cksum)
              /\ wal[hdr'[c].mxFrame].size # 0
<1> DEFINE n == LastCommit(walHdr, wal)
<1>1. /\ hdr'[c].salt = walHdr.salt /\ hdr'[c].mxFrame = n
      /\ hdr'[c].cksum = IF n = 0 THEN 0 ELSE wal[n].txn
  BY Shapes DEF RecoverScan
<1>2. n \in FrameNo \cup {0} BY LastCommitType
<1>3. n # 0 => n \in FrameNo /\ walHdr.ok /\ Chain(wal, walHdr.salt, n) /\ wal[n].size # 0
  BY LastCommitIs
<1>4. hdr0.mxFrame <= n
  <2>1. hdr0.mxFrame \in Nat BY Shapes DEF Hdr
  <2>2. CASE hdr0.mxFrame = 0 BY <1>2, <2>2, BoundFacts DEF FrameNo
  <2>3. CASE hdr0.mxFrame > 0
    <3>1. hdr0.mxFrame \in FrameNo BY <2>1, <2>3, BoundFacts DEF LogInv, LogOf, FrameNo
    <3>2. walHdr.ok /\ Chain(wal, walHdr.salt, hdr0.mxFrame) /\ wal[hdr0.mxFrame].size # 0
      BY <2>3 DEF LogInv, LogOf
    <3> QED BY <3>1, <3>2, LastCommitFinds
  <2> QED BY <2>1, <2>2, <2>3
<1> HIDE DEF n
<1>5. n > 0 => LogOf(hdr'[c].salt, n, hdr'[c].cksum)
  BY <1>1, <1>2, <1>3, BoundFacts DEF LogOf, FrameNo
<1>6. /\ UNCHANGED <<hdr0, hdr1, nBackfill, fileVars, op, readLock, writeVars, ckptVars, boundVars>>
      /\ pc[c] = "recScan" /\ pc'[c] = "recHdr1"
  BY Shapes DEF RecoverScan, Goto
<1> QED BY <1>1, <1>2, <1>3, <1>4, <1>5, <1>6, BoundFacts DEF FrameNo

(* The order of the salts.  A restart or a new log takes one no header has yet;
   a recovery takes that of the log file. *)
LEMMA SaltOwn ==
  ASSUME TypeOK, SaltInv, LogInv, NEW c \in Conn, Known(c), InitOK(c), SaltOK(c), Step(c)
  PROVE  SaltOK(c)'
<1>0. /\ hdr0.salt \in Nat /\ hdr[c].salt \in Nat /\ nextSalt \in Nat /\ hdr0.mxFrame \in Nat
      /\ walHdr.salt \in Nat
  BY Shapes DEF Hdr, WalHdr
<1>1. ASSUME OpenStep(c) PROVE SaltOK(c)'
  <2>1. CASE ReadHdr(c) \/ RereadHdr(c)
    BY <2>1, <1>0, LoadView DEF SaltOK, InBase, SaltInv, ReadHdr, RereadHdr, Known, OpOK
  <2>2. CASE LockHdr(c) \/ HdrBusyLock(c) \/ HdrBusyRetry(c)
    BY <2>2, <1>0, Shapes DEF SaltOK, InBase, LockHdr, HdrBusyLock, HdrBusyRetry, Goto, HdrBusy,
       Retry, OpenFails, Known, OpOK
  <2>3. CASE ReadBackfill(c) \/ LockRead0(c) \/ ScanMark(c) \/ SetMark(c)
    BY <2>3, <1>0, Shapes DEF SaltOK, InBase, ReadBackfill, LockRead0, ScanMark, SetMark, Goto,
       StartScan
  <2>4. CASE CheckRead0(c) \/ CheckMark(c)
    <3>1. UNCHANGED <<hdr, hdr0, walHdr, nextSalt>> BY <2>4, CheckView
    <3>2. \/ /\ pc'[c] \in {"idle", "readHdr", "failed", "scan", "open", "logHdr"}
             /\ op[c] = "read" => op'[c] # "frames" /\ pc'[c] \in {"idle", "readHdr", "open"}
      BY <2>4, CheckView, RetryView
    <3>3. op[c] = "frames" \/ op[c] = "read" BY <2>4, CheckView
    <3> QED BY <3>1, <3>2, <3>3 DEF SaltOK, InBase
  <2>5. CASE GrabMark(c) \/ LockMark(c)
    BY <2>5, <1>0, Shapes DEF SaltOK, InBase, GrabMark, LockMark, Goto, Retry, OpenFails
  <2> QED BY <1>1, <2>1, <2>2, <2>3, <2>4, <2>5 DEF OpenStep
<1>2. ASSUME RecoverStep(c) PROVE SaltOK(c)'
  <2>1. CASE RecoverScan(c)
    BY <2>1, <1>0, RecoverScanView DEF SaltOK, InBase, Known, OpOK
  <2>2. CASE ~RecoverScan(c)
    BY <1>2, <2>2, <1>0, Shapes DEF SaltOK, InBase, RecoverStep, RecoverLock, RecoverHdr1,
       RecoverHdr0, RecoverInfo, RecoverDone, RecoverError, Goto, HdrBusy, AfterHdr, OpenFails,
       Known, OpOK
  <2> QED BY <2>1, <2>2
<1>3. ASSUME WriteStep(c) PROVE SaltOK(c)'
  <2>1. CASE RestartHdr1(c) \/ RestartHdr0(c) \/ Publish1(c) \/ Publish0(c)
    BY <2>1, <1>0, Shapes DEF SaltOK, InBase, RestartHdr1, RestartHdr0, Publish1, Publish0, Goto,
       Known, OpOK
  <2>2. CASE RestartLock(c)
    BY <2>2, <1>0, RestartLockView DEF SaltOK, InBase, SaltInv
  <2>3. CASE LogHdr(c)
    BY <2>3, <1>0, LogHdrView DEF SaltOK, InBase, SaltInv
  <2>4. CASE WriteFrame(c)
    BY <2>4, <1>0, WriteFrameView DEF SaltOK, InBase
  <2>5. CASE FramesDone(c)
    BY <2>5, <1>0, FramesDoneView DEF SaltOK, InBase
  <2>6. CASE RestartBackfill(c) \/ RestartMarks(c) \/ LeaveRead0(c) \/ SyncHdr(c) \/ SyncFrames(c)
             \/ IndexFrame(c) \/ EndWrite(c) \/ FramesError(c)
    BY <2>6, <1>0, Shapes DEF SaltOK, InBase, RestartBackfill, RestartMarks, LeaveRead0, SyncHdr,
       SyncFrames, IndexFrame, EndWrite, FramesError, Goto, StartScan, Known, OpOK
  <2> QED BY <1>3, <2>1, <2>2, <2>3, <2>4, <2>5, <2>6 DEF WriteStep
<1>4. ASSUME CkptStep(c) PROVE SaltOK(c)'
  BY <1>4, <1>0, Shapes DEF SaltOK, InBase, CkptStep, CkptWrite, CkptStart, CkptMark, CkptMarkLock,
     CkptMarkSet, CkptLock0, CkptSync, CkptCopy, CkptTruncate, CkptBackfill, CkptTail,
     CkptRestart, CkptError, CkptEnd, Goto, NextMark, Known, OpOK
<1>5. ASSUME UserStep(c) PROVE SaltOK(c)'
  BY <1>5, <1>0, Shapes DEF SaltOK, InBase, SaltInv, UserStep, BeginRead, EndRead, BeginWrite,
     BeginFrames, Rollback, CkptBegin, Goto, HdrMoved, Known, OpOK
<1>6. ASSUME Crash(c) PROVE SaltOK(c)' BY <1>6, Shapes DEF SaltOK, InBase, Crash, Goto
<1> QED BY <1>1, <1>2, <1>3, <1>4, <1>5, <1>6 DEF Step, ConnStep

(* All of it is under WAL_WRITE_LOCK. *)
LEMMA SaltOther ==
  ASSUME TypeOK, LockInv, NEW c \in Conn, NEW d \in Conn \ {c}, Step(c), SaltOK(d)
  PROVE  SaltOK(d)'
<1>1. Untouched(d) BY StepKnown DEF LockInv, Alone
<1>2. HasWrite(d) => UNCHANGED <<hdr0, walHdr, nextSalt>> BY WriterAlone
<1> QED BY <1>1, <1>2 DEF SaltOK, InBase, Untouched, HasWrite

(* What a call of sqlite3WalFrames() or a checkpoint has in hand is private. *)
LEMMA Private ==
  ASSUME TypeOK, NEW c \in Conn, NEW d \in Conn \ {c}, Step(c)
  PROVE  /\ todo'[d] = todo[d] /\ newSize'[d] = newSize[d] /\ mxSafe'[d] = mxSafe[d]
<1>1. ASSUME OpenStep(c) PROVE UNCHANGED <<todo, newSize, mxSafe>>
  BY <1>1 DEF OpenStep, ReadHdr, LockHdr, RereadHdr, HdrBusyLock, HdrBusyRetry,
     ReadBackfill, LockRead0, CheckRead0, ScanMark, GrabMark, SetMark, LockMark, CheckMark
<1>2. ASSUME RecoverStep(c) PROVE UNCHANGED <<todo, newSize, mxSafe>>
  BY <1>2 DEF RecoverStep, RecoverLock, RecoverScan, RecoverHdr1, RecoverHdr0, RecoverInfo,
     RecoverDone, RecoverError
<1>3. ASSUME WriteStep(c) PROVE todo'[d] = todo[d] /\ newSize'[d] = newSize[d] /\ UNCHANGED mxSafe
  <2>1. CASE WriteFrame(c) BY <2>1, Shapes DEF WriteFrame
  <2>2. CASE EndWrite(c) BY <2>2, Shapes DEF EndWrite, ForgetTxn
  <2>3. CASE ~WriteFrame(c) /\ ~EndWrite(c)
    BY <1>3, <2>3 DEF WriteStep, RestartLock, RestartHdr1, RestartHdr0, RestartBackfill,
       RestartMarks, LeaveRead0, LogHdr, SyncHdr, SyncFrames, IndexFrame, FramesDone, Publish1,
       Publish0, FramesError
  <2> QED BY <2>1, <2>2, <2>3
<1>4. ASSUME CkptStep(c) PROVE UNCHANGED <<todo, newSize>> /\ mxSafe'[d] = mxSafe[d]
  BY <1>4, Shapes DEF CkptStep, CkptWrite, CkptStart, CkptMark, CkptMarkLock, CkptMarkSet,
     CkptLock0, CkptSync, CkptCopy, CkptTruncate, CkptBackfill, CkptTail, CkptRestart, CkptError,
     CkptEnd
<1>5. ASSUME UserStep(c) PROVE todo'[d] = todo[d] /\ newSize'[d] = newSize[d] /\ UNCHANGED mxSafe
  <2>1. CASE BeginFrames(c) BY <2>1, Shapes DEF BeginFrames
  <2>2. CASE Rollback(c) BY <2>2, Shapes DEF Rollback, ForgetTxn
  <2>3. CASE ~BeginFrames(c) /\ ~Rollback(c)
    BY <1>5, <2>3 DEF UserStep, BeginRead, EndRead, BeginWrite, CkptBegin
  <2> QED BY <2>1, <2>2, <2>3
<1>6. ASSUME Crash(c) PROVE todo'[d] = todo[d] /\ newSize'[d] = newSize[d] /\ mxSafe'[d] = mxSafe[d]
  BY <1>6, Shapes DEF Crash, ForgetTxn
<1> QED BY <1>1, <1>2, <1>3, <1>4, <1>5, <1>6 DEF Step, ConnStep

(* The pages of a call are a finite set; each frame written takes one out. *)
LEMMA TodoFacts ==
  ASSUME TypeOK, NEW c \in Conn
  PROVE  /\ IsFiniteSet(todo[c]) /\ Cardinality(todo[c]) \in Nat
         /\ \A p \in todo[c] : Cardinality(todo[c] \ {p}) = Cardinality(todo[c]) - 1
         /\ \A p \in todo[c] : Cardinality(todo[c]) > 0 /\ p # 0
<1>1. todo[c] \subseteq 1 .. NPages BY Shapes DEF Page
<1>2. IsFiniteSet(1 .. NPages) BY FS_Interval, WalAssumption
<1>3. IsFiniteSet(todo[c]) /\ Cardinality(todo[c]) \in Nat
  BY <1>1, <1>2, FS_Subset, FS_CardinalityType
<1>4. \A p \in todo[c] : Cardinality(todo[c] \ {p}) = Cardinality(todo[c]) - 1
  BY <1>3, FS_RemoveElement
<1>5. \A p \in todo[c] : Cardinality(todo[c]) # 0 BY <1>3, FS_EmptySet
<1>6. \A p \in todo[c] : p # 0 BY <1>1, WalAssumption
<1> QED BY <1>3, <1>4, <1>5, <1>6

(* There is room in the log for what a call has left to write. *)
LEMMA RoomOwn ==
  ASSUME TypeOK, NEW c \in Conn, Known(c), RoomOK(c), Step(c)
  PROVE  RoomOK(c)'
<1>0. /\ hdr[c].mxFrame \in Nat /\ iFrame[c] \in Nat /\ Cardinality(todo[c]) \in Nat
      /\ MaxFrame \in Nat
  BY Shapes, TodoFacts, BoundFacts DEF Hdr
<1>1. ASSUME OpenStep(c) PROVE RoomOK(c)'
  <2>0. UNCHANGED <<iFrame, todo>>
    BY <1>1 DEF OpenStep, ReadHdr, LockHdr, RereadHdr, HdrBusyLock, HdrBusyRetry,
       ReadBackfill, LockRead0, CheckRead0, ScanMark, GrabMark, SetMark, LockMark, CheckMark
  <2>1. CASE ReadHdr(c) \/ RereadHdr(c)
    BY <2>0, <2>1, LoadView DEF RoomOK, ReadHdr, RereadHdr, Known, OpOK
  <2>2. CASE LockHdr(c) \/ HdrBusyLock(c) \/ HdrBusyRetry(c)
    BY <2>0, <2>2, Shapes DEF RoomOK, LockHdr, HdrBusyLock, HdrBusyRetry, Goto, HdrBusy,
       Retry, OpenFails, Known, OpOK
  <2>3. CASE ReadBackfill(c) \/ LockRead0(c) \/ ScanMark(c) \/ SetMark(c)
    BY <2>0, <2>3, Shapes DEF RoomOK, ReadBackfill, LockRead0, ScanMark, SetMark, Goto,
       StartScan
  <2>4. CASE CheckRead0(c) \/ CheckMark(c)
    <3>1. UNCHANGED hdr BY <2>4, CheckView
    <3>2. /\ pc'[c] \in {"idle", "readHdr", "failed", "scan", "open", "logHdr"}
          /\ op[c] = "read" => op'[c] # "frames" /\ pc'[c] \in {"idle", "readHdr", "open"}
      BY <2>4, CheckView, RetryView
    <3>3. op[c] = "frames" \/ op[c] = "read" BY <2>4, CheckView
    <3> QED BY <2>0, <3>1, <3>2, <3>3 DEF RoomOK
  <2>5. CASE GrabMark(c) \/ LockMark(c)
    BY <2>0, <2>5, Shapes DEF RoomOK, GrabMark, LockMark, Goto, Retry, OpenFails
  <2> QED BY <1>1, <2>1, <2>2, <2>3, <2>4, <2>5 DEF OpenStep
<1>2. ASSUME RecoverStep(c) PROVE RoomOK(c)'
  <2>1. CASE RecoverScan(c) BY <2>1, Shapes DEF RoomOK, RecoverScan, Goto, Known, OpOK
  <2>2. CASE ~RecoverScan(c)
    BY <1>2, <2>2, <1>0, Shapes DEF RoomOK, RecoverStep, RecoverLock, RecoverHdr1,
       RecoverHdr0, RecoverInfo, RecoverDone, RecoverError, Goto, HdrBusy, AfterHdr, OpenFails,
       Known, OpOK
  <2> QED BY <2>1, <2>2
<1>3. ASSUME WriteStep(c) PROVE RoomOK(c)'
  <2>0. op[c] = "none" BY <1>3, Shapes DEF Known, OpOK, WriteStep, RestartLock, RestartHdr1,
     RestartHdr0, RestartBackfill, RestartMarks, LeaveRead0, LogHdr, SyncHdr, WriteFrame,
     SyncFrames, IndexFrame, FramesDone, Publish1, Publish0, EndWrite, FramesError
  <2>1. CASE RestartLock(c) BY <1>0, <2>0, <2>1, RestartLockView DEF RoomOK
  <2>2. CASE LogHdr(c) BY <1>0, <2>0, <2>2, LogHdrView DEF RoomOK
  <2>3. CASE WriteFrame(c)
    <3>1. PICK p \in todo[c] : todo'[c] = todo[c] \ {p} BY <2>3, WriteFrameView
    <3>2. Cardinality(todo'[c]) = Cardinality(todo[c]) - 1 BY <3>1, TodoFacts
    <3>3. iFrame'[c] + Cardinality(todo'[c]) = iFrame[c] + Cardinality(todo[c])
      BY <1>0, <2>3, <3>2, WriteFrameView
    <3> QED BY <2>0, <2>3, <3>3, WriteFrameView DEF RoomOK
  <2>4. CASE FramesDone(c) BY <2>0, <2>4, FramesDoneView DEF RoomOK
  <2>5. CASE EndWrite(c) BY <2>0, <2>5, Shapes DEF RoomOK, EndWrite, Goto
  <2>6. CASE RestartHdr1(c) \/ RestartHdr0(c) \/ Publish1(c) \/ Publish0(c) \/ SyncHdr(c)
    BY <2>6, <2>0, Shapes DEF RoomOK, RestartHdr1, RestartHdr0, Publish1, Publish0, SyncHdr, Goto
  <2>7. CASE RestartBackfill(c) \/ RestartMarks(c) \/ LeaveRead0(c) \/ SyncFrames(c)
             \/ IndexFrame(c) \/ FramesError(c)
    BY <2>7, <2>0, Shapes DEF RoomOK, RestartBackfill, RestartMarks, LeaveRead0,
       SyncFrames, IndexFrame, FramesError, Goto, StartScan
  <2> QED BY <1>3, <2>1, <2>2, <2>3, <2>4, <2>5, <2>6, <2>7 DEF WriteStep
<1>4. ASSUME CkptStep(c) PROVE RoomOK(c)'
  BY <1>4, Shapes DEF RoomOK, CkptStep, CkptWrite, CkptStart, CkptMark, CkptMarkLock,
     CkptMarkSet, CkptLock0, CkptSync, CkptCopy, CkptTruncate, CkptBackfill, CkptTail,
     CkptRestart, CkptError, CkptEnd, Goto, NextMark, Known, OpOK
<1>5. ASSUME UserStep(c) PROVE RoomOK(c)'
  <2>1. CASE BeginFrames(c)
    <3>1. /\ op'[c] = "none" /\ pc'[c] \in {"restart", "logHdr"} /\ UNCHANGED hdr
      BY <2>1, Shapes DEF BeginFrames, Known, OpOK, Goto
    <3>2. hdr[c].mxFrame + Cardinality(todo'[c]) <= MaxFrame
      BY <2>1, Shapes DEF BeginFrames
    <3> QED BY <3>1, <3>2 DEF RoomOK
  <2>2. CASE ~BeginFrames(c)
    BY <1>5, <2>2, Shapes DEF RoomOK, UserStep, BeginRead, EndRead, BeginWrite, Rollback, CkptBegin,
       Goto, Known, OpOK
  <2> QED BY <2>1, <2>2
<1>6. ASSUME Crash(c) PROVE RoomOK(c)' BY <1>6, Shapes DEF RoomOK, Crash, Goto
<1> QED BY <1>1, <1>2, <1>3, <1>4, <1>5, <1>6 DEF Step, ConnStep

(* It is private. *)
LEMMA RoomOther ==
  ASSUME TypeOK, LockInv, NEW c \in Conn, NEW d \in Conn \ {c}, Step(c), RoomOK(d)
  PROVE  RoomOK(d)'
<1>1. Untouched(d) BY StepKnown DEF LockInv, Alone
<1> QED BY <1>1, Private DEF RoomOK, Untouched

(* A frame whose salt and checksum go on from the last one makes the log longer. *)
LEMMA ChainGrows ==
  ASSUME NEW wl \in [FrameNo -> Frame], NEW n \in FrameNo, NEW f, NEW s, f.salt = s,
         Chain(wl, s, n - 1), f.prev = IF n = 1 THEN 0 ELSE wl[n - 1].txn, f.pg # 0
  PROVE  Chain([wl EXCEPT ![n] = f], s, n)
<1> DEFINE wl2 == [wl EXCEPT ![n] = f]
<1>1. wl2[n] = f /\ (\A i \in FrameNo : i # n => wl2[i] = wl[i]) OBVIOUS
<1>2. n \in Nat /\ n > 0 BY BoundFacts DEF FrameNo
<1> HIDE DEF wl2
<1>3. ASSUME NEW i \in FrameNo, i <= n
      PROVE  wl2[i].pg # 0 /\ wl2[i].salt = s /\ wl2[i].prev = IF i = 1 THEN 0 ELSE wl2[i - 1].txn
  <2>1. i \in Nat /\ i > 0 BY BoundFacts DEF FrameNo
  <2>2. i # 1 => i - 1 \in FrameNo /\ i - 1 # n
    BY <1>2, <1>3, <2>1, BoundFacts DEF FrameNo
  <2>3. CASE i = n BY <1>1, <2>2, <2>3
  <2>4. CASE i # n
    <3>1. i <= n - 1 BY <1>2, <1>3, <2>1, <2>4
    <3>2. /\ wl[i].pg # 0 /\ wl[i].salt = s
          /\ wl[i].prev = IF i = 1 THEN 0 ELSE wl[i - 1].txn
      BY <3>1 DEF Chain
    <3> QED BY <1>1, <2>2, <2>4, <3>2
  <2> QED BY <2>3, <2>4
<1>4. Chain(wl2, s, n) BY <1>3 DEF Chain
<1> QED BY <1>4 DEF wl2

(* The frames of a writer are a log from the first one on, whatever was in the
   file before: it ends where the writer stands, in the writer's checksum. *)
LEMMA WriteFrameChain ==
  ASSUME TypeOK, NEW c \in Conn, RoomOK(c), ChainOK(c), WriteFrame(c)
  PROVE  /\ iFrame'[c] \in FrameNo /\ LogOf(hdr[c].salt, iFrame[c], hdr[c].cksum)'
         /\ pc'[c] # "frames" => wal'[iFrame'[c]].size = newSize[c]
<1> DEFINE n == iFrame[c] + 1
<1>1. iFrame[c] \in Nat BY Shapes
<1>2. LogOf(hdr[c].salt, iFrame[c], hdr[c].cksum)
  BY WriteFrameView DEF ChainOK, HasLog, Top
<1>3. PICK p \in todo[c], size \in Nat :
        /\ wal' = [wal EXCEPT ![n] = [salt |-> hdr[c].salt, pg |-> p, size |-> size,
                                      txn |-> txn[c], prev |-> hdr[c].cksum]]
        /\ pc'[c] # "frames" => size = newSize[c]
  BY WriteFrameView
<1>4. n \in FrameNo
  <2>1. Cardinality(todo[c]) \in Nat /\ Cardinality(todo[c]) > 0 BY <1>3, TodoFacts
  <2>2. iFrame[c] + Cardinality(todo[c]) <= MaxFrame BY WriteFrameView DEF RoomOK
  <2> QED BY <1>1, <2>1, <2>2, BoundFacts DEF FrameNo
<1>5. n - 1 = iFrame[c] /\ iFrame'[c] = n BY <1>1, WriteFrameView
<1> DEFINE f == [salt |-> hdr[c].salt, pg |-> p, size |-> size,
                 txn |-> txn[c], prev |-> hdr[c].cksum]
<1>6. wal' = [wal EXCEPT ![n] = f] BY <1>3
<1>7. f.pg # 0 /\ f.salt = hdr[c].salt /\ f.txn = txn[c] /\ f.size = size BY TodoFacts
<1>8. Chain(wal, hdr[c].salt, n - 1) /\ f.prev = IF n = 1 THEN 0 ELSE wal[n - 1].txn
  BY <1>1, <1>2, <1>5 DEF LogOf
<1>9. wal \in [FrameNo -> Frame] BY Shapes
<1> HIDE DEF n, f
<1>10. Chain(wal', hdr[c].salt, n) BY <1>4, <1>6, <1>7, <1>8, <1>9, ChainGrows
<1>11. wal'[n] = f BY <1>4, <1>6, <1>9
<1>12. hdr'[c].salt = hdr[c].salt /\ hdr'[c].cksum = txn[c] /\ UNCHANGED walHdr BY WriteFrameView
<1>13. LogOf(hdr[c].salt, iFrame[c], hdr[c].cksum)'
  <2>1. n <= MaxFrame /\ n # 0 BY <1>4, BoundFacts DEF FrameNo
  <2>2. walHdr.ok /\ walHdr.salt = hdr[c].salt BY <1>2 DEF LogOf
  <2> QED BY <1>5, <1>7, <1>10, <1>11, <1>12, <2>1, <2>2 DEF LogOf
<1> QED BY <1>3, <1>4, <1>5, <1>7, <1>11, <1>13

(* A writer's log starts as the shared one, or empty with a header of its own,
   and grows by the frames it writes. *)
LEMMA ChainOwn ==
  ASSUME TypeOK, LogInv, NEW c \in Conn, Known(c), RoomOK(c), ChainOK(c), Step(c)
  PROVE  ChainOK(c)'
<1>0. hdr[c].mxFrame \in Nat /\ iFrame[c] \in Nat BY Shapes DEF Hdr
<1>1. ASSUME OpenStep(c) PROVE ChainOK(c)'
  <2>1. CASE CheckRead0(c) \/ CheckMark(c)
    <3>1. UNCHANGED <<hdr, wal, walHdr>> BY <2>1, CheckView
    <3>2. CASE pc'[c] = "logHdr"
      <4>1. hdr'[c] = hdr0 BY <2>1, <3>2, CheckView, RetryView
      <4>2. hdr0.mxFrame > 0 => LogOf(hdr0.salt, hdr0.mxFrame, hdr0.cksum) BY DEF LogInv
      <4>3. hdr0.mxFrame > 0 => LogOf(hdr0.salt, hdr0.mxFrame, hdr0.cksum)'
        BY <2>1, <4>2, CheckView, <3>1 DEF LogOf, Chain
      <4>4. hdr0' = hdr0 BY <2>1, CheckView
      <4> QED BY <3>2, <4>1, <4>3, <4>4 DEF ChainOK, HasLog, Top
    <3>3. CASE pc'[c] # "logHdr"
      <4>1. pc'[c] \in {"idle", "readHdr", "failed", "scan", "open"}
        BY <2>1, <3>3, CheckView, RetryView
      <4> QED BY <4>1 DEF ChainOK, HasLog
    <3> QED BY <3>2, <3>3
  <2>2. CASE ~CheckRead0(c) /\ ~CheckMark(c)
    <3>1. pc'[c] \notin {"logHdr", "write"} \cup Writing \cup PublishPlaces \cup RecHdrPlaces
      <4>1. CASE ReadHdr(c) \/ RereadHdr(c) BY <4>1, LoadView
      <4>2. CASE LockHdr(c) \/ HdrBusyLock(c) \/ HdrBusyRetry(c)
        BY <4>2, Shapes DEF LockHdr, HdrBusyLock, HdrBusyRetry, Goto, HdrBusy, Retry, OpenFails
      <4>3. CASE ReadBackfill(c) \/ LockRead0(c) \/ ScanMark(c) \/ SetMark(c)
        BY <4>3, Shapes DEF ReadBackfill, LockRead0, ScanMark, SetMark, Goto, StartScan
      <4>4. CASE GrabMark(c) \/ LockMark(c)
        BY <4>4, Shapes DEF GrabMark, LockMark, Goto, Retry, OpenFails
      <4> QED BY <1>1, <2>2, <4>1, <4>2, <4>3, <4>4 DEF OpenStep
    <3> QED BY <3>1 DEF ChainOK, HasLog
  <2> QED BY <2>1, <2>2
<1>2. ASSUME RecoverStep(c) PROVE ChainOK(c)'
  <2>1. CASE RecoverScan(c)
    <3>1. hdr'[c].mxFrame > 0 => LogOf(hdr[c].salt, hdr[c].mxFrame, hdr[c].cksum)'
      BY <2>1, RecoverScanView DEF LogOf, Chain
    <3> QED BY <2>1, <3>1, RecoverScanView DEF ChainOK, HasLog, Top
  <2>2. CASE RecoverHdr1(c)
    <3>1. /\ UNCHANGED <<hdr, wal, walHdr, iFrame>> /\ pc[c] = "recHdr1" /\ pc'[c] = "recHdr0"
      BY <2>2, Shapes DEF RecoverHdr1, Goto
    <3> QED BY <3>1 DEF ChainOK, HasLog, Top, LogOf, Chain
  <2>3. CASE ~RecoverScan(c) /\ ~RecoverHdr1(c)
    <3>1. pc'[c] \notin {"logHdr", "write"} \cup Writing \cup PublishPlaces \cup RecHdrPlaces
      BY <1>2, <2>3, Shapes DEF RecoverStep, RecoverLock, RecoverHdr0, RecoverInfo, RecoverDone,
         RecoverError, Goto, HdrBusy, AfterHdr, OpenFails
    <3> QED BY <3>1 DEF ChainOK, HasLog
  <2> QED BY <2>1, <2>2, <2>3
<1>3. ASSUME WriteStep(c) PROVE ChainOK(c)'
  <2>1. CASE LogHdr(c)
    <3>1. iFrame'[c] = hdr[c].mxFrame /\ pc'[c] \in {"syncHdr", "frames"} /\ pc[c] = "logHdr"
      BY <2>1, LogHdrView
    <3>2. LogOf(hdr[c].salt, iFrame[c], hdr[c].cksum)'
      <4>1. CASE hdr[c].mxFrame # 0
        <5>1. LogOf(hdr[c].salt, hdr[c].mxFrame, hdr[c].cksum)
          BY <1>0, <3>1, <4>1 DEF ChainOK, HasLog, Top
        <5>2. UNCHANGED <<hdr, wal, walHdr>> BY <2>1, <4>1, LogHdrView
        <5> QED BY <3>1, <5>1, <5>2 DEF LogOf, Chain
      <4>2. CASE hdr[c].mxFrame = 0
        <5>1. iFrame'[c] = 0 BY <3>1, <4>2
        <5>2. walHdr'.ok /\ walHdr'.salt = hdr'[c].salt /\ hdr'[c].cksum = 0
          BY <2>1, <4>2, LogHdrView
        <5>3. \A i \in FrameNo : ~(i <= 0) BY BoundFacts DEF FrameNo
        <5> QED BY <5>1, <5>2, <5>3, BoundFacts DEF LogOf, Chain
      <4> QED BY <4>1, <4>2
    <3> QED BY <3>1, <3>2 DEF ChainOK, HasLog, Top
  <2>2. CASE WriteFrame(c)
    <3>1. /\ iFrame'[c] \in FrameNo /\ LogOf(hdr[c].salt, iFrame[c], hdr[c].cksum)'
          /\ pc'[c] # "frames" => wal'[iFrame'[c]].size = newSize[c]
      BY <2>2, WriteFrameChain
    <3>2. pc'[c] \in {"frames", "syncFrames", "index"} /\ newSize' = newSize
      BY <2>2, WriteFrameView
    <3>3. iFrame'[c] > 0 BY <3>1, BoundFacts DEF FrameNo
    <3> QED BY <3>1, <3>2, <3>3 DEF ChainOK, HasLog, Top
  <2>3. CASE SyncHdr(c) \/ SyncFrames(c) \/ IndexFrame(c)
    <3>1. /\ UNCHANGED <<hdr, wal, walHdr, iFrame, newSize>>
          /\ \/ pc[c] = "syncHdr" /\ pc'[c] = "frames"
             \/ pc[c] = "syncFrames" /\ pc'[c] = "index"
             \/ pc[c] = "index" /\ pc'[c] \in {"index", "framesDone"}
      BY <2>3, Shapes DEF SyncHdr, SyncFrames, IndexFrame, Goto
    <3> QED BY <3>1 DEF ChainOK, HasLog, Top, LogOf, Chain
  <2>4. CASE FramesDone(c)
    <3>1. LogOf(hdr[c].salt, iFrame[c], hdr[c].cksum) /\ wal[iFrame[c]].size = newSize[c]
      BY <2>4, FramesDoneView DEF ChainOK, HasLog, Top
    <3>2. LogOf(hdr[c].salt, hdr[c].mxFrame, hdr[c].cksum)'
      BY <2>4, <3>1, FramesDoneView DEF LogOf, Chain
    <3>3. pc'[c] = "publish1" => wal'[hdr'[c].mxFrame].size # 0
      BY <2>4, <3>1, FramesDoneView
    <3>4. pc'[c] \in {"write", "publish1"} BY <2>4, FramesDoneView
    <3> QED BY <3>2, <3>3, <3>4 DEF ChainOK, HasLog, Top
  <2>5. CASE Publish1(c)
    <3>1. UNCHANGED <<hdr, wal, walHdr>> /\ pc[c] = "publish1" /\ pc'[c] = "publish0"
      BY <2>5, Shapes DEF Publish1, Goto
    <3> QED BY <3>1 DEF ChainOK, HasLog, Top, LogOf, Chain
  <2>6. CASE ~(LogHdr(c) \/ WriteFrame(c) \/ SyncHdr(c) \/ SyncFrames(c) \/ IndexFrame(c)
                \/ FramesDone(c) \/ Publish1(c))
    <3>1. pc'[c] \notin {"logHdr", "write"} \cup Writing \cup PublishPlaces \cup RecHdrPlaces
      BY <1>3, <2>6, Shapes DEF WriteStep, RestartLock, RestartHdr1, RestartHdr0, RestartBackfill,
         RestartMarks, LeaveRead0, Publish0, EndWrite, FramesError, Goto, StartScan
    <3> QED BY <3>1 DEF ChainOK, HasLog
  <2> QED BY <2>1, <2>2, <2>3, <2>4, <2>5, <2>6
<1>4. ASSUME CkptStep(c) PROVE ChainOK(c)'
  <2>1. pc'[c] \notin {"logHdr", "write"} \cup Writing \cup PublishPlaces \cup RecHdrPlaces
    BY <1>4, Shapes DEF CkptStep, CkptWrite, CkptStart, CkptMark, CkptMarkLock, CkptMarkSet,
       CkptLock0, CkptSync, CkptCopy, CkptTruncate, CkptBackfill, CkptTail, CkptRestart,
       CkptError, CkptEnd, Goto, NextMark
  <2> QED BY <2>1 DEF ChainOK, HasLog
<1>5. ASSUME UserStep(c) PROVE ChainOK(c)'
  <2>1. CASE BeginWrite(c)
    <3>1. UNCHANGED <<hdr0, hdr, wal, walHdr>> /\ hdr[c] = hdr0 /\ pc'[c] = "write"
      BY <2>1, Shapes DEF BeginWrite, HdrMoved, Goto
    <3>2. hdr[c].mxFrame > 0 => LogOf(hdr[c].salt, hdr[c].mxFrame, hdr[c].cksum)
      BY <3>1 DEF LogInv
    <3> QED BY <3>1, <3>2 DEF ChainOK, HasLog, Top, LogOf, Chain
  <2>2. CASE BeginFrames(c)
    <3>1. UNCHANGED <<hdr, wal, walHdr>> /\ pc[c] = "write" /\ pc'[c] \in {"restart", "logHdr"}
      BY <2>2, Shapes DEF BeginFrames, Goto
    <3> QED BY <3>1 DEF ChainOK, HasLog, Top, LogOf, Chain
  <2>3. CASE ~BeginWrite(c) /\ ~BeginFrames(c)
    <3>1. pc'[c] \notin {"logHdr", "write"} \cup Writing \cup PublishPlaces \cup RecHdrPlaces
      BY <1>5, <2>3, Shapes DEF UserStep, BeginRead, EndRead, Rollback, CkptBegin, Goto
    <3> QED BY <3>1 DEF ChainOK, HasLog
  <2> QED BY <2>1, <2>2, <2>3
<1>6. ASSUME Crash(c) PROVE ChainOK(c)' BY <1>6, Shapes DEF ChainOK, HasLog, Crash, Goto
<1> QED BY <1>1, <1>2, <1>3, <1>4, <1>5, <1>6 DEF Step, ConnStep

(* Nobody else writes to the log. *)
LEMMA ChainOther ==
  ASSUME TypeOK, LockInv, NEW c \in Conn, NEW d \in Conn \ {c}, Step(c), ChainOK(d)
  PROVE  ChainOK(d)'
<1>1. Untouched(d) BY StepKnown DEF LockInv, Alone
<1>2. HasWrite(d) => UNCHANGED <<wal, walHdr>> BY WriterAlone
<1>3. newSize'[d] = newSize[d] BY Private
<1>4. HasLog(d)' => HasLog(d) /\ HasWrite(d)
  BY <1>1 DEF HasLog, HasWrite, Untouched
<1>5. CASE HasWrite(d)
  BY <1>1, <1>2, <1>3, <1>5 DEF ChainOK, HasLog, Top, LogOf, Chain, Untouched
<1>6. CASE ~HasWrite(d)
  BY <1>1, <1>4, <1>6 DEF ChainOK, HasLog, HasWrite, Untouched
<1> QED BY <1>5, <1>6

(* A connection that bypasses the log has found all of it in the database; it
   becomes a writer only on the newest snapshot. *)
LEMMA BypassOwn ==
  ASSUME TypeOK, NEW c \in Conn, Known(c), InitOK(c), BypassOK(c), Step(c)
  PROVE  BypassOK(c)'
<1> DEFINE Places == {"readBackfill", "lockRead0", "checkRead0", "open", "write", "restart",
                      "restartHdr1", "restartHdr0", "restartBackfill"}
<1>0. /\ hdr0.salt \in Nat /\ hdr[c].salt \in Nat /\ nBackfill \in Nat
      /\ hdr0.mxFrame \in Nat /\ hdr[c].mxFrame \in Nat
  BY Shapes DEF Hdr
<1>a. pc'[c] \notin Places => BypassOK(c)' BY DEF BypassOK, Bypassing
<1>b. pc'[c] \in {"open", "write"} /\ readLock'[c] \in Slot => BypassOK(c)'
  BY SlotFacts DEF BypassOK, Bypassing, Slot
<1>1. ASSUME OpenStep(c) PROVE BypassOK(c)'
  <2>1. CASE ReadHdr(c) \/ RereadHdr(c)
    BY <2>1, <1>0, LoadView DEF BypassOK, Bypassing, ReadHdr, RereadHdr
  <2>2. CASE ReadBackfill(c) \/ LockRead0(c)
    BY <2>2, <1>0, Shapes DEF BypassOK, Bypassing, ReadBackfill, LockRead0, Goto, StartScan, Bypass
  <2>3. CASE CheckRead0(c)
    <3>1. pc[c] = "checkRead0" /\ op[c] # "frames" BY <2>3, Shapes DEF CheckRead0, Known, OpOK
    <3>2. UNCHANGED <<hdr, hdr0, nBackfill>> BY <2>3, CheckView
    <3>3. \/ pc'[c] \in {"idle", "readHdr"}
          \/ pc'[c] = "open" /\ hdr[c] = hdr0 /\ readLock'[c] = 0
      BY <2>3, <3>1, CheckView, RetryView
    <3> QED BY <1>0, <3>1, <3>2, <3>3 DEF BypassOK, Bypassing
  <2>4. CASE CheckMark(c)
    <3>1. pc[c] = "checkMark" BY <2>4 DEF CheckMark
    <3>2. \/ pc'[c] \in {"idle", "readHdr", "failed", "scan", "logHdr"}
          \/ pc'[c] = "open" /\ readLock'[c] \in Slot
      BY <2>4, <3>1, CheckView, RetryView
    <3> QED BY <1>a, <1>b, <3>2
  <2>5. CASE LockHdr(c) \/ HdrBusyLock(c) \/ HdrBusyRetry(c) \/ ScanMark(c) \/ SetMark(c)
             \/ GrabMark(c) \/ LockMark(c)
    <3>1. pc'[c] \notin Places
      BY <2>5, Shapes DEF LockHdr, HdrBusyLock, HdrBusyRetry, Goto, HdrBusy, Retry, OpenFails,
         ScanMark, SetMark, GrabMark, LockMark
    <3> QED BY <1>a, <3>1
  <2> QED BY <1>1, <2>1, <2>2, <2>3, <2>4, <2>5 DEF OpenStep
<1>2. ASSUME RecoverStep(c) PROVE BypassOK(c)'
  <2>1. CASE RecoverDone(c)
    <3>1. /\ pc[c] = "recDone" /\ pc'[c] \in {"readBackfill", "ckStart"}
          /\ UNCHANGED <<hdr, hdr0>>
      BY <2>1, Shapes DEF RecoverDone, AfterHdr, Goto
    <3> QED BY <1>0, <3>1 DEF BypassOK, Bypassing, InitOK
  <2>2. CASE ~RecoverDone(c)
    <3>1. pc'[c] \notin Places
      BY <1>2, <2>2, Shapes DEF RecoverStep, RecoverLock, RecoverScan, RecoverHdr1, RecoverHdr0,
         RecoverInfo, RecoverError, Goto, HdrBusy, OpenFails
    <3> QED BY <1>a, <3>1
  <2> QED BY <2>1, <2>2
<1>3. ASSUME WriteStep(c) PROVE BypassOK(c)'
  <2>1. CASE RestartLock(c)
    BY <2>1, <1>0, RestartLockView DEF BypassOK, Bypassing
  <2>2. CASE RestartHdr1(c) \/ RestartHdr0(c)
    BY <2>2, <1>0, Shapes DEF BypassOK, Bypassing, RestartHdr1, RestartHdr0, Goto, Known, BaseOK
  <2>3. CASE FramesDone(c)
    <3>1. /\ pc'[c] \in {"write", "publish1"} /\ readLock'[c] = readLock[c]
          /\ pc[c] = "framesDone"
      BY <2>3, FramesDoneView
    <3>2. readLock[c] \in Slot BY <3>1 DEF Known, HoldOK
    <3> QED BY <1>a, <1>b, <3>1, <3>2
  <2>4. CASE EndWrite(c)
    <3>1. pc'[c] = "open" /\ readLock'[c] \in Slot
      BY <2>4, Shapes DEF EndWrite, Goto, Known, HoldOK
    <3> QED BY <1>b, <3>1
  <2>5. CASE LogHdr(c) \/ WriteFrame(c) BY <1>a, <2>5, LogHdrView, WriteFrameView
  <2>6. CASE RestartBackfill(c) \/ RestartMarks(c) \/ LeaveRead0(c) \/ SyncHdr(c) \/ SyncFrames(c)
             \/ IndexFrame(c) \/ Publish1(c) \/ Publish0(c) \/ FramesError(c)
    <3>1. pc'[c] \notin Places
      BY <2>6, Shapes DEF RestartBackfill, RestartMarks, LeaveRead0, SyncHdr, SyncFrames,
         IndexFrame, Publish1, Publish0, FramesError, Goto, StartScan
    <3> QED BY <1>a, <3>1
  <2> QED BY <1>3, <2>1, <2>2, <2>3, <2>4, <2>5, <2>6 DEF WriteStep
<1>4. ASSUME CkptStep(c) PROVE BypassOK(c)'
  <2>1. pc'[c] \notin Places
    BY <1>4, Shapes DEF CkptStep, CkptWrite, CkptStart, CkptMark, CkptMarkLock, CkptMarkSet,
       CkptLock0, CkptSync, CkptCopy, CkptTruncate, CkptBackfill, CkptTail, CkptRestart,
       CkptError, CkptEnd, Goto, NextMark
  <2> QED BY <1>a, <2>1
<1>5. ASSUME UserStep(c) PROVE BypassOK(c)'
  <2>1. CASE BeginWrite(c)
    BY <2>1, <1>0, Shapes DEF BypassOK, Bypassing, BeginWrite, Goto, HdrMoved
  <2>2. CASE BeginFrames(c)
    BY <2>2, <1>0, Shapes DEF BypassOK, Bypassing, BeginFrames, Goto
  <2>3. CASE Rollback(c)
    <3>1. /\ hdr'[c] = hdr0 /\ UNCHANGED <<hdr0, nBackfill, readLock>>
          /\ pc[c] \in {"write", "failed"} /\ pc'[c] \in {"idle", "open"}
      BY <2>3, Shapes DEF Rollback, Goto
    <3>2. pc[c] = "failed" => readLock[c] # 0 BY DEF Known, HoldOK
    <3> QED BY <1>0, <3>1, <3>2 DEF BypassOK, Bypassing
  <2>4. CASE BeginRead(c) \/ EndRead(c) \/ CkptBegin(c)
    <3>1. pc'[c] \notin Places BY <2>4, Shapes DEF BeginRead, EndRead, CkptBegin, Goto
    <3> QED BY <1>a, <3>1
  <2> QED BY <1>5, <2>1, <2>2, <2>3, <2>4 DEF UserStep
<1>6. ASSUME Crash(c) PROVE BypassOK(c)'
  <2>1. pc'[c] = "idle" BY <1>6, Shapes DEF Crash, Goto
  <2> QED BY <1>a, <2>1
<1> QED BY <1>1, <1>2, <1>3, <1>4, <1>5, <1>6 DEF Step, ConnStep

(* Another connection moves the shared header to a longer log or a larger salt,
   so no two of them have the same frames; nBackfill is set under WAL_READ_LOCK(0),
   or to what a restart has made it. *)
LEMMA BypassOther ==
  ASSUME NoRaces, TypeOK, LockInv, NEW c \in Conn, NEW d \in Conn \ {c}, Step(c),
         SaltOK(c), BypassOK(c), TargetOK(c), BypassOK(d)
  PROVE  BypassOK(d)'
<1>0. /\ hdr0.salt \in Nat /\ hdr[c].salt \in Nat /\ hdr[d].salt \in Nat /\ nBackfill \in Nat
      /\ hdr0.mxFrame \in Nat /\ hdr[c].mxFrame \in Nat /\ hdr[d].mxFrame \in Nat
      /\ mxSafe[c] \in Nat
  BY Shapes DEF Hdr
<1>1. Untouched(d) BY StepKnown DEF LockInv, Alone
<1>2. CASE HasWrite(d)
  <2>1. UNCHANGED hdr0 BY <1>2, WriterAlone
  <2>2. pc[d] \in {"restart"} \cup RestartHdrs \/ (pc[d] = "write" /\ readLock[d] = 0) =>
            UNCHANGED nBackfill
    <3>1. pc[d] \in {"restart"} \cup RestartHdrs => readLock[d] = 0
      BY DEF LockInv, Known, HoldOK
    <3>2. readLock[d] = 0 => READ(0) \in sharedMask[d] BY <1>0 DEF LockInv, Known, HoldOK
    <3> QED BY <1>2, <3>1, <3>2, BypassAlone
  <2>3. ~Bypassing(d) /\ pc[d] # "readBackfill"
    BY <1>2 DEF HasWrite, Bypassing, LockInv, Known, OpOK
  <2> QED BY <1>1, <2>1, <2>2, <2>3 DEF BypassOK, Bypassing, Untouched
<1>3. CASE ~HasWrite(d)
  <2>1. /\ pc[d] \notin {"write", "restart", "restartBackfill"} \cup RestartHdrs
    BY <1>3 DEF HasWrite
  <2>2. CASE ~Bypassing(d) /\ pc[d] # "readBackfill"
    BY <1>1, <2>1, <2>2 DEF BypassOK, Bypassing, Untouched
  <2>3. CASE Bypassing(d) \/ pc[d] = "readBackfill"
    <3>0. /\ hdr[d].salt <= hdr0.salt
          /\ hdr[d].salt = hdr0.salt => hdr[d].mxFrame <= hdr0.mxFrame
          /\ Bypassing(d) /\ hdr[d].salt = hdr0.salt /\ hdr[d].mxFrame = hdr0.mxFrame =>
                nBackfill = hdr0.mxFrame
      BY <2>3 DEF BypassOK
    <3>1. Bypassing(d) => pc[d] = "lockRead0" \/ READ(0) \in sharedMask[d]
      BY DEF Bypassing, LockInv, Known, HoldOK
    <3>2. exclMask[c] \cap sharedMask[d] = {} BY DEF LockInv, LockExclusion
    <3>3. CASE UNCHANGED <<hdr0, nBackfill>>
      BY <1>1, <2>1, <3>0, <3>3 DEF BypassOK, Bypassing, Untouched
    <3>4. CASE Publish0(c)
      <4>1. hdr0' = hdr[c] /\ UNCHANGED nBackfill /\ pc[c] = "publish0" BY <3>4 DEF Publish0
      <4>2. hdr[c].mxFrame > hdr0.mxFrame /\ hdr0.salt <= hdr[c].salt
        BY <4>1 DEF LockInv, Known, BaseOK, SaltOK
      <4> QED BY <1>0, <1>1, <2>1, <3>0, <4>1, <4>2 DEF BypassOK, Bypassing, Untouched
    <3>5. CASE RestartHdr0(c)
      <4>1. hdr0' = hdr[c] /\ UNCHANGED nBackfill /\ pc[c] = "restartHdr0"
        BY <3>5 DEF RestartHdr0
      <4>2. hdr0.salt < hdr[c].salt BY <4>1 DEF SaltOK
      <4> QED BY <1>0, <1>1, <2>1, <3>0, <4>1, <4>2 DEF BypassOK, Bypassing, Untouched
    <3>6. CASE RecoverHdr0(c)
      <4>1. hdr0' = hdr[c] /\ UNCHANGED nBackfill /\ pc[c] = "recHdr0"
        BY <3>6 DEF RecoverHdr0
      <4>2. hdr0.salt <= hdr[c].salt /\ hdr0.mxFrame <= hdr[c].mxFrame BY <4>1 DEF SaltOK
      <4> QED BY <1>0, <1>1, <2>1, <3>0, <4>1, <4>2 DEF BypassOK, Bypassing, Untouched
    <3>7. CASE CkptBackfill(c)
      <4>1. UNCHANGED hdr0 /\ pc[c] = "ckBackfill" BY <3>7 DEF CkptBackfill
      <4>2. READ(0) \in exclMask[c] BY <4>1 DEF LockInv, Known, HoldOK, CkptCopying
      <4>3. nBackfill < hdr0.mxFrame BY <1>0, <4>1 DEF TargetOK, CkptCopying
      <4>4. ~(Bypassing(d) /\ hdr[d].salt = hdr0.salt /\ hdr[d].mxFrame = hdr0.mxFrame)
        BY <1>0, <3>0, <4>3
      <4> QED BY <1>1, <2>1, <3>0, <4>1, <4>4 DEF BypassOK, Bypassing, Untouched
    <3>8. CASE RestartBackfill(c)
      <4>1. UNCHANGED hdr0 /\ nBackfill' = 0 /\ pc[c] = "restartBackfill"
        BY <3>8 DEF RestartBackfill
      <4>2. hdr0.mxFrame = 0 BY <4>1 DEF BypassOK
      <4> QED BY <1>1, <2>1, <3>0, <4>1, <4>2 DEF BypassOK, Bypassing, Untouched
    <3>9. CASE RecoverInfo(c)
      <4>1. /\ UNCHANGED hdr0 /\ pc[c] = "recInfo" /\ pc[d] # "lockRead0"
        BY <3>9 DEF RecoverInfo, NoRaces
      <4>2. READ(0) \in exclMask[c] BY <4>1 DEF LockInv, Known, HoldOK, ReadLocks
      <4>3. ~Bypassing(d) BY <3>1, <3>2, <4>1, <4>2
      <4> QED BY <1>1, <2>1, <3>0, <4>1, <4>3 DEF BypassOK, Bypassing, Untouched
    <3> QED BY <3>3, <3>4, <3>5, <3>6, <3>7, <3>8, <3>9, HeaderSteps, FillSteps
  <2> QED BY <2>2, <2>3
<1> QED BY <1>2, <1>3

(* A checkpointer aims at the end of the log it has read, which is not yet in the
   database; a reader in its way only lowers the aim. *)
LEMMA TargetOwn ==
  ASSUME TypeOK, NEW c \in Conn, Known(c), InitOK(c), TargetOK(c), Step(c)
  PROVE  TargetOK(c)'
<1>0. /\ nBackfill \in Nat /\ hdr0.mxFrame \in Nat /\ hdr[c].mxFrame \in Nat
      /\ mxSafe[c] \in Nat /\ mxMark[c] \in Nat
  BY Shapes DEF Hdr
<1>a. pc'[c] \notin {"ckStart"} \cup CkGoing => TargetOK(c)' BY DEF TargetOK, CkptCopying
<1>1. ASSUME OpenStep(c) PROVE TargetOK(c)'
  <2>1. CASE ReadHdr(c) \/ RereadHdr(c)
    <3>1. UNCHANGED <<nBackfill, hdr0>> BY <2>1, LoadView
    <3>2. pc'[c] \in {"readBackfill", "lockHdr", "recover"} \/ (pc'[c] = "ckStart" /\ hdr'[c] = hdr0)
      BY <2>1, LoadView
    <3>3. CASE pc'[c] = "ckStart" /\ hdr'[c] = hdr0
      BY <1>0, <3>1, <3>3 DEF TargetOK, CkptCopying
    <3> QED BY <1>a, <3>2, <3>3
  <2>2. CASE CheckRead0(c) \/ CheckMark(c)
    <3>1. pc'[c] \in {"idle", "readHdr", "failed", "scan", "open", "logHdr"}
      BY <2>2, CheckView, RetryView
    <3> QED BY <1>a, <3>1
  <2>3. CASE ~(ReadHdr(c) \/ RereadHdr(c) \/ CheckRead0(c) \/ CheckMark(c))
    <3>1. pc'[c] \notin {"ckStart"} \cup CkGoing
      BY <1>1, <2>3, Shapes DEF OpenStep, LockHdr, HdrBusyLock, HdrBusyRetry, Goto, HdrBusy, Retry,
         OpenFails, ReadBackfill, LockRead0, ScanMark, SetMark, GrabMark, LockMark, StartScan
    <3> QED BY <1>a, <3>1
  <2> QED BY <2>1, <2>2, <2>3
<1>2. ASSUME RecoverStep(c) PROVE TargetOK(c)'
  <2>1. CASE RecoverDone(c)
    <3>1. /\ pc[c] = "recDone" /\ pc'[c] \in {"readBackfill", "ckStart"}
          /\ UNCHANGED <<hdr, hdr0>>
      BY <2>1, Shapes DEF RecoverDone, AfterHdr, Goto
    <3> QED BY <1>0, <3>1 DEF TargetOK, CkptCopying, InitOK
  <2>2. CASE ~RecoverDone(c)
    <3>1. pc'[c] \notin {"ckStart"} \cup CkGoing
      BY <1>2, <2>2, Shapes DEF RecoverStep, RecoverLock, RecoverScan, RecoverHdr1, RecoverHdr0,
         RecoverInfo, RecoverError, Goto, HdrBusy, OpenFails
    <3> QED BY <1>a, <3>1
  <2> QED BY <2>1, <2>2
<1>3. ASSUME WriteStep(c) PROVE TargetOK(c)'
  <2>1. CASE LogHdr(c) \/ WriteFrame(c) \/ FramesDone(c) \/ RestartLock(c)
    BY <1>a, <2>1, LogHdrView, WriteFrameView, FramesDoneView, RestartLockView
  <2>2. CASE ~(LogHdr(c) \/ WriteFrame(c) \/ FramesDone(c) \/ RestartLock(c))
    <3>1. pc'[c] \notin {"ckStart"} \cup CkGoing
      BY <1>3, <2>2, Shapes DEF WriteStep, RestartHdr1, RestartHdr0, RestartBackfill, RestartMarks,
         LeaveRead0, SyncHdr, SyncFrames, IndexFrame, Publish1, Publish0, EndWrite, FramesError,
         Goto, StartScan
    <3> QED BY <1>a, <3>1
  <2> QED BY <2>1, <2>2
<1>4. ASSUME CkptStep(c) PROVE TargetOK(c)'
  <2>1. CASE CkptStart(c)
    BY <2>1, <1>0, Shapes DEF TargetOK, CkptCopying, CkptStart, Goto
  <2>2. CASE CkptMark(c) \/ CkptMarkLock(c) \/ CkptMarkSet(c)
    BY <2>2, <1>0, Shapes DEF TargetOK, CkptCopying, CkptMark, CkptMarkLock, CkptMarkSet, Goto,
       NextMark
  <2>3. CASE CkptLock0(c) \/ CkptSync(c) \/ CkptCopy(c) \/ CkptTruncate(c)
    BY <2>3, <1>0, Shapes DEF TargetOK, CkptCopying, CkptLock0, CkptSync, CkptCopy, CkptTruncate,
       Goto
  <2>4. CASE CkptWrite(c) \/ CkptBackfill(c) \/ CkptTail(c) \/ CkptRestart(c) \/ CkptError(c)
             \/ CkptEnd(c)
    <3>1. pc'[c] \notin {"ckStart"} \cup CkGoing
      BY <2>4, Shapes DEF CkptWrite, CkptBackfill, CkptTail, CkptRestart, CkptError, CkptEnd, Goto
    <3> QED BY <1>a, <3>1
  <2> QED BY <1>4, <2>1, <2>2, <2>3, <2>4 DEF CkptStep
<1>5. ASSUME UserStep(c) PROVE TargetOK(c)'
  <2>1. pc'[c] \notin {"ckStart"} \cup CkGoing
    BY <1>5, Shapes DEF UserStep, BeginRead, EndRead, BeginWrite, BeginFrames, Rollback, CkptBegin,
       Goto
  <2> QED BY <1>a, <2>1
<1>6. ASSUME Crash(c) PROVE TargetOK(c)'
  <2>1. pc'[c] = "idle" BY <1>6, Shapes DEF Crash, Goto
  <2> QED BY <1>a, <2>1
<1> QED BY <1>1, <1>2, <1>3, <1>4, <1>5, <1>6 DEF Step, ConnStep

(* The log is not restarted under a checkpointer that has work to do, for it is
   not all in the database; nor recovered, for that takes its lock. *)
LEMMA TargetOther ==
  ASSUME NoRaces, TypeOK, LockInv, NEW c \in Conn, NEW d \in Conn \ {c}, Step(c),
         SaltOK(c), BypassOK(c), TargetOK(d)
  PROVE  TargetOK(d)'
<1>0. /\ nBackfill \in Nat /\ hdr0.mxFrame \in Nat /\ hdr[c].mxFrame \in Nat
      /\ hdr[d].mxFrame \in Nat /\ mxSafe[d] \in Nat /\ mxMark[d] \in Nat
  BY Shapes DEF Hdr
<1>1. Untouched(d) BY StepKnown DEF LockInv, Alone
<1>2. mxSafe'[d] = mxSafe[d] BY Private
<1>3. CASE pc[d] \notin {"ckStart"} \cup CkGoing
  BY <1>1, <1>3 DEF TargetOK, CkptCopying, Untouched
<1>4. CASE pc[d] \in {"ckStart"} \cup CkGoing
  <2>0. CKPT \notin exclMask[c]
    <3>1. op[d] = "ckpt" BY <1>4, Shapes DEF LockInv, Known, OpOK
    <3> QED BY <3>1 DEF LockInv, LockExclusion, Known, HoldOK
  <2>1. CASE UNCHANGED <<hdr0, nBackfill>>
    BY <1>1, <1>2, <2>1 DEF TargetOK, CkptCopying, Untouched
  <2>2. CASE Publish0(c)
    <3>1. hdr0' = hdr[c] /\ UNCHANGED nBackfill /\ pc[c] = "publish0" BY <2>2 DEF Publish0
    <3>2. hdr[c].mxFrame > hdr0.mxFrame BY <3>1 DEF LockInv, Known, BaseOK
    <3> QED BY <1>0, <1>1, <1>2, <3>1, <3>2 DEF TargetOK, CkptCopying, Untouched
  <2>3. CASE RestartHdr0(c)
    <3>1. hdr0' = hdr[c] /\ UNCHANGED nBackfill /\ pc[c] = "restartHdr0"
      BY <2>3 DEF RestartHdr0
    <3>2. nBackfill = hdr0.mxFrame BY <3>1 DEF BypassOK
    <3>3. pc[d] \notin CkGoing BY <1>0, <3>2 DEF TargetOK
    <3>4. hdr[d].mxFrame <= nBackfill BY <1>0, <1>4, <3>2, <3>3 DEF TargetOK
    <3> QED BY <1>1, <3>1, <3>3, <3>4 DEF TargetOK, CkptCopying, Untouched
  <2>4. CASE RecoverHdr0(c) \/ RecoverInfo(c)
    <3>1. pc[c] \in RecPlaces BY <2>4 DEF RecoverHdr0, RecoverInfo
    <3> QED BY <2>0, <3>1 DEF LockInv, Known, HoldOK
  <2>5. CASE CkptBackfill(c)
    <3>1. pc[c] = "ckBackfill" BY <2>5 DEF CkptBackfill
    <3> QED BY <2>0, <3>1, Shapes DEF LockInv, Known, HoldOK, OpOK
  <2>6. CASE RestartBackfill(c)
    <3>1. UNCHANGED hdr0 /\ pc[c] = "restartBackfill" /\ pc[d] # "ckStart"
      BY <2>6 DEF RestartBackfill, NoRaces
    <3>2. hdr0.mxFrame = 0 BY <3>1 DEF BypassOK
    <3> QED BY <1>0, <1>4, <3>1, <3>2 DEF TargetOK
  <2> QED BY <2>1, <2>2, <2>3, <2>4, <2>5, <2>6, HeaderSteps, FillSteps
<1> QED BY <1>3, <1>4

(* A reader of the log keeps its snapshot, takes its own frames in, or starts
   from the newest one. *)
LEMMA ReaderSteps ==
  ASSUME TypeOK, NEW d \in Conn, Known(d), Step(d), readLock'[d] > 0
  PROVE  \/ readLock'[d] = readLock[d] /\ hdr'[d].mxFrame >= hdr[d].mxFrame
         \/ hdr'[d] = hdr0
<1>0. hdr[d].mxFrame \in Nat /\ readLock[d] \in Slot \cup {0, -1} /\ iFrame[d] \in Nat
  BY Shapes DEF Hdr
<1>a. pc[d] \notin {"open", "failed"} \cup TxnPlaces => readLock[d] = -1 BY DEF Known, HoldOK
<1>1. ASSUME OpenStep(d) PROVE hdr'[d] = hdr0
  <2>1. CASE CheckRead0(d) \/ CheckMark(d)
    <3>1. pc[d] \in {"checkRead0", "checkMark"} BY <2>1 DEF CheckRead0, CheckMark
    <3> QED BY <1>a, <2>1, <3>1, CheckView
  <2>2. CASE ~(CheckRead0(d) \/ CheckMark(d))
    <3>1. /\ UNCHANGED readLock /\ pc[d] \notin {"open", "failed"} \cup TxnPlaces
      BY <1>1, <2>2 DEF OpenStep, ReadHdr, LockHdr, RereadHdr, HdrBusyLock, HdrBusyRetry,
         ReadBackfill, LockRead0, ScanMark, GrabMark, SetMark, LockMark
    <3> QED BY <1>a, <3>1
  <2> QED BY <2>1, <2>2
<1>2. ASSUME RecoverStep(d) PROVE FALSE
  <2>1. /\ UNCHANGED readLock /\ pc[d] \notin {"open", "failed"} \cup TxnPlaces
    BY <1>2 DEF RecoverStep, RecoverLock, RecoverScan, RecoverHdr1, RecoverHdr0, RecoverInfo,
       RecoverDone, RecoverError
  <2> QED BY <1>a, <2>1
<1>3. ASSUME WriteStep(d) PROVE readLock'[d] = readLock[d] /\ hdr'[d].mxFrame >= hdr[d].mxFrame
  <2>1. CASE RestartLock(d)
    <3>1. pc[d] = "restart" /\ UNCHANGED readLock BY <2>1, RestartLockView
    <3> QED BY <3>1 DEF Known, HoldOK
  <2>2. CASE LogHdr(d) \/ WriteFrame(d) BY <1>0, <2>2, LogHdrView, WriteFrameView
  <2>3. CASE FramesDone(d)
    <3>1. /\ pc[d] = "framesDone" /\ UNCHANGED readLock /\ hdr'[d].mxFrame = iFrame[d]
      BY <2>3, FramesDoneView
    <3>2. iFrame[d] > hdr[d].mxFrame BY <3>1 DEF Known, BaseOK
    <3> QED BY <1>0, <3>1, <3>2
  <2>4. CASE LeaveRead0(d) BY <2>4, Shapes DEF LeaveRead0
  <2>5. CASE ~(RestartLock(d) \/ LogHdr(d) \/ WriteFrame(d) \/ FramesDone(d) \/ LeaveRead0(d))
    <3>1. UNCHANGED <<hdr, readLock>>
      BY <1>3, <2>5 DEF WriteStep, RestartHdr1, RestartHdr0, RestartBackfill, RestartMarks, SyncHdr,
         SyncFrames, IndexFrame, Publish1, Publish0, EndWrite, FramesError
    <3> QED BY <1>0, <3>1
  <2> QED BY <2>1, <2>2, <2>3, <2>4, <2>5
<1>4. ASSUME CkptStep(d) PROVE FALSE
  <2>1. /\ UNCHANGED readLock /\ pc[d] \notin {"open", "failed"} \cup TxnPlaces
    BY <1>4 DEF CkptStep, CkptWrite, CkptStart, CkptMark, CkptMarkLock, CkptMarkSet,
       CkptLock0, CkptSync, CkptCopy, CkptTruncate, CkptBackfill, CkptTail, CkptRestart,
       CkptError, CkptEnd
  <2> QED BY <1>a, <2>1
<1>5. ASSUME UserStep(d)
      PROVE  \/ readLock'[d] = readLock[d] /\ hdr'[d].mxFrame >= hdr[d].mxFrame
             \/ hdr'[d] = hdr0
  <2>1. CASE Rollback(d) BY <2>1, Shapes DEF Rollback
  <2>2. CASE EndRead(d) BY <2>2, Shapes DEF EndRead
  <2>3. CASE ~Rollback(d) /\ ~EndRead(d)
    <3>1. UNCHANGED <<hdr, readLock>>
      BY <1>5, <2>3 DEF UserStep, BeginRead, BeginWrite, BeginFrames, CkptBegin
    <3> QED BY <1>0, <3>1
  <2> QED BY <2>1, <2>2, <2>3
<1>6. ASSUME Crash(d) PROVE FALSE BY <1>6, Shapes DEF Crash
<1> QED BY <1>1, <1>2, <1>3, <1>4, <1>5, <1>6 DEF Step, ConnStep

(* The loop of a checkpointer over the marks: past a slot, its aim is no higher
   than the snapshot of the reader found there. *)
LEMMA ClearOwn ==
  ASSUME TypeOK, LockInv, NEW c \in Conn, NEW d \in Conn \ {c}, Step(c), TargetOK(c),
         ClearOK(c, d)
  PROVE  ClearOK(c, d)'
<1>0. /\ hdr[d].mxFrame \in Nat /\ mxSafe[c] \in Nat /\ mxMark[c] \in Nat
      /\ readLock[d] \in Slot \cup {0, -1}
  BY Shapes DEF Hdr
<1>1. Untouched(d) BY StepKnown DEF LockInv, Alone
<1>2. hdr'[d] = hdr[d] /\ readLock'[d] = readLock[d] BY <1>1 DEF Untouched
<1>a. pc'[c] \notin CkGoing => ClearOK(c, d)' BY DEF ClearOK, Passed
<1>3. ASSUME pc'[c] \in CkGoing PROVE CkptStep(c)
  <2>1. ASSUME OpenStep(c) PROVE FALSE
    <3>1. CASE CheckRead0(c) \/ CheckMark(c) BY <1>3, <3>1, CheckView, RetryView DEF LockInv
    <3>2. CASE ReadHdr(c) \/ RereadHdr(c) BY <1>3, <3>2, LoadView DEF ReadHdr, RereadHdr
    <3>3. CASE ~(CheckRead0(c) \/ CheckMark(c) \/ ReadHdr(c) \/ RereadHdr(c))
      BY <1>3, <2>1, <3>3, Shapes DEF OpenStep, LockHdr, HdrBusyLock, HdrBusyRetry, Goto, HdrBusy,
         Retry, OpenFails, ReadBackfill, LockRead0, ScanMark, SetMark, GrabMark, LockMark, StartScan
    <3> QED BY <3>1, <3>2, <3>3
  <2>2. ASSUME RecoverStep(c) PROVE FALSE
    BY <1>3, <2>2, Shapes DEF RecoverStep, RecoverLock, RecoverScan, RecoverHdr1, RecoverHdr0,
       RecoverInfo, RecoverDone, RecoverError, Goto, HdrBusy, OpenFails, AfterHdr
  <2>3. ASSUME WriteStep(c) PROVE FALSE
    <3>1. CASE LogHdr(c) \/ WriteFrame(c) \/ FramesDone(c) \/ RestartLock(c)
      BY <1>3, <3>1, LogHdrView, WriteFrameView, FramesDoneView, RestartLockView
    <3>2. CASE ~(LogHdr(c) \/ WriteFrame(c) \/ FramesDone(c) \/ RestartLock(c))
      BY <1>3, <2>3, <3>2, Shapes DEF WriteStep, RestartHdr1, RestartHdr0, RestartBackfill,
         RestartMarks, LeaveRead0, SyncHdr, SyncFrames, IndexFrame, Publish1, Publish0, EndWrite,
         FramesError, Goto, StartScan
    <3> QED BY <3>1, <3>2
  <2>4. ASSUME UserStep(c) PROVE FALSE
    BY <1>3, <2>4, Shapes DEF UserStep, BeginRead, EndRead, BeginWrite, BeginFrames, Rollback,
       CkptBegin, Goto
  <2>5. ASSUME Crash(c) PROVE FALSE BY <1>3, <2>5, Shapes DEF Crash, Goto
  <2> QED BY <2>1, <2>2, <2>3, <2>4, <2>5 DEF Step, ConnStep
<1>4. ASSUME CkptStep(c) PROVE ClearOK(c, d)'
  <2>m. readLock[d] > 0 => /\ readLock[d] \in Slot
                           /\ aReadMark[readLock[d]] <= hdr[d].mxFrame
    BY <1>0 DEF LockInv, Known, MarkOK
  <2>1. CASE CkptStart(c)
    BY <2>1, <1>0, <1>2, Shapes DEF ClearOK, Passed, CkptStart, Goto, Slot
  <2>2. CASE CkptMark(c)
    <3>1. pc[c] = "ckMark" /\ slot[c] \in Slot /\ mxSafe' = mxSafe
      BY <2>2 DEF CkptMark, TypeOK, LoopTypeOK, InMarkLoop
    <3>2. aReadMark[slot[c]] \in Nat BY <3>1 DEF TypeOK, ShmTypeOK
    <3>3. CASE mxSafe[c] > aReadMark[slot[c]]
      <4>1. pc'[c] = "ckMarkLock" /\ slot'[c] = slot[c] /\ mxMark'[c] = aReadMark[slot[c]]
        BY <2>2, <3>3, Shapes DEF CkptMark, Goto
      <4> QED BY <1>0, <1>2, <2>m, <3>1, <4>1 DEF ClearOK, Passed, Slot
    <3>4. CASE ~(mxSafe[c] > aReadMark[slot[c]])
      <4>1. \/ LastSlot(c) /\ pc'[c] = "ckLock0"
            \/ pc'[c] = "ckMark" /\ slot'[c] = slot[c] + 1
        BY <2>2, <3>4, Shapes DEF CkptMark, NextMark, Goto
      <4>2. readLock[d] = slot[c] => mxSafe[c] <= hdr[d].mxFrame
        BY <1>0, <2>m, <3>1, <3>2, <3>4 DEF Slot
      <4> QED BY <1>0, <1>2, <2>m, <3>1, <4>1, <4>2, NReaderAssumption DEF ClearOK, Passed, LastSlot, Slot
    <3> QED BY <3>3, <3>4
  <2>3. CASE CkptMarkLock(c)
    <3>1. pc[c] = "ckMarkLock" /\ slot[c] \in Slot
      BY <2>3 DEF CkptMarkLock, TypeOK, LoopTypeOK, InMarkLoop
    <3>2. CASE mxSafe'[c] = mxSafe[c] /\ pc'[c] = "ckMarkSet" /\ slot'[c] = slot[c]
      BY <1>0, <1>2, <3>1, <3>2 DEF ClearOK, Passed
    <3>3. CASE ~(mxSafe'[c] = mxSafe[c] /\ pc'[c] = "ckMarkSet" /\ slot'[c] = slot[c])
      <4>1. /\ mxSafe'[c] = mxMark[c]
            /\ \/ LastSlot(c) /\ pc'[c] = "ckLock0"
               \/ pc'[c] = "ckMark" /\ slot'[c] = slot[c] + 1
        BY <2>3, <3>3, Shapes DEF CkptMarkLock, NextMark, Goto
      <4>2. mxMark[c] < mxSafe[c] BY <3>1 DEF TargetOK
      <4>3. readLock[d] = slot[c] => mxMark[c] <= hdr[d].mxFrame BY <3>1 DEF ClearOK
      <4>4. readLock[d] > 0 /\ readLock[d] < slot[c] => mxSafe[c] <= hdr[d].mxFrame
        BY <3>1 DEF ClearOK, Passed
      <4> QED BY <1>0, <1>2, <2>m, <3>1, <4>1, <4>2, <4>3, <4>4, NReaderAssumption
              DEF ClearOK, Passed, LastSlot, Slot
    <3> QED BY <3>2, <3>3
  <2>4. CASE CkptMarkSet(c)
    <3>1. pc[c] = "ckMarkSet" /\ slot[c] \in Slot /\ mxSafe' = mxSafe
      BY <2>4 DEF CkptMarkSet, TypeOK, LoopTypeOK, InMarkLoop
    <3>2. \/ LastSlot(c) /\ pc'[c] = "ckLock0"
          \/ pc'[c] = "ckMark" /\ slot'[c] = slot[c] + 1
      BY <2>4, Shapes DEF CkptMarkSet, NextMark, Goto
    <3>3. READ(slot[c]) \in exclMask[c] BY <3>1 DEF LockInv, Known, HoldOK
    <3>4. readLock[d] # slot[c]
      <4>1. readLock[d] # -1 => READ(readLock[d]) \in sharedMask[d] BY DEF LockInv, Known, HoldOK
      <4>2. exclMask[c] \cap sharedMask[d] = {} BY DEF LockInv, LockExclusion
      <4> QED BY <3>1, <3>3, <4>1, <4>2 DEF Slot
    <3> QED BY <1>0, <1>2, <2>m, <3>1, <3>2, <3>4, NReaderAssumption
            DEF ClearOK, Passed, LastSlot, Slot
  <2>5. CASE CkptLock0(c) \/ CkptSync(c) \/ CkptCopy(c) \/ CkptTruncate(c)
    <3>1. /\ mxSafe' = mxSafe /\ pc[c] \in CkGoing \ Marking /\ pc'[c] # "ckMarkLock"
      BY <2>5, Shapes DEF CkptLock0, CkptSync, CkptCopy, CkptTruncate, Goto
    <3> QED BY <1>2, <3>1 DEF ClearOK, Passed
  <2>6. CASE CkptWrite(c) \/ CkptBackfill(c) \/ CkptTail(c) \/ CkptRestart(c) \/ CkptError(c)
             \/ CkptEnd(c)
    <3>1. pc'[c] \notin CkGoing
      BY <2>6, Shapes DEF CkptWrite, CkptBackfill, CkptTail, CkptRestart, CkptError, CkptEnd, Goto
    <3> QED BY <1>a, <3>1
  <2> QED BY <1>4, <2>1, <2>2, <2>3, <2>4, <2>5, <2>6 DEF CkptStep
<1> QED BY <1>a, <1>3, <1>4

(* A new reader stands on the newest snapshot, which no checkpointer goes past. *)
LEMMA ClearReader ==
  ASSUME TypeOK, LockInv, NEW c \in Conn, NEW d \in Conn \ {c}, Step(d), TargetOK(c),
         ClearOK(c, d)
  PROVE  ClearOK(c, d)'
<1>0. /\ hdr[d].mxFrame \in Nat /\ mxSafe[c] \in Nat /\ mxMark[c] \in Nat /\ hdr0.mxFrame \in Nat
      /\ readLock[d] \in Slot \cup {0, -1} /\ hdr[c].mxFrame \in Nat
  BY Shapes DEF Hdr
<1>1. Untouched(c) BY StepKnown DEF LockInv, Alone
<1>2. /\ pc'[c] = pc[c] /\ slot'[c] = slot[c] /\ mxMark'[c] = mxMark[c] /\ mxSafe'[c] = mxSafe[c]
  BY <1>1, Private DEF Untouched
<1>3. CASE pc[c] \notin CkGoing BY <1>2, <1>3 DEF ClearOK, Passed
<1>4. CASE pc[c] \in CkGoing
  <2>1. /\ mxSafe[c] <= hdr0.mxFrame
        /\ pc[c] = "ckMarkLock" => mxMark[c] <= hdr0.mxFrame /\ slot[c] > 0
    <3>1. pc[c] = "ckMarkLock" => slot[c] > 0
      BY DEF TypeOK, LoopTypeOK, InMarkLoop, Slot
    <3> QED BY <1>0, <1>4, <3>1 DEF TargetOK
  <2>2. CASE readLock'[d] > 0
    <3>1. \/ readLock'[d] = readLock[d] /\ hdr'[d].mxFrame >= hdr[d].mxFrame
          \/ hdr'[d] = hdr0
      BY <2>2, ReaderSteps DEF LockInv
    <3>2. CASE hdr'[d] = hdr0 BY <1>2, <2>1, <3>2 DEF ClearOK
    <3>3. CASE readLock'[d] = readLock[d] /\ hdr'[d].mxFrame >= hdr[d].mxFrame
      <4>1. hdr'[d].mxFrame \in Nat
        <5>1. TypeOK' BY TypeStep DEF Next, Step
        <5> QED BY <5>1 DEF TypeOK, ConnTypeOK, Hdr
      <4> QED BY <1>0, <1>2, <3>3, <4>1 DEF ClearOK, Passed
    <3> QED BY <3>1, <3>2, <3>3
  <2>3. CASE ~(readLock'[d] > 0)
    BY <1>2, <2>1, <2>3 DEF ClearOK
  <2> QED BY <2>2, <2>3
<1> QED BY <1>3, <1>4

(* Nobody is in both roles, and a third connection touches neither. *)
LEMMA ClearStep ==
  ASSUME TypeOK, LockInv, NEW k \in Conn, Step(k), NEW c \in Conn, NEW d \in Conn,
         TargetOK(c), ClearOK(c, d)
  PROVE  ClearOK(c, d)'
<1>1. CASE c = d
  <2>1. Known(c)'
    <3>1. CASE k = c BY <3>1, StepKnown DEF LockInv
    <3>2. CASE k # c BY <3>2, StepOther DEF LockInv
    <3> QED BY <3>1, <3>2
  <2>2. readLock'[c] # -1 => pc'[c] \in {"open", "failed"} \cup TxnPlaces
    BY <2>1 DEF Known, HoldOK
  <2>3. pc'[c] \in CkGoing => readLock'[c] = -1 BY <2>2
  <2>4. pc'[c] = "ckMarkLock" => slot'[c] # -1
    <3>1. TypeOK' BY TypeStep DEF Next, Step
    <3> QED BY <3>1 DEF TypeOK, OpenTypeOK, Slot
  <2> QED BY <1>1, <2>3, <2>4 DEF ClearOK, Passed
<1>2. CASE c # d
  <2>1. CASE k = c BY <1>2, <2>1, ClearOwn
  <2>2. CASE k = d BY <1>2, <2>2, ClearReader
  <2>3. CASE k # c /\ k # d
    <3>1. Untouched(c) /\ Untouched(d) BY <2>3, StepKnown DEF LockInv, Alone
    <3>2. mxSafe'[c] = mxSafe[c] BY <2>3, Private
    <3> QED BY <3>1, <3>2 DEF ClearOK, Passed, Untouched
  <2> QED BY <2>1, <2>2, <2>3
<1> QED BY <1>1, <1>2

-----------------------------------------------------------------------------
(* The shared part of the invariant. *)

(* A salt is new when it is drawn, and the salt of the log file is no older than
   that of a header which is not to be trusted. *)
LEMMA SaltInvStep ==
  ASSUME TypeOK, LockInv, SaltInv, LogInv, NEW c \in Conn, Step(c), FillKnown(c)
  PROVE  SaltInv'
<1>0. /\ hdr0.salt \in Nat /\ hdr[c].salt \in Nat /\ nextSalt \in Nat /\ walHdr.salt \in Nat
      /\ \A h \in walHdrOld : h.salt \in Nat
      /\ hdr0.mxFrame \in Nat /\ hdr[c].mxFrame \in Nat
  <2>1. walHdrOld \in SUBSET WalHdr BY DEF TypeOK, FileTypeOK
  <2> QED BY <2>1, Shapes DEF Hdr, WalHdr
<1>1. InitOK(c) /\ SaltOK(c) /\ ChainOK(c) /\ BypassOK(c) /\ BaseOK(c) /\ CacheOK(c)
  BY DEF FillKnown, LockInv, Known
<1>2. CASE LogHdr(c)
  <2>1. UNCHANGED <<hdr0, hdr1>> /\ pc[c] = "logHdr" BY <1>2, LogHdrView
  <2>2. CASE hdr[c].mxFrame # 0
    BY <1>2, <2>1, <2>2, LogHdrView DEF SaltInv
  <2>3. CASE hdr[c].mxFrame = 0
    <3>1. hdr0.salt <= hdr[c].salt /\ hdr[c].salt < nextSalt
      BY <1>1, <2>1 DEF SaltOK, InBase
    <3>2. /\ hdr0.salt <= walHdr'.salt /\ walHdr'.salt < nextSalt' /\ nextSalt <= nextSalt'
          /\ nextSalt' \in Nat
      BY <1>0, <1>2, <2>3, <3>1, LogHdrView
    <3>3. walHdrOld' = walHdrOld \cup {walHdr, NoWalHdr} BY <1>2, <2>3, LogHdrView
    <3>4. NoWalHdr.salt = 0 BY DEF NoWalHdr
    <3>5. \A h \in walHdrOld' : h.salt < nextSalt'
      BY <1>0, <3>2, <3>3, <3>4 DEF SaltInv
    <3> QED BY <1>0, <2>1, <3>2, <3>5 DEF SaltInv
  <2> QED BY <2>2, <2>3
<1>3. CASE RestartLock(c)
  <2>1. UNCHANGED <<hdr0, hdr1, walHdr, walHdrOld>> /\ nextSalt' \in Nat /\ nextSalt <= nextSalt'
    BY <1>0, <1>3, RestartLockView
  <2> QED BY <1>0, <2>1 DEF SaltInv
<1>4. CASE RestartHdr1(c) \/ Publish1(c) \/ RecoverHdr1(c)
  <2>1. UNCHANGED <<hdr0, walHdr, walHdrOld, nextSalt>>
    BY <1>4 DEF RestartHdr1, Publish1, RecoverHdr1
  <2>2. hdr0.salt <= walHdr.salt
    <3>1. CASE RestartHdr1(c)
      <4>1. hdr0.mxFrame > 0 BY <1>1, <3>1 DEF RestartHdr1, BypassOK
      <4> QED BY <1>0, <4>1 DEF LogInv, LogOf
    <3>2. CASE Publish1(c)
      <4>1. pc[c] = "publish1" BY <3>2 DEF Publish1
      <4>2. walHdr.salt = hdr[c].salt BY <1>1, <4>1 DEF ChainOK, HasLog, LogOf
      <4> QED BY <1>1, <4>1, <4>2 DEF SaltOK
    <3>3. CASE RecoverHdr1(c) BY <1>1, <3>3 DEF RecoverHdr1, SaltOK
    <3> QED BY <1>4, <3>1, <3>2, <3>3
  <2> QED BY <2>1, <2>2 DEF SaltInv
<1>5. CASE RestartHdr0(c) \/ Publish0(c) \/ RecoverHdr0(c)
  <2>1. UNCHANGED <<hdr1, walHdr, walHdrOld, nextSalt>> /\ hdr0' = hdr[c]
    BY <1>5 DEF RestartHdr0, Publish0, RecoverHdr0
  <2>2. pc[c] \in {"restartHdr0", "publish0", "recHdr0"}
    BY <1>5 DEF RestartHdr0, Publish0, RecoverHdr0
  <2>3. hdr1 = hdr[c] /\ hdr[c].isInit BY <1>1, <2>2 DEF InitOK, CacheOK
  <2>4. hdr[c].salt < nextSalt BY <1>1, <2>2 DEF SaltOK, SaltInv
  <2> QED BY <2>1, <2>3, <2>4 DEF SaltInv
<1>6. CASE ~(LogHdr(c) \/ RestartLock(c) \/ RestartHdr1(c) \/ Publish1(c) \/ RecoverHdr1(c)
              \/ RestartHdr0(c) \/ Publish0(c) \/ RecoverHdr0(c))
  <2>1. UNCHANGED <<hdr0, hdr1>> BY <1>6, HeaderSteps
  <2>2. UNCHANGED walHdr BY <1>6, LogSteps, WriteFrameView
  <2>3. nextSalt' = nextSalt /\ (walHdrOld' = walHdrOld \/ walHdrOld' = {})
    BY <1>6, SaltSteps
  <2> QED BY <2>1, <2>2, <2>3 DEF SaltInv
<1> QED BY <1>2, <1>3, <1>4, <1>5, <1>6

(* The committed part of the log is written to only after it has been restarted. *)
LEMMA LogInvStep ==
  ASSUME TypeOK, LockInv, LogInv, NEW c \in Conn, Step(c), ChainOK(c)
  PROVE  LogInv'
<1>0. hdr0.mxFrame \in Nat /\ hdr[c].mxFrame \in Nat /\ iFrame[c] \in Nat
  BY Shapes DEF Hdr
<1>1. BaseOK(c) BY DEF LockInv, Known
<1>2. CASE RestartHdr0(c) \/ Publish0(c) \/ RecoverHdr0(c)
  <2>1. UNCHANGED <<walHdr, wal>> /\ hdr0' = hdr[c]
    BY <1>2 DEF RestartHdr0, Publish0, RecoverHdr0
  <2>2. pc[c] = "restartHdr0" \/ pc[c] = "publish0" \/ pc[c] = "recHdr0"
    BY <1>2 DEF RestartHdr0, Publish0, RecoverHdr0
  <2>3. hdr[c].mxFrame > 0 => /\ LogOf(hdr[c].salt, hdr[c].mxFrame, hdr[c].cksum)
                              /\ wal[hdr[c].mxFrame].size # 0
    BY <1>0, <1>1, <2>2 DEF BaseOK, ChainOK, HasLog, Top
  <2> QED BY <2>1, <2>3 DEF LogInv, LogOf, Chain
<1>3. CASE LogHdr(c)
  <2>1. UNCHANGED <<hdr0, wal>> /\ pc[c] = "logHdr" BY <1>3, LogHdrView
  <2>2. CASE hdr[c].mxFrame # 0
    <3>1. UNCHANGED walHdr BY <1>3, <2>2, LogHdrView
    <3> QED BY <2>1, <3>1 DEF LogInv, LogOf, Chain
  <2>3. CASE hdr[c].mxFrame = 0
    <3>1. hdr0.mxFrame = 0 BY <1>0, <1>1, <2>1, <2>3 DEF BaseOK, InBase
    <3> QED BY <2>1, <3>1 DEF LogInv
  <2> QED BY <2>2, <2>3
<1>4. CASE WriteFrame(c)
  <2>1. UNCHANGED <<hdr0, walHdr>> /\ pc[c] = "frames" BY <1>4, WriteFrameView
  <2>0. \E p \in todo[c], size \in Nat :
          wal' = [wal EXCEPT ![iFrame[c] + 1] =
                    [salt |-> hdr[c].salt, pg |-> p, size |-> size,
                     txn |-> txn[c], prev |-> hdr[c].cksum]]
    BY <1>4, WriteFrameView
  <2>2. PICK f : wal' = [wal EXCEPT ![iFrame[c] + 1] = f] BY <2>0
  <2>3. hdr0.mxFrame <= iFrame[c] BY <1>0, <1>1, <2>1 DEF BaseOK, InBase
  <2>4. \A i \in FrameNo : i <= hdr0.mxFrame => wal'[i] = wal[i]
    <3>1. \A i \in FrameNo : i \in Nat BY BoundFacts DEF FrameNo
    <3> QED BY <1>0, <2>2, <2>3, <3>1, Shapes
  <2>5. CASE hdr0.mxFrame > 0
    <3>1. LogOf(hdr0.salt, hdr0.mxFrame, hdr0.cksum) /\ wal[hdr0.mxFrame].size # 0
      BY <2>5 DEF LogInv
    <3>2. hdr0.mxFrame \in FrameNo BY <1>0, <2>5, <3>1, BoundFacts DEF LogOf, FrameNo
    <3>3. wal'[hdr0.mxFrame] = wal[hdr0.mxFrame] BY <1>0, <2>4, <3>2
    <3>4. ASSUME NEW i \in FrameNo, i <= hdr0.mxFrame
          PROVE  /\ wal'[i].pg # 0 /\ wal'[i].salt = hdr0.salt
                 /\ wal'[i].prev = IF i = 1 THEN 0 ELSE wal'[i - 1].txn
      <4>1. wal'[i] = wal[i] BY <2>4, <3>4
      <4>2. i # 1 => wal'[i - 1] = wal[i - 1]
        <5>1. i # 1 => i - 1 \in FrameNo /\ i - 1 <= hdr0.mxFrame
          BY <1>0, <3>4, BoundFacts DEF FrameNo
        <5> QED BY <2>4, <5>1
      <4>3. /\ wal[i].pg # 0 /\ wal[i].salt = hdr0.salt
            /\ wal[i].prev = IF i = 1 THEN 0 ELSE wal[i - 1].txn
        BY <3>1, <3>4 DEF LogOf, Chain
      <4> QED BY <4>1, <4>2, <4>3
    <3>5. Chain(wal', hdr0.salt, hdr0.mxFrame) BY <3>4 DEF Chain
    <3> QED BY <2>1, <3>1, <3>3, <3>5 DEF LogInv, LogOf
  <2>6. CASE ~(hdr0.mxFrame > 0) BY <2>1, <2>6 DEF LogInv
  <2> QED BY <2>5, <2>6
<1>5. CASE ~(RestartHdr0(c) \/ Publish0(c) \/ RecoverHdr0(c) \/ LogHdr(c) \/ WriteFrame(c))
  <2>1. UNCHANGED <<hdr0, wal, walHdr>> BY <1>5, HeaderSteps, LogSteps
  <2> QED BY <2>1 DEF LogInv, LogOf, Chain
<1> QED BY <1>2, <1>3, <1>4, <1>5

(* nBackfill grows up to the end of the log, and comes down with it. *)
LEMMA FillInvStep ==
  ASSUME NoRaces, TypeOK, LockInv, FillInv, NEW c \in Conn, Step(c), FillKnown(c)
  PROVE  FillInv'
<1>0. /\ hdr0.mxFrame \in Nat /\ hdr[c].mxFrame \in Nat /\ nBackfill \in Nat
      /\ mxSafe[c] \in Nat
  BY Shapes DEF Hdr
<1>1. SaltOK(c) /\ TargetOK(c) /\ BaseOK(c) BY DEF FillKnown, LockInv, Known
<1>2. CASE RestartHdr0(c)
  <2>1. pc'[c] = "restartBackfill" BY <1>2, Shapes DEF RestartHdr0, Goto
  <2> QED BY <2>1 DEF FillInv
<1>3. CASE Publish0(c) \/ RecoverHdr0(c)
  <2>1. hdr0' = hdr[c] /\ UNCHANGED nBackfill /\ pc[c] \in {"publish0", "recHdr0"}
    BY <1>3 DEF Publish0, RecoverHdr0
  <2>2. hdr0.mxFrame <= hdr[c].mxFrame BY <1>0, <1>1, <2>1 DEF BaseOK, SaltOK
  <2>3. \A e \in Conn : pc[e] # "restartBackfill"
    <3>1. SUFFICES ASSUME NEW e \in Conn, pc[e] = "restartBackfill" PROVE FALSE OBVIOUS
    <3>2. HasWrite(e) /\ HasWrite(c) BY <2>1, <3>1 DEF HasWrite
    <3> QED BY <2>1, <3>1, <3>2, Excluded DEF LockInv
  <2> QED BY <1>0, <2>1, <2>2, <2>3 DEF FillInv
<1>4. CASE CkptBackfill(c)
  <2>1. nBackfill' = mxSafe[c] /\ UNCHANGED hdr0 /\ pc[c] = "ckBackfill"
    BY <1>4 DEF CkptBackfill
  <2> QED BY <1>0, <1>1, <2>1 DEF TargetOK, FillInv
<1>5. CASE RestartBackfill(c) \/ RecoverInfo(c)
  <2>1. nBackfill' = 0 /\ UNCHANGED hdr0 BY <1>5 DEF RestartBackfill, RecoverInfo
  <2> QED BY <1>0, <2>1 DEF FillInv
<1>6. CASE ~(RestartHdr0(c) \/ Publish0(c) \/ RecoverHdr0(c) \/ CkptBackfill(c)
              \/ RestartBackfill(c) \/ RecoverInfo(c))
  <2>1. UNCHANGED <<hdr0, nBackfill>> BY <1>6, HeaderSteps, FillSteps
  <2>2. CASE nBackfill <= hdr0.mxFrame BY <2>1, <2>2 DEF FillInv
  <2>3. CASE ~(nBackfill <= hdr0.mxFrame)
    <3>1. PICK e \in Conn : pc[e] = "restartBackfill" BY <2>3 DEF FillInv
    <3>2. e # c
      <4>1. SUFFICES ASSUME pc[c] = "restartBackfill" PROVE FALSE BY <3>1
      <4>2. ~OpenStep(c)
        BY <4>1 DEF OpenStep, ReadHdr, LockHdr, RereadHdr, HdrBusyLock, HdrBusyRetry,
           ReadBackfill, LockRead0, CheckRead0, ScanMark, GrabMark, SetMark, LockMark, CheckMark
      <4>3. ~RecoverStep(c)
        BY <4>1 DEF RecoverStep, RecoverLock, RecoverScan, RecoverHdr1, RecoverHdr0, RecoverInfo,
           RecoverDone, RecoverError
      <4>4. ~WriteStep(c)
        BY <1>6, <4>1 DEF WriteStep, RestartLock, RestartHdr1, RestartMarks, LeaveRead0, LogHdr,
           SyncHdr, WriteFrame, SyncFrames, IndexFrame, FramesDone, Publish1, EndWrite, FramesError
      <4>5. ~CkptStep(c)
        BY <4>1 DEF CkptStep, CkptWrite, CkptStart, CkptMark, CkptMarkLock, CkptMarkSet, CkptLock0,
           CkptSync, CkptCopy, CkptTruncate, CkptTail, CkptRestart, CkptError, CkptEnd, CkptBackfill
      <4>6. ~UserStep(c)
        BY <4>1 DEF UserStep, BeginRead, EndRead, BeginWrite, BeginFrames, Rollback, CkptBegin
      <4>7. ~Crash(c) BY <4>1 DEF Crash, NoRaces
      <4> QED BY <4>2, <4>3, <4>4, <4>5, <4>6, <4>7 DEF Step, ConnStep
    <3>3. Untouched(e) BY <3>2, StepKnown DEF LockInv, Alone
    <3> QED BY <3>1, <3>3 DEF FillInv, Untouched
  <2> QED BY <2>2, <2>3
<1> QED BY <1>2, <1>3, <1>4, <1>5, <1>6

(* A loss of power leaves no index and no connection, and the header of a log
   that was in the file before. *)
LEMMA PowerBackfill ==
  ASSUME TypeOK, SaltInv, PowerFail
  PROVE  BackfillInv'
<1>1. /\ hdr0' = NoHdr /\ hdr1' = NoHdr /\ nBackfill' = 0 /\ UNCHANGED nextSalt
      /\ walHdr' \in walHdrOld \cup {walHdr} /\ walHdrOld' = {}
      /\ \A c \in Conn : pc'[c] = "idle" /\ op'[c] = "none" /\ readLock'[c] = -1
  BY DEF PowerFail
<1>2. NoHdr.salt = 0 /\ NoHdr.mxFrame = 0 BY DEF NoHdr
<1>3. SaltInv'
  <2>1. nextSalt \in Nat /\ hdr0.salt \in Nat /\ hdr0.salt < nextSalt BY Shapes DEF Hdr, SaltInv
  <2>2. walHdr'.salt < nextSalt BY <1>1 DEF SaltInv
  <2>3. walHdr'.salt \in Nat
    <3>1. walHdr' \in WalHdr BY <1>1 DEF TypeOK, FileTypeOK
    <3> QED BY <3>1 DEF WalHdr
  <2> QED BY <1>1, <1>2, <2>1, <2>2, <2>3 DEF SaltInv
<1>4. LogInv' /\ FillInv' BY <1>1, <1>2 DEF LogInv, FillInv
<1>5. ASSUME NEW c \in Conn PROVE FillKnown(c)'
  <2>1. InitOK(c)' /\ SaltOK(c)' BY <1>1 DEF InitOK, SaltOK, InBase
  <2>2. ChainOK(c)' /\ RoomOK(c)' BY <1>1 DEF ChainOK, HasLog, RoomOK
  <2>3. BypassOK(c)' /\ TargetOK(c)' BY <1>1 DEF BypassOK, Bypassing, TargetOK, CkptCopying
  <2> QED BY <2>1, <2>2, <2>3 DEF FillKnown
<1>6. ASSUME NEW c \in Conn, NEW d \in Conn PROVE ClearOK(c, d)'
  BY <1>1 DEF ClearOK, Passed
<1> QED BY <1>3, <1>4, <1>5, <1>6 DEF BackfillInv

(* There is no log yet. *)
LEMMA BackfillInit == Init => BackfillInv
<1> SUFFICES ASSUME Init PROVE BackfillInv OBVIOUS
<1>1. /\ hdr0 = EmptyHdr /\ hdr1 = EmptyHdr /\ nBackfill = 0 /\ nextSalt = 1
      /\ walHdr = NoWalHdr /\ walHdrOld = {}
      /\ \A c \in Conn : pc[c] = "idle" /\ op[c] = "none" /\ readLock[c] = -1
  BY DEF Init
<1>2. EmptyHdr.salt = 0 /\ EmptyHdr.mxFrame = 0 /\ EmptyHdr.isInit /\ NoWalHdr.salt = 0
  BY DEF EmptyHdr, NoHdr, NoWalHdr
<1>3. SaltInv /\ LogInv /\ FillInv BY <1>1, <1>2 DEF SaltInv, LogInv, FillInv
<1>4. ASSUME NEW c \in Conn PROVE FillKnown(c)
  <2>1. InitOK(c) /\ SaltOK(c) BY <1>1 DEF InitOK, SaltOK, InBase
  <2>2. ChainOK(c) /\ RoomOK(c) BY <1>1 DEF ChainOK, HasLog, RoomOK
  <2>3. BypassOK(c) /\ TargetOK(c) BY <1>1 DEF BypassOK, Bypassing, TargetOK, CkptCopying
  <2> QED BY <2>1, <2>2, <2>3 DEF FillKnown
<1>5. ASSUME NEW c \in Conn, NEW d \in Conn PROVE ClearOK(c, d)
  BY <1>1 DEF ClearOK, Passed
<1> QED BY <1>3, <1>4, <1>5 DEF BackfillInv

(* Every step keeps the invariant. *)
LEMMA BackfillStep ==
  ASSUME NoRaces, TypeOK, LockInv, BackfillInv, [Next]_vars
  PROVE  BackfillInv'
<1>1. CASE UNCHANGED vars
  <2>1. SaltInv' /\ LogInv' /\ FillInv'
    BY <1>1 DEF vars, BackfillInv, SaltInv, LogInv, LogOf, Chain, FillInv
  <2>2. ASSUME NEW c \in Conn PROVE FillKnown(c)'
    <3>1. FillKnown(c) BY DEF BackfillInv
    <3>2. InitOK(c)' /\ SaltOK(c)' BY <1>1, <3>1 DEF vars, FillKnown, InitOK, SaltOK, InBase
    <3>3. ChainOK(c)' /\ RoomOK(c)'
      BY <1>1, <3>1 DEF vars, FillKnown, ChainOK, HasLog, Top, LogOf, Chain, RoomOK
    <3>4. BypassOK(c)' /\ TargetOK(c)'
      BY <1>1, <3>1 DEF vars, FillKnown, BypassOK, Bypassing, TargetOK, CkptCopying
    <3> QED BY <3>2, <3>3, <3>4 DEF FillKnown
  <2>3. ASSUME NEW c \in Conn, NEW d \in Conn PROVE ClearOK(c, d)'
    BY <1>1 DEF vars, BackfillInv, ClearOK, Passed
  <2> QED BY <2>1, <2>2, <2>3 DEF BackfillInv
<1>2. CASE PowerFail BY <1>2, PowerBackfill DEF BackfillInv
<1>3. ASSUME NEW k \in Conn, Step(k) PROVE BackfillInv'
  <2>1. /\ SaltInv /\ LogInv /\ FillInv /\ FillKnown(k) /\ Known(k)
        /\ InitOK(k) /\ SaltOK(k) /\ ChainOK(k) /\ RoomOK(k) /\ BypassOK(k) /\ TargetOK(k)
    BY DEF BackfillInv, LockInv, FillKnown
  <2>2. SaltInv' BY <1>3, <2>1, SaltInvStep
  <2>3. LogInv' BY <1>3, <2>1, LogInvStep
  <2>4. FillInv' BY <1>3, <2>1, FillInvStep
  <2>5. FillKnown(k)'
    <3>1. InitOK(k)' BY <1>3, <2>1, InitOwn
    <3>2. SaltOK(k)' BY <1>3, <2>1, SaltOwn
    <3>3. ChainOK(k)' BY <1>3, <2>1, ChainOwn
    <3>4. RoomOK(k)' BY <1>3, <2>1, RoomOwn
    <3>5. BypassOK(k)' BY <1>3, <2>1, BypassOwn
    <3>6. TargetOK(k)' BY <1>3, <2>1, TargetOwn
    <3> QED BY <3>1, <3>2, <3>3, <3>4, <3>5, <3>6 DEF FillKnown
  <2>6. ASSUME NEW d \in Conn \ {k} PROVE FillKnown(d)'
    <3>0. InitOK(d) /\ SaltOK(d) /\ ChainOK(d) /\ RoomOK(d) /\ BypassOK(d) /\ TargetOK(d)
      BY DEF BackfillInv, FillKnown
    <3>1. InitOK(d)' BY <1>3, <2>1, <3>0, InitOther
    <3>2. SaltOK(d)' BY <1>3, <3>0, SaltOther
    <3>3. ChainOK(d)' BY <1>3, <3>0, ChainOther
    <3>4. RoomOK(d)' BY <1>3, <3>0, RoomOther
    <3>5. BypassOK(d)' BY <1>3, <2>1, <3>0, BypassOther
    <3>6. TargetOK(d)' BY <1>3, <2>1, <3>0, TargetOther
    <3> QED BY <3>1, <3>2, <3>3, <3>4, <3>5, <3>6 DEF FillKnown
  <2>7. ASSUME NEW c \in Conn, NEW d \in Conn PROVE ClearOK(c, d)'
    <3>1. TargetOK(c) /\ ClearOK(c, d) BY DEF BackfillInv, FillKnown
    <3> QED BY <1>3, <3>1, ClearStep
  <2> QED BY <2>2, <2>3, <2>4, <2>5, <2>6, <2>7 DEF BackfillInv
<1> QED BY <1>1, <1>2, <1>3 DEF Next, Step

-----------------------------------------------------------------------------
(* The log, the shared headers and nBackfill agree, and every connection can
   count on what it has read of them. *)
THEOREM BackfillKnown == ASSUME NoRaces PROVE Spec => []BackfillInv
<1>1. TypeOK /\ LockInv /\ BackfillInv /\ [Next]_vars => BackfillInv' BY BackfillStep
<1> QED BY <1>1, BackfillInit, LockSafe, TypeCorrect, PTL DEF Spec

(* wal.c 1686: while frames are copied into the database file, no reader of the
   log stands on a snapshot that is older than the last of them. *)
THEOREM CkptStaysBehind == ASSUME NoRaces PROVE Spec => []CkptBehindReaders
<1>1. BackfillInv => CkptBehindReaders
  BY DEF BackfillInv, ClearOK, Passed, CkptCopying, CkptBehindReaders
<1> QED BY <1>1, BackfillKnown, PTL

-----------------------------------------------------------------------------
(* What holds with all the races of the code: the frames that the shared header
   publishes, and those of an open snapshot, stay as they are. *)

(* An open snapshot of the log is no newer than the shared header. *)
SnapOK(c) == pc[c] = "open" /\ readLock[c] > 0 => hdr[c].mxFrame <= hdr0.mxFrame

LogKnownInv == LogInv /\ \A c \in Conn : ChainOK(c) /\ RoomOK(c) /\ SnapOK(c)

(* A snapshot is open after the checks of walTryBeginRead(), a commit or a
   rollback. *)
LEMMA OpensSnapshot ==
  ASSUME TypeOK, NEW c \in Conn, Step(c), pc'[c] = "open"
  PROVE  CheckRead0(c) \/ CheckMark(c) \/ EndWrite(c) \/ Rollback(c)
<1>1. ASSUME OpenStep(c), ~CheckRead0(c), ~CheckMark(c) PROVE pc'[c] # "open"
  <2>1. CASE ReadHdr(c) \/ RereadHdr(c) BY <2>1, LoadView
  <2>2. CASE LockHdr(c) \/ HdrBusyLock(c) \/ HdrBusyRetry(c)
    BY <2>2, Shapes DEF LockHdr, HdrBusyLock, HdrBusyRetry, Goto, HdrBusy, Retry, OpenFails
  <2>3. CASE ReadBackfill(c) \/ LockRead0(c) \/ ScanMark(c) \/ SetMark(c)
    BY <2>3, Shapes DEF ReadBackfill, LockRead0, ScanMark, SetMark, Goto, StartScan
  <2>4. CASE GrabMark(c) \/ LockMark(c)
    BY <2>4, Shapes DEF GrabMark, LockMark, Goto, Retry, OpenFails
  <2> QED BY <1>1, <2>1, <2>2, <2>3, <2>4 DEF OpenStep
<1>2. ASSUME RecoverStep(c) PROVE pc'[c] # "open"
  BY <1>2, Shapes DEF RecoverStep, RecoverLock, RecoverScan, RecoverHdr1, RecoverHdr0, RecoverInfo,
     RecoverDone, RecoverError, Goto, HdrBusy, AfterHdr, OpenFails
<1>3. ASSUME WriteStep(c), ~EndWrite(c) PROVE pc'[c] # "open"
  <2>1. CASE RestartLock(c) \/ LogHdr(c) \/ WriteFrame(c) \/ FramesDone(c)
    BY <2>1, RestartLockView, LogHdrView, WriteFrameView, FramesDoneView
  <2>2. CASE RestartHdr1(c) \/ RestartHdr0(c) \/ RestartBackfill(c) \/ RestartMarks(c) \/ LeaveRead0(c)
    BY <2>2, Shapes DEF RestartHdr1, RestartHdr0, RestartBackfill, RestartMarks, LeaveRead0, Goto,
       StartScan
  <2>3. CASE SyncHdr(c) \/ SyncFrames(c) \/ IndexFrame(c) \/ Publish1(c) \/ Publish0(c) \/ FramesError(c)
    BY <2>3, Shapes DEF SyncHdr, SyncFrames, IndexFrame, Publish1, Publish0, FramesError, Goto
  <2> QED BY <1>3, <2>1, <2>2, <2>3 DEF WriteStep
<1>4. ASSUME CkptStep(c) PROVE pc'[c] # "open"
  BY <1>4, Shapes DEF CkptStep, CkptWrite, CkptStart, CkptMark, CkptMarkLock, CkptMarkSet, CkptLock0,
     CkptSync, CkptCopy, CkptTruncate, CkptBackfill, CkptTail, CkptRestart, CkptError, CkptEnd, Goto,
     NextMark
<1>5. ASSUME UserStep(c), ~Rollback(c) PROVE pc'[c] # "open"
  BY <1>5, Shapes DEF UserStep, BeginRead, EndRead, BeginWrite, BeginFrames, CkptBegin, Goto
<1>6. ASSUME Crash(c) PROVE pc'[c] # "open" BY <1>6, Shapes DEF Crash, Goto
<1> QED BY <1>1, <1>2, <1>3, <1>4, <1>5, <1>6 DEF Step, ConnStep

(* It is opened on the shared header. *)
LEMMA SnapOwn ==
  ASSUME TypeOK, NEW c \in Conn, Known(c), Step(c)
  PROVE  SnapOK(c)'
<1>1. SUFFICES ASSUME pc'[c] = "open" PROVE hdr'[c].mxFrame <= hdr0'.mxFrame BY DEF SnapOK
<1>2. hdr0.mxFrame \in Nat BY Shapes DEF Hdr
<1>3. CASE CheckRead0(c) \/ CheckMark(c)
  <2>1. UNCHANGED <<hdr, hdr0>> /\ hdr[c] = hdr0 BY <1>1, <1>3, CheckView, RetryView
  <2> QED BY <1>2, <2>1
<1>4. CASE EndWrite(c)
  <2>1. UNCHANGED <<hdr, hdr0>> /\ hdr[c] = hdr0 BY <1>4 DEF EndWrite, Known, BaseOK, Bare
  <2> QED BY <1>2, <2>1
<1>5. CASE Rollback(c)
  <2>1. UNCHANGED hdr0 /\ hdr'[c] = hdr0 BY <1>5, Shapes DEF Rollback
  <2> QED BY <1>2, <2>1
<1> QED BY <1>1, <1>3, <1>4, <1>5, OpensSnapshot

(* The shared header goes back only under the locks of all slots. *)
LEMMA SnapOther ==
  ASSUME TypeOK, LockInv, NEW c \in Conn, NEW d \in Conn \ {c}, Step(c), SnapOK(d)
  PROVE  SnapOK(d)'
<1>1. Untouched(d) BY StepKnown DEF LockInv, Alone
<1>2. SUFFICES ASSUME pc[d] = "open", readLock[d] > 0 PROVE hdr[d].mxFrame <= hdr0'.mxFrame
  BY <1>1 DEF SnapOK, Untouched
<1>3. /\ hdr[d].mxFrame <= hdr0.mxFrame /\ hdr[d].mxFrame \in Nat /\ hdr0.mxFrame \in Nat
      /\ hdr[c].mxFrame \in Nat /\ readLock[d] \in Slot \cup {0, -1}
  BY <1>2, Shapes DEF SnapOK, Hdr
<1>4. READ(readLock[d]) \notin exclMask[c] BY <1>2, <1>3, Excluded DEF LockInv, Slot
<1>5. READ(readLock[d]) \in MarkLocks /\ READ(readLock[d]) \in ReadLocks
  BY <1>2, <1>3 DEF MarkLocks, ReadLocks, Slot
<1>6. ~RecoverHdr0(c) /\ ~RestartHdr0(c)
  BY <1>4, <1>5 DEF RecoverHdr0, RestartHdr0, LockInv, Known, HoldOK
<1>7. CASE Publish0(c)
  <2>1. hdr0' = hdr[c] /\ hdr[c].mxFrame > hdr0.mxFrame
    BY <1>7 DEF Publish0, LockInv, Known, BaseOK
  <2> QED BY <1>3, <2>1
<1>8. CASE hdr0' = hdr0 BY <1>3, <1>8
<1> QED BY <1>6, <1>7, <1>8, HeaderSteps

(* The invariant at the start, after a loss of power and under every step. *)
LEMMA LogKnownInit == Init => LogKnownInv
<1> SUFFICES ASSUME Init PROVE LogKnownInv OBVIOUS
<1>1. /\ hdr0 = EmptyHdr /\ \A c \in Conn : pc[c] = "idle" /\ op[c] = "none" BY DEF Init
<1>2. EmptyHdr.mxFrame = 0 BY DEF EmptyHdr, NoHdr
<1>3. LogInv BY <1>1, <1>2 DEF LogInv
<1>4. \A c \in Conn : ChainOK(c) /\ RoomOK(c) /\ SnapOK(c)
  BY <1>1 DEF ChainOK, HasLog, RoomOK, SnapOK
<1> QED BY <1>3, <1>4 DEF LogKnownInv

(* Each step is that of one connection, and leaves the others what they need. *)
LEMMA LogKnownStep ==
  ASSUME TypeOK, LockInv, LogKnownInv, [Next]_vars
  PROVE  LogKnownInv'
<1>1. CASE UNCHANGED vars
  <2>1. LogInv' BY <1>1 DEF vars, LogKnownInv, LogInv, LogOf, Chain
  <2>2. ASSUME NEW c \in Conn PROVE ChainOK(c)' /\ RoomOK(c)' /\ SnapOK(c)'
    <3>1. ChainOK(c)'
      BY <1>1 DEF vars, LogKnownInv, ChainOK, HasLog, Top, LogOf, Chain
    <3>2. RoomOK(c)' /\ SnapOK(c)' BY <1>1 DEF vars, LogKnownInv, RoomOK, SnapOK
    <3> QED BY <3>1, <3>2
  <2> QED BY <2>1, <2>2 DEF LogKnownInv
<1>2. CASE PowerFail
  <2>1. /\ hdr0' = NoHdr
        /\ \A c \in Conn : pc'[c] = "idle" /\ op'[c] = "none" /\ readLock'[c] = -1
    BY <1>2 DEF PowerFail
  <2>2. LogInv' BY <2>1 DEF LogInv, NoHdr
  <2>3. \A c \in Conn : ChainOK(c)' /\ RoomOK(c)' /\ SnapOK(c)'
    BY <2>1 DEF ChainOK, HasLog, RoomOK, SnapOK
  <2> QED BY <2>2, <2>3 DEF LogKnownInv
<1>3. ASSUME NEW k \in Conn, Step(k) PROVE LogKnownInv'
  <2>1. LogInv /\ Known(k) /\ ChainOK(k) /\ RoomOK(k) BY DEF LogKnownInv, LockInv
  <2>2. LogInv' BY <1>3, <2>1, LogInvStep
  <2>3. ChainOK(k)' /\ RoomOK(k)' /\ SnapOK(k)'
    BY <1>3, <2>1, ChainOwn, RoomOwn, SnapOwn
  <2>4. ASSUME NEW d \in Conn \ {k} PROVE ChainOK(d)' /\ RoomOK(d)' /\ SnapOK(d)'
    <3>1. ChainOK(d) /\ RoomOK(d) /\ SnapOK(d) BY DEF LogKnownInv
    <3> QED BY <1>3, <3>1, ChainOther, RoomOther, SnapOther
  <2> QED BY <2>2, <2>3, <2>4 DEF LogKnownInv
<1> QED BY <1>1, <1>2, <1>3 DEF Next, Step

(* The log stands behind the shared header, a writer's own one and every open
   snapshot. *)
THEOREM LogKnown == Spec => []LogKnownInv
<1>1. TypeOK /\ LockInv /\ LogKnownInv /\ [Next]_vars => LogKnownInv' BY LogKnownStep
<1> QED BY <1>1, LogKnownInit, LockSafe, TypeCorrect, PTL DEF Spec

(* walIndexRecover() finds every frame that the shared header publishes (wal.c
   1179-1210): no writer, restart or recovery, with any race of the code and any
   failure, leaves a header over a log it is not the end of. *)
THEOREM LogsIntact == Spec => []LogIntact
<1>1. ASSUME TypeOK, LogKnownInv PROVE LogIntact
  <2>1. SUFFICES ASSUME hdr0.mxFrame > 0
        PROVE  /\ walHdr.salt = hdr0.salt
               /\ wal[hdr0.mxFrame].txn = hdr0.cksum /\ wal[hdr0.mxFrame].size # 0
               /\ hdr0.mxFrame <= LastCommit(walHdr, wal)
    BY DEF LogIntact
  <2>2. LogOf(hdr0.salt, hdr0.mxFrame, hdr0.cksum) /\ wal[hdr0.mxFrame].size # 0
    BY <1>1, <2>1 DEF LogKnownInv, LogInv
  <2>3. hdr0.mxFrame \in Nat BY <1>1, Shapes DEF Hdr
  <2>4. hdr0.mxFrame \in FrameNo BY <2>1, <2>2, <2>3, BoundFacts DEF LogOf, FrameNo
  <2>5. /\ walHdr.ok /\ walHdr.salt = hdr0.salt /\ Chain(wal, walHdr.salt, hdr0.mxFrame)
        /\ hdr0.cksum = wal[hdr0.mxFrame].txn
    BY <2>1, <2>2, <2>3 DEF LogOf
  <2> QED BY <1>1, <2>2, <2>4, <2>5, LastCommitFinds
<1> QED BY <1>1, LogKnown, TypeCorrect, PTL

(* A frame is written behind those of every open snapshot of the log. *)
LEMMA WritesBehind ==
  ASSUME TypeOK, LockInv, LogKnownInv, NEW c \in Conn, NEW d \in Conn, Step(c), readLock[d] > 0,
         NEW i \in FrameNo, i <= hdr[d].mxFrame
  PROVE  wal'[i] = wal[i]
<1>1. /\ hdr0.mxFrame \in Nat /\ hdr[c].mxFrame \in Nat /\ hdr[d].mxFrame \in Nat
      /\ iFrame[c] \in Nat /\ i \in Nat /\ wal \in [FrameNo -> Frame]
  <2>1. hdr0.mxFrame \in Nat /\ hdr[c].mxFrame \in Nat /\ hdr[d].mxFrame \in Nat
    BY Shapes DEF Hdr
  <2>2. iFrame[c] \in Nat /\ wal \in [FrameNo -> Frame] BY Shapes
  <2>3. i \in Nat BY BoundFacts DEF FrameNo
  <2> QED BY <2>1, <2>2, <2>3
<1>2. CASE WriteFrame(c)
  <2>1. pc[c] = "frames" BY <1>2, WriteFrameView
  <2>2. hdr[c].mxFrame <= iFrame[c] /\ hdr0.mxFrame <= hdr[c].mxFrame
    BY <2>1 DEF LockInv, Known, BaseOK, InBase
  <2>3. CASE d # c /\ HasWrite(d) BY <2>3, WriterAlone
  <2>4. CASE d # c /\ ~HasWrite(d)
    <3>1. pc[d] = "open" BY <2>4 DEF LockInv, Known, HoldOK, HasWrite
    <3>2. hdr[d].mxFrame <= hdr0.mxFrame BY <3>1 DEF LogKnownInv, SnapOK
    <3>3. i # iFrame[c] + 1 BY <1>1, <2>2, <3>2
    <3> QED BY <1>1, <1>2, <3>3, WriteFrameView
  <2>5. CASE d = c
    <3>1. i # iFrame[c] + 1 BY <1>1, <2>2, <2>5
    <3> QED BY <1>1, <1>2, <3>1, WriteFrameView
  <2> QED BY <2>3, <2>4, <2>5
<1>3. CASE LogHdr(c) BY <1>3, LogHdrView
<1>4. CASE UNCHANGED wal BY <1>4
<1> QED BY <1>2, <1>3, <1>4, LogSteps

(* wal.c 2751: no frame of a snapshot is overwritten while its connection holds
   the lock of a mark, with any race of the code and any failure. *)
THEOREM FramesStable == Spec => SnapshotFramesStable
<1> DEFINE Kept(c) == (readLock[c] > 0 /\ readLock'[c] = readLock[c])
                         => \A i \in FrameNo : i <= hdr[c].mxFrame => wal'[i] = wal[i]
<1>1. ASSUME TypeOK, LockInv, LogKnownInv, [Next]_vars PROVE [\A c \in Conn : Kept(c)]_vars
  <2>1. CASE UNCHANGED vars BY <2>1
  <2>2. CASE PowerFail
    <3>1. \A c \in Conn : readLock'[c] = -1 BY <2>2 DEF PowerFail
    <3> QED BY <3>1
  <2>3. ASSUME NEW c \in Conn, Step(c), NEW d \in Conn PROVE Kept(d)
    BY <1>1, <2>3, WritesBehind
  <2> QED BY <1>1, <2>1, <2>2, <2>3 DEF Next, Step
<1> QED BY <1>1, LogKnown, LockSafe, TypeCorrect, PTL DEF Spec, SnapshotFramesStable
=============================================================================
