--------------------------- MODULE WalSnapshotProofs ---------------------------
(***************************************************************************)
(* What readers see, for any number of connections, slots, pages, frames   *)
(* and transactions: the pages of the snapshot they opened, whatever is    *)
(* written, checkpointed, restarted or recovered meanwhile.                *)
(***************************************************************************)
EXTENDS WalBackfillProofs

-----------------------------------------------------------------------------
(* What the invariant says. *)

(* The last of the first n frames of log wl that holds page p, 0 when none,
   and the page as a reader of the first n frames finds it. *)
LogFrame(wl, p, n) == Max({i \in FrameNo : i <= n /\ wl[i].pg = p} \cup {0})
Content(p, n) ==
    IF LogFrame(wal, p, n) = 0 THEN db[p] ELSE wal[LogFrame(wal, p, n)].txn

(* Header h against the database it stands for. *)
Sized(h) == h.nPage # 0 => \A p \in Page : image[h.ver][p] # NoData <=> p <= h.nPage
Shows(h) ==
    \A p \in Page : image[h.ver][p] # NoData => image[h.ver][p] = Content(p, h.mxFrame)
Whole(v) == \A p \in Page : db[p] = image[v][p]
Shaped(v) == \A p, q \in Page : q <= p /\ image[v][p] # NoData => image[v][q] # NoData

(* Numbers of transactions and salts of logs are new when they are drawn. *)
FreshInv ==
    /\ latest = hdr0.ver /\ hdr0.ver < nextTxn
    /\ \A i \in FrameNo : wal[i].salt < nextSalt /\ wal[i].txn < nextTxn /\ wal[i].prev < nextTxn

(* The wal-index has the page of every frame up to mxFrame, and no hole. *)
IndexInv ==
    /\ \A i \in FrameNo : i <= hdr0.mxFrame => aPgno[i] = wal[i].pg
    /\ \A i, j \in FrameNo : i < j /\ aPgno[j] # 0 => aPgno[i] # 0

(* The shared header stands for the database of transaction hdr0.ver. *)
ImageInv ==
    /\ image[hdr0.ver][1] # NoData /\ Sized(hdr0)
    /\ \A v \in Txn : Shaped(v)
    /\ hdr0.mxFrame > 0 => /\ wal[hdr0.mxFrame].txn = hdr0.ver
                           /\ wal[hdr0.mxFrame].size = hdr0.nPage
    /\ hdr0.nPage = 0 => hdr0.mxFrame = 0

(* Log and file show it; what is backfilled is in the file. *)
DataInv ==
    /\ Shows(hdr0)
    /\ nBackfill >= hdr0.mxFrame => Whole(hdr0.ver)
    /\ \A p \in Page :
          LET f == LogFrame(wal, p, hdr0.mxFrame)
          IN  0 < f /\ f <= nBackfill /\ p <= hdr0.nPage => db[p] = wal[f].txn

(* A commit frame behind mxFrame that a recovery may find gives the database of
   its transaction: its own pages, and the others of the shared header's. *)
CommitOK(n) ==
    /\ hdr0.ver < wal[n].txn
    /\ \A p \in Page :
          /\ wal[n].size < p => image[wal[n].txn][p] = NoData
          /\ p <= wal[n].size /\ LogFrame(wal, p, n) > hdr0.mxFrame =>
                image[wal[n].txn][p] = wal[LogFrame(wal, p, n)].txn
          /\ p <= wal[n].size /\ LogFrame(wal, p, n) <= hdr0.mxFrame =>
                image[wal[n].txn][p] = image[hdr0.ver][p] /\ image[hdr0.ver][p] # NoData
TailInv ==
    \A n \in FrameNo, s \in Nat :
        (hdr0.mxFrame < n /\ wal[n].size # 0 /\ hdr0.salt <= s /\ Chain(wal, s, n)) => CommitOK(n)

(* After a restart the file still has the old log, all of it backfilled. *)
OldLogInv == walHdr.salt < hdr0.salt => Recoverable

(* The versions connections know of, and the number of a pending transaction. *)
VerOK(c) ==
    /\ pc[c] \notin PublishPlaces \cup RecHdrPlaces => hdr[c].ver <= hdr0.ver
    /\ pc[c] \in PublishPlaces \cup RecHdrPlaces => hdr0.ver <= hdr[c].ver /\ hdr[c].ver < nextTxn
InTxn(c) == pc[c] \in TxnPlaces \ {"committed"} \/ op[c] = "frames"
Mine(c) == {i \in FrameNo : hdr0.mxFrame < i /\ i <= Top(c)}
PendOK(c) ==
    /\ txn[c] # 0 => InTxn(c) \/ pc[c] \in {"committed", "failed"}
    /\ txn[c] # 0 /\ InTxn(c) =>
         /\ hdr0.ver < txn[c] /\ txn[c] < nextTxn
         /\ \A i \in FrameNo : wal[i].txn = txn[c] \/ wal[i].prev = txn[c] => i \in Mine(c)
    /\ pc[c] \in RestartHdrs => \A i \in FrameNo : wal[i].salt < hdr[c].salt

(* The frames of a transaction, and what they still miss. *)
FrameOK(c) ==
    /\ spilled[c] # {} => InTxn(c) \/ pc[c] \in {"committed", "failed"}
    /\ todo[c] \subseteq spilled[c]
    /\ InTxn(c) /\ (pc[c] # "write" \/ spilled[c] # {}) => txn[c] # 0
    /\ InTxn(c) /\ pc[c] \notin PublishPlaces =>
         /\ \A i \in Mine(c) :
               /\ wal[i].txn = txn[c] /\ wal[i].pg \in spilled[c]
               /\ wal[i].size # 0 => pc[c] \in {"syncFrames", "index", "framesDone"} /\ i = Top(c)
         /\ \A p \in spilled[c] \ todo[c] : \E i \in Mine(c) : wal[i].pg = p
    /\ pc[c] \in {"write", "syncFrames", "index", "framesDone"} => todo[c] = {}
    /\ pc[c] = "write" /\ readLock[c] = 0 => spilled[c] = {}
    /\ InTxn(c) /\ pc[c] \notin {"write"} \cup PublishPlaces /\ newSize[c] # 0 =>
          \A p \in Page : p <= newSize[c] /\ image[hdr0.ver][p] = NoData => p \in spilled[c]
    /\ pc[c] \in PublishPlaces => /\ hdr[c].nPage = wal[hdr[c].mxFrame].size
                                  /\ hdr[c].ver = wal[hdr[c].mxFrame].txn

(* The entries of the wal-index a writer, or a recovery, has made. *)
Indexed(n) == \A i \in FrameNo : i <= n => aPgno[i] = wal[i].pg
IndexOK(c) ==
    /\ pc[c] \in {"write", "logHdr"} \cup PublishPlaces \cup RecHdrPlaces => Indexed(hdr[c].mxFrame)
    /\ pc[c] \in Writing =>
         /\ hdr[c].mxFrame <= iIdx[c] /\ iIdx[c] <= iFrame[c] /\ Indexed(iIdx[c])
         /\ hdr[c].mxFrame < iIdx[c] => \A i \in FrameNo : iIdx[c] < i => aPgno[i] = 0
    /\ pc[c] \in {"syncHdr", "frames", "syncFrames"} => iIdx[c] = hdr[c].mxFrame
    /\ pc[c] = "index" => iIdx[c] < iFrame[c]
    /\ pc[c] = "framesDone" => iIdx[c] = iFrame[c]

(* A reader's snapshot. *)
ReadOK(c) ==
    pc[c] = "open" =>
        /\ Sized(hdr[c])
        /\ readLock[c] = 0 \/ hdr[c].nPage = 0 => Whole(hdr[c].ver)
        /\ readLock[c] # 0 =>
             /\ hdr[c].mxFrame <= hdr0.mxFrame /\ Shows(hdr[c])
             /\ hdr[c].mxFrame = hdr0.mxFrame => hdr[c].ver = hdr0.ver /\ hdr[c].nPage = hdr0.nPage
             /\ hdr[c].nPage = 0 => hdr[c].mxFrame = 0

(* Header h is of the log of the shared one, and a database that has grown since
   has its new pages in the log. *)
SameLog(h) ==
    /\ h.mxFrame <= hdr0.mxFrame
    /\ h.mxFrame = hdr0.mxFrame => h.ver = hdr0.ver /\ h.nPage = hdr0.nPage
    /\ \A p \in Page : h.nPage < p /\ p <= hdr0.nPage =>
          \E i \in FrameNo : h.mxFrame < i /\ i <= hdr0.mxFrame /\ wal[i].pg = p

(* What a checkpointer has copied and has still to copy. *)
CopyOK(c) ==
    /\ pc[c] = "ckStart" /\ nBackfill < hdr[c].mxFrame => SameLog(hdr[c])
    /\ pc[c] \in CkGoing => SameLog(hdr[c])
    /\ pc[c] \in Marking \cup {"ckLock0"} =>
          iter[c] = {<<p, LogFrame(wal, p, hdr[c].mxFrame)>> :
                        p \in {q \in Page : LogFrame(wal, q, hdr[c].mxFrame) # 0}}
    /\ CkptCopying(c) =>
         /\ \A e \in iter[c] : nBackfill < e[2] /\ e[2] <= mxSafe[c]
                               /\ e[2] = LogFrame(wal, e[1], hdr[c].mxFrame)
         /\ \A p \in Page :
               LET f == LogFrame(wal, p, hdr[c].mxFrame)
               IN  nBackfill < f /\ f <= mxSafe[c] /\ p <= hdr[c].nPage =>
                       <<p, f>> \in iter[c] \/ db[p] = wal[f].txn
    /\ pc[c] \in {"ckTruncate", "ckBackfill"} => iter[c] = {}
    /\ pc[c] = "ckBackfill" /\ mxSafe[c] = hdr0.mxFrame => Whole(hdr0.ver)

(* A FULL or RESTART checkpoint works on the newest header, and ends well only
   with all of its log in the file. *)
PromiseOK(c) ==
    op[c] = "ckpt" /\ mode[c] \in {"full", "restart"} =>
        /\ pc[c] \in {"ckStart", "ckTail", "ckRestart"} \cup CkGoing => hdr[c] = hdr0
        /\ pc[c] = "ckRestart" \/ (pc[c] = "ckEnd" /\ rc[c] = "ok") => nBackfill >= hdr0.mxFrame

(* The header a recovery is about to publish: that of the last commit frame. *)
RecOK(c) ==
    pc[c] \in RecHdrPlaces =>
        /\ hdr[c].mxFrame > 0 =>
             /\ wal[hdr[c].mxFrame].txn = hdr[c].ver /\ wal[hdr[c].mxFrame].size = hdr[c].nPage
             /\ \A i \in FrameNo : hdr[c].mxFrame < i /\ Chain(wal, walHdr.salt, i) => wal[i].size = 0
        /\ hdr[c].mxFrame = 0 => hdr[c].ver = hdr0.ver /\ hdr[c].nPage = 0

DataKnown(c) ==
    /\ VerOK(c) /\ PendOK(c) /\ FrameOK(c) /\ IndexOK(c)
    /\ ReadOK(c) /\ CopyOK(c) /\ PromiseOK(c) /\ RecOK(c)
SnapshotInv ==
    /\ FreshInv /\ IndexInv /\ ImageInv /\ DataInv /\ TailInv /\ OldLogInv
    /\ \A c \in Conn : DataKnown(c)

-----------------------------------------------------------------------------
(* Frames and pages. *)

(* The numbers in the shared variables, and in those of a connection. *)
LEMMA Nums ==
  ASSUME TypeOK, NEW c \in Conn
  PROVE  /\ hdr0 \in Hdr /\ hdr0.salt \in Nat /\ hdr0.mxFrame \in Nat /\ hdr0.nPage \in Nat
         /\ hdr0.ver \in Txn
         /\ hdr[c] \in Hdr /\ hdr[c].salt \in Nat /\ hdr[c].mxFrame \in Nat /\ hdr[c].nPage \in Nat
         /\ hdr[c].ver \in Txn
         /\ nBackfill \in Nat /\ mxSafe[c] \in Nat /\ iFrame[c] \in Nat /\ iIdx[c] \in Nat
         /\ txn[c] \in Txn /\ newSize[c] \in Nat /\ nextTxn \in Nat /\ nextSalt \in Nat
         /\ walHdr.salt \in Nat /\ latest \in Txn
BY Shapes DEF TypeOK, WriteTypeOK, GhostTypeOK, BoundTypeOK, Hdr, WalHdr

(* The numbers in the frames; a transaction is no mark of a missing page. *)
LEMMA Units ==
  /\ \A v \in Txn : v \in Nat /\ v # NoData
  /\ \A p \in Page : p \in Nat /\ p > 0
  /\ \A i \in FrameNo : i \in Nat /\ i > 0 /\ i <= MaxFrame /\ 1 \in FrameNo
  /\ \A i \in FrameNo : i # 1 => i - 1 \in FrameNo
  /\ \A n \in Nat, i \in FrameNo : 0 < n /\ n <= i => n \in FrameNo
  /\ 1 \in Page /\ 0 \in Txn /\ 0 \notin FrameNo
BY BoundFacts, WalAssumption DEF Txn, NoData, Page, FrameNo

(* The types of what the model keeps of pages and frames. *)
LEMMA FrameShapes ==
  ASSUME TypeOK
  PROVE  /\ \A i \in FrameNo : /\ wal[i] \in Frame /\ wal[i].salt \in Nat /\ wal[i].txn \in Txn
                               /\ wal[i].prev \in Txn /\ wal[i].size \in Nat
         /\ \A v \in Txn : image[v] \in [Page -> Txn \cup {NoData}]
         /\ image \in [Txn -> Image] /\ db \in [Page -> Value] /\ aPgno \in [FrameNo -> Nat]
         /\ txn \in [Conn -> Txn] /\ spilled \in [Conn -> SUBSET Page] /\ iIdx \in [Conn -> Nat]
         /\ iter \in [Conn -> SUBSET (Page \X FrameNo)]
         /\ rc \in [Conn -> {"ok", "busy", "error"}]
         /\ mode \in [Conn -> {"passive", "full", "restart", "degraded"}]
         /\ wal \in [FrameNo -> Frame]
BY Shapes DEF TypeOK, FileTypeOK, ShmTypeOK, GhostTypeOK, WriteTypeOK, CkptTypeOK, Frame, Image

(* The last frame of a page is one of its frames, and no other is behind it. *)
LEMMA LogFrameIs ==
  ASSUME NEW wl, NEW p, NEW n
  PROVE  /\ LogFrame(wl, p, n) \in FrameNo \cup {0}
         /\ LogFrame(wl, p, n) # 0 => /\ LogFrame(wl, p, n) \in FrameNo /\ LogFrame(wl, p, n) <= n
                                      /\ wl[LogFrame(wl, p, n)].pg = p
         /\ \A i \in FrameNo : i <= n /\ wl[i].pg = p =>
               i <= LogFrame(wl, p, n) /\ LogFrame(wl, p, n) # 0
<1> DEFINE F == {i \in FrameNo : i <= n /\ wl[i].pg = p} \cup {0}
<1>1. F \in SUBSET (0 .. MaxFrame) /\ 0 \in F BY BoundFacts DEF FrameNo
<1>2. Max(F) \in F BY <1>1, BoundFacts, MaxIn
<1>3. \A x \in F : x <= Max(F) BY <1>1, BoundFacts, MaxUpper
<1>4. LogFrame(wl, p, n) = Max(F) BY DEF LogFrame
<1>5. \A i \in FrameNo : i <= n /\ wl[i].pg = p => i \in F OBVIOUS
<1>6. Max(F) # 0 => Max(F) \in FrameNo /\ Max(F) <= n /\ wl[Max(F)].pg = p BY <1>2
<1>7. \A i \in FrameNo : i <= n /\ wl[i].pg = p => i <= Max(F) /\ Max(F) # 0
  <2>1. Max(F) \in 0 .. MaxFrame BY <1>1, <1>2
  <2> QED BY <1>3, <1>5, <2>1, Units, BoundFacts
<1> HIDE DEF F
<1>8. Max(F) \in FrameNo \cup {0} BY <1>2 DEF F
<1> QED BY <1>4, <1>6, <1>7, <1>8

(* There is one such frame. *)
LEMMA LogFrameOnly ==
  ASSUME NEW wl, NEW p, NEW n, NEW m \in FrameNo \cup {0},
         m # 0 => m <= n /\ wl[m].pg = p,
         \A i \in FrameNo : i <= n /\ wl[i].pg = p => i <= m
  PROVE  LogFrame(wl, p, n) = m
<1> DEFINE f == LogFrame(wl, p, n)
<1>1. /\ f \in FrameNo \cup {0} /\ (f # 0 => f \in FrameNo /\ f <= n /\ wl[f].pg = p)
      /\ \A i \in FrameNo : i <= n /\ wl[i].pg = p => i <= f /\ f # 0
  BY LogFrameIs
<1> HIDE DEF f
<1>2. f # 0 => f <= m BY <1>1
<1>3. m # 0 => m <= f /\ f # 0 BY <1>1
<1>4. f \in Nat /\ m \in Nat BY <1>1, Units
<1>5. f = m BY <1>2, <1>3, <1>4
<1> QED BY <1>5 DEF f

(* It depends on the pages of the first n frames only. *)
LEMMA LogFrameSame ==
  ASSUME NEW wl, NEW w2, NEW p, NEW n, \A i \in FrameNo : i <= n => w2[i].pg = wl[i].pg
  PROVE  LogFrame(w2, p, n) = LogFrame(wl, p, n)
<1> DEFINE m == LogFrame(wl, p, n)
<1>1. /\ m \in FrameNo \cup {0} /\ (m # 0 => m \in FrameNo /\ m <= n /\ wl[m].pg = p)
      /\ \A i \in FrameNo : i <= n /\ wl[i].pg = p => i <= m
  BY LogFrameIs
<1> HIDE DEF m
<1>2. m # 0 => m <= n /\ w2[m].pg = p BY <1>1
<1>3. \A i \in FrameNo : i <= n /\ w2[i].pg = p => i <= m BY <1>1
<1>4. LogFrame(w2, p, n) = m BY <1>1, <1>2, <1>3, LogFrameOnly
<1> QED BY <1>4 DEF m

(* A frame among the first m is the last of the first m too, and a later frame
   of the page is a later last one. *)
LEMMA LogFrameCut ==
  ASSUME NEW wl, NEW p, NEW n \in Nat, NEW m \in Nat, m <= n
  PROVE  /\ LogFrame(wl, p, n) <= m => LogFrame(wl, p, m) = LogFrame(wl, p, n)
         /\ LogFrame(wl, p, m) <= LogFrame(wl, p, n)
         /\ LogFrame(wl, p, n) \in Nat /\ LogFrame(wl, p, m) \in Nat
<1> DEFINE f == LogFrame(wl, p, n)
           g == LogFrame(wl, p, m)
<1>1. /\ f \in FrameNo \cup {0} /\ (f # 0 => f \in FrameNo /\ f <= n /\ wl[f].pg = p)
      /\ \A i \in FrameNo : i <= n /\ wl[i].pg = p => i <= f
  BY LogFrameIs
<1>2. /\ g \in FrameNo \cup {0} /\ (g # 0 => g \in FrameNo /\ g <= m /\ wl[g].pg = p)
  BY LogFrameIs
<1>3. f <= m => LogFrame(wl, p, m) = f
  <2> HIDE DEF f
  <2>1. SUFFICES ASSUME f <= m PROVE LogFrame(wl, p, m) = f OBVIOUS
  <2>2. \A i \in FrameNo : i <= m => i <= n BY Units
  <2>3. \A i \in FrameNo : i <= m /\ wl[i].pg = p => i <= f BY <1>1, <2>2
  <2> QED BY <1>1, <2>1, <2>3, LogFrameOnly
<1> HIDE DEF f, g
<1>4. f \in Nat /\ g \in Nat BY <1>1, <1>2, Units
<1>5. g <= f BY <1>1, <1>2, <1>4
<1> QED BY <1>3, <1>4, <1>5 DEF f, g

(* The search of sqlite3WalRead() in the wal-index finds it. *)
LEMMA LogFrameIndex ==
  ASSUME NEW p, NEW n, Indexed(n)
  PROVE  LastFrame(p, n) = LogFrame(wal, p, n)
<1>1. {i \in FrameNo : i <= n /\ aPgno[i] = p} = {i \in FrameNo : i <= n /\ wal[i].pg = p}
  BY DEF Indexed
<1> QED BY <1>1 DEF LastFrame, LogFrame

-----------------------------------------------------------------------------
(* Which steps change pages, index and counters, and what stays private. *)

USE DEF lockVars, shmVars, fileVars, openVars, connVars, writeVars, ckptVars, ghostVars,
        boundVars, Opening, RecPlaces, HdrPlaces, Read0Places, RestartPlaces, FramePlaces,
        PublishPlaces, TxnPlaces, CkptPlaces, MarkPlaces,
        Writing, Loading, RecHdrPlaces, RestartHdrs, Marking, CkGoing

(* The database is written by a checkpoint, the index by a writer, its rollback
   and recovery; a transaction gets its number with its first frames. *)
LEMMA DataSteps ==
  ASSUME NEW c \in Conn, Step(c)
  PROVE  /\ db' # db => CkptCopy(c) \/ CkptTruncate(c)
         /\ aPgno' # aPgno => RecoverScan(c) \/ IndexFrame(c) \/ Rollback(c)
         /\ image' # image => WriteFrame(c)
         /\ latest' # latest => Publish0(c) \/ RecoverHdr0(c)
         /\ nextTxn' # nextTxn => BeginFrames(c)
<1> DEFINE Same == UNCHANGED <<db, aPgno, image, latest, nextTxn>>
<1>1. ASSUME OpenStep(c) PROVE Same
  BY <1>1 DEF OpenStep, ReadHdr, LockHdr, RereadHdr, HdrBusyLock, HdrBusyRetry,
     ReadBackfill, LockRead0, CheckRead0, ScanMark, GrabMark, SetMark, LockMark, CheckMark
<1>2. ASSUME RecoverStep(c), ~RecoverScan(c), ~RecoverHdr0(c) PROVE Same
  BY <1>2 DEF RecoverStep, RecoverLock, RecoverHdr1, RecoverInfo, RecoverDone, RecoverError
<1>3. ASSUME WriteStep(c), ~IndexFrame(c), ~WriteFrame(c), ~Publish0(c) PROVE Same
  BY <1>3 DEF WriteStep, RestartLock, RestartHdr1, RestartHdr0, RestartBackfill, RestartMarks,
     LeaveRead0, LogHdr, SyncHdr, SyncFrames, FramesDone, Publish1, EndWrite, FramesError
<1>4. ASSUME CkptStep(c), ~CkptCopy(c), ~CkptTruncate(c) PROVE Same
  BY <1>4 DEF CkptStep, CkptWrite, CkptStart, CkptMark, CkptMarkLock, CkptMarkSet, CkptLock0,
     CkptSync, CkptBackfill, CkptTail, CkptRestart, CkptError, CkptEnd
<1>5. ASSUME UserStep(c), ~BeginFrames(c), ~Rollback(c) PROVE Same
  BY <1>5 DEF UserStep, BeginRead, EndRead, BeginWrite, CkptBegin
<1>6. ASSUME Crash(c) PROVE Same BY <1>6 DEF Crash
<1>7. /\ CkptCopy(c) \/ CkptTruncate(c) => UNCHANGED <<aPgno, image, latest, nextTxn>>
      /\ RecoverScan(c) \/ IndexFrame(c) \/ Rollback(c) => UNCHANGED <<db, image, latest, nextTxn>>
      /\ WriteFrame(c) => UNCHANGED <<db, aPgno, latest, nextTxn>>
      /\ Publish0(c) \/ RecoverHdr0(c) => UNCHANGED <<db, aPgno, image, nextTxn>>
      /\ BeginFrames(c) => UNCHANGED <<db, aPgno, image, latest>>
  BY DEF CkptCopy, CkptTruncate, RecoverScan, IndexFrame, Rollback, WriteFrame, Publish0,
     RecoverHdr0, BeginFrames
<1> QED BY <1>1, <1>2, <1>3, <1>4, <1>5, <1>6, <1>7 DEF Step, ConnStep

(* The counters only grow. *)
LEMMA CountersGrow ==
  ASSUME TypeOK, NEW c \in Conn, Step(c)
  PROVE  nextTxn <= nextTxn' /\ nextSalt <= nextSalt' /\ nextTxn' \in Nat /\ nextSalt' \in Nat
<1>1. nextTxn \in Nat /\ nextSalt \in Nat BY DEF TypeOK, BoundTypeOK
<1>2. nextTxn' = nextTxn \/ nextTxn' = nextTxn + 1 BY DataSteps DEF BeginFrames
<1>3. nextSalt' = nextSalt \/ nextSalt' = nextSalt + 1
  BY SaltSteps, RestartLockView, LogHdrView DEF LogHdr, RestartLock
<1> QED BY <1>1, <1>2, <1>3

(* What a connection has spilled, indexed and still to copy is private. *)
LEMMA PrivateData ==
  ASSUME TypeOK, NEW c \in Conn, NEW d \in Conn \ {c}, Step(c)
  PROVE  /\ spilled'[d] = spilled[d] /\ iIdx'[d] = iIdx[d]
         /\ iter'[d] = iter[d] /\ rc'[d] = rc[d]
<1> DEFINE Same == /\ spilled'[d] = spilled[d] /\ iIdx'[d] = iIdx[d]
                   /\ iter'[d] = iter[d] /\ rc'[d] = rc[d]
<1>1. ASSUME OpenStep(c) PROVE Same
  BY <1>1, FrameShapes DEF OpenStep, ReadHdr, LockHdr, RereadHdr, HdrBusyLock, HdrBusyRetry, HdrBusy,
     ReadBackfill, LockRead0, CheckRead0, ScanMark, GrabMark, SetMark, LockMark, CheckMark
<1>2. ASSUME RecoverStep(c) PROVE Same
  BY <1>2, FrameShapes DEF RecoverStep, RecoverLock, RecoverScan, RecoverHdr1, RecoverHdr0,
     RecoverInfo, RecoverDone, RecoverError, HdrBusy
<1>3. ASSUME WriteStep(c) PROVE Same
  BY <1>3, FrameShapes DEF WriteStep, RestartLock, RestartHdr1, RestartHdr0, RestartBackfill,
     RestartMarks, LeaveRead0, LogHdr, SyncHdr, WriteFrame, SyncFrames, IndexFrame, FramesDone,
     Publish1, Publish0, FramesError, EndWrite, ForgetTxn
<1>4. ASSUME CkptStep(c) PROVE Same
  BY <1>4, FrameShapes DEF CkptStep, CkptWrite, CkptStart, CkptMark, CkptMarkLock, CkptMarkSet,
     CkptLock0, CkptSync, CkptCopy, CkptTruncate, CkptBackfill, CkptTail, CkptRestart, CkptError,
     CkptEnd
<1>5. ASSUME UserStep(c) PROVE Same
  BY <1>5, FrameShapes DEF UserStep, BeginRead, EndRead, BeginWrite, CkptBegin, BeginFrames,
     Rollback, ForgetTxn
<1>6. ASSUME Crash(c) PROVE Same BY <1>6, FrameShapes DEF Crash, ForgetTxn
<1> QED BY <1>1, <1>2, <1>3, <1>4, <1>5, <1>6 DEF Step, ConnStep

(* While one connection has WAL_WRITE_LOCK, no other commits or indexes frames. *)
LEMMA WriterAloneData ==
  ASSUME TypeOK, LockInv, NEW c \in Conn, NEW d \in Conn \ {c}, Step(c), HasWrite(d)
  PROVE  UNCHANGED <<hdr0, wal, walHdr, aPgno, image, latest>>
<1>1. ~HasWrite(c) BY Excluded DEF LockInv
<1>2. ~RecoverHdr0(c) /\ ~Publish0(c) /\ ~RecoverScan(c) /\ ~IndexFrame(c) /\ ~Rollback(c)
      /\ ~WriteFrame(c)
  BY <1>1 DEF HasWrite, RecoverHdr0, Publish0, RecoverScan, IndexFrame, Rollback, WriteFrame
<1> QED BY <1>2, DataSteps, WriterAlone

(* How a connection gets to the places the invariant speaks of. *)
LEMMA Moves ==
  ASSUME TypeOK, NEW c \in Conn, Known(c), Step(c)
  PROVE  /\ pc'[c] = "open" => CheckRead0(c) \/ CheckMark(c) \/ EndWrite(c) \/ Rollback(c)
         /\ pc'[c] \in RecHdrPlaces => RecoverScan(c) \/ RecoverHdr1(c)
         /\ pc'[c] \in PublishPlaces => FramesDone(c) \/ Publish1(c)
         /\ pc'[c] = "write" => BeginWrite(c) \/ FramesDone(c)
         /\ pc'[c] = "logHdr" => BeginFrames(c) \/ CheckMark(c)
         /\ pc'[c] \in RestartHdrs => RestartLock(c) \/ RestartHdr1(c)
         /\ pc'[c] \in {"syncHdr", "frames"} => LogHdr(c) \/ SyncHdr(c) \/ WriteFrame(c)
         /\ pc'[c] \in {"syncFrames", "index", "framesDone"} =>
               WriteFrame(c) \/ SyncFrames(c) \/ IndexFrame(c)
         /\ pc'[c] = "ckStart" => ReadHdr(c) \/ RereadHdr(c) \/ RecoverDone(c)
         /\ pc'[c] \in Marking \cup {"ckLock0"} =>
               CkptStart(c) \/ CkptMark(c) \/ CkptMarkLock(c) \/ CkptMarkSet(c)
         /\ pc'[c] \in {"ckSync", "ckCopy", "ckTruncate", "ckBackfill"} =>
               CkptLock0(c) \/ CkptSync(c) \/ CkptCopy(c) \/ CkptTruncate(c)
         /\ pc'[c] = "ckTail" => CkptLock0(c) \/ CkptBackfill(c)
         /\ pc'[c] = "ckRestart" => CkptTail(c)
         /\ pc'[c] = "ckEnd" => LockHdr(c) \/ RecoverLock(c) \/ RecoverError(c) \/ CkptStart(c)
                                   \/ CkptTail(c) \/ CkptRestart(c) \/ CkptError(c)
<1> DEFINE Places == {"open", "write", "logHdr", "ckStart", "ckLock0", "ckSync", "ckCopy",
                      "ckTruncate", "ckBackfill", "ckTail", "ckRestart", "ckEnd"}
                     \cup RecHdrPlaces \cup PublishPlaces \cup RestartHdrs \cup Writing
                     \cup Marking
<1>1. ASSUME OpenStep(c)
      PROVE  \/ pc'[c] \notin Places
             \/ pc'[c] = "open" /\ (CheckRead0(c) \/ CheckMark(c))
             \/ pc'[c] = "logHdr" /\ CheckMark(c)
             \/ pc'[c] = "ckStart" /\ (ReadHdr(c) \/ RereadHdr(c))
             \/ pc'[c] = "ckEnd" /\ LockHdr(c)
  <2>1. CASE CheckRead0(c)
    <3>1. pc[c] = "checkRead0" /\ op[c] # "frames" BY <2>1 DEF CheckRead0, Known, OpOK
    <3>2. pc'[c] \in {"idle", "readHdr", "failed", "scan", "open"}
      BY <2>1, <3>1, CheckView, RetryView
    <3> QED BY <2>1, <3>2
  <2>2. CASE CheckMark(c)
    <3>1. pc'[c] \in {"idle", "readHdr", "failed", "scan", "open", "logHdr"}
      BY <2>2, CheckView, RetryView
    <3> QED BY <2>2, <3>1
  <2>3. CASE ReadHdr(c) \/ RereadHdr(c) BY <2>3, LoadView
  <2>4. CASE LockHdr(c) \/ HdrBusyLock(c) \/ HdrBusyRetry(c)
    BY <2>4, Shapes DEF LockHdr, HdrBusyLock, HdrBusyRetry, Goto, HdrBusy, Retry, OpenFails
  <2>5. CASE ReadBackfill(c) \/ LockRead0(c) \/ ScanMark(c) \/ SetMark(c)
    BY <2>5, Shapes DEF ReadBackfill, LockRead0, ScanMark, SetMark, Goto, StartScan
  <2>6. CASE GrabMark(c) \/ LockMark(c)
    BY <2>6, Shapes DEF GrabMark, LockMark, Goto, Retry, OpenFails
  <2> QED BY <1>1, <2>1, <2>2, <2>3, <2>4, <2>5, <2>6 DEF OpenStep
<1>2. ASSUME RecoverStep(c)
      PROVE  \/ pc'[c] \notin Places
             \/ pc'[c] = "ckStart" /\ RecoverDone(c)
             \/ pc'[c] = "ckEnd" /\ (RecoverLock(c) \/ RecoverError(c))
             \/ pc'[c] \in RecHdrPlaces /\ (RecoverScan(c) \/ RecoverHdr1(c))
  BY <1>2, Shapes DEF RecoverStep, RecoverLock, RecoverScan, RecoverHdr1, RecoverHdr0, RecoverInfo,
     RecoverDone, RecoverError, Goto, HdrBusy, OpenFails, AfterHdr
<1>3. ASSUME WriteStep(c)
      PROVE  \/ pc'[c] \notin Places
             \/ pc'[c] = "open" /\ EndWrite(c)
             \/ pc'[c] \in PublishPlaces /\ (FramesDone(c) \/ Publish1(c))
             \/ pc'[c] = "write" /\ FramesDone(c)
             \/ pc'[c] \in RestartHdrs /\ (RestartLock(c) \/ RestartHdr1(c))
             \/ pc'[c] \in {"syncHdr", "frames"} /\ (LogHdr(c) \/ SyncHdr(c) \/ WriteFrame(c))
             \/ pc'[c] \in {"syncFrames", "index", "framesDone"} /\
                  (WriteFrame(c) \/ SyncFrames(c) \/ IndexFrame(c))
  <2>1. CASE LogHdr(c) \/ WriteFrame(c) \/ FramesDone(c) \/ RestartLock(c)
    BY <2>1, LogHdrView, WriteFrameView, FramesDoneView, RestartLockView
  <2>2. CASE ~(LogHdr(c) \/ WriteFrame(c) \/ FramesDone(c) \/ RestartLock(c))
    BY <1>3, <2>2, Shapes DEF WriteStep, RestartHdr1, RestartHdr0, RestartBackfill, RestartMarks,
       LeaveRead0, SyncHdr, SyncFrames, IndexFrame, Publish1, Publish0, EndWrite, FramesError, Goto,
       StartScan
  <2> QED BY <2>1, <2>2
<1>4. ASSUME CkptStep(c)
      PROVE  \/ pc'[c] \notin Places
             \/ pc'[c] \in Marking \cup {"ckLock0"} /\
                  (CkptStart(c) \/ CkptMark(c) \/ CkptMarkLock(c) \/ CkptMarkSet(c))
             \/ pc'[c] \in {"ckSync", "ckCopy", "ckTruncate", "ckBackfill"} /\
                  (CkptLock0(c) \/ CkptSync(c) \/ CkptCopy(c) \/ CkptTruncate(c))
             \/ pc'[c] = "ckTail" /\ (CkptLock0(c) \/ CkptBackfill(c))
             \/ pc'[c] = "ckRestart" /\ CkptTail(c)
             \/ pc'[c] = "ckEnd" /\ (CkptStart(c) \/ CkptTail(c) \/ CkptRestart(c) \/ CkptError(c))
  <2>1. CASE CkptStart(c) \/ CkptMark(c) \/ CkptMarkLock(c) \/ CkptMarkSet(c)
    BY <2>1, Shapes DEF CkptStart, CkptMark, CkptMarkLock, CkptMarkSet, Goto, NextMark
  <2>2. CASE CkptLock0(c) \/ CkptSync(c) \/ CkptCopy(c) \/ CkptTruncate(c) \/ CkptBackfill(c)
    BY <2>2, Shapes DEF CkptLock0, CkptSync, CkptCopy, CkptTruncate, CkptBackfill, Goto
  <2>3. CASE CkptWrite(c) \/ CkptTail(c) \/ CkptRestart(c) \/ CkptError(c) \/ CkptEnd(c)
    BY <2>3, Shapes DEF CkptWrite, CkptTail, CkptRestart, CkptError, CkptEnd, Goto
  <2> QED BY <1>4, <2>1, <2>2, <2>3 DEF CkptStep
<1>5. ASSUME UserStep(c)
      PROVE  \/ pc'[c] \notin Places
             \/ pc'[c] = "open" /\ Rollback(c)
             \/ pc'[c] = "write" /\ BeginWrite(c)
             \/ pc'[c] = "logHdr" /\ BeginFrames(c)
  BY <1>5, Shapes DEF UserStep, BeginRead, EndRead, BeginWrite, BeginFrames, Rollback, CkptBegin, Goto
<1>6. ASSUME Crash(c) PROVE pc'[c] \notin Places BY <1>6, Shapes DEF Crash, Goto
<1> HIDE DEF Places
<1>7. /\ pc'[c] = "open" => pc'[c] \in Places
      /\ pc'[c] = "write" \/ pc'[c] = "logHdr" \/ pc'[c] = "ckStart" => pc'[c] \in Places
      /\ pc'[c] \in RecHdrPlaces \cup PublishPlaces \cup RestartHdrs => pc'[c] \in Places
      /\ pc'[c] \in {"syncHdr", "frames", "syncFrames", "index", "framesDone"} => pc'[c] \in Places
      /\ pc'[c] \in Marking \cup {"ckLock0"} => pc'[c] \in Places
      /\ pc'[c] \in {"ckSync", "ckCopy", "ckTruncate", "ckBackfill"} => pc'[c] \in Places
      /\ pc'[c] \in {"ckTail", "ckRestart", "ckEnd"} => pc'[c] \in Places
  BY DEF Places
<1> QED BY <1>1, <1>2, <1>3, <1>4, <1>5, <1>6, <1>7 DEF Step, ConnStep

-----------------------------------------------------------------------------
(* What is known before and after a step. *)

Sound == TypeOK /\ LockInv /\ BackfillInv

(* The parts of the invariants, for one connection. *)
LEMMA SoundFacts ==
  ASSUME Sound, NEW c \in Conn
  PROVE  /\ TypeOK /\ LockInv /\ LockExclusion /\ Known(c) /\ SaltInv /\ LogInv /\ FillInv
         /\ OpOK(c) /\ HoldOK(c) /\ BaseOK(c)
         /\ InitOK(c) /\ SaltOK(c) /\ ChainOK(c) /\ RoomOK(c) /\ BypassOK(c) /\ TargetOK(c)
         /\ \A d \in Conn : ClearOK(c, d)
BY DEF Sound, LockInv, Known, BackfillInv, FillKnown

(* The parts of the invariant at hand. *)
LEMMA DataFacts ==
  ASSUME SnapshotInv, NEW c \in Conn
  PROVE  /\ FreshInv /\ IndexInv /\ ImageInv /\ DataInv /\ TailInv /\ OldLogInv
         /\ VerOK(c) /\ PendOK(c) /\ FrameOK(c) /\ IndexOK(c)
         /\ ReadOK(c) /\ CopyOK(c) /\ PromiseOK(c) /\ RecOK(c)
BY DEF SnapshotInv, DataKnown

(* The same after the step: the headers of writers, and their logs. *)
LEMMA SoundNext ==
  ASSUME Sound', NEW c \in Conn
  PROVE  TypeOK' /\ BaseOK(c)' /\ HoldOK(c)' /\ OpOK(c)' /\ ChainOK(c)' /\ SaltOK(c)' /\ BypassOK(c)'
BY DEF Sound, LockInv, Known, BackfillInv, FillKnown

(* The numbers after the step. *)
LEMMA NumsNext ==
  ASSUME Sound', NEW c \in Conn
  PROVE  /\ hdr0'.salt \in Nat /\ hdr0'.mxFrame \in Nat /\ hdr0'.nPage \in Nat /\ hdr0'.ver \in Txn
         /\ hdr'[c].salt \in Nat /\ hdr'[c].mxFrame \in Nat /\ hdr'[c].nPage \in Nat
         /\ hdr'[c].ver \in Txn /\ txn'[c] \in Txn /\ nextTxn' \in Nat
         /\ iFrame'[c] \in Nat /\ iIdx'[c] \in Nat
<1>1. TypeOK' BY SoundNext
<1>2. hdr0' \in Hdr /\ hdr' \in [Conn -> Hdr] /\ txn' \in [Conn -> Txn] /\ nextTxn' \in Nat
      /\ iFrame' \in [Conn -> Nat] /\ iIdx' \in [Conn -> Nat]
  BY <1>1 DEF TypeOK, ShmTypeOK, ConnTypeOK, WriteTypeOK, BoundTypeOK
<1>3. hdr'[c] \in Hdr BY <1>2
<1> QED BY <1>2, <1>3 DEF Hdr

(* A header is published by one who has the write lock; a restart keeps the
   database and starts a log that is empty. *)
LEMMA PublishView ==
  ASSUME Sound, NEW c \in Conn, Step(c), hdr0' # hdr0
  PROVE  /\ hdr0' = hdr[c] /\ hdr'[c] = hdr[c] /\ HasWrite(c)
         /\ UNCHANGED <<wal, walHdr, db, image, nBackfill, aPgno, txn, spilled, todo, newSize, iFrame, readLock>>
         /\ \/ /\ pc[c] = "publish0" /\ pc'[c] = "committed" /\ latest' = txn[c]
               /\ txn[c] = hdr[c].ver /\ hdr0.mxFrame < hdr[c].mxFrame
            \/ /\ pc[c] = "recHdr0" /\ pc'[c] = "recInfo" /\ latest' = hdr[c].ver
               /\ hdr0.mxFrame <= hdr[c].mxFrame
            \/ /\ pc[c] = "restartHdr0" /\ pc'[c] = "restartBackfill" /\ latest' = latest
               /\ hdr[c].mxFrame = 0 /\ hdr[c].ver = hdr0.ver /\ hdr[c].nPage = hdr0.nPage
<1>1. BaseOK(c) /\ SaltOK(c) /\ TypeOK BY SoundFacts
<1>2. RecoverHdr0(c) \/ RestartHdr0(c) \/ Publish0(c) BY HeaderSteps
<1>3. CASE RecoverHdr0(c)
  BY <1>1, <1>3, Shapes DEF RecoverHdr0, Goto, SaltOK, HasWrite
<1>4. CASE RestartHdr0(c)
  BY <1>1, <1>4, Shapes DEF RestartHdr0, Goto, BaseOK, HasWrite
<1>5. CASE Publish0(c)
  BY <1>1, <1>5, Shapes, Nums DEF Publish0, Goto, BaseOK, HasWrite
<1> QED BY <1>2, <1>3, <1>4, <1>5

(* A frame goes behind the shared log and behind the private header. *)
LEMMA FrameView ==
  ASSUME Sound, NEW c \in Conn, WriteFrame(c)
  PROVE  /\ UNCHANGED <<hdr0, walHdr, db, aPgno, nBackfill, latest, nextTxn, nextSalt, txn, spilled, newSize,
                        iIdx, readLock, op>>
         /\ pc[c] = "frames" /\ iFrame'[c] = iFrame[c] + 1 /\ iFrame'[c] \in FrameNo
         /\ hdr0.mxFrame <= hdr[c].mxFrame /\ hdr[c].mxFrame <= iFrame[c]
         /\ hdr[c].ver = hdr0.ver /\ hdr'[c].ver = hdr[c].ver /\ hdr'[c].mxFrame = hdr[c].mxFrame
         /\ \A i \in FrameNo : i # iFrame'[c] => wal'[i] = wal[i]
         /\ \A v \in Txn : v # txn[c] => image'[v] = image[v]
         /\ \E p \in todo[c] :
              /\ todo'[c] = todo[c] \ {p}
              /\ wal'[iFrame'[c]].salt = hdr[c].salt /\ wal'[iFrame'[c]].pg = p
              /\ wal'[iFrame'[c]].txn = txn[c] /\ wal'[iFrame'[c]].prev = hdr[c].cksum
              /\ pc'[c] = "frames" \/ (pc'[c] \in {"syncFrames", "index"} /\ todo[c] = {p})
              /\ wal'[iFrame'[c]].size = 0 \/ (todo[c] = {p} /\ wal'[iFrame'[c]].size = newSize[c]
                                               /\ pc'[c] # "frames")
              /\ wal'[iFrame'[c]].size = 0 => image' = image
              /\ wal'[iFrame'[c]].size # 0 =>
                   \A q \in Page : image'[txn[c]][q] =
                     IF q > newSize[c] THEN NoData
                     ELSE IF q \in spilled[c] THEN txn[c] ELSE image[hdr0.ver][q]
<1>1. TypeOK /\ BaseOK(c) /\ RoomOK(c) /\ ChainOK(c) BY SoundFacts
<1>2. /\ hdr[c] \in Hdr /\ newSize[c] \in Nat /\ txn[c] \in Txn /\ iFrame[c] \in Nat
  BY <1>1, Shapes, FrameShapes
<1>3. PICK p \in todo[c] :
        /\ wal' = [wal EXCEPT ![iFrame[c] + 1] =
                     [salt |-> hdr[c].salt, pg |-> p,
                      size |-> IF todo[c] = {p} THEN newSize[c] ELSE 0,
                      txn |-> txn[c], prev |-> hdr[c].cksum]]
        /\ hdr' = [hdr EXCEPT ![c].cksum = txn[c]]
        /\ iFrame' = [iFrame EXCEPT ![c] = iFrame[c] + 1]
        /\ todo' = [todo EXCEPT ![c] = @ \ {p}]
        /\ image' = IF (IF todo[c] = {p} THEN newSize[c] ELSE 0) = 0 THEN image
                         ELSE [image EXCEPT ![txn[c]] = [q \in Page |->
                                 IF q > (IF todo[c] = {p} THEN newSize[c] ELSE 0) THEN NoData
                                 ELSE IF q \in spilled[c] THEN txn[c]
                                 ELSE image[hdr[c].ver][q]]]
        /\ Goto(c, IF ~(todo[c] = {p}) THEN "frames"
                   ELSE IF (IF todo[c] = {p} THEN newSize[c] ELSE 0) # 0 /\ newSync[c]
                        THEN "syncFrames" ELSE "index")
  BY Zenon DEF WriteFrame
<1>4. pc[c] = "frames" /\ UNCHANGED <<hdr0, walHdr, db, aPgno, nBackfill, latest, nextTxn, nextSalt, txn,
                                      spilled, newSize, iIdx, readLock, op>>
  BY DEF WriteFrame
<1>5. iFrame'[c] = iFrame[c] + 1 /\ todo'[c] = todo[c] \ {p} BY <1>1, <1>3, Shapes
<1>6. iFrame'[c] \in FrameNo BY <1>1, WriteFrameChain
<1>7. /\ hdr0.mxFrame <= hdr[c].mxFrame /\ hdr[c].mxFrame <= iFrame[c] /\ hdr[c].ver = hdr0.ver
  BY <1>1, <1>4, Nums DEF BaseOK, InBase
<1>8. hdr'[c].ver = hdr[c].ver /\ hdr'[c].mxFrame = hdr[c].mxFrame BY <1>1, <1>2, <1>3, Shapes DEF Hdr
<1> DEFINE size == IF todo[c] = {p} THEN newSize[c] ELSE 0
           f == [salt |-> hdr[c].salt, pg |-> p, size |-> size, txn |-> txn[c], prev |-> hdr[c].cksum]
<1>9. wal' = [wal EXCEPT ![iFrame'[c]] = f] BY <1>3, <1>5
<1>10. f.salt = hdr[c].salt /\ f.pg = p /\ f.txn = txn[c] /\ f.prev = hdr[c].cksum /\ f.size = size
  OBVIOUS
<1>11. /\ size = 0 \/ (todo[c] = {p} /\ size = newSize[c])
       /\ size = 0 => image' = image
       /\ size # 0 => image' = [image EXCEPT ![txn[c]] = [q \in Page |->
                                 IF q > newSize[c] THEN NoData
                                 ELSE IF q \in spilled[c] THEN txn[c]
                                 ELSE image[hdr[c].ver][q]]]
  BY <1>3
<1>12. pc'[c] = "frames" \/ (pc'[c] \in {"syncFrames", "index"} /\ todo[c] = {p})
  BY <1>1, <1>3, Shapes DEF Goto
<1>13. pc'[c] = "frames" => size = 0 BY <1>1, <1>3, Shapes DEF Goto
<1> HIDE DEF size, f
<1>14. wal'[iFrame'[c]] = f /\ \A i \in FrameNo : i # iFrame'[c] => wal'[i] = wal[i]
  BY <1>1, <1>6, <1>9, FrameShapes
<1>15. \A v \in Txn : v # txn[c] => image'[v] = image[v]
  <2>1. CASE size = 0 BY <2>1, <1>11
  <2>2. CASE size # 0 BY <1>1, <2>2, <1>11, FrameShapes
  <2> QED BY <2>1, <2>2
<1>16. size # 0 => \A q \in Page : image'[txn[c]][q] =
                     IF q > newSize[c] THEN NoData
                     ELSE IF q \in spilled[c] THEN txn[c] ELSE image[hdr0.ver][q]
  BY <1>1, <1>2, <1>7, <1>11, FrameShapes
<1> QED BY <1>4, <1>5, <1>6, <1>7, <1>8, <1>10, <1>11, <1>12, <1>13, <1>14, <1>15, <1>16

-----------------------------------------------------------------------------
(* A write transaction, from its first frame to the end. *)

Late == {"syncFrames", "index", "framesDone"}

(* A step inside a transaction that leaves log and headers alone. *)
Quiet(c) ==
    /\ UNCHANGED <<hdr0, wal, walHdr, image>> /\ hdr'[c] = hdr[c]
    /\ txn'[c] = txn[c] /\ spilled'[c] = spilled[c] /\ todo'[c] = todo[c]
    /\ newSize'[c] = newSize[c] /\ iFrame'[c] = iFrame[c]
    /\ InTxn(c) /\ pc[c] # "write" /\ pc'[c] # "write"
    /\ pc[c] \in Writing <=> pc'[c] \in Writing
    /\ pc[c] \in Late <=> pc'[c] \in Late
    /\ pc[c] \in PublishPlaces <=> pc'[c] \in PublishPlaces
    /\ pc'[c] \in RestartHdrs => pc[c] \in RestartHdrs

(* How a connection gets to, and stays in, a transaction. *)
LEMMA TxnSteps ==
  ASSUME Sound, NEW c \in Conn, Step(c), InTxn(c)'
  PROVE  \/ BeginWrite(c) \/ BeginFrames(c) \/ RestartLock(c) \/ RestartHdr0(c) \/ LogHdr(c)
         \/ WriteFrame(c) \/ FramesDone(c) \/ Quiet(c)
<1>0. TypeOK /\ Known(c) /\ OpOK(c) BY SoundFacts
<1>1. ASSUME OpenStep(c) PROVE Quiet(c)
  <2>1. UNCHANGED <<hdr0, wal, walHdr, image, txn, spilled, todo, newSize, iFrame>>
    BY <1>1 DEF OpenStep, ReadHdr, LockHdr, RereadHdr, HdrBusyLock, HdrBusyRetry,
       ReadBackfill, LockRead0, CheckRead0, ScanMark, GrabMark, SetMark, LockMark, CheckMark
  <2>2. op[c] = "frames" /\ pc[c] \in Opening /\ hdr'[c] = hdr[c]
        /\ (pc'[c] \in Opening \cup {"logHdr"} \/ op'[c] = "frames") /\ pc'[c] \in Opening \cup {"logHdr"}
    <3>1. CASE CheckRead0(c) \/ CheckMark(c)
      <4>1. /\ hdr' = hdr /\ op[c] \in {"read", "frames"}
            /\ \/ Retry(c) 
               \/ op'[c] = "none" /\ pc'[c] = IF op[c] = "read" THEN "open" ELSE "logHdr"
        BY <1>0, <3>1, CheckView
      <4>2. CASE Retry(c)
        <5>1. op[c] = "frames" /\ pc'[c] = "scan" /\ op'[c] = "frames"
          BY <1>0, <4>1, <4>2, RetryView DEF InTxn
        <5> QED BY <1>0, <4>1, <5>1 DEF OpOK
      <4>3. CASE ~Retry(c)
        <5>1. op[c] = "frames" /\ pc'[c] = "logHdr" BY <4>1, <4>3 DEF InTxn
        <5> QED BY <1>0, <4>1, <5>1 DEF OpOK
      <4> QED BY <4>2, <4>3
    <3>2. CASE ReadHdr(c) \/ RereadHdr(c)
      <4>1. op'[c] = op[c] /\ pc[c] \notin Opening BY <1>0, <3>2, LoadView DEF ReadHdr, RereadHdr
      <4>2. pc'[c] \notin TxnPlaces BY <1>0, <3>2, LoadView
      <4> QED BY <1>0, <4>1, <4>2 DEF InTxn, OpOK
    <3>3. CASE LockHdr(c) \/ HdrBusyLock(c) \/ HdrBusyRetry(c)
      <4>1. pc[c] \notin Opening /\ op[c] # "frames" BY <1>0, <3>3 DEF LockHdr, HdrBusyLock, HdrBusyRetry, OpOK
      <4>2. pc'[c] \notin TxnPlaces /\ op'[c] # "frames"
        BY <1>0, <3>3, <4>1, Shapes DEF LockHdr, HdrBusyLock, HdrBusyRetry, Goto, HdrBusy, Retry,
           OpenFails, OpOK
      <4> QED BY <4>2 DEF InTxn
    <3>4. CASE ReadBackfill(c) \/ LockRead0(c) \/ ScanMark(c) \/ SetMark(c)
      BY <1>0, <3>4, Shapes DEF ReadBackfill, LockRead0, ScanMark, SetMark, Goto, StartScan, OpOK, InTxn
    <3>5. CASE GrabMark(c) \/ LockMark(c)
      BY <1>0, <3>5, Shapes DEF GrabMark, LockMark, Goto, Retry, OpenFails, OpOK, InTxn
    <3> QED BY <1>1, <3>1, <3>2, <3>3, <3>4, <3>5 DEF OpenStep
  <2> QED BY <2>1, <2>2 DEF Quiet, InTxn, Late
<1>2. ~RecoverStep(c)
  BY <1>0, Shapes DEF RecoverStep, RecoverLock, RecoverScan, RecoverHdr1, RecoverHdr0, RecoverInfo,
     RecoverDone, RecoverError, Goto, HdrBusy, AfterHdr, OpenFails, OpOK, InTxn
<1>3. ASSUME WriteStep(c), ~(RestartLock(c) \/ RestartHdr0(c) \/ LogHdr(c) \/ WriteFrame(c)
             \/ FramesDone(c))
      PROVE  Quiet(c)
  BY <1>0, <1>3, Shapes, FrameShapes DEF WriteStep, RestartHdr1, RestartBackfill, RestartMarks, LeaveRead0,
     SyncHdr, SyncFrames, IndexFrame, Publish1, Publish0, EndWrite, FramesError, Goto, StartScan, OpOK,
     InTxn, Quiet, Late
<1>4. ~CkptStep(c)
  <2>1. ASSUME CkptStep(c) PROVE pc[c] \in CkptPlaces /\ pc'[c] \notin TxnPlaces /\ op'[c] # "frames"
    BY <1>0, <2>1, Shapes DEF CkptStep, CkptWrite, CkptStart, CkptMark, CkptMarkLock, CkptMarkSet, CkptLock0,
       CkptSync, CkptCopy, CkptTruncate, CkptBackfill, CkptTail, CkptRestart, CkptError, CkptEnd, Goto,
       NextMark, OpOK
  <2> QED BY <2>1 DEF InTxn
<1>5. ASSUME UserStep(c) PROVE BeginWrite(c) \/ BeginFrames(c)
  BY <1>0, <1>5, Shapes DEF UserStep, BeginRead, EndRead, Rollback, CkptBegin, Goto, OpOK, InTxn
<1>6. ~Crash(c) BY <1>0, Shapes DEF Crash, Goto, InTxn
<1> QED BY <1>1, <1>2, <1>3, <1>4, <1>5, <1>6 DEF Step, ConnStep

(* The pages of a transaction and its number come with BeginFrames() and go
   with the transaction. *)
LEMMA TxnEnds ==
  ASSUME Sound, NEW c \in Conn, Step(c)
  PROVE  /\ \/ BeginFrames(c) \/ WriteFrame(c)
            \/ txn'[c] = 0 /\ spilled'[c] = {} /\ todo'[c] = {}
            \/ txn'[c] = txn[c] /\ spilled'[c] = spilled[c] /\ todo'[c] = todo[c]
         /\ \/ txn'[c] = 0 /\ spilled'[c] = {}
            \/ InTxn(c)' \/ pc'[c] \in {"committed", "failed"}
            \/ ~(InTxn(c) \/ pc[c] \in {"committed", "failed"})
<1>0. TypeOK /\ Known(c) /\ OpOK(c) BY SoundFacts
<1> DEFINE Same == txn'[c] = txn[c] /\ spilled'[c] = spilled[c] /\ todo'[c] = todo[c]
           None == txn'[c] = 0 /\ spilled'[c] = {} /\ todo'[c] = {}
           In == InTxn(c) \/ pc[c] \in {"committed", "failed"}
           Stays == InTxn(c)' \/ pc'[c] \in {"committed", "failed"}
<1>1. ASSUME OpenStep(c) PROVE Same /\ (Stays \/ ~In)
  <2>1. Same
    BY <1>1 DEF OpenStep, ReadHdr, LockHdr, RereadHdr, HdrBusyLock, HdrBusyRetry,
       ReadBackfill, LockRead0, CheckRead0, ScanMark, GrabMark, SetMark, LockMark, CheckMark
  <2>2. op[c] # "frames" => ~In
    BY <1>0, <1>1 DEF OpenStep, ReadHdr, LockHdr, RereadHdr, HdrBusyLock, HdrBusyRetry,
       ReadBackfill, LockRead0, CheckRead0, ScanMark, GrabMark, SetMark, LockMark, CheckMark, InTxn
  <2>3. ASSUME op[c] = "frames" PROVE Stays
    <3>1. pc[c] \in Opening BY <1>0, <2>3 DEF OpOK
    <3>2. CASE CheckMark(c)
      <4>1. Retry(c) \/ pc'[c] = "logHdr" BY <1>0, <2>3, <3>2, CheckView
      <4> QED BY <1>0, <2>3, <4>1, RetryView DEF InTxn
    <3>3. CASE ~CheckMark(c)
      BY <1>0, <1>1, <2>3, <3>1, <3>3, Shapes DEF OpenStep, ReadHdr, LockHdr, RereadHdr, HdrBusyLock,
         HdrBusyRetry, ReadBackfill, LockRead0, CheckRead0, ScanMark, GrabMark, SetMark, LockMark, InTxn,
         Goto, Retry, OpenFails
    <3> QED BY <3>2, <3>3
  <2> QED BY <2>1, <2>2, <2>3
<1>2. ASSUME RecoverStep(c) PROVE Same /\ ~In
  BY <1>0, <1>2 DEF RecoverStep, RecoverLock, RecoverScan, RecoverHdr1, RecoverHdr0, RecoverInfo,
     RecoverDone, RecoverError, OpOK, InTxn
<1>3. ASSUME WriteStep(c) PROVE (WriteFrame(c) \/ Same \/ None) /\ (Stays \/ None)
  <2>1. CASE WriteFrame(c) BY <1>0, <2>1, WriteFrameView DEF InTxn
  <2>2. CASE LogHdr(c) \/ FramesDone(c) \/ RestartLock(c)
    <3>1. Same BY <2>2 DEF LogHdr, FramesDone, RestartLock
    <3>2. Stays BY <1>0, <2>2, LogHdrView, FramesDoneView, RestartLockView DEF InTxn
    <3> QED BY <3>1, <3>2
  <2>3. CASE ~(WriteFrame(c) \/ LogHdr(c) \/ FramesDone(c) \/ RestartLock(c))
    BY <1>0, <1>3, <2>3, Shapes, FrameShapes DEF WriteStep, RestartHdr1, RestartHdr0, RestartBackfill,
       RestartMarks, LeaveRead0, SyncHdr, SyncFrames, IndexFrame, Publish1, Publish0, EndWrite,
       FramesError, Goto, StartScan, InTxn, ForgetTxn
  <2> QED BY <2>1, <2>2, <2>3
<1>4. ASSUME CkptStep(c) PROVE Same /\ ~In
  <2>1. Same
    BY <1>4 DEF CkptStep, CkptWrite, CkptStart, CkptMark, CkptMarkLock, CkptMarkSet, CkptLock0,
       CkptSync, CkptCopy, CkptTruncate, CkptBackfill, CkptTail, CkptRestart, CkptError, CkptEnd
  <2>2. pc[c] \in CkptPlaces
    BY <1>4 DEF CkptStep, CkptWrite, CkptStart, CkptMark, CkptMarkLock, CkptMarkSet, CkptLock0,
       CkptSync, CkptCopy, CkptTruncate, CkptBackfill, CkptTail, CkptRestart, CkptError, CkptEnd
  <2> QED BY <1>0, <2>1, <2>2 DEF InTxn, OpOK
<1>5. ASSUME UserStep(c), ~BeginFrames(c) PROVE (Same \/ None) /\ (Stays \/ None \/ ~In)
  BY <1>0, <1>5, Shapes, FrameShapes DEF UserStep, BeginRead, EndRead, BeginWrite, Rollback, CkptBegin, Goto,
     InTxn, OpOK, ForgetTxn
<1>6. ASSUME BeginFrames(c) PROVE Stays BY <1>0, <1>6, Shapes DEF BeginFrames, Goto, InTxn
<1>7. ASSUME Crash(c) PROVE None BY <1>0, <1>7, Shapes, FrameShapes DEF Crash, ForgetTxn
<1> HIDE DEF Same, None, In, Stays
<1>8. /\ BeginFrames(c) \/ WriteFrame(c) \/ None \/ Same
      /\ None \/ Stays \/ ~In
  BY <1>1, <1>2, <1>3, <1>4, <1>5, <1>6, <1>7 DEF Step, ConnStep
<1> QED BY <1>8 DEF Same, None, In, Stays

(* A call of sqlite3WalFrames() begins. *)
LEMMA BeginFramesView ==
  ASSUME TypeOK, NEW c \in Conn, BeginFrames(c)
  PROVE  /\ UNCHANGED <<hdr0, hdr, wal, walHdr, db, image, readLock, iFrame, iIdx, nextSalt>>
         /\ pc[c] = "write" /\ pc'[c] \in {"restart", "logHdr"}
         /\ spilled'[c] = spilled[c] \cup todo'[c] /\ todo'[c] \in SUBSET Page
         /\ newSize'[c] # 0 => \A p \in Page : p <= newSize'[c] /\ image[hdr[c].ver][p] = NoData
                                                 => p \in spilled'[c]
         /\ \/ txn[c] # 0 /\ txn'[c] = txn[c] /\ nextTxn' = nextTxn
            \/ txn[c] = 0 /\ txn'[c] = nextTxn /\ nextTxn' = nextTxn + 1
<1>1. PICK b \in Batches :
        /\ b.size # 0 => {p \in 1 .. b.size : image[hdr[c].ver][p] = NoData}
                            \subseteq b.pages \cup spilled[c]
        /\ todo' = [todo EXCEPT ![c] = b.pages]
        /\ spilled' = [spilled EXCEPT ![c] = @ \cup b.pages]
        /\ newSize' = [newSize EXCEPT ![c] = b.size]
  BY DEF BeginFrames
<1>2. /\ b.pages \in SUBSET Page /\ b.size \in Nat BY WalAssumption DEF Page
<1>3. /\ spilled'[c] = spilled[c] \cup b.pages /\ todo'[c] = b.pages /\ newSize'[c] = b.size
  BY <1>1, Shapes, FrameShapes
<1>4. ASSUME b.size # 0, NEW p \in Page, p <= b.size, image[hdr[c].ver][p] = NoData
      PROVE  p \in b.pages \cup spilled[c]
  <2>1. p \in 1 .. b.size BY <1>2, <1>4, Units DEF Page
  <2> QED BY <1>1, <1>4, <2>1
<1>5. /\ UNCHANGED <<hdr0, hdr, wal, walHdr, db, image, readLock, iFrame, iIdx, nextSalt>>
      /\ pc[c] = "write" /\ pc'[c] \in {"restart", "logHdr"}
      /\ \/ txn[c] # 0 /\ txn'[c] = txn[c] /\ nextTxn' = nextTxn
         \/ txn[c] = 0 /\ txn'[c] = nextTxn /\ nextTxn' = nextTxn + 1
  BY Shapes, FrameShapes DEF BeginFrames, Goto
<1> QED BY <1>2, <1>3, <1>4, <1>5

(* The version and size of a header that a commit, a restart, or the header of
   a log do not change. *)
LEMMA HdrView ==
  ASSUME TypeOK, NEW c \in Conn, RestartLock(c) \/ LogHdr(c)
  PROVE  /\ hdr'[c].ver = hdr[c].ver /\ hdr'[c].nPage = hdr[c].nPage
         /\ UNCHANGED <<hdr0, wal, db, image, nBackfill, aPgno, txn, spilled, todo, newSize, readLock, op, nextTxn>>
<1>1. hdr[c] \in Hdr BY Shapes
<1>2. CASE RestartLock(c) BY <1>1, <1>2, Shapes DEF RestartLock, Hdr
<1>3. CASE LogHdr(c)
  <2>1. CASE hdr[c].mxFrame # 0 BY <1>1, <1>3, <2>1, Shapes DEF LogHdr, Hdr
  <2>2. CASE hdr[c].mxFrame = 0
    <3>1. PICK s : hdr' = [hdr EXCEPT ![c].salt = s, ![c].cksum = 0]
      BY <1>3, <2>2 DEF LogHdr
    <3>2. hdr'[c].ver = hdr[c].ver /\ hdr'[c].nPage = hdr[c].nPage
      BY <1>1, <3>1, Shapes DEF Hdr
    <3> QED BY <1>3, <3>2 DEF LogHdr
  <2> QED BY <2>1, <2>2
<1> QED BY <1>2, <1>3

(* A commit takes the number and the size of its transaction. *)
LEMMA DoneView ==
  ASSUME TypeOK, NEW c \in Conn, FramesDone(c)
  PROVE  /\ UNCHANGED <<hdr0, wal, db, image, nBackfill, aPgno, txn, spilled, todo, newSize, iFrame, iIdx, readLock,
                        op, nextTxn>>
         /\ hdr'[c].mxFrame = iFrame[c] /\ pc[c] = "framesDone"
         /\ newSize[c] = 0 => /\ pc'[c] = "write" /\ hdr'[c].ver = hdr[c].ver
                              /\ hdr'[c].nPage = hdr[c].nPage
         /\ newSize[c] # 0 => /\ pc'[c] = "publish1" /\ hdr'[c].ver = txn[c]
                              /\ hdr'[c].nPage = newSize[c]
<1>1. hdr[c] \in Hdr BY Shapes
<1>2. CASE newSize[c] = 0 BY <1>1, <1>2, Shapes DEF FramesDone, Goto, Hdr
<1>3. CASE newSize[c] # 0 BY <1>1, <1>3, Shapes DEF FramesDone, Goto, Hdr
<1> QED BY <1>2, <1>3

(* The version of a private header: loaded, kept, or forgotten. *)
LEMMA VerSteps ==
  ASSUME Sound, NEW c \in Conn, Step(c), pc'[c] \notin PublishPlaces \cup RecHdrPlaces
  PROVE  \/ hdr'[c].ver = hdr[c].ver /\ pc[c] \notin PublishPlaces \cup RecHdrPlaces
         \/ hdr'[c].ver = hdr0.ver /\ hdr0' = hdr0
         \/ hdr'[c].ver = 0
         \/ hdr0' = hdr[c] /\ hdr'[c] = hdr[c]
<1>0. TypeOK /\ Known(c) /\ NoHdr.ver = 0 BY SoundFacts DEF NoHdr
<1>1. ASSUME OpenStep(c) PROVE /\ pc[c] \notin PublishPlaces \cup RecHdrPlaces /\ hdr0' = hdr0
                               /\ hdr'[c] = hdr[c] \/ hdr'[c] = hdr0
  <2>1. CASE ReadHdr(c) \/ RereadHdr(c) BY <1>0, <2>1, LoadView DEF ReadHdr, RereadHdr
  <2>2. CASE ~(ReadHdr(c) \/ RereadHdr(c))
    BY <1>1, <2>2 DEF OpenStep, LockHdr, HdrBusyLock, HdrBusyRetry,
       ReadBackfill, LockRead0, CheckRead0, ScanMark, GrabMark, SetMark, LockMark, CheckMark
  <2> QED BY <2>1, <2>2
<1>2. ASSUME RecoverStep(c)
      PROVE  \/ pc[c] \notin PublishPlaces \cup RecHdrPlaces /\ (hdr'[c] = hdr[c] \/ hdr'[c] = NoHdr)
             \/ hdr0' = hdr[c] /\ hdr'[c] = hdr[c]
  BY <1>0, <1>2, Shapes DEF RecoverStep, RecoverLock, RecoverScan, RecoverHdr1, RecoverHdr0, RecoverInfo,
     RecoverDone, RecoverError, Goto
<1>3. ASSUME WriteStep(c)
      PROVE  \/ pc[c] \notin PublishPlaces \cup RecHdrPlaces /\ hdr'[c].ver = hdr[c].ver
             \/ hdr0' = hdr[c] /\ hdr'[c] = hdr[c]
  <2>1. CASE RestartLock(c) \/ LogHdr(c) BY <1>0, <2>1, HdrView DEF RestartLock, LogHdr
  <2>2. CASE WriteFrame(c) BY <2>2, FrameView
  <2>3. CASE FramesDone(c) BY <1>0, <2>3, DoneView
  <2>4. CASE ~(RestartLock(c) \/ LogHdr(c) \/ WriteFrame(c) \/ FramesDone(c))
    BY <1>0, <1>3, <2>4, Shapes DEF WriteStep, RestartHdr1, RestartHdr0, RestartBackfill, RestartMarks,
     LeaveRead0, SyncHdr, SyncFrames, IndexFrame, Publish1, Publish0, EndWrite, FramesError, Goto
  <2> QED BY <2>1, <2>2, <2>3, <2>4
<1>4. ASSUME CkptStep(c) PROVE /\ pc[c] \notin PublishPlaces \cup RecHdrPlaces
                               /\ hdr'[c] = hdr[c] \/ hdr'[c] = NoHdr
  BY <1>0, <1>4, Shapes DEF CkptStep, CkptWrite, CkptStart, CkptMark, CkptMarkLock, CkptMarkSet, CkptLock0,
     CkptSync, CkptCopy, CkptTruncate, CkptBackfill, CkptTail, CkptRestart, CkptError, CkptEnd, KeptHdr
<1>5. ASSUME UserStep(c) PROVE /\ pc[c] \notin PublishPlaces \cup RecHdrPlaces /\ hdr0' = hdr0
                               /\ hdr'[c] = hdr[c] \/ hdr'[c] = hdr0
  BY <1>0, <1>5, Shapes DEF UserStep, BeginRead, EndRead, BeginWrite, BeginFrames, Rollback, CkptBegin
<1>6. ASSUME Crash(c) PROVE hdr'[c] = NoHdr BY <1>0, <1>6, Shapes DEF Crash
<1> QED BY <1>0, <1>1, <1>2, <1>3, <1>4, <1>5, <1>6 DEF Step, ConnStep

(* walIndexRecover() finds the published database, or a later one that is
   committed in the log. *)
LEMMA ScanFinds ==
  ASSUME Sound, SnapshotInv, NEW c \in Conn, RecoverScan(c)
  PROVE  /\ UNCHANGED <<hdr0, wal, walHdr, db, image, nBackfill, nextTxn>> /\ hdr'[c].salt = walHdr.salt
         /\ \/ /\ hdr'[c].mxFrame = 0 /\ hdr'[c].ver = hdr0.ver /\ hdr'[c].nPage = 0 /\ hdr0.mxFrame = 0
            \/ /\ hdr'[c].mxFrame \in FrameNo /\ hdr0.mxFrame <= hdr'[c].mxFrame
               /\ hdr'[c].ver = wal[hdr'[c].mxFrame].txn /\ hdr'[c].nPage = wal[hdr'[c].mxFrame].size
               /\ hdr'[c].nPage # 0 /\ walHdr.ok /\ Chain(wal, walHdr.salt, hdr'[c].mxFrame)
         /\ \A i \in FrameNo : hdr'[c].mxFrame < i /\ hdr'[c].mxFrame > 0 /\ Chain(wal, walHdr.salt, i)
               => wal[i].size = 0
         /\ hdr'[c].mxFrame = LastCommit(walHdr, wal)
<1> DEFINE n == LastCommit(walHdr, wal)
<1>0. TypeOK /\ LogInv /\ FreshInv BY SoundFacts, DataFacts
<1>1. /\ hdr'[c].mxFrame = n /\ hdr'[c].ver = IF n = 0 THEN latest ELSE wal[n].txn
      /\ hdr'[c].nPage = IF n = 0 THEN 0 ELSE wal[n].size
      /\ UNCHANGED <<hdr0, wal, walHdr, db, image, nBackfill, nextTxn>>
  BY <1>0, Shapes DEF RecoverScan
<1>2. n \in FrameNo \cup {0} BY LastCommitType
<1>3. n # 0 => n \in FrameNo /\ walHdr.ok /\ Chain(wal, walHdr.salt, n) /\ wal[n].size # 0
  BY <1>0, LastCommitIs
<1>4. hdr0.mxFrame <= n /\ hdr'[c].salt = walHdr.salt BY <1>0, <1>1, RecoverScanView
<1>5. ASSUME NEW i \in FrameNo, n < i, n > 0, Chain(wal, walHdr.salt, i), wal[i].size # 0 PROVE FALSE
  <2>1. n # 0 BY <1>2, <1>5, Units
  <2>2. i <= n BY <1>0, <1>3, <1>5, <2>1, LastCommitFinds
  <2> QED BY <1>2, <1>5, <2>2, Units
<1> HIDE DEF n
<1>6. n = 0 => hdr0.mxFrame = 0 /\ latest = hdr0.ver BY <1>0, <1>4, Nums DEF FreshInv
<1> QED BY <1>1, <1>2, <1>3, <1>4, <1>5, <1>6 DEF n

-----------------------------------------------------------------------------
(* Versions and numbers of transactions. *)

(* The published version only grows. *)
LEMMA VerGrows ==
  ASSUME Sound, SnapshotInv, NEW c \in Conn, Step(c)
  PROVE  hdr0.ver <= hdr0'.ver /\ hdr0'.ver \in Nat /\ hdr0.ver \in Nat
<1>0. TypeOK /\ VerOK(c) BY SoundFacts, DataFacts
<1>1. hdr0.ver \in Nat /\ hdr[c].ver \in Nat BY <1>0, Nums, Units
<1>2. CASE hdr0' = hdr0 BY <1>1, <1>2
<1>3. CASE hdr0' # hdr0 BY <1>0, <1>1, <1>3, PublishView DEF VerOK
<1> QED BY <1>2, <1>3

(* No connection knows a version that is not published yet, but the one about
   to publish it. *)
LEMMA VerOwn ==
  ASSUME Sound, SnapshotInv, Sound', NEW c \in Conn, Step(c)
  PROVE  VerOK(c)'
<1>0. /\ TypeOK /\ Known(c) /\ VerOK(c) /\ PendOK(c) /\ FrameOK(c) /\ FreshInv /\ ImageInv /\ TailInv
      /\ SaltOK(c)
  BY SoundFacts, DataFacts
<1>1. /\ hdr0.ver \in Nat /\ hdr[c].ver \in Nat /\ hdr0'.ver \in Nat /\ hdr'[c].ver \in Nat
      /\ nextTxn \in Nat /\ nextTxn' \in Nat /\ nextTxn <= nextTxn' /\ txn[c] \in Nat
  BY <1>0, Nums, NumsNext, Units, CountersGrow
<1>2. hdr0.ver <= hdr0'.ver BY VerGrows
<1>3. CASE pc'[c] \notin PublishPlaces \cup RecHdrPlaces
  <2>1. hdr'[c].ver <= hdr0'.ver BY <1>0, <1>1, <1>2, <1>3, VerSteps DEF VerOK
  <2> QED BY <1>3, <2>1 DEF VerOK
<1>4. CASE pc'[c] \in PublishPlaces
  <2>1. CASE FramesDone(c)
    <3>1. newSize[c] # 0 /\ hdr'[c].ver = txn[c] /\ hdr0' = hdr0 /\ pc[c] = "framesDone"
      BY <1>0, <1>4, <2>1, DoneView
    <3>2. txn[c] # 0 /\ InTxn(c) BY <1>0, <3>1 DEF FrameOK, InTxn
    <3>3. hdr0.ver < txn[c] /\ txn[c] < nextTxn BY <1>0, <3>2 DEF PendOK
    <3> QED BY <1>1, <1>4, <3>1, <3>3 DEF VerOK
  <2>2. CASE Publish1(c)
    <3>1. UNCHANGED <<hdr0, hdr>> /\ pc[c] \in PublishPlaces BY <2>2 DEF Publish1
    <3> QED BY <1>0, <1>1, <1>4, <3>1 DEF VerOK
  <2> QED BY <1>0, <1>4, <2>1, <2>2, Moves
<1>5. CASE pc'[c] \in RecHdrPlaces
  <2>1. CASE RecoverScan(c)
    <3>1. hdr0' = hdr0 /\ nextTxn' = nextTxn BY <2>1, ScanFinds
    <3>2. hdr0.ver <= hdr'[c].ver /\ hdr'[c].ver < nextTxn
      <4>1. CASE hdr'[c].ver = hdr0.ver BY <1>0, <1>1, <4>1 DEF FreshInv
      <4>2. CASE hdr'[c].ver # hdr0.ver
        <5>1. /\ hdr'[c].mxFrame \in FrameNo /\ hdr0.mxFrame <= hdr'[c].mxFrame
              /\ hdr'[c].ver = wal[hdr'[c].mxFrame].txn /\ wal[hdr'[c].mxFrame].size # 0
              /\ Chain(wal, walHdr.salt, hdr'[c].mxFrame)
          BY <2>1, <4>2, ScanFinds
        <5>2. hdr0.mxFrame # hdr'[c].mxFrame
          BY <1>0, <4>2, <5>1, Units DEF ImageInv
        <5>3. hdr0.mxFrame < hdr'[c].mxFrame BY <1>0, <5>1, <5>2, Units, Nums
        <5>4. hdr0.salt <= walHdr.salt /\ walHdr.salt \in Nat
          BY <1>0, <2>1, Nums DEF SaltOK, RecoverScan
        <5>5. CommitOK(hdr'[c].mxFrame) BY <1>0, <5>1, <5>3, <5>4 DEF TailInv
        <5> QED BY <1>0, <1>1, <5>1, <5>5 DEF CommitOK, FreshInv
      <4> QED BY <4>1, <4>2
    <3> QED BY <1>1, <1>5, <3>1, <3>2 DEF VerOK
  <2>2. CASE RecoverHdr1(c)
    <3>1. UNCHANGED <<hdr0, hdr>> /\ pc[c] \in RecHdrPlaces BY <2>2 DEF RecoverHdr1
    <3> QED BY <1>0, <1>1, <1>5, <3>1 DEF VerOK
  <2> QED BY <1>0, <1>5, <2>1, <2>2, Moves
<1> QED BY <1>3, <1>4, <1>5

(* Nobody else changes a private header, and the shared one only grows. *)
LEMMA VerOther ==
  ASSUME Sound, SnapshotInv, NEW c \in Conn, NEW d \in Conn \ {c}, Step(c)
  PROVE  VerOK(d)'
<1>0. TypeOK /\ LockInv /\ VerOK(d) BY SoundFacts, DataFacts
<1>1. Untouched(d) BY <1>0, StepKnown DEF LockInv, Alone
<1>2. /\ hdr0.ver <= hdr0'.ver /\ hdr0.ver \in Nat /\ hdr0'.ver \in Nat /\ hdr[d].ver \in Nat
      /\ nextTxn \in Nat /\ nextTxn' \in Nat /\ nextTxn <= nextTxn'
  BY <1>0, VerGrows, Nums, Units, CountersGrow
<1>3. HasWrite(d) => UNCHANGED hdr0 BY <1>0, WriterAlone
<1>4. CASE pc[d] \in PublishPlaces \cup RecHdrPlaces
  BY <1>0, <1>1, <1>2, <1>3, <1>4 DEF VerOK, Untouched, HasWrite
<1>5. CASE pc[d] \notin PublishPlaces \cup RecHdrPlaces
  BY <1>0, <1>1, <1>2, <1>5 DEF VerOK, Untouched
<1> QED BY <1>4, <1>5

(* The frames behind the published ones that a transaction calls its own are
   the same before and after a step, but for the one it writes. *)
LEMMA MineSame ==
  ASSUME Sound, NEW c \in Conn, Step(c), InTxn(c)', ~WriteFrame(c)
  PROVE  Mine(c)' = Mine(c)
<1>0. TypeOK /\ BaseOK(c) BY SoundFacts
<1>1. /\ hdr0.mxFrame \in Nat /\ hdr[c].mxFrame \in Nat /\ \A i \in FrameNo : i \in Nat /\ i > 0
  BY <1>0, Nums, Units
<1>2. CASE BeginWrite(c)
  <2>1. UNCHANGED <<hdr0, hdr>> /\ pc[c] = "open" /\ pc'[c] = "write"
    BY <1>0, <1>2, Shapes DEF BeginWrite, Goto
  <2> QED BY <2>1 DEF Mine, Top
<1>3. CASE BeginFrames(c) BY <1>0, <1>3, BeginFramesView DEF Mine, Top
<1>4. CASE RestartLock(c)
  <2>1. hdr[c] = hdr0 /\ hdr0' = hdr0 /\ pc[c] = "restart" /\ pc'[c] \notin Writing
        /\ (hdr'[c].mxFrame = 0 \/ hdr'[c] = hdr[c])
    BY <1>0, <1>4, RestartLockView DEF BaseOK, Bare
  <2>2. Mine(c) = {} BY <1>1, <2>1 DEF Mine, Top
  <2>3. Mine(c)' = {} BY <1>1, <2>1 DEF Mine, Top
  <2> QED BY <2>2, <2>3
<1>5. CASE RestartHdr0(c)
  <2>1. hdr[c].mxFrame = 0 /\ hdr0' = hdr[c] /\ hdr' = hdr /\ pc[c] = "restartHdr0"
        /\ pc'[c] = "restartBackfill"
    BY <1>0, <1>5, Shapes DEF RestartHdr0, Goto, BaseOK
  <2>2. Mine(c) = {} BY <1>1, <2>1 DEF Mine, Top
  <2>3. Mine(c)' = {} BY <1>1, <2>1 DEF Mine, Top
  <2> QED BY <2>2, <2>3
<1>6. CASE LogHdr(c) BY <1>0, <1>6, LogHdrView DEF Mine, Top
<1>7. CASE FramesDone(c) BY <1>0, <1>7, FramesDoneView DEF Mine, Top
<1>8. CASE Quiet(c) BY <1>8 DEF Quiet, Mine, Top
<1> QED BY <1>2, <1>3, <1>4, <1>5, <1>6, <1>7, <1>8, TxnSteps

(* No frame but those of the transaction has its number, or goes on from one
   that has. *)
LEMMA PendOwn ==
  ASSUME Sound, SnapshotInv, Sound', NEW c \in Conn, Step(c)
  PROVE  PendOK(c)'
<1>0. /\ TypeOK /\ BaseOK(c) /\ PendOK(c) /\ FrameOK(c) /\ FreshInv /\ SaltOK(c) /\ Known(c) /\ OpOK(c)
  BY SoundFacts, DataFacts
<1>1. /\ hdr0.ver \in Nat /\ hdr0'.ver \in Nat /\ nextTxn \in Nat /\ nextTxn' \in Nat
      /\ nextTxn <= nextTxn' /\ txn[c] \in Nat /\ txn'[c] \in Nat
      /\ \A i \in FrameNo : wal[i].txn \in Nat /\ wal[i].prev \in Nat /\ wal[i].salt \in Nat
  BY <1>0, Nums, NumsNext, Units, CountersGrow, FrameShapes
<1>2. txn'[c] # 0 => InTxn(c)' \/ pc'[c] \in {"committed", "failed"}
  <2>1. CASE BeginFrames(c) BY <1>0, <2>1, BeginFramesView DEF InTxn
  <2>2. CASE WriteFrame(c) BY <1>0, <2>2, WriteFrameView DEF InTxn
  <2>3. CASE ~(BeginFrames(c) \/ WriteFrame(c)) BY <1>0, <2>3, TxnEnds DEF PendOK
  <2> QED BY <2>1, <2>2, <2>3
<1>3. ASSUME txn'[c] # 0, InTxn(c)'
      PROVE  /\ hdr0'.ver < txn'[c] /\ txn'[c] < nextTxn'
             /\ \A i \in FrameNo : wal'[i].txn = txn'[c] \/ wal'[i].prev = txn'[c] => i \in Mine(c)'
  <2>1. CASE txn[c] # 0 /\ InTxn(c) /\ txn'[c] = txn[c] /\ UNCHANGED wal /\ hdr0'.ver = hdr0.ver
             /\ ~WriteFrame(c)
    <3>1. Mine(c)' = Mine(c) BY <1>3, <2>1, MineSame
    <3> QED BY <1>0, <1>1, <2>1, <3>1 DEF PendOK
  <2>2. CASE BeginWrite(c)
    <3>1. txn' = txn /\ pc[c] = "open" /\ op[c] # "frames" BY <1>0, <2>2 DEF BeginWrite, OpOK
    <3> QED BY <1>0, <1>3, <3>1 DEF PendOK, InTxn
  <2>3. CASE BeginFrames(c)
    <3>1. InTxn(c) /\ UNCHANGED <<hdr0, wal>> BY <1>0, <2>3, BeginFramesView DEF InTxn
    <3>2. CASE txn[c] # 0
      <4>1. txn'[c] = txn[c] /\ ~WriteFrame(c) BY <1>0, <2>3, <3>2, BeginFramesView DEF WriteFrame
      <4> QED BY <2>1, <3>1, <3>2, <4>1
    <3>3. CASE txn[c] = 0
      <4>1. txn'[c] = nextTxn /\ nextTxn' = nextTxn + 1 BY <1>0, <2>3, <3>3, BeginFramesView
      <4> QED BY <1>0, <1>1, <3>1, <4>1 DEF FreshInv
    <3> QED BY <3>2, <3>3
  <2>4. CASE RestartLock(c)
    <3>1. InTxn(c) /\ ~WriteFrame(c) BY <2>4 DEF RestartLock, WriteFrame, InTxn
    <3> QED BY <1>0, <1>3, <2>1, <2>4, <3>1, HdrView
  <2>5. CASE LogHdr(c)
    <3>1. InTxn(c) /\ ~WriteFrame(c) BY <2>5 DEF LogHdr, WriteFrame, InTxn
    <3> QED BY <1>0, <1>3, <2>1, <2>5, <3>1, HdrView
  <2>6. CASE RestartHdr0(c)
    <3>1. /\ InTxn(c) /\ ~WriteFrame(c) /\ hdr0'.ver = hdr0.ver /\ UNCHANGED <<wal, txn>>
      BY <1>0, <2>6 DEF RestartHdr0, WriteFrame, InTxn, BaseOK
    <3> QED BY <1>3, <2>1, <3>1
  <2>7. CASE WriteFrame(c)
    <3>1. /\ UNCHANGED <<hdr0, txn>> /\ pc[c] = "frames" /\ pc'[c] \in Writing
          /\ iFrame'[c] = iFrame[c] + 1 /\ hdr0.mxFrame <= iFrame[c]
          /\ \A i \in FrameNo : i # iFrame'[c] => wal'[i] = wal[i]
      <4>1. hdr0.mxFrame <= iFrame[c] BY <1>0, <2>7, FrameView, Nums
      <4> QED BY <1>0, <2>7, <4>1, FrameView
    <3>2. hdr0.mxFrame \in Nat /\ iFrame[c] \in Nat BY <1>0, Nums
    <3>3. Mine(c) = {i \in FrameNo : hdr0.mxFrame < i /\ i <= iFrame[c]}
          /\ Mine(c)' = {i \in FrameNo : hdr0.mxFrame < i /\ i <= iFrame[c] + 1}
      BY <3>1 DEF Mine, Top
    <3>4. \A i \in FrameNo : i \in Nat BY Units
    <3>5. InTxn(c) BY <3>1 DEF InTxn
    <3>6. ASSUME NEW i \in FrameNo, wal'[i].txn = txn[c] \/ wal'[i].prev = txn[c]
          PROVE  i \in Mine(c)'
      <4>1. CASE i = iFrame'[c] BY <3>1, <3>2, <3>3, <4>1
      <4>2. CASE i # iFrame'[c]
        <5>1. i \in Mine(c) BY <1>0, <1>3, <3>1, <3>5, <3>6, <4>2 DEF PendOK
        <5> QED BY <3>2, <3>3, <3>4, <5>1
      <4> QED BY <4>1, <4>2
    <3> QED BY <1>0, <1>1, <1>3, <3>1, <3>5, <3>6 DEF PendOK
  <2>8. CASE FramesDone(c)
    <3>1. InTxn(c) /\ ~WriteFrame(c) BY <2>8 DEF FramesDone, WriteFrame, InTxn
    <3> QED BY <1>0, <1>3, <2>1, <2>8, <3>1, DoneView
  <2>9. CASE Quiet(c) /\ ~WriteFrame(c)
    BY <1>3, <2>1, <2>9 DEF Quiet
  <2> QED BY <1>3, <2>2, <2>3, <2>4, <2>5, <2>6, <2>7, <2>8, <2>9, TxnSteps
<1>4. pc'[c] \in RestartHdrs => \A i \in FrameNo : wal'[i].salt < hdr'[c].salt
  <2>1. CASE RestartLock(c)
    BY <1>0, <1>1, <2>1, RestartLockView DEF FreshInv
  <2>2. CASE RestartHdr1(c)
    BY <1>0, <2>2 DEF RestartHdr1, PendOK
  <2> QED BY <1>0, <2>1, <2>2, Moves
<1> QED BY <1>2, <1>3, <1>4 DEF PendOK

(* Nobody else writes frames. *)
LEMMA PendOther ==
  ASSUME Sound, SnapshotInv, NEW c \in Conn, NEW d \in Conn \ {c}, Step(c)
  PROVE  PendOK(d)'
<1>0. TypeOK /\ LockInv /\ PendOK(d) /\ FrameOK(d) BY SoundFacts, DataFacts
<1>1. Untouched(d) BY <1>0, StepKnown DEF LockInv, Alone
<1>2. InTxn(d) => HasWrite(d) BY DEF InTxn, HasWrite
<1>3. HasWrite(d) => UNCHANGED <<hdr0, wal>> BY <1>0, WriterAlone
<1>4. nextTxn \in Nat /\ nextTxn' \in Nat /\ nextTxn <= nextTxn' /\ txn[d] \in Nat
  BY <1>0, Nums, Units, CountersGrow
<1>5. InTxn(d)' <=> InTxn(d) BY <1>1 DEF InTxn, Untouched
<1>6. HasWrite(d) => Mine(d)' = Mine(d) BY <1>1, <1>3 DEF Mine, Top, Untouched
<1>7. txn'[d] # 0 => InTxn(d)' \/ pc'[d] \in {"committed", "failed"}
  BY <1>0, <1>1, <1>5 DEF PendOK, Untouched
<1>8. ASSUME txn'[d] # 0, InTxn(d)'
      PROVE  /\ hdr0'.ver < txn'[d] /\ txn'[d] < nextTxn'
             /\ \A i \in FrameNo : wal'[i].txn = txn'[d] \/ wal'[i].prev = txn'[d] => i \in Mine(d)'
  <2>1. InTxn(d) /\ HasWrite(d) /\ txn'[d] = txn[d] BY <1>1, <1>2, <1>5, <1>8 DEF Untouched
  <2>2. /\ hdr0.ver < txn[d] /\ txn[d] < nextTxn
        /\ \A i \in FrameNo : wal[i].txn = txn[d] \/ wal[i].prev = txn[d] => i \in Mine(d)
    BY <1>0, <1>8, <2>1 DEF PendOK
  <2> QED BY <1>3, <1>4, <1>6, <2>1, <2>2
<1>9. pc'[d] \in RestartHdrs => \A i \in FrameNo : wal'[i].salt < hdr'[d].salt
  BY <1>0, <1>1, <1>3 DEF PendOK, Untouched, HasWrite
<1> QED BY <1>7, <1>8, <1>9 DEF PendOK

-----------------------------------------------------------------------------
(* The frames of a transaction. *)

(* The part of FrameOK(c) about the frames of the transaction. *)
Framed(c) ==
    /\ \A i \in Mine(c) :
          /\ wal[i].txn = txn[c] /\ wal[i].pg \in spilled[c]
          /\ wal[i].size # 0 => pc[c] \in Late /\ i = Top(c)
    /\ \A p \in spilled[c] \ todo[c] : \E i \in Mine(c) : wal[i].pg = p

(* They have its number, and hold the pages written so far; only the last frame
   of a commit has a size. *)
LEMMA FramedOwn ==
  ASSUME Sound, SnapshotInv, Sound', NEW c \in Conn, Step(c), InTxn(c)', pc'[c] \notin PublishPlaces
  PROVE  Framed(c)'
<1>0. /\ TypeOK /\ BaseOK(c) /\ PendOK(c) /\ FrameOK(c) /\ FreshInv /\ ChainOK(c) /\ Known(c) /\ OpOK(c)
  BY SoundFacts, DataFacts
<1>a. /\ hdr0.mxFrame \in Nat /\ hdr[c].mxFrame \in Nat /\ iFrame[c] \in Nat
      /\ \A i \in FrameNo : i \in Nat /\ i > 0
  BY <1>0, Nums, Units
<1>1. ASSUME InTxn(c), pc[c] \notin PublishPlaces PROVE Framed(c)
  BY <1>0, <1>1 DEF FrameOK, Framed, Late
<1>2. CASE BeginWrite(c)
  <2>1. /\ UNCHANGED <<hdr0, hdr, spilled, todo>> /\ pc[c] = "open" /\ pc'[c] = "write" /\ hdr[c] = hdr0
    BY <1>0, <1>2, Shapes DEF BeginWrite, Goto, HdrMoved
  <2>2. Mine(c)' = {} BY <1>a, <2>1 DEF Mine, Top
  <2>3. spilled[c] = {} BY <1>0, <1>2, <2>1 DEF FrameOK, InTxn, OpOK
  <2> QED BY <2>1, <2>2, <2>3 DEF Framed
<1>3. CASE BeginFrames(c)
  <2>1. /\ UNCHANGED wal /\ pc[c] = "write" /\ spilled'[c] = spilled[c] \cup todo'[c]
        /\ (txn'[c] = txn[c] \/ txn[c] = 0) /\ ~WriteFrame(c)
    BY <1>0, <1>3, BeginFramesView DEF WriteFrame
  <2>2. Mine(c)' = Mine(c) BY <2>1, MineSame
  <2>3. InTxn(c) /\ todo[c] = {} BY <1>0, <2>1 DEF InTxn, FrameOK
  <2>4. Framed(c) BY <1>1, <2>1, <2>3
  <2>5. \A i \in Mine(c) : wal[i].txn = txn[c] /\ wal[i].pg \in spilled[c] /\ wal[i].size = 0
    BY <2>1, <2>4 DEF Framed, Late
  <2>6. Mine(c) # {} => txn'[c] = txn[c]
    <3>1. Mine(c) # {} => spilled[c] # {} BY <2>5
    <3> QED BY <1>0, <2>1, <2>3, <3>1 DEF FrameOK
  <2>7. \A p \in spilled'[c] \ todo'[c] : p \in spilled[c] \ todo[c] BY <2>1, <2>3
  <2> QED BY <2>1, <2>2, <2>4, <2>5, <2>6, <2>7 DEF Framed
<1>4. CASE RestartLock(c) \/ LogHdr(c) \/ RestartHdr0(c) \/ (Quiet(c) /\ ~WriteFrame(c))
  <2>1. /\ UNCHANGED wal /\ txn'[c] = txn[c] /\ spilled'[c] = spilled[c] /\ todo'[c] = todo[c]
        /\ InTxn(c) /\ ~WriteFrame(c) /\ pc[c] \notin PublishPlaces
        /\ (pc[c] \in Late => pc'[c] \in Late)
    <3>1. CASE RestartLock(c) \/ LogHdr(c)
      <4>1. pc[c] \in {"restart", "logHdr"} BY <3>1 DEF RestartLock, LogHdr
      <4> QED BY <1>0, <3>1, <4>1, HdrView DEF InTxn, WriteFrame, Late
    <3>2. CASE RestartHdr0(c)
      BY <3>2 DEF RestartHdr0, InTxn, WriteFrame, Late
    <3>3. CASE Quiet(c) /\ ~WriteFrame(c) BY <3>3 DEF Quiet
    <3> QED BY <1>4, <3>1, <3>2, <3>3
  <2>2. Mine(c)' = Mine(c) /\ Framed(c) BY <1>1, <2>1, MineSame
  <2>3. \A i \in Mine(c) : wal[i].size # 0 => pc'[c] \in Late /\ i = Top(c)'
    <3>1. SUFFICES ASSUME NEW i \in Mine(c), wal[i].size # 0 PROVE pc'[c] \in Late /\ i = Top(c)'
      OBVIOUS
    <3>2. pc[c] \in Late /\ i = Top(c) BY <2>2, <3>1 DEF Framed
    <3>3. Quiet(c) BY <1>4, <3>2 DEF RestartLock, LogHdr, RestartHdr0, Late
    <3> QED BY <3>2, <3>3 DEF Quiet, Top
  <2> QED BY <2>1, <2>2, <2>3 DEF Framed
<1>5. CASE FramesDone(c)
  <2>1. /\ UNCHANGED <<wal, txn, spilled, todo>> /\ pc[c] = "framesDone" /\ newSize[c] = 0
    BY <1>0, <1>5, DoneView DEF WriteFrame
  <2>2. InTxn(c) /\ ~WriteFrame(c) BY <2>1 DEF InTxn, WriteFrame
  <2>3. Mine(c)' = Mine(c) /\ Framed(c) BY <1>1, <2>1, <2>2, MineSame
  <2>4. \A i \in Mine(c) : wal[i].size = 0 BY <1>0, <2>1, <2>3 DEF Framed, ChainOK
  <2> QED BY <2>1, <2>3, <2>4 DEF Framed
<1>6. CASE WriteFrame(c)
  <2>1. /\ UNCHANGED <<hdr0, txn, spilled, newSize>> /\ pc[c] = "frames" /\ pc'[c] \in Writing
        /\ iFrame'[c] = iFrame[c] + 1 /\ iFrame'[c] \in FrameNo
        /\ \A i \in FrameNo : i # iFrame'[c] => wal'[i] = wal[i]
    <3>1. pc'[c] \in Writing BY <1>6, FrameView
    <3> QED BY <1>6, <3>1, FrameView
  <2>2. hdr0.mxFrame <= iFrame[c] BY <1>a, <1>6, FrameView
  <2>3. Mine(c) = {i \in FrameNo : hdr0.mxFrame < i /\ i <= iFrame[c]}
        /\ Mine(c)' = {i \in FrameNo : hdr0.mxFrame < i /\ i <= iFrame[c] + 1}
    BY <2>1 DEF Mine, Top
  <2>4. iFrame'[c] \in Mine(c)' /\ iFrame'[c] \notin Mine(c) /\ Mine(c)' = Mine(c) \cup {iFrame'[c]}
    BY <1>a, <2>1, <2>2, <2>3
  <2>5. InTxn(c) BY <2>1 DEF InTxn
  <2>6. Framed(c) BY <1>1, <2>1, <2>5
  <2>7. \A i \in Mine(c) : wal'[i] = wal[i] /\ wal[i].size = 0 BY <2>1, <2>3, <2>4, <2>6 DEF Framed, Late
  <2>8. PICK p \in todo[c] :
              /\ todo'[c] = todo[c] \ {p} /\ wal'[iFrame'[c]].pg = p /\ wal'[iFrame'[c]].txn = txn[c]
              /\ pc'[c] = "frames" \/ (pc'[c] \in {"syncFrames", "index"} /\ todo[c] = {p})
              /\ wal'[iFrame'[c]].size = 0 \/ pc'[c] # "frames"
    BY <1>6, FrameView
  <2>9. p \in spilled[c] BY <1>0, <2>8 DEF FrameOK
  <2>10. ASSUME NEW i \in Mine(c)'
         PROVE  /\ wal'[i].txn = txn[c] /\ wal'[i].pg \in spilled[c]
                /\ wal'[i].size # 0 => pc'[c] \in Late /\ i = Top(c)'
    <3>1. CASE i \in Mine(c) BY <2>6, <2>7, <3>1 DEF Framed
    <3>2. CASE i = iFrame'[c]
      <4>1. Top(c)' = iFrame'[c] BY <2>1 DEF Top
      <4> QED BY <2>8, <2>9, <3>2, <4>1 DEF Late
    <3> QED BY <2>4, <2>10, <3>1, <3>2
  <2>11. ASSUME NEW q \in spilled[c] \ todo'[c] PROVE \E i \in Mine(c)' : wal'[i].pg = q
    <3>1. CASE q = p BY <2>4, <2>8, <3>1
    <3>2. CASE q # p
      <4>1. q \in spilled[c] \ todo[c] BY <2>8, <2>11, <3>2
      <4>2. PICK i \in Mine(c) : wal[i].pg = q BY <2>6, <4>1 DEF Framed
      <4> QED BY <2>4, <2>7, <4>2
    <3> QED BY <3>1, <3>2
  <2> QED BY <2>1, <2>10, <2>11 DEF Framed
<1> QED BY <1>2, <1>3, <1>4, <1>5, <1>6, TxnSteps

(* The pages still to write, and the number of a transaction with frames. *)
LEMMA TodoOwn ==
  ASSUME Sound, SnapshotInv, Sound', NEW c \in Conn, Step(c)
  PROVE  /\ spilled'[c] # {} => InTxn(c)' \/ pc'[c] \in {"committed", "failed"}
         /\ todo'[c] \subseteq spilled'[c]
         /\ InTxn(c)' /\ (pc'[c] # "write" \/ spilled'[c] # {}) => txn'[c] # 0
         /\ pc'[c] \in {"write"} \cup Late => todo'[c] = {}
         /\ pc'[c] = "write" /\ readLock'[c] = 0 => spilled'[c] = {}
<1>0. /\ TypeOK /\ FrameOK(c) /\ FreshInv /\ Known(c) /\ OpOK(c) /\ HoldOK(c)
  BY SoundFacts, DataFacts
<1>1. spilled'[c] # {} => InTxn(c)' \/ pc'[c] \in {"committed", "failed"}
  <2>1. CASE BeginFrames(c) BY <1>0, <2>1, BeginFramesView DEF InTxn
  <2>2. CASE WriteFrame(c) BY <1>0, <2>2, WriteFrameView DEF InTxn
  <2>3. CASE ~(BeginFrames(c) \/ WriteFrame(c)) BY <1>0, <2>3, TxnEnds DEF FrameOK
  <2> QED BY <2>1, <2>2, <2>3
<1>2. todo'[c] \subseteq spilled'[c]
  <2>1. CASE BeginFrames(c) BY <1>0, <2>1, BeginFramesView
  <2>2. CASE WriteFrame(c)
    <3>1. UNCHANGED spilled /\ \E p \in todo[c] : todo'[c] = todo[c] \ {p} BY <2>2, FrameView
    <3> QED BY <1>0, <3>1 DEF FrameOK
  <2>3. CASE ~(BeginFrames(c) \/ WriteFrame(c)) BY <1>0, <2>3, TxnEnds DEF FrameOK
  <2> QED BY <2>1, <2>2, <2>3
<1>a. ASSUME BeginWrite(c) PROVE spilled'[c] = {} /\ todo'[c] = {} /\ pc'[c] = "write"
  <2>1. pc'[c] = "write" /\ UNCHANGED <<spilled, todo>> /\ pc[c] = "open"
    BY <1>0, <1>a, Shapes DEF BeginWrite, Goto
  <2>2. spilled[c] = {} BY <1>0, <2>1 DEF FrameOK, InTxn, OpOK
  <2> QED BY <1>0, <2>1, <2>2 DEF FrameOK
<1>3. ASSUME InTxn(c)', pc'[c] # "write" \/ spilled'[c] # {} PROVE txn'[c] # 0
  <2>1. CASE BeginWrite(c) BY <1>3, <1>a, <2>1
  <2>2. CASE BeginFrames(c)
    <3>1. nextTxn # 0
      <4>1. hdr0.ver \in Nat /\ nextTxn \in Nat BY <1>0, Nums, Units
      <4> QED BY <1>0, <4>1 DEF FreshInv
    <3> QED BY <1>0, <2>2, <3>1, BeginFramesView
  <2>3. CASE txn'[c] = txn[c] /\ InTxn(c) /\ pc[c] # "write" BY <1>0, <2>3 DEF FrameOK
  <2>4. CASE RestartLock(c) \/ LogHdr(c)
    <3>1. pc[c] \in {"restart", "logHdr"} BY <2>4 DEF RestartLock, LogHdr
    <3> QED BY <1>0, <2>3, <2>4, <3>1, HdrView DEF InTxn
  <2>5. CASE RestartHdr0(c) BY <2>3, <2>5 DEF RestartHdr0, InTxn
  <2>6. CASE WriteFrame(c)
    <3>1. pc[c] = "frames" /\ UNCHANGED txn BY <2>6, FrameView
    <3> QED BY <2>3, <3>1 DEF InTxn
  <2>7. CASE FramesDone(c)
    <3>1. pc[c] = "framesDone" /\ UNCHANGED txn BY <1>0, <2>7, DoneView
    <3> QED BY <2>3, <3>1 DEF InTxn
  <2>8. CASE Quiet(c) BY <2>3, <2>8 DEF Quiet
  <2> QED BY <1>3, <2>1, <2>2, <2>4, <2>5, <2>6, <2>7, <2>8, TxnSteps
<1>4. ASSUME pc'[c] \in Late PROVE todo'[c] = {}
  <2>1. CASE WriteFrame(c)
    <3>1. PICK p \in todo[c] : todo'[c] = todo[c] \ {p} /\ (pc'[c] = "frames" \/ todo[c] = {p})
      BY <2>1, FrameView
    <3> QED BY <1>4, <3>1 DEF Late
  <2>2. CASE SyncFrames(c) \/ IndexFrame(c)
    BY <1>0, <2>2 DEF SyncFrames, IndexFrame, FrameOK
  <2> QED BY <1>0, <1>4, <2>1, <2>2, Moves DEF Late
<1>5. ASSUME pc'[c] = "write" PROVE todo'[c] = {} /\ (readLock'[c] = 0 => spilled'[c] = {})
  <2>1. CASE BeginWrite(c) BY <1>a, <2>1
  <2>2. CASE FramesDone(c)
    <3>1. pc[c] = "framesDone" /\ UNCHANGED <<todo, readLock>> BY <1>0, <2>2, DoneView
    <3>2. readLock[c] # 0 BY <1>0, <3>1 DEF HoldOK, Slot
    <3> QED BY <1>0, <3>1, <3>2 DEF FrameOK
  <2> QED BY <1>0, <1>5, <2>1, <2>2, Moves
<1> QED BY <1>1, <1>2, <1>3, <1>4, <1>5

(* A commit that makes the database grow writes all of its new pages; a header
   that is being published is that of its last frame. *)
LEMMA GrowOwn ==
  ASSUME Sound, SnapshotInv, Sound', NEW c \in Conn, Step(c)
  PROVE  /\ InTxn(c)' /\ pc'[c] \notin {"write"} \cup PublishPlaces /\ newSize'[c] # 0 =>
               \A p \in Page : p <= newSize'[c] /\ image'[hdr0'.ver][p] = NoData => p \in spilled'[c]
         /\ pc'[c] \in PublishPlaces => /\ hdr'[c].nPage = wal'[hdr'[c].mxFrame].size
                                        /\ hdr'[c].ver = wal'[hdr'[c].mxFrame].txn
<1>0. /\ TypeOK /\ FrameOK(c) /\ BaseOK(c) /\ PendOK(c) /\ ChainOK(c) /\ Known(c)
  BY SoundFacts, DataFacts
<1>1. ASSUME InTxn(c)', pc'[c] \notin {"write"} \cup PublishPlaces, newSize'[c] # 0,
             NEW p \in Page, p <= newSize'[c], image'[hdr0'.ver][p] = NoData
      PROVE  p \in spilled'[c]
  <2>1. CASE /\ InTxn(c) /\ pc[c] \notin {"write"} \cup PublishPlaces /\ newSize'[c] = newSize[c]
             /\ hdr0'.ver = hdr0.ver /\ image'[hdr0.ver] = image[hdr0.ver] /\ spilled'[c] = spilled[c]
    <3>1. newSize[c] # 0 /\ p <= newSize[c] /\ image[hdr0.ver][p] = NoData BY <1>1, <2>1
    <3> QED BY <1>0, <2>1, <3>1 DEF FrameOK
  <2>2. CASE BeginWrite(c) BY <1>0, <1>1, <2>2, Shapes DEF BeginWrite, Goto
  <2>3. CASE BeginFrames(c)
    <3>1. hdr[c].ver = hdr0.ver /\ UNCHANGED <<hdr0, image>>
      BY <1>0, <2>3, BeginFramesView DEF BaseOK, InBase
    <3> QED BY <1>0, <1>1, <2>3, <3>1, BeginFramesView
  <2>4. CASE RestartLock(c) \/ LogHdr(c)
    <3>1. pc[c] \in {"restart", "logHdr"} BY <2>4 DEF RestartLock, LogHdr
    <3> QED BY <1>0, <2>1, <2>4, <3>1, HdrView DEF InTxn
  <2>5. CASE RestartHdr0(c) BY <1>0, <2>1, <2>5 DEF RestartHdr0, InTxn, BaseOK
  <2>6. CASE WriteFrame(c)
    <3>1. /\ pc[c] = "frames" /\ UNCHANGED <<hdr0, newSize, spilled>>
          /\ \A v \in Txn : v # txn[c] => image'[v] = image[v]
      BY <2>6, FrameView
    <3>2. txn[c] # 0 /\ InTxn(c) BY <1>0, <3>1 DEF FrameOK, InTxn
    <3>3. hdr0.ver # txn[c] /\ hdr0.ver \in Txn
      <4>1. hdr0.ver < txn[c] BY <1>0, <3>2 DEF PendOK
      <4>2. hdr0.ver \in Nat /\ txn[c] \in Nat /\ hdr0.ver \in Txn BY <1>0, Nums, Units
      <4> QED BY <4>1, <4>2
    <3> QED BY <2>1, <3>1, <3>2, <3>3
  <2>7. CASE FramesDone(c) BY <1>0, <1>1, <2>7, FramesDoneView
  <2>8. CASE Quiet(c) BY <1>1, <2>1, <2>8 DEF Quiet
  <2> QED BY <1>1, <2>2, <2>3, <2>4, <2>5, <2>6, <2>7, <2>8, TxnSteps
<1>2. ASSUME pc'[c] \in PublishPlaces
      PROVE  /\ hdr'[c].nPage = wal'[hdr'[c].mxFrame].size
             /\ hdr'[c].ver = wal'[hdr'[c].mxFrame].txn
  <2>1. CASE FramesDone(c)
    <3>1. /\ UNCHANGED wal /\ pc[c] = "framesDone" /\ hdr'[c].mxFrame = iFrame[c]
          /\ hdr'[c].ver = txn[c] /\ hdr'[c].nPage = newSize[c]
      BY <1>0, <1>2, <2>1, DoneView
    <3>2. Top(c) = iFrame[c] /\ wal[iFrame[c]].size = newSize[c] /\ iFrame[c] <= MaxFrame
      BY <1>0, <3>1 DEF ChainOK, Top, HasLog, LogOf
    <3>3. /\ hdr0.mxFrame \in Nat /\ hdr[c].mxFrame \in Nat /\ iFrame[c] \in Nat
          /\ hdr0.mxFrame <= hdr[c].mxFrame /\ hdr[c].mxFrame < iFrame[c]
      BY <1>0, <3>1, Nums DEF BaseOK, InBase
    <3>4. iFrame[c] \in Mine(c)
      <4>1. iFrame[c] \in FrameNo BY <3>2, <3>3, BoundFacts DEF FrameNo
      <4> QED BY <3>2, <3>3, <4>1 DEF Mine
    <3>5. wal[iFrame[c]].txn = txn[c] BY <1>0, <3>1, <3>4 DEF FrameOK, InTxn
    <3> QED BY <3>1, <3>2, <3>5
  <2>2. CASE Publish1(c)
    <3>1. UNCHANGED <<hdr, wal>> /\ pc[c] \in PublishPlaces BY <2>2 DEF Publish1
    <3> QED BY <1>0, <3>1 DEF FrameOK
  <2> QED BY <1>0, <1>2, <2>1, <2>2, Moves
<1> QED BY <1>1, <1>2

(* A writer that goes on keeps its frames in order: what it has appended is its own,
   what it has still to append is not yet in the log. *)
LEMMA FrameOwn ==
  ASSUME Sound, SnapshotInv, Sound', NEW c \in Conn, Step(c)
  PROVE  FrameOK(c)'
<1>1. InTxn(c)' /\ pc'[c] \notin PublishPlaces => Framed(c)' BY FramedOwn
<1> QED BY <1>1, TodoOwn, GrowOwn DEF FrameOK, Framed, Late

(* The frames of a writer are left alone by everyone else: it holds the write lock. *)
LEMMA FrameOther ==
  ASSUME Sound, SnapshotInv, NEW c \in Conn, NEW d \in Conn \ {c}, Step(c)
  PROVE  FrameOK(d)'
<1>0. TypeOK /\ LockInv /\ FrameOK(d) BY SoundFacts, DataFacts
<1>1. Untouched(d) BY <1>0, StepKnown DEF LockInv, Alone
<1>2. InTxn(d) \/ pc[d] \in PublishPlaces => HasWrite(d) BY DEF InTxn, HasWrite
<1>3. HasWrite(d) => UNCHANGED <<hdr0, wal, image>> BY <1>0, WriterAloneData
<1>4. spilled'[d] = spilled[d] /\ todo'[d] = todo[d] /\ newSize'[d] = newSize[d]
  BY <1>0, Private, PrivateData
<1>5. InTxn(d)' <=> InTxn(d) BY <1>1 DEF InTxn, Untouched
<1>6. CASE InTxn(d) \/ pc[d] \in PublishPlaces
  <2>1. Mine(d)' = Mine(d) /\ Top(d)' = Top(d) BY <1>1, <1>2, <1>3, <1>6 DEF Mine, Top, Untouched
  <2> QED BY <1>0, <1>1, <1>2, <1>3, <1>4, <1>5, <1>6, <2>1 DEF FrameOK, Untouched
<1>7. CASE ~(InTxn(d) \/ pc[d] \in PublishPlaces)
  BY <1>0, <1>1, <1>4, <1>5, <1>7 DEF FrameOK, Untouched
<1> QED BY <1>6, <1>7

-----------------------------------------------------------------------------
(* The wal-index. *)

(* walIndexAppend() leaves the pages of the frames up to the new one, and
   nothing behind them. *)
LEMMA IndexView ==
  ASSUME Sound, SnapshotInv, NEW c \in Conn, IndexFrame(c)
  PROVE  /\ UNCHANGED <<hdr0, hdr, wal, walHdr, db, image, nBackfill, iFrame, readLock, op>>
         /\ pc[c] = "index" /\ iIdx'[c] = iIdx[c] + 1 /\ iIdx'[c] \in FrameNo /\ iIdx'[c] <= iFrame[c]
         /\ pc'[c] \in {"index", "framesDone"} /\ (pc'[c] = "framesDone" <=> iIdx'[c] = iFrame[c])
         /\ \A i \in FrameNo : aPgno'[i] = IF i <= iIdx'[c] THEN wal[i].pg ELSE 0
<1>0. TypeOK /\ IndexInv /\ IndexOK(c) /\ BaseOK(c) /\ ChainOK(c) BY SoundFacts, DataFacts
<1> DEFINE n == iIdx[c] + 1
           fresh == IF n = 1 THEN [i \in FrameNo |-> 0] ELSE aPgno
           free == IF fresh[n] = 0 THEN fresh ELSE Cleaned(fresh, hdr[c].mxFrame)
<1>1. /\ aPgno' = [free EXCEPT ![n] = wal[n].pg] /\ iIdx' = [iIdx EXCEPT ![c] = n]
      /\ Goto(c, IF n = iFrame[c] THEN "framesDone" ELSE "index") /\ pc[c] = "index"
      /\ UNCHANGED <<hdr0, hdr, wal, walHdr, db, image, nBackfill, iFrame, readLock, op>>
  BY DEF IndexFrame
<1>2. /\ hdr[c].mxFrame \in Nat /\ iIdx[c] \in Nat /\ iFrame[c] \in Nat /\ iFrame[c] <= MaxFrame
      /\ \A i \in FrameNo : i \in Nat /\ i > 0
  BY <1>0, <1>1, Nums, Units DEF ChainOK, HasLog, LogOf, Top
<1>3. /\ hdr[c].mxFrame <= iIdx[c] /\ iIdx[c] < iFrame[c] /\ Indexed(iIdx[c])
      /\ hdr[c].mxFrame < iIdx[c] => \A i \in FrameNo : iIdx[c] < i => aPgno[i] = 0
  BY <1>0, <1>1 DEF IndexOK
<1>4. n \in FrameNo /\ n <= iFrame[c] /\ n \in Nat BY <1>2, <1>3, BoundFacts DEF FrameNo
<1>5. iIdx'[c] = n /\ pc'[c] = IF n = iFrame[c] THEN "framesDone" ELSE "index"
  BY <1>0, <1>1, FrameShapes, Shapes DEF Goto
<1>6. free \in [FrameNo -> Nat] /\ \A i \in FrameNo : i # n => free[i] = IF i < n THEN wal[i].pg ELSE 0
  <2>1. aPgno \in [FrameNo -> Nat] BY <1>0, FrameShapes
  <2>2. \A i \in FrameNo : i < n => aPgno[i] = wal[i].pg BY <1>2, <1>3 DEF Indexed
  <2>3. CASE n = 1
    <3>1. fresh = [i \in FrameNo |-> 0] BY <2>3
    <3>2. free = [i \in FrameNo |-> 0] BY <1>4, <3>1
    <3>3. \A i \in FrameNo : ~(i < n) BY <1>2, <2>3
    <3> QED BY <3>2, <3>3
  <2>4. CASE n # 1 /\ aPgno[n] = 0
    <3>1. free = aPgno BY <2>4
    <3>2. ASSUME NEW i \in FrameNo, n < i PROVE aPgno[i] = 0 BY <1>0, <1>4, <2>4, <3>2 DEF IndexInv
    <3>3. \A i \in FrameNo : i # n => i < n \/ n < i BY <1>2, <1>4
    <3>4. \A i \in FrameNo : n < i => ~(i < n) BY <1>2, <1>4
    <3> HIDE DEF n, fresh, free
    <3> QED BY <2>1, <2>2, <3>1, <3>2, <3>3, <3>4
  <2>5. CASE n # 1 /\ aPgno[n] # 0
    <3>1. iIdx[c] = hdr[c].mxFrame /\ iIdx[c] # 0 BY <1>2, <1>3, <1>4, <2>5
    <3>2. free = [i \in FrameNo |-> IF i <= iIdx[c] THEN aPgno[i] ELSE 0]
      BY <2>5, <3>1 DEF Cleaned
    <3>3. \A i \in FrameNo : i <= iIdx[c] <=> i < n BY <1>2
    <3> HIDE DEF n, fresh, free
    <3>4. \A i \in FrameNo : free[i] = IF i < n THEN aPgno[i] ELSE 0 BY <3>2, <3>3
    <3>5. free \in [FrameNo -> Nat] BY <2>1, <3>2
    <3> QED BY <2>2, <3>4, <3>5
  <2> QED BY <2>3, <2>4, <2>5
<1> HIDE DEF free, fresh
<1>7. aPgno'[n] = wal[n].pg /\ \A i \in FrameNo : i # n => aPgno'[i] = free[i]
  BY <1>1, <1>4, <1>6
<1> HIDE DEF n
<1>8. ASSUME NEW i \in FrameNo PROVE aPgno'[i] = IF i <= n THEN wal[i].pg ELSE 0
  <2>1. CASE i = n BY <1>4, <1>7, <2>1
  <2>2. CASE i # n
    <3>1. i <= n <=> i < n BY <1>4, <2>2, Units
    <3> QED BY <1>6, <1>7, <2>2, <3>1
  <2> QED BY <2>1, <2>2
<1> QED BY <1>1, <1>4, <1>5, <1>8 DEF n

(* Recovery makes an entry for every frame it accepts. *)
LEMMA ScanIndex ==
  ASSUME Sound, NEW c \in Conn, RecoverScan(c)
  PROVE  /\ Indexed(hdr[c].mxFrame)' /\ hdr0'=hdr0 /\ wal' = wal
         /\ \/ aPgno' = aPgno
            \/ \E v \in Nat : /\ Chain(wal, walHdr.salt, v)
                              /\ \A i \in FrameNo : aPgno'[i] = IF i <= v THEN wal[i].pg ELSE 0
<1>0. TypeOK BY SoundFacts
<1> DEFINE valid == ValidLen(walHdr, wal)
           n == LastCommit(walHdr, wal)
           S == {m \in 0 .. MaxFrame : \A i \in 1 .. m : FrameOk(walHdr, wal, i)}
<1>1. /\ hdr'[c].mxFrame = n /\ UNCHANGED <<hdr0, wal>>
      /\ aPgno' = IF valid = 0 THEN aPgno
                  ELSE [i \in FrameNo |-> IF i <= valid THEN wal[i].pg ELSE 0]
  BY <1>0, Shapes DEF RecoverScan
<1>2. valid \in S
  <2>1. S \in SUBSET (0 .. MaxFrame) /\ 0 \in S BY BoundFacts
  <2>2. Max(S) \in S BY <2>1, BoundFacts, MaxIn
  <2>3. valid = IF walHdr.ok THEN Max(S) ELSE 0 BY DEF ValidLen
  <2> QED BY <2>1, <2>2, <2>3
<1>3. valid \in Nat /\ valid <= MaxFrame /\ Chain(wal, walHdr.salt, valid)
  <2>1. valid \in 0 .. MaxFrame /\ \A i \in 1 .. valid : FrameOk(walHdr, wal, i) BY <1>2
  <2> HIDE DEF valid, S, n
  <2>2. valid \in Nat /\ valid <= MaxFrame BY <2>1, BoundFacts
  <2>3. \A i \in FrameNo : i <= valid => i \in 1 .. valid BY <2>2, BoundFacts DEF FrameNo
  <2> QED BY <2>1, <2>2, <2>3 DEF Chain, FrameOk
<1>4. n <= valid /\ n \in Nat
  <2>1. n \in {i \in 1 .. valid : wal[i].size # 0} \cup {0}
    <3>1. {i \in 1 .. valid : wal[i].size # 0} \cup {0} \in SUBSET (0 .. valid) BY <1>3
    <3> QED BY <1>3, <3>1, MaxIn DEF LastCommit
  <2> HIDE DEF n, valid, S
  <2> QED BY <1>3, <2>1
<1> HIDE DEF n, valid, S
<1>5. CASE valid = 0
  <2>1. aPgno' = aPgno /\ n = 0 BY <1>1, <1>3, <1>4, <1>5
  <2>2. \A i \in FrameNo : ~(i <= 0) BY Units
  <2> QED BY <1>1, <2>1, <2>2 DEF Indexed
<1>6. CASE valid # 0
  <2>1. \A i \in FrameNo : aPgno'[i] = IF i <= valid THEN wal[i].pg ELSE 0 BY <1>1, <1>6
  <2>2. \A i \in FrameNo : i <= n => i <= valid BY <1>3, <1>4, Units
  <2> QED BY <1>1, <1>3, <2>1, <2>2 DEF Indexed
<1> QED BY <1>5, <1>6

(* A writer's own entries. *)
LEMMA IndexOwn ==
  ASSUME Sound, SnapshotInv, Sound', NEW c \in Conn, Step(c)
  PROVE  IndexOK(c)'
<1>0. TypeOK /\ Known(c) /\ IndexInv /\ IndexOK(c) /\ BaseOK(c) BY SoundFacts, DataFacts
<1>a. /\ hdr0.mxFrame \in Nat /\ hdr[c].mxFrame \in Nat /\ iIdx[c] \in Nat /\ iFrame[c] \in Nat
      /\ \A i \in FrameNo : i \in Nat /\ i > 0
  BY <1>0, Nums, Units
<1>1. pc'[c] \in {"write", "logHdr"} \cup PublishPlaces \cup RecHdrPlaces => Indexed(hdr[c].mxFrame)'
  <2>1. CASE FramesDone(c)
    <3>1. UNCHANGED <<wal, aPgno>> /\ hdr'[c].mxFrame = iFrame[c] /\ pc[c] = "framesDone"
      BY <1>0, <2>1, DoneView
    <3>2. Indexed(iFrame[c]) BY <1>0, <3>1 DEF IndexOK
    <3> QED BY <3>1, <3>2 DEF Indexed
  <2>2. CASE BeginWrite(c)
    <3>1. UNCHANGED <<wal, aPgno, hdr0, hdr>> /\ hdr[c] = hdr0 BY <2>2 DEF BeginWrite, HdrMoved
    <3> QED BY <1>0, <3>1 DEF IndexInv, Indexed
  <2>3. CASE CheckMark(c)
    <3>1. UNCHANGED <<wal, aPgno, hdr0, hdr>> BY <1>0, <2>3, CheckView
    <3>2. pc'[c] \in {"write", "logHdr"} \cup PublishPlaces \cup RecHdrPlaces => hdr[c] = hdr0
      BY <1>0, <2>3, CheckView, RetryView
    <3> QED BY <1>0, <3>1, <3>2 DEF IndexInv, Indexed
  <2>4. CASE BeginFrames(c)
    <3>1. UNCHANGED <<wal, aPgno, hdr>> /\ pc[c] = "write" BY <2>4 DEF BeginFrames
    <3> QED BY <1>0, <3>1 DEF IndexOK, Indexed
  <2>5. CASE Publish1(c)
    <3>1. UNCHANGED <<wal, aPgno, hdr>> /\ pc[c] = "publish1" BY <2>5 DEF Publish1
    <3> QED BY <1>0, <3>1 DEF IndexOK, Indexed
  <2>6. CASE RecoverScan(c) BY <2>6, ScanIndex
  <2>7. CASE RecoverHdr1(c)
    <3>1. UNCHANGED <<wal, aPgno, hdr>> /\ pc[c] = "recHdr1" BY <2>7 DEF RecoverHdr1
    <3> QED BY <1>0, <3>1 DEF IndexOK, Indexed
  <2> QED BY <1>0, <2>1, <2>2, <2>3, <2>4, <2>5, <2>6, <2>7, Moves
<1>2. ASSUME pc'[c] \in Writing
      PROVE  /\ hdr'[c].mxFrame <= iIdx'[c] /\ iIdx'[c] <= iFrame'[c] /\ Indexed(iIdx[c])'
             /\ hdr'[c].mxFrame < iIdx'[c] => \A i \in FrameNo : iIdx'[c] < i => aPgno'[i] = 0
             /\ pc'[c] \in {"syncHdr", "frames", "syncFrames"} => iIdx'[c] = hdr'[c].mxFrame
             /\ pc'[c] = "index" => iIdx'[c] < iFrame'[c]
             /\ pc'[c] = "framesDone" => iIdx'[c] = iFrame'[c]
  <2>1. CASE LogHdr(c)
    <3>1. UNCHANGED <<wal, aPgno>> /\ iIdx'[c] = hdr[c].mxFrame
      BY <1>0, <2>1, FrameShapes DEF LogHdr
    <3>2. iFrame'[c] = hdr[c].mxFrame /\ hdr'[c].mxFrame = hdr[c].mxFrame /\ pc[c] = "logHdr"
          /\ pc'[c] \in {"syncHdr", "frames"}
      BY <1>0, <2>1, LogHdrView
    <3>3. Indexed(hdr[c].mxFrame) BY <1>0, <3>2 DEF IndexOK
    <3> QED BY <1>a, <3>1, <3>2, <3>3 DEF Indexed
  <2>2. CASE SyncHdr(c)
    <3>1. UNCHANGED <<wal, aPgno, hdr, iIdx, iFrame>> /\ pc[c] = "syncHdr" /\ pc'[c] = "frames"
      BY <1>0, <2>2, Shapes DEF SyncHdr, Goto
    <3> QED BY <1>0, <3>1 DEF IndexOK, Indexed
  <2>3. CASE WriteFrame(c)
    <3>1. /\ UNCHANGED <<aPgno, iIdx>> /\ pc[c] = "frames" /\ iFrame'[c] = iFrame[c] + 1
          /\ hdr'[c].mxFrame = hdr[c].mxFrame /\ hdr[c].mxFrame <= iFrame[c]
          /\ pc'[c] \in {"frames", "syncFrames", "index"}
          /\ \A i \in FrameNo : i # iFrame'[c] => wal'[i] = wal[i]
      <4>1. pc'[c] \in {"frames", "syncFrames", "index"} BY <2>3, FrameView
      <4> QED BY <2>3, <4>1, FrameView
    <3>2. iIdx[c] = hdr[c].mxFrame /\ Indexed(iIdx[c]) BY <1>0, <3>1 DEF IndexOK
    <3>3. \A i \in FrameNo : i <= iIdx[c] => i # iFrame'[c] BY <1>a, <3>1, <3>2
    <3>4. Indexed(iIdx[c])' BY <3>1, <3>2, <3>3 DEF Indexed
    <3> QED BY <1>a, <3>1, <3>2, <3>4
  <2>4. CASE SyncFrames(c)
    <3>1. UNCHANGED <<wal, aPgno, hdr, iIdx, iFrame>> /\ pc[c] = "syncFrames" /\ pc'[c] = "index"
      BY <1>0, <2>4, Shapes DEF SyncFrames, Goto
    <3>2. iIdx[c] < iFrame[c] BY <1>0, <1>a, <3>1 DEF IndexOK, BaseOK
    <3> QED BY <1>0, <3>1, <3>2 DEF IndexOK, Indexed
  <2>5. CASE IndexFrame(c)
    <3>1. /\ UNCHANGED <<hdr, wal, iFrame>> /\ iIdx'[c] = iIdx[c] + 1 /\ iIdx'[c] <= iFrame[c]
          /\ pc'[c] \in {"index", "framesDone"} /\ (pc'[c] = "framesDone" <=> iIdx'[c] = iFrame[c])
          /\ \A i \in FrameNo : aPgno'[i] = IF i <= iIdx'[c] THEN wal[i].pg ELSE 0
      BY <2>5, IndexView
    <3>2. hdr[c].mxFrame <= iIdx[c] BY <1>0, <2>5 DEF IndexOK, IndexFrame
    <3>3. \A i \in FrameNo : iIdx'[c] < i => ~(i <= iIdx'[c]) BY <1>a, <3>1
    <3> QED BY <1>a, <3>1, <3>2, <3>3 DEF Indexed
  <2> QED BY <1>0, <1>2, <2>1, <2>2, <2>3, <2>4, <2>5, Moves
<1>3. pc'[c] \in {"syncHdr", "frames", "syncFrames", "index", "framesDone"} => pc'[c] \in Writing
  OBVIOUS
<1> QED BY <1>1, <1>2, <1>3 DEF IndexOK

(* Nobody else touches the index while a writer makes its entries. *)
LEMMA IndexOther ==
  ASSUME Sound, SnapshotInv, NEW c \in Conn, NEW d \in Conn \ {c}, Step(c)
  PROVE  IndexOK(d)'
<1>0. TypeOK /\ LockInv /\ IndexOK(d) BY SoundFacts, DataFacts
<1>1. Untouched(d) BY <1>0, StepKnown DEF LockInv, Alone
<1>2. iIdx'[d] = iIdx[d] BY <1>0, PrivateData
<1>3. HasWrite(d) => UNCHANGED <<wal, aPgno>> BY <1>0, WriterAloneData
<1>4. CASE HasWrite(d) BY <1>0, <1>1, <1>2, <1>3, <1>4 DEF IndexOK, Indexed, Untouched
<1>5. CASE ~HasWrite(d) BY <1>1, <1>5 DEF IndexOK, Untouched, HasWrite
<1> QED BY <1>4, <1>5

-----------------------------------------------------------------------------
(* Snapshots of readers. *)

(* The published part of the log never changes under a reader: not the frames,
   nor the last frame of a page. *)
LEMMA LogFixed ==
  ASSUME Sound, NEW c \in Conn, Step(c)
  PROVE  /\ \A i \in FrameNo : i <= hdr0.mxFrame => wal'[i] = wal[i]
         /\ \A n \in Nat, p \in Page : n <= hdr0.mxFrame =>
               /\ LogFrame(wal', p, n) = LogFrame(wal, p, n)
               /\ LogFrame(wal, p, n) # 0 => wal'[LogFrame(wal, p, n)] = wal[LogFrame(wal, p, n)]
<1>0. TypeOK BY SoundFacts
<1>a. hdr0.mxFrame \in Nat /\ \A i \in FrameNo : i \in Nat BY <1>0, Nums, Units
<1>1. \A i \in FrameNo : i <= hdr0.mxFrame => wal'[i] = wal[i]
  <2>1. CASE WriteFrame(c)
    <3>1. /\ \A i \in FrameNo : i # iFrame'[c] => wal'[i] = wal[i]
          /\ iFrame'[c] = iFrame[c] + 1 /\ hdr0.mxFrame <= hdr[c].mxFrame /\ hdr[c].mxFrame <= iFrame[c]
      BY <2>1, FrameView
    <3>2. hdr[c].mxFrame \in Nat /\ iFrame[c] \in Nat BY <1>0, Nums
    <3> QED BY <1>a, <3>1, <3>2
  <2>2. CASE ~WriteFrame(c)
    <3>1. wal' = wal BY <2>2, LogSteps DEF LogHdr
    <3> QED BY <3>1
  <2> QED BY <2>1, <2>2
<1>2. ASSUME NEW n \in Nat, NEW p \in Page, n <= hdr0.mxFrame
      PROVE  /\ LogFrame(wal', p, n) = LogFrame(wal, p, n)
             /\ LogFrame(wal, p, n) # 0 => wal'[LogFrame(wal, p, n)] = wal[LogFrame(wal, p, n)]
  <2>1. \A i \in FrameNo : i <= n => wal'[i] = wal[i] BY <1>a, <1>1, <1>2
  <2>2. LogFrame(wal', p, n) = LogFrame(wal, p, n) BY <2>1, LogFrameSame
  <2>3. LogFrame(wal, p, n) # 0 => LogFrame(wal, p, n) \in FrameNo /\ LogFrame(wal, p, n) <= n
    BY LogFrameIs
  <2> QED BY <2>1, <2>2, <2>3
<1> QED BY <1>1, <1>2

(* A page of the file changes when a checkpointer copies a safe frame into it,
   or takes away a page behind the end of the database. *)
LEMMA CopyView ==
  ASSUME Sound, SnapshotInv, NEW c \in Conn, Step(c), NEW p \in Page, db'[p] # db[p]
  PROVE  /\ UNCHANGED <<hdr0, hdr, wal, walHdr, image, nBackfill, aPgno, mxSafe>>
         /\ CkptCopying(c) /\ nBackfill < mxSafe[c]
         /\ \/ \E f \in FrameNo :
                  /\ f = LogFrame(wal, p, hdr[c].mxFrame) /\ wal[f].pg = p
                  /\ nBackfill < f /\ f <= mxSafe[c] /\ db'[p] = wal[f].txn
            \/ /\ mxSafe[c] = hdr0.mxFrame /\ hdr0.nPage < p /\ db'[p] = NoData
               /\ hdr[c].mxFrame = hdr0.mxFrame /\ hdr[c].ver = hdr0.ver /\ hdr[c].nPage = hdr0.nPage
<1>0. TypeOK /\ CopyOK(c) /\ TargetOK(c) BY SoundFacts, DataFacts
<1>1. db' # db OBVIOUS
<1>2. CASE CkptCopy(c)
  <2>1. /\ UNCHANGED <<hdr0, hdr, wal, walHdr, image, nBackfill, aPgno, mxSafe>> /\ pc[c] = "ckCopy"
        /\ \E e \in iter[c] : db' = [db EXCEPT ![e[1]] = wal[e[2]].txn]
    BY <1>1, <1>2 DEF CkptCopy
  <2>2. PICK e \in iter[c] : db' = [db EXCEPT ![e[1]] = wal[e[2]].txn] BY <2>1
  <2>3. e[1] \in Page /\ e[2] \in FrameNo BY <1>0, FrameShapes
  <2>4. e[1] = p /\ db'[p] = wal[e[2]].txn BY <1>0, <2>2, <2>3, FrameShapes
  <2>5. CkptCopying(c) /\ nBackfill < mxSafe[c] BY <1>0, <2>1 DEF CkptCopying, TargetOK
  <2>6. nBackfill < e[2] /\ e[2] <= mxSafe[c] /\ e[2] = LogFrame(wal, p, hdr[c].mxFrame)
    BY <1>0, <2>4, <2>5 DEF CopyOK
  <2>7. wal[e[2]].pg = p
    <3>1. e[2] # 0 BY <2>3, Units
    <3> QED BY <2>6, <3>1, LogFrameIs
  <2> QED BY <2>1, <2>3, <2>4, <2>5, <2>6, <2>7
<1>3. CASE CkptTruncate(c)
  <2>1. /\ UNCHANGED <<hdr0, hdr, wal, walHdr, image, nBackfill, aPgno, mxSafe>> /\ pc[c] = "ckTruncate"
        /\ mxSafe[c] = hdr0.mxFrame
        /\ db' = [q \in Page |-> IF q <= hdr[c].nPage THEN db[q] ELSE NoData]
    BY <1>1, <1>3 DEF CkptTruncate, Shrunk
  <2>2. ~(p <= hdr[c].nPage) /\ db'[p] = NoData BY <2>1
  <2>3. /\ hdr[c].mxFrame <= hdr0.mxFrame /\ mxSafe[c] <= hdr[c].mxFrame /\ nBackfill < mxSafe[c]
        /\ CkptCopying(c) /\ SameLog(hdr[c])
    BY <1>0, <2>1 DEF TargetOK, CkptCopying, CopyOK
  <2>4. hdr[c].mxFrame = hdr0.mxFrame BY <1>0, <2>1, <2>3, Nums
  <2>5. hdr[c].ver = hdr0.ver /\ hdr[c].nPage = hdr0.nPage BY <2>3, <2>4 DEF SameLog
  <2>6. hdr0.nPage < p BY <1>0, <2>2, <2>5, Nums, Units
  <2> QED BY <2>1, <2>2, <2>3, <2>4, <2>5, <2>6
<1> QED BY <1>1, <1>2, <1>3, DataSteps

(* The images of published transactions are final. *)
LEMMA ImageFixed ==
  ASSUME Sound, SnapshotInv, NEW c \in Conn, Step(c), NEW v \in Txn, v <= hdr0.ver
  PROVE  image'[v] = image[v]
<1>0. TypeOK /\ PendOK(c) /\ FrameOK(c) BY SoundFacts, DataFacts
<1>1. CASE WriteFrame(c)
  <2>1. /\ pc[c] = "frames" /\ \A w \in Txn : w # txn[c] => image'[w] = image[w]
    BY <1>1, FrameView
  <2>2. txn[c] # 0 /\ InTxn(c) BY <1>0, <2>1 DEF FrameOK, InTxn
  <2>3. hdr0.ver < txn[c] BY <1>0, <2>2 DEF PendOK
  <2>4. v # txn[c] BY <1>0, <2>3, Nums, Units
  <2> QED BY <2>1, <2>4
<1>2. CASE ~WriteFrame(c) BY <1>2, DataSteps
<1> QED BY <1>1, <1>2

(* A connection that has a snapshot has the newest one at first, the log being
   all in the file if it bypasses the log. *)
LEMMA EnterOpen ==
  ASSUME Sound, SnapshotInv, Sound', NEW c \in Conn, Step(c), pc'[c] = "open"
  PROVE  /\ hdr'[c] = hdr0 /\ UNCHANGED <<hdr0, wal, db, image, nBackfill>>
         /\ readLock'[c] = 0 => nBackfill = hdr0.mxFrame
<1>0. TypeOK /\ Known(c) /\ BaseOK(c) BY SoundFacts
<1>1. hdr'[c] = hdr0 /\ UNCHANGED <<hdr0, wal, db, image, nBackfill>>
  <2>1. CASE CheckRead0(c) \/ CheckMark(c)
    <3>1. UNCHANGED <<hdr, hdr0, wal, db, nBackfill>> /\ (hdr[c] = hdr0 \/ Retry(c))
          /\ op[c] \in {"read", "frames"}
      BY <1>0, <2>1, CheckView
    <3>2. hdr[c] = hdr0 BY <1>0, <3>1, RetryView
    <3>3. UNCHANGED image BY <2>1 DEF CheckRead0, CheckMark
    <3> QED BY <3>1, <3>2, <3>3
  <2>2. CASE EndWrite(c)
    <3>1. UNCHANGED <<hdr, hdr0, wal, db, image, nBackfill>> /\ pc[c] = "committed"
      BY <2>2 DEF EndWrite
    <3> QED BY <1>0, <3>1 DEF BaseOK, Bare
  <2>3. CASE Rollback(c) BY <1>0, <2>3, Shapes DEF Rollback
  <2> QED BY <1>0, <2>1, <2>2, <2>3, Moves
<1>2. BypassOK(c)' BY SoundNext
<1>3. readLock'[c] = 0 => nBackfill' = hdr0'.mxFrame
  BY <1>1, <1>2 DEF BypassOK, Bypassing
<1> QED BY <1>1, <1>3

(* A snapshot is whole when it is opened. *)
LEMMA ReadOwn ==
  ASSUME Sound, SnapshotInv, Sound', NEW c \in Conn, Step(c)
  PROVE  ReadOK(c)'
<1>0. TypeOK /\ ImageInv /\ DataInv BY SoundFacts, DataFacts
<1>1. SUFFICES ASSUME pc'[c] = "open" PROVE ReadOK(c)' BY DEF ReadOK
<1>2. /\ hdr'[c] = hdr0 /\ UNCHANGED <<hdr0, wal, db, image, nBackfill>>
      /\ readLock'[c] = 0 => nBackfill = hdr0.mxFrame
  BY <1>1, EnterOpen
<1>3. hdr0.mxFrame \in Nat /\ nBackfill \in Nat BY <1>0, Nums
<1>4. readLock'[c] = 0 \/ hdr0.nPage = 0 => Whole(hdr0.ver)
  BY <1>0, <1>2, <1>3 DEF ImageInv, DataInv
<1>5. Sized(hdr[c])' BY <1>0, <1>2 DEF ImageInv, Sized
<1>6. Shows(hdr[c])' BY <1>0, <1>2 DEF DataInv, Shows, Content
<1>7. readLock'[c] = 0 \/ hdr'[c].nPage = 0 => Whole(hdr[c].ver)' BY <1>2, <1>4 DEF Whole
<1>8. hdr'[c].nPage = 0 => hdr'[c].mxFrame = 0 BY <1>0, <1>2 DEF ImageInv
<1>9. hdr'[c].mxFrame <= hdr0'.mxFrame BY <1>2, <1>3
<1> QED BY <1>2, <1>5, <1>6, <1>7, <1>8, <1>9 DEF ReadOK

(* And stays so, whatever others write, publish, restart, recover or copy. *)
LEMMA ReadOther ==
  ASSUME Sound, SnapshotInv, NEW c \in Conn, NEW d \in Conn \ {c}, Step(c)
  PROVE  ReadOK(d)'
<1>0. /\ TypeOK /\ LockInv /\ LockExclusion /\ ReadOK(d) /\ VerOK(d) /\ HoldOK(c) /\ HoldOK(d)
      /\ ClearOK(c, d) /\ Known(c) /\ Known(d)
  BY SoundFacts, DataFacts
<1>1. Untouched(d) BY <1>0, StepKnown DEF LockInv, Alone
<1>2. SUFFICES ASSUME pc[d] = "open" PROVE ReadOK(d)' BY <1>1 DEF ReadOK, Untouched
<1> DEFINE v == hdr[d].ver
           m == hdr[d].mxFrame
<1>3. /\ v \in Txn /\ v <= hdr0.ver /\ m \in Nat /\ hdr0.mxFrame \in Nat /\ hdr[d].nPage \in Nat
      /\ nBackfill \in Nat /\ mxSafe[c] \in Nat /\ readLock[d] # -1
  BY <1>0, <1>2, Nums DEF VerOK, HoldOK
<1>4. image'[v] = image[v] BY <1>3, ImageFixed
<1>5. /\ pc'[d] = "open" /\ hdr'[d] = hdr[d] /\ readLock'[d] = readLock[d]
  BY <1>1, <1>2 DEF Untouched
<1>6. Sized(hdr[d])' BY <1>0, <1>2, <1>4, <1>5 DEF ReadOK, Sized
<1>7. READ(readLock[d]) \notin exclMask[c] BY <1>0, <1>3, Excluded
<1>a. readLock[d] = 0 \/ (readLock[d] \in Slot /\ readLock[d] > 0)
  BY <1>0, <1>3, Shapes, SlotFacts DEF Slot
<1>8. CkptCopying(c) => readLock[d] # 0 /\ readLock[d] > 0 /\ mxSafe[c] <= m
  <2>1. CkptCopying(c) => Passed(c, readLock[d])
    BY DEF CkptCopying, Passed
  <2>2. CkptCopying(c) => readLock[d] # 0 BY <1>0, <1>7 DEF HoldOK
  <2> QED BY <1>0, <1>a, <2>1, <2>2 DEF ClearOK
<1>9. readLock[d] = 0 \/ hdr[d].nPage = 0 => Whole(hdr[d].ver)'
  <2>1. SUFFICES ASSUME readLock[d] = 0 \/ hdr[d].nPage = 0, NEW p \in Page
                 PROVE  db'[p] = image'[v][p]
    BY <1>5 DEF Whole
  <2>2. db[p] = image[v][p] BY <1>0, <1>2, <2>1 DEF ReadOK, Whole
  <2>3. db'[p] = db[p]
    <3>1. SUFFICES ASSUME db'[p] # db[p] PROVE FALSE OBVIOUS
    <3>2. CkptCopying(c) /\ nBackfill < mxSafe[c] BY <3>1, CopyView
    <3>3. m = 0 BY <1>0, <1>2, <1>8, <2>1, <3>2 DEF ReadOK
    <3> QED BY <1>3, <1>8, <3>2, <3>3
  <2> QED BY <1>4, <2>2, <2>3
<1>10. ASSUME readLock[d] # 0
       PROVE  /\ m <= hdr0'.mxFrame /\ Shows(hdr[d])'
              /\ m = hdr0'.mxFrame => v = hdr0'.ver /\ hdr[d].nPage = hdr0'.nPage
              /\ hdr[d].nPage = 0 => m = 0
  <2>1. /\ m <= hdr0.mxFrame /\ Shows(hdr[d])
        /\ m = hdr0.mxFrame => v = hdr0.ver /\ hdr[d].nPage = hdr0.nPage
        /\ hdr[d].nPage = 0 => m = 0
        /\ Sized(hdr[d])
    BY <1>0, <1>2, <1>10 DEF ReadOK
  <2>2. READ(readLock[d]) \in MarkLocks /\ READ(readLock[d]) \in ReadLocks
    BY <1>10, <1>a DEF MarkLocks, ReadLocks
  <2>3. /\ m <= hdr0'.mxFrame
        /\ m = hdr0'.mxFrame => v = hdr0'.ver /\ hdr[d].nPage = hdr0'.nPage
    <3>1. CASE hdr0' = hdr0 BY <2>1, <3>1
    <3>2. CASE hdr0' # hdr0
      <4>1. pc[c] \notin RecPlaces \cup RestartPlaces BY <1>0, <1>7, <2>2 DEF HoldOK
      <4>2. hdr0' = hdr[c] /\ hdr0.mxFrame < hdr[c].mxFrame /\ hdr[c].mxFrame \in Nat
        BY <1>0, <3>2, <4>1, PublishView, Nums
      <4> QED BY <1>3, <2>1, <4>2
    <3> QED BY <3>1, <3>2
  <2>4. ASSUME NEW p \in Page, image[v][p] # NoData PROVE image[v][p] = Content(p, m)'
    <3>1. LogFrame(wal', p, m) = LogFrame(wal, p, m)
          /\ (LogFrame(wal, p, m) # 0 => wal'[LogFrame(wal, p, m)] = wal[LogFrame(wal, p, m)])
      BY <1>3, <2>1, LogFixed
    <3>2. LogFrame(wal, p, m) = 0 => db'[p] = db[p]
      <4>1. SUFFICES ASSUME LogFrame(wal, p, m) = 0, db'[p] # db[p] PROVE FALSE OBVIOUS
      <4>2. CkptCopying(c) /\ nBackfill < mxSafe[c] /\ mxSafe[c] <= m BY <1>8, <4>1, CopyView
      <4>3. CASE \E f \in FrameNo : wal[f].pg = p /\ f <= mxSafe[c]
        <5>1. PICK f \in FrameNo : wal[f].pg = p /\ f <= mxSafe[c] BY <4>3
        <5>2. f <= m BY <1>3, <4>2, <5>1, Units
        <5> QED BY <4>1, <5>1, <5>2, LogFrameIs
      <4>4. CASE mxSafe[c] = hdr0.mxFrame /\ hdr0.nPage < p
        <5>1. m = hdr0.mxFrame /\ m # 0 BY <1>3, <2>1, <4>2, <4>4
        <5>2. hdr[d].nPage # 0 /\ hdr[d].nPage < p BY <2>1, <4>4, <5>1
        <5>3. ~(p <= hdr[d].nPage) BY <1>3, <5>2, Units
        <5> QED BY <2>1, <2>4, <5>2, <5>3 DEF Sized
      <4> QED BY <4>1, <4>3, <4>4, CopyView
    <3>3. image[v][p] = Content(p, m) BY <2>1, <2>4 DEF Shows
    <3> QED BY <1>5, <3>1, <3>2, <3>3 DEF Content
  <2>5. Shows(hdr[d])' BY <1>4, <1>5, <2>4 DEF Shows
  <2> QED BY <2>1, <2>3, <2>5
<1> QED BY <1>5, <1>6, <1>9, <1>10 DEF ReadOK

-----------------------------------------------------------------------------
(* Headers about to be published. *)

(* The header of a commit, or of a recovery, is that of a commit frame behind
   mxFrame, or says what the shared one says. *)
LEMMA NewHdr ==
  ASSUME Sound, SnapshotInv, NEW c \in Conn, pc[c] \in PublishPlaces \cup RecHdrPlaces
  PROVE  /\ hdr0.mxFrame <= hdr[c].mxFrame
         /\ hdr[c].mxFrame = hdr0.mxFrame =>
              /\ hdr[c].ver = hdr0.ver /\ pc[c] \in RecHdrPlaces
              /\ hdr[c].nPage = hdr0.nPage \/ (hdr[c].nPage = 0 /\ hdr[c].mxFrame = 0)
         /\ hdr0.mxFrame < hdr[c].mxFrame =>
              /\ hdr[c].mxFrame \in FrameNo /\ CommitOK(hdr[c].mxFrame)
              /\ wal[hdr[c].mxFrame].txn = hdr[c].ver
              /\ wal[hdr[c].mxFrame].size = hdr[c].nPage /\ hdr[c].nPage # 0
<1>0. /\ TypeOK /\ BaseOK(c) /\ SaltOK(c) /\ ChainOK(c) /\ FrameOK(c) /\ RecOK(c) /\ TailInv /\ ImageInv
  BY SoundFacts, DataFacts
<1> DEFINE n == hdr[c].mxFrame
<1>1. /\ hdr0.mxFrame \in Nat /\ n \in Nat /\ hdr[c].salt \in Nat /\ walHdr.salt \in Nat
  BY <1>0, Nums
<1>2. hdr0.mxFrame <= n
  <2>1. CASE pc[c] \in PublishPlaces BY <1>0, <1>1, <2>1 DEF BaseOK
  <2>2. CASE pc[c] \in RecHdrPlaces BY <1>0, <2>2 DEF SaltOK
  <2> QED BY <2>1, <2>2
<1>3. ASSUME n > 0
      PROVE  /\ n \in FrameNo /\ Chain(wal, hdr[c].salt, n) /\ wal[n].size # 0
             /\ hdr0.salt <= hdr[c].salt
             /\ wal[n].txn = hdr[c].ver /\ wal[n].size = hdr[c].nPage
  <2>1. n <= MaxFrame /\ Chain(wal, hdr[c].salt, n) /\ wal[n].size # 0
    BY <1>0, <1>3 DEF ChainOK, HasLog, LogOf, Top
  <2>2. n \in FrameNo BY <1>1, <1>3, <2>1, BoundFacts DEF FrameNo
  <2>3. hdr0.salt <= hdr[c].salt BY <1>0 DEF SaltOK
  <2>4. wal[n].txn = hdr[c].ver /\ wal[n].size = hdr[c].nPage
    BY <1>0, <1>3 DEF FrameOK, RecOK
  <2> QED BY <2>1, <2>2, <2>3, <2>4
<1>4. ASSUME n = hdr0.mxFrame
      PROVE  /\ hdr[c].ver = hdr0.ver /\ pc[c] \in RecHdrPlaces
             /\ hdr[c].nPage = hdr0.nPage \/ (hdr[c].nPage = 0 /\ n = 0)
  <2>1. pc[c] \in RecHdrPlaces BY <1>0, <1>1, <1>4 DEF BaseOK
  <2>2. CASE n = 0 BY <1>0, <2>1, <2>2 DEF RecOK
  <2>3. CASE n > 0 BY <1>0, <1>3, <1>4, <2>1, <2>3 DEF ImageInv
  <2> QED BY <1>1, <2>1, <2>2, <2>3
<1>5. ASSUME hdr0.mxFrame < n
      PROVE  /\ n \in FrameNo /\ CommitOK(n) /\ wal[n].txn = hdr[c].ver
             /\ wal[n].size = hdr[c].nPage /\ hdr[c].nPage # 0
  <2>1. n > 0 BY <1>1, <1>5
  <2>2. CommitOK(n) BY <1>0, <1>1, <1>3, <1>5, <2>1 DEF TailInv
  <2> QED BY <1>3, <2>1, <2>2
<1> QED BY <1>2, <1>4, <1>5

(* The database a commit frame behind mxFrame gives. *)
LEMMA CommitShows ==
  ASSUME TypeOK, ImageInv, DataInv, NEW n \in FrameNo, hdr0.mxFrame < n, CommitOK(n), wal[n].size # 0
  PROVE  /\ hdr0.ver < wal[n].txn /\ wal[n].txn \in Txn /\ image[wal[n].txn][1] # NoData
         /\ \A p \in Page : /\ image[wal[n].txn][p] # NoData <=> p <= wal[n].size
                            /\ image[wal[n].txn][p] # NoData => image[wal[n].txn][p] = Content(p, n)
<1> DEFINE v == wal[n].txn
<1>1. hdr0.ver < v /\ v \in Txn /\ wal[n].size \in Nat BY FrameShapes DEF CommitOK
<1>2. hdr0 \in Hdr /\ hdr0.mxFrame \in Nat /\ n \in Nat BY Shapes, Units DEF Hdr
<1>3. ASSUME NEW p \in Page
      PROVE  /\ image[v][p] # NoData <=> p <= wal[n].size
             /\ image[v][p] # NoData => image[v][p] = Content(p, n)
  <2>1. CASE ~(p <= wal[n].size)
    <3>1. wal[n].size < p BY <1>1, <2>1, Units
    <3> QED BY <2>1, <3>1 DEF CommitOK
  <2>2. CASE p <= wal[n].size /\ LogFrame(wal, p, n) > hdr0.mxFrame
    <3>1. LogFrame(wal, p, n) # 0 BY <1>2, <2>2
    <3>2. LogFrame(wal, p, n) \in FrameNo BY <3>1, LogFrameIs
    <3>3. wal[LogFrame(wal, p, n)].txn # NoData BY <3>2, FrameShapes, Units
    <3>4. image[v][p] = wal[LogFrame(wal, p, n)].txn BY <2>2 DEF CommitOK
    <3> QED BY <2>2, <3>1, <3>3, <3>4 DEF Content
  <2>3. CASE p <= wal[n].size /\ LogFrame(wal, p, n) <= hdr0.mxFrame
    <3>1. image[v][p] = image[hdr0.ver][p] /\ image[hdr0.ver][p] # NoData BY <2>3 DEF CommitOK
    <3>2. image[hdr0.ver][p] = Content(p, hdr0.mxFrame) BY <3>1 DEF DataInv, Shows
    <3>3. LogFrame(wal, p, hdr0.mxFrame) = LogFrame(wal, p, n) BY <1>2, <2>3, LogFrameCut
    <3> QED BY <2>3, <3>1, <3>2, <3>3 DEF Content
  <2>4. LogFrame(wal, p, n) \in Nat BY LogFrameIs, Units
  <2> QED BY <1>2, <2>1, <2>2, <2>3, <2>4
<1>4. image[v][1] # NoData BY <1>1, <1>3, Units
<1> QED BY <1>1, <1>3, <1>4

-----------------------------------------------------------------------------
(* Checkpoints. *)

(* The copy of a checkpointer's steps: what it still has to copy shrinks by what
   it copies. *)
LEMMA CkptSteps ==
  ASSUME Sound, SnapshotInv, NEW c \in Conn, Step(c), pc'[c] \in CkGoing
  PROVE  /\ UNCHANGED <<hdr0, hdr, wal, image, nBackfill>>
         /\ \/ /\ CkptStart(c) /\ pc[c] = "ckStart" /\ pc'[c] = "ckMark" /\ nBackfill < hdr[c].mxFrame
               /\ iter'[c] = {<<p, LastFrame(p, hdr[c].mxFrame)>> :
                                 p \in {q \in Page : LastFrame(q, hdr[c].mxFrame) # 0}}
            \/ /\ pc[c] \in Marking /\ pc'[c] \in Marking \cup {"ckLock0"} /\ iter'[c] = iter[c]
            \/ /\ pc[c] = "ckLock0" /\ pc'[c] \in {"ckSync", "ckCopy"} /\ iter'[c] = Wanted(c)
               /\ db' = db /\ mxSafe'[c] = mxSafe[c]
            \/ /\ CkptCopying(c) /\ CkptCopying(c)' /\ iter'[c] = iter[c] /\ mxSafe'[c] = mxSafe[c]
               /\ \/ pc'[c] = "ckCopy" /\ db' = db
                  \/ pc'[c] = "ckTruncate" /\ db' = db /\ iter[c] = {}
                  \/ CkptTruncate(c) /\ pc[c] = "ckTruncate" /\ pc'[c] = "ckBackfill"
            \/ /\ CkptCopying(c) /\ pc'[c] = "ckCopy" /\ mxSafe'[c] = mxSafe[c] /\ CkptCopying(c)'
               /\ \E e \in iter[c] : iter'[c] = iter[c] \ {e} /\ db'[e[1]] = wal[e[2]].txn
<1>0. TypeOK /\ Known(c) BY SoundFacts
<1>1. CASE CkptStart(c)
  <2> DEFINE S == {<<p, LastFrame(p, hdr[c].mxFrame)>> :
                      p \in {q \in Page : LastFrame(q, hdr[c].mxFrame) # 0}}
  <2>1. /\ UNCHANGED <<hdr0, hdr, wal, image, nBackfill>> /\ pc[c] = "ckStart"
        /\ \/ nBackfill >= hdr[c].mxFrame /\ Goto(c, "ckEnd")
           \/ ~(nBackfill >= hdr[c].mxFrame) /\ Goto(c, "ckMark") /\ iter' = [iter EXCEPT ![c] = S]
    BY <1>1 DEF CkptStart
  <2> HIDE DEF S
  <2>2. nBackfill < hdr[c].mxFrame /\ pc'[c] = "ckMark" /\ iter'[c] = S
    BY <1>0, <2>1, Shapes, FrameShapes, Nums DEF Goto
  <2> QED BY <1>1, <2>1, <2>2 DEF S
<1>2. CASE CkptMark(c) \/ CkptMarkLock(c) \/ CkptMarkSet(c)
  BY <1>0, <1>2, Shapes, FrameShapes DEF CkptMark, CkptMarkLock, CkptMarkSet, NextMark, Goto
<1>3. CASE CkptLock0(c)
  BY <1>0, <1>3, Shapes, FrameShapes DEF CkptLock0, Goto
<1>4. CASE CkptSync(c)
  BY <1>0, <1>4, Shapes, FrameShapes DEF CkptSync, Goto, CkptCopying
<1>5. CASE CkptCopy(c)
  <2>1. /\ UNCHANGED <<hdr0, hdr, wal, image, nBackfill, mxSafe>> /\ pc[c] = "ckCopy"
        /\ \/ iter[c] = {} /\ Goto(c, "ckTruncate") /\ UNCHANGED <<db, iter>>
           \/ /\ UNCHANGED pc
              /\ \E e \in iter[c] : /\ db' = [db EXCEPT ![e[1]] = wal[e[2]].txn]
                                    /\ iter' = [iter EXCEPT ![c] = @ \ {e}]
    BY <1>5 DEF CkptCopy
  <2>2. CASE iter[c] = {} /\ Goto(c, "ckTruncate") /\ UNCHANGED <<db, iter>>
    BY <1>0, <2>1, <2>2, Shapes DEF Goto, CkptCopying
  <2>3. CASE \E e \in iter[c] : /\ db' = [db EXCEPT ![e[1]] = wal[e[2]].txn] /\ UNCHANGED pc
                                /\ iter' = [iter EXCEPT ![c] = @ \ {e}]
    <3>1. PICK e \in iter[c] : /\ db' = [db EXCEPT ![e[1]] = wal[e[2]].txn] /\ UNCHANGED pc
                               /\ iter' = [iter EXCEPT ![c] = @ \ {e}]
      BY <2>3
    <3>2. e[1] \in Page BY <1>0, FrameShapes
    <3>3. iter'[c] = iter[c] \ {e} /\ db'[e[1]] = wal[e[2]].txn BY <1>0, <3>1, <3>2, FrameShapes
    <3> QED BY <2>1, <3>1, <3>3 DEF CkptCopying
  <2> QED BY <2>1, <2>2, <2>3
<1>6. CASE CkptTruncate(c)
  BY <1>0, <1>6, Shapes, FrameShapes DEF CkptTruncate, Goto, CkptCopying
<1> QED BY <1>0, <1>1, <1>2, <1>3, <1>4, <1>5, <1>6, Moves

(* A header that is the shared one. *)
LEMMA SameLogHere ==
  ASSUME TypeOK
  PROVE  SameLog(hdr0)
<1>1. hdr0 \in Hdr BY Shapes
<1>2. hdr0.mxFrame \in Nat /\ hdr0.nPage \in Nat BY <1>1 DEF Hdr
<1>3. \A p \in Page : ~(hdr0.nPage < p /\ p <= hdr0.nPage) BY <1>2, Units
<1> QED BY <1>2, <1>3 DEF SameLog

(* When all is copied and the file has its size, it is the database. *)
LEMMA TruncateWhole ==
  ASSUME Sound, SnapshotInv, NEW c \in Conn, CkptTruncate(c), mxSafe[c] = hdr0.mxFrame
  PROVE  Whole(hdr0.ver)'
<1>0. TypeOK /\ TargetOK(c) /\ CopyOK(c) /\ ImageInv /\ DataInv BY SoundFacts, DataFacts
<1>1. /\ pc[c] = "ckTruncate" /\ UNCHANGED <<hdr0, image, wal>>
      /\ db' = [p \in Page |-> IF p <= hdr[c].nPage THEN db[p] ELSE NoData]
  BY DEF CkptTruncate, Shrunk
<1>2. /\ hdr[c].mxFrame <= hdr0.mxFrame /\ mxSafe[c] <= hdr[c].mxFrame /\ nBackfill < mxSafe[c]
      /\ SameLog(hdr[c]) /\ iter[c] = {} /\ CkptCopying(c)
  BY <1>0, <1>1 DEF TargetOK, CopyOK, CkptCopying
<1>3. /\ hdr0.mxFrame \in Nat /\ hdr[c].mxFrame \in Nat /\ nBackfill \in Nat /\ mxSafe[c] \in Nat
      /\ hdr0.nPage \in Nat
  BY <1>0, Nums
<1>4. hdr[c].mxFrame = hdr0.mxFrame /\ hdr0.mxFrame > 0 BY <1>2, <1>3
<1>5. hdr[c].nPage = hdr0.nPage BY <1>2, <1>4 DEF SameLog
<1>6. hdr0.nPage # 0 BY <1>0, <1>3, <1>4 DEF ImageInv
<1>7. ASSUME NEW p \in Page PROVE db'[p] = image[hdr0.ver][p]
  <2>1. image[hdr0.ver][p] # NoData <=> p <= hdr0.nPage BY <1>0, <1>6 DEF ImageInv, Sized
  <2>2. CASE ~(p <= hdr0.nPage) BY <1>1, <1>5, <2>1, <2>2
  <2>3. CASE p <= hdr0.nPage
    <3> DEFINE f == LogFrame(wal, p, hdr0.mxFrame)
    <3>1. db'[p] = db[p] BY <1>1, <1>5, <2>3
    <3>2. image[hdr0.ver][p] = Content(p, hdr0.mxFrame) BY <1>0, <2>1, <2>3 DEF DataInv, Shows
    <3>3. f \in Nat /\ f <= hdr0.mxFrame BY <1>3, LogFrameIs, Units
    <3>4. 0 < f /\ f <= nBackfill => db[p] = wal[f].txn BY <1>0, <2>3 DEF DataInv
    <3>5. nBackfill < f => db[p] = wal[f].txn
      BY <1>0, <1>2, <1>4, <1>5, <2>3, <3>3 DEF CopyOK
    <3> HIDE DEF f
    <3>6. f # 0 => db[p] = wal[f].txn BY <1>3, <3>3, <3>4, <3>5
    <3> QED BY <3>1, <3>2, <3>6 DEF Content, f
  <2> QED BY <2>2, <2>3
<1> QED BY <1>1, <1>7 DEF Whole

(* What a checkpointer has copied, and has still to copy. *)
LEMMA CopyOwn ==
  ASSUME Sound, SnapshotInv, Sound', NEW c \in Conn, Step(c)
  PROVE  CopyOK(c)'
<1>0. TypeOK /\ Known(c) /\ InitOK(c) /\ TargetOK(c) /\ CopyOK(c) /\ IndexInv BY SoundFacts, DataFacts
<1>a. /\ hdr0.mxFrame \in Nat /\ hdr[c].mxFrame \in Nat /\ nBackfill \in Nat /\ mxSafe[c] \in Nat
      /\ hdr0.nPage \in Nat /\ hdr[c].nPage \in Nat
  BY <1>0, Nums
<1>1. ASSUME pc'[c] = "ckStart" PROVE SameLog(hdr[c])'
  <2>1. hdr'[c] = hdr0 /\ UNCHANGED <<hdr0, wal>>
    <3>1. CASE ReadHdr(c) \/ RereadHdr(c) BY <1>0, <1>1, <3>1, LoadView
    <3>2. CASE RecoverDone(c) BY <1>0, <3>2 DEF RecoverDone, InitOK
    <3> QED BY <1>0, <1>1, <3>1, <3>2, Moves
  <2>2. SameLog(hdr0) BY <1>0, SameLogHere
  <2> QED BY <2>1, <2>2 DEF SameLog
<1>2. ASSUME pc'[c] \in CkGoing
      PROVE  /\ SameLog(hdr[c])' /\ UNCHANGED <<hdr0, hdr, wal, image, nBackfill>>
             /\ hdr[c].mxFrame <= hdr0.mxFrame
  <2>1. UNCHANGED <<hdr0, hdr, wal, image, nBackfill>> BY <1>2, CkptSteps
  <2>2. CASE pc[c] \in CkGoing BY <1>0, <2>1, <2>2 DEF CopyOK, SameLog
  <2>3. CASE pc[c] = "ckStart" /\ nBackfill < hdr[c].mxFrame BY <1>0, <2>1, <2>3 DEF CopyOK, SameLog
  <2> QED BY <1>2, <2>1, <2>2, <2>3, CkptSteps DEF CkptCopying
<1>3. ASSUME pc'[c] \in Marking \cup {"ckLock0"}
      PROVE  iter'[c] = {<<p, LogFrame(wal, p, hdr[c].mxFrame)>> :
                            p \in {q \in Page : LogFrame(wal, q, hdr[c].mxFrame) # 0}}
  <2>1. CASE iter'[c] = iter[c] /\ pc[c] \in Marking BY <1>0, <2>1 DEF CopyOK
  <2>2. CASE iter'[c] = {<<p, LastFrame(p, hdr[c].mxFrame)>> :
                            p \in {q \in Page : LastFrame(q, hdr[c].mxFrame) # 0}}
    <3>1. \A i \in FrameNo : i <= hdr[c].mxFrame => i <= hdr0.mxFrame BY <1>2, <1>3, <1>a, Units
    <3>2. Indexed(hdr[c].mxFrame) BY <1>0, <3>1 DEF IndexInv, Indexed
    <3>3. \A p \in Page : LastFrame(p, hdr[c].mxFrame) = LogFrame(wal, p, hdr[c].mxFrame)
      BY <3>2, LogFrameIndex
    <3> QED BY <2>2, <3>3
  <2>3. pc'[c] \in CkGoing BY <1>3
  <2>4. \/ iter'[c] = iter[c] /\ pc[c] \in Marking
        \/ iter'[c] = {<<p, LastFrame(p, hdr[c].mxFrame)>> :
                            p \in {q \in Page : LastFrame(q, hdr[c].mxFrame) # 0}}
    BY <1>3, <2>3, CkptSteps DEF CkptCopying
  <2> QED BY <2>1, <2>2, <2>4
<1>4. ASSUME CkptCopying(c)'
      PROVE  /\ \A e \in iter'[c] : nBackfill < e[2] /\ e[2] <= mxSafe'[c]
                                    /\ e[2] = LogFrame(wal, e[1], hdr[c].mxFrame)
             /\ \A p \in Page :
                   LET f == LogFrame(wal, p, hdr[c].mxFrame)
                   IN  nBackfill < f /\ f <= mxSafe'[c] /\ p <= hdr[c].nPage =>
                           <<p, f>> \in iter'[c] \/ db'[p] = wal[f].txn
  <2>1. pc'[c] \in CkGoing BY <1>4 DEF CkptCopying
  <2>2. CASE pc[c] = "ckLock0" /\ iter'[c] = Wanted(c) /\ mxSafe'[c] = mxSafe[c]
    <3>1. iter[c] = {<<p, LogFrame(wal, p, hdr[c].mxFrame)>> :
                            p \in {q \in Page : LogFrame(wal, q, hdr[c].mxFrame) # 0}}
      BY <1>0, <2>2 DEF CopyOK
    <3>2. \A e \in iter'[c] : e \in iter[c] /\ nBackfill < e[2] /\ e[2] <= mxSafe[c]
      BY <2>2 DEF Wanted
    <3>3. ASSUME NEW p \in Page, NEW f, f = LogFrame(wal, p, hdr[c].mxFrame),
                 nBackfill < f, f <= mxSafe[c], p <= hdr[c].nPage
          PROVE  <<p, f>> \in iter'[c]
      <4>1. f # 0 BY <1>a, <3>3, LogFrameIs, Units
      <4>2. <<p, f>> \in iter[c] BY <3>1, <3>3, <4>1
      <4> QED BY <2>2, <3>3, <4>2 DEF Wanted
    <3>4. \A e \in iter[c] : e[2] = LogFrame(wal, e[1], hdr[c].mxFrame) BY <3>1
    <3> QED BY <2>2, <3>2, <3>3, <3>4
  <2>3. CASE /\ CkptCopying(c) /\ mxSafe'[c] = mxSafe[c]
             /\ \/ iter'[c] = iter[c]
                \/ \E e \in iter[c] : iter'[c] = iter[c] \ {e} /\ db'[e[1]] = wal[e[2]].txn
    <3>1. /\ \A e \in iter[c] : nBackfill < e[2] /\ e[2] <= mxSafe[c]
                                /\ e[2] = LogFrame(wal, e[1], hdr[c].mxFrame)
          /\ \A p \in Page :
                   LET f == LogFrame(wal, p, hdr[c].mxFrame)
                   IN  nBackfill < f /\ f <= mxSafe[c] /\ p <= hdr[c].nPage =>
                           <<p, f>> \in iter[c] \/ db[p] = wal[f].txn
      BY <1>0, <2>3 DEF CopyOK
    <3>2. \A e \in iter'[c] : e \in iter[c] BY <2>3
    <3>3. ASSUME NEW p \in Page, NEW f, f = LogFrame(wal, p, hdr[c].mxFrame),
                 nBackfill < f, f <= mxSafe[c], p <= hdr[c].nPage
          PROVE  <<p, f>> \in iter'[c] \/ db'[p] = wal[f].txn
      <4>1. <<p, f>> \in iter[c] \/ db[p] = wal[f].txn BY <3>1, <3>3
      <4>2. CASE <<p, f>> \in iter[c] BY <2>3, <4>2
      <4>3. CASE db[p] = wal[f].txn
        <5>1. SUFFICES ASSUME db'[p] # db[p] PROVE db'[p] = wal[f].txn BY <4>3
        <5>2. ~(hdr[c].nPage < p) BY <1>a, <3>3, Units
        <5> QED BY <3>3, <5>1, <5>2, CopyView
      <4> QED BY <4>1, <4>2, <4>3
    <3> QED BY <2>3, <3>1, <3>2, <3>3
  <2>4. \/ pc[c] = "ckLock0" /\ iter'[c] = Wanted(c) /\ mxSafe'[c] = mxSafe[c]
        \/ /\ CkptCopying(c) /\ mxSafe'[c] = mxSafe[c]
           /\ \/ iter'[c] = iter[c]
              \/ \E e \in iter[c] : iter'[c] = iter[c] \ {e} /\ db'[e[1]] = wal[e[2]].txn
    <3>1. pc'[c] \notin Marking \cup {"ckLock0"} BY <1>4 DEF CkptCopying
    <3> QED BY <2>1, <3>1, CkptSteps
  <2> QED BY <2>2, <2>3, <2>4
<1>5. ASSUME pc'[c] \in {"ckTruncate", "ckBackfill"} PROVE iter'[c] = {}
  <2>1. pc'[c] \in CkGoing BY <1>5
  <2>2. CASE iter'[c] = iter[c] /\ iter[c] = {} BY <2>2
  <2>3. CASE iter'[c] = iter[c] /\ pc[c] = "ckTruncate" BY <1>0, <2>3 DEF CopyOK
  <2> QED BY <1>5, <2>1, <2>2, <2>3, CkptSteps
<1>6. ASSUME pc'[c] = "ckBackfill", mxSafe'[c] = hdr0'.mxFrame PROVE Whole(hdr0.ver)'
  <2>1. pc'[c] \in CkGoing BY <1>6
  <2>2. CkptTruncate(c) /\ mxSafe'[c] = mxSafe[c] /\ hdr0' = hdr0 BY <1>6, <2>1, CkptSteps
  <2> QED BY <1>6, <2>2, TruncateWhole
<1>7. CkptCopying(c)' => pc'[c] \in CkGoing BY DEF CkptCopying
<1>8. pc'[c] \in Marking \cup {"ckLock0"} => pc'[c] \in CkGoing OBVIOUS
<1> QED BY <1>1, <1>2, <1>3, <1>4, <1>5, <1>6, <1>7, <1>8 DEF CopyOK

(* While a checkpointer is at work nobody else copies, recovers or, unless the
   log is empty, restarts: what it found in the log stays true. *)
LEMMA CkptAlone ==
  ASSUME NoRaces, Sound, SnapshotInv, NEW c \in Conn, NEW d \in Conn \ {c}, Step(c),
         pc[d] \in {"ckStart"} \cup CkGoing, nBackfill < hdr[d].mxFrame
  PROVE  /\ UNCHANGED <<db, nBackfill>> /\ hdr[d].mxFrame <= hdr0.mxFrame /\ hdr0.mxFrame > 0
         /\ hdr0' # hdr0 => pc[c] = "publish0"
<1>0. /\ TypeOK /\ LockInv /\ LockExclusion /\ Known(c) /\ Known(d) /\ OpOK(d) /\ HoldOK(c) /\ HoldOK(d)
      /\ OpOK(c) /\ BypassOK(c) /\ TargetOK(d)
  BY SoundFacts
<1>1. /\ hdr0.mxFrame \in Nat /\ hdr[d].mxFrame \in Nat /\ nBackfill \in Nat
      /\ op[c] \in {"none", "read", "frames", "ckpt"} /\ op[d] \in {"none", "read", "frames", "ckpt"}
  BY <1>0, Nums, Shapes
<1>2. CKPT \in exclMask[d] BY <1>0, <1>1 DEF OpOK, HoldOK
<1>3. CKPT \notin exclMask[c] BY <1>0, <1>2 DEF LockExclusion
<1>4. pc[c] \notin CkptPlaces /\ pc[c] \notin RecPlaces BY <1>0, <1>1, <1>3 DEF OpOK, HoldOK
<1>5. db' = db BY <1>4, DataSteps DEF CkptCopy, CkptTruncate
<1>6. hdr[d].mxFrame <= hdr0.mxFrame /\ hdr0.mxFrame > 0 BY <1>0, <1>1 DEF TargetOK
<1>7. nBackfill' = nBackfill
  <2>1. SUFFICES ASSUME nBackfill' # nBackfill PROVE FALSE OBVIOUS
  <2>2. RestartBackfill(c) BY <1>4, <2>1, FillSteps DEF CkptBackfill, RecoverInfo
  <2>3. hdr0.mxFrame = 0 BY <1>0, <2>2 DEF RestartBackfill, BypassOK
  <2> QED BY <1>1, <1>6, <2>3
<1>8. hdr0' # hdr0 => pc[c] = "publish0"
  <2>1. SUFFICES ASSUME hdr0' # hdr0, pc[c] # "publish0" PROVE FALSE OBVIOUS
  <2>2. pc[c] = "restartHdr0" BY <1>4, <2>1, PublishView
  <2>3. nBackfill = hdr0.mxFrame BY <1>0, <2>2 DEF BypassOK
  <2> QED BY <1>1, <1>6, <2>3
<1> QED BY <1>5, <1>6, <1>7, <1>8

(* A commit leaves the header of a checkpointer a header of the same log. *)
LEMMA SameLogKept ==
  ASSUME NoRaces, Sound, SnapshotInv, NEW c \in Conn, NEW d \in Conn \ {c}, Step(c),
         pc[d] \in {"ckStart"} \cup CkGoing, nBackfill < hdr[d].mxFrame, SameLog(hdr[d])
  PROVE  SameLog(hdr[d])'
<1>0. TypeOK /\ LockInv /\ ImageInv /\ DataInv BY SoundFacts, DataFacts
<1>1. Untouched(d) BY <1>0, StepKnown DEF LockInv, Alone
<1> DEFINE h == hdr[d]
<1>2. h' = h BY <1>1 DEF Untouched
<1>3. /\ h.mxFrame <= hdr0.mxFrame /\ hdr0.mxFrame > 0 /\ (hdr0' # hdr0 => pc[c] = "publish0")
  BY CkptAlone
<1>4. /\ hdr0.mxFrame \in Nat /\ h.mxFrame \in Nat /\ hdr0.nPage \in Nat /\ hdr[c].mxFrame \in Nat
      /\ h.nPage \in Nat
  BY <1>0, Nums
<1>5. \A i \in FrameNo : i <= hdr0.mxFrame => wal'[i] = wal[i] BY LogFixed
<1>6. CASE hdr0' = hdr0 BY <1>2, <1>5, <1>6 DEF SameLog
<1>7. CASE hdr0' # hdr0
  <2>1. hdr0' = hdr[c] /\ hdr0.mxFrame < hdr[c].mxFrame /\ UNCHANGED wal /\ pc[c] \in PublishPlaces
    BY <1>3, <1>7, PublishView
  <2>2. /\ hdr[c].mxFrame \in FrameNo /\ CommitOK(hdr[c].mxFrame)
        /\ wal[hdr[c].mxFrame].size = hdr[c].nPage
    BY <2>1, NewHdr
  <2>3. ASSUME NEW p \in Page, h.nPage < p, p <= hdr[c].nPage
        PROVE  \E i \in FrameNo : h.mxFrame < i /\ i <= hdr[c].mxFrame /\ wal[i].pg = p
    <3>1. CASE p <= hdr0.nPage
      <4>1. PICK i \in FrameNo : h.mxFrame < i /\ i <= hdr0.mxFrame /\ wal[i].pg = p
        BY <2>3, <3>1 DEF SameLog
      <4>2. i <= hdr[c].mxFrame BY <1>4, <2>1, <4>1, Units
      <4> QED BY <4>1, <4>2
    <3>2. CASE ~(p <= hdr0.nPage)
      <4> DEFINE f == LogFrame(wal, p, hdr[c].mxFrame)
      <4>1. hdr0.nPage # 0 BY <1>0, <1>3, <1>4 DEF ImageInv
      <4>2. image[hdr0.ver][p] = NoData BY <1>0, <3>2, <4>1 DEF ImageInv, Sized
      <4>3. ~(f <= hdr0.mxFrame) BY <2>2, <2>3, <4>2 DEF CommitOK
      <4>4. f \in Nat BY LogFrameIs, Units
      <4>5. f # 0 /\ f > hdr0.mxFrame BY <1>4, <4>3, <4>4
      <4>6. f \in FrameNo /\ f <= hdr[c].mxFrame /\ wal[f].pg = p BY <4>5, LogFrameIs
      <4> HIDE DEF f
      <4>7. h.mxFrame < f BY <1>3, <1>4, <4>4, <4>5
      <4> QED BY <4>6, <4>7
    <3> QED BY <3>1, <3>2
  <2>4. h.mxFrame <= hdr[c].mxFrame /\ h.mxFrame # hdr[c].mxFrame BY <1>3, <1>4, <2>1
  <2> QED BY <1>2, <2>1, <2>3, <2>4 DEF SameLog
<1> QED BY <1>6, <1>7

(* What a checkpointer has copied stays copied. *)
LEMMA CopyOther ==
  ASSUME NoRaces, Sound, SnapshotInv, NEW c \in Conn, NEW d \in Conn \ {c}, Step(c)
  PROVE  CopyOK(d)'
<1>0. /\ TypeOK /\ LockInv /\ CopyOK(d) /\ TargetOK(d) /\ Known(c) /\ Known(d) /\ OpOK(d) /\ HoldOK(d)
      /\ LockExclusion /\ BypassOK(c)
  BY SoundFacts, DataFacts
<1>1. Untouched(d) BY <1>0, StepKnown DEF LockInv, Alone
<1>2. iter'[d] = iter[d] /\ mxSafe'[d] = mxSafe[d] BY <1>0, Private, PrivateData
<1>a. hdr0.mxFrame \in Nat /\ hdr[d].mxFrame \in Nat /\ nBackfill \in Nat BY <1>0, Nums
<1>3. CASE pc[d] \notin {"ckStart"} \cup CkGoing
  BY <1>1, <1>3 DEF CopyOK, Untouched, CkptCopying
<1>4. CASE pc[d] \in {"ckStart"} \cup CkGoing /\ nBackfill < hdr[d].mxFrame
  <2>1. /\ UNCHANGED <<db, nBackfill>> /\ hdr[d].mxFrame <= hdr0.mxFrame
        /\ hdr0' # hdr0 => pc[c] = "publish0"
    BY <1>4, CkptAlone
  <2>2. SameLog(hdr[d]) BY <1>0, <1>4 DEF CopyOK
  <2>3. SameLog(hdr[d])' BY <1>4, <2>2, SameLogKept
  <2>4. \A p \in Page : /\ LogFrame(wal', p, hdr[d].mxFrame) = LogFrame(wal, p, hdr[d].mxFrame)
                        /\ LogFrame(wal, p, hdr[d].mxFrame) # 0 =>
                             wal'[LogFrame(wal, p, hdr[d].mxFrame)] = wal[LogFrame(wal, p, hdr[d].mxFrame)]
    BY <1>a, <2>1, LogFixed
  <2>5. pc[d] \in Marking \cup {"ckLock0"} =>
          iter[d] = {<<p, LogFrame(wal', p, hdr[d].mxFrame)>> :
                        p \in {q \in Page : LogFrame(wal', q, hdr[d].mxFrame) # 0}}
    BY <1>0, <2>4 DEF CopyOK
  <2>6. ASSUME CkptCopying(d)
        PROVE  /\ \A e \in iter[d] : nBackfill < e[2] /\ e[2] <= mxSafe[d]
                                     /\ e[2] = LogFrame(wal', e[1], hdr[d].mxFrame)
               /\ \A p \in Page :
                   LET f == LogFrame(wal', p, hdr[d].mxFrame)
                   IN  nBackfill < f /\ f <= mxSafe[d] /\ p <= hdr[d].nPage =>
                           <<p, f>> \in iter[d] \/ db[p] = wal'[f].txn
    <3>1. /\ \A e \in iter[d] : nBackfill < e[2] /\ e[2] <= mxSafe[d]
                                     /\ e[2] = LogFrame(wal, e[1], hdr[d].mxFrame)
          /\ \A p \in Page :
                   LET f == LogFrame(wal, p, hdr[d].mxFrame)
                   IN  nBackfill < f /\ f <= mxSafe[d] /\ p <= hdr[d].nPage =>
                           <<p, f>> \in iter[d] \/ db[p] = wal[f].txn
      BY <1>0, <2>6 DEF CopyOK
    <3>2. \A e \in iter[d] : e[1] \in Page BY <1>0, FrameShapes
    <3>3. ASSUME NEW p \in Page, NEW f, f = LogFrame(wal, p, hdr[d].mxFrame),
                 nBackfill < f, f <= mxSafe[d], p <= hdr[d].nPage
          PROVE  <<p, f>> \in iter[d] \/ db[p] = wal'[f].txn
      <4>1. f # 0 BY <1>a, <3>3
      <4> QED BY <2>4, <3>1, <3>3, <4>1
    <3> QED BY <2>4, <3>1, <3>2, <3>3
  <2>7. pc[d] = "ckBackfill" /\ mxSafe[d] = hdr0'.mxFrame => Whole(hdr0.ver)'
    <3>1. SUFFICES ASSUME pc[d] = "ckBackfill", mxSafe[d] = hdr0'.mxFrame PROVE Whole(hdr0.ver)'
      OBVIOUS
    <3>2. mxSafe[d] <= hdr0.mxFrame /\ mxSafe[d] \in Nat
      <4>1. mxSafe[d] <= hdr[d].mxFrame /\ mxSafe[d] \in Nat BY <1>0, <3>1, Nums DEF TargetOK
      <4> QED BY <1>a, <2>1, <4>1
    <3>3. hdr0' = hdr0
      <4>1. SUFFICES ASSUME hdr0' # hdr0 PROVE FALSE OBVIOUS
      <4>2. hdr0' = hdr[c] /\ hdr0.mxFrame < hdr[c].mxFrame /\ hdr[c].mxFrame \in Nat
        BY <1>0, <2>1, <4>1, PublishView, Nums
      <4> QED BY <1>a, <3>1, <3>2, <4>2
    <3>4. Whole(hdr0.ver) BY <1>0, <3>1, <3>3 DEF CopyOK
    <3>5. image'[hdr0.ver] = image[hdr0.ver]
      <4>1. hdr0.ver \in Txn /\ hdr0.ver <= hdr0.ver BY <1>0, Nums, Units
      <4> QED BY <4>1, ImageFixed
    <3> QED BY <2>1, <3>3, <3>4, <3>5 DEF Whole
  <2>8. pc'[d] = pc[d] /\ hdr'[d] = hdr[d] BY <1>1 DEF Untouched
  <2>9. pc[d] \in {"ckTruncate", "ckBackfill"} => iter[d] = {} BY <1>0 DEF CopyOK
  <2> QED BY <1>2, <2>1, <2>3, <2>5, <2>6, <2>7, <2>8, <2>9 DEF CopyOK, CkptCopying
<1>5. CASE pc[d] = "ckStart" /\ ~(nBackfill < hdr[d].mxFrame)
  <2>1. nBackfill' = nBackfill
    <3>1. SUFFICES ASSUME nBackfill' # nBackfill PROVE FALSE OBVIOUS
    <3>2. CKPT \notin exclMask[c]
      <4>1. op[d] = "ckpt" BY <1>0, <1>5, Shapes DEF OpOK
      <4> QED BY <1>0, <4>1 DEF HoldOK, LockExclusion
    <3>3. pc[c] \notin CkptPlaces \cup RecPlaces
      <4>1. OpOK(c) /\ HoldOK(c) BY SoundFacts
      <4> QED BY <1>0, <3>2, <4>1, Shapes DEF OpOK, HoldOK
    <3>4. RestartBackfill(c) BY <3>1, <3>3, FillSteps DEF CkptBackfill, RecoverInfo
    <3> QED BY <1>5, <3>4 DEF RestartBackfill, NoRaces
  <2> QED BY <1>1, <1>5, <2>1 DEF CopyOK, Untouched, CkptCopying
<1>6. pc[d] \in CkGoing => nBackfill < hdr[d].mxFrame BY <1>0 DEF TargetOK
<1> QED BY <1>3, <1>4, <1>5, <1>6

(* What a FULL or RESTART checkpoint promises: it starts from the newest header,
   keeps writers out, and reports a shortfall. *)
LEMMA PromiseOwn ==
  ASSUME Sound, SnapshotInv, Sound', NEW c \in Conn, Step(c)
  PROVE  PromiseOK(c)'
<1>0. TypeOK /\ Known(c) /\ InitOK(c) /\ PromiseOK(c) BY SoundFacts, DataFacts
<1>a. hdr0.mxFrame \in Nat /\ hdr[c].mxFrame \in Nat /\ nBackfill \in Nat BY <1>0, Nums
<1>1. SUFFICES ASSUME op'[c] = "ckpt", mode'[c] \in {"full", "restart"} PROVE PromiseOK(c)' BY DEF PromiseOK
<1>2. ASSUME pc'[c] = "ckStart" PROVE hdr'[c] = hdr0'
  <2>1. CASE ReadHdr(c) \/ RereadHdr(c) BY <1>0, <1>2, <2>1, LoadView
  <2>2. CASE RecoverDone(c) BY <1>0, <2>2 DEF RecoverDone, InitOK
  <2> QED BY <1>0, <1>2, <2>1, <2>2, Moves
<1>3. ASSUME CkptStart(c) \/ CkptMark(c) \/ CkptMarkLock(c) \/ CkptMarkSet(c) \/ CkptLock0(c)
             \/ CkptSync(c) \/ CkptCopy(c) \/ CkptTruncate(c) \/ CkptBackfill(c) \/ CkptTail(c)
             \/ CkptRestart(c)
      PROVE  /\ op[c] = "ckpt" /\ mode[c] \in {"full", "restart"} /\ UNCHANGED <<hdr, hdr0>>
             /\ pc[c] \in {"ckStart", "ckTail", "ckRestart"} \cup CkGoing
  BY <1>1, <1>3 DEF CkptStart, CkptMark, CkptMarkLock, CkptMarkSet, CkptLock0, CkptSync, CkptCopy,
     CkptTruncate, CkptBackfill, CkptTail, CkptRestart
<1>4. ASSUME pc'[c] \in {"ckTail", "ckRestart"} \cup CkGoing PROVE hdr'[c] = hdr0'
  <2>1. CkptStart(c) \/ CkptMark(c) \/ CkptMarkLock(c) \/ CkptMarkSet(c) \/ CkptLock0(c)
             \/ CkptSync(c) \/ CkptCopy(c) \/ CkptTruncate(c) \/ CkptBackfill(c) \/ CkptTail(c)
    BY <1>0, <1>4, Moves
  <2> QED BY <1>0, <1>3, <2>1 DEF PromiseOK
<1>5. ASSUME pc'[c] = "ckRestart" \/ (pc'[c] = "ckEnd" /\ rc'[c] = "ok") PROVE nBackfill' >= hdr0'.mxFrame
  <2>1. CASE CkptTail(c)
    <3>1. hdr[c] = hdr0 /\ hdr0' = hdr0 /\ nBackfill' = nBackfill /\ mode[c] \in {"full", "restart"}
      BY <1>0, <1>3, <2>1 DEF PromiseOK, CkptTail
    <3>2. ~Short(c) BY <1>0, <1>5, <2>1, Shapes, FrameShapes DEF CkptTail, Goto
    <3> QED BY <1>a, <3>1, <3>2 DEF Short
  <2>2. CASE CkptStart(c)
    <3>1. hdr[c] = hdr0 /\ hdr0' = hdr0 /\ nBackfill' = nBackfill
      BY <1>0, <1>3, <2>2 DEF PromiseOK, CkptStart
    <3>2. nBackfill >= hdr[c].mxFrame BY <1>0, <1>5, <2>2, Shapes DEF CkptStart, Goto
    <3> QED BY <1>a, <3>1, <3>2
  <2>3. CASE CkptRestart(c)
    <3>1. op[c] = "ckpt" /\ mode[c] \in {"full", "restart"} /\ UNCHANGED <<hdr0, nBackfill>> /\ pc[c] = "ckRestart"
      BY <1>3, <2>3 DEF CkptRestart
    <3> QED BY <1>0, <3>1 DEF PromiseOK
  <2>4. ASSUME LockHdr(c) \/ RecoverLock(c) \/ RecoverError(c) \/ CkptError(c)
        PROVE  ~(pc'[c] = "ckEnd" /\ rc'[c] = "ok") /\ pc'[c] # "ckRestart"
    BY <1>0, <2>4, Shapes, FrameShapes DEF LockHdr, RecoverLock, RecoverError, CkptError, HdrBusy, Goto,
       OpenFails
  <2> QED BY <1>0, <1>5, <2>1, <2>2, <2>3, <2>4, Moves
<1> QED BY <1>2, <1>4, <1>5 DEF PromiseOK

(* Nobody else moves the log or its backfilled part meanwhile. *)
LEMMA PromiseOther ==
  ASSUME Sound, SnapshotInv, NEW c \in Conn, NEW d \in Conn \ {c}, Step(c)
  PROVE  PromiseOK(d)'
<1>0. /\ TypeOK /\ LockInv /\ LockExclusion /\ Known(c) /\ Known(d) /\ HoldOK(c) /\ HoldOK(d)
      /\ OpOK(c) /\ PromiseOK(d)
  BY SoundFacts, DataFacts
<1>1. Untouched(d) BY <1>0, StepKnown DEF LockInv, Alone
<1>2. rc'[d] = rc[d] BY <1>0, PrivateData
<1>3. ASSUME op[d] = "ckpt", mode[d] \in {"full", "restart"},
             pc[d] \in {"ckStart", "ckTail", "ckRestart", "ckEnd"} \cup CkGoing
      PROVE  UNCHANGED <<hdr0, nBackfill>>
  <2>1. HasWrite(d) BY <1>3 DEF HasWrite
  <2>2. hdr0' = hdr0 BY <1>0, <2>1, WriterAlone
  <2>3. CKPT \notin exclMask[c] BY <1>0, <1>3 DEF HoldOK, LockExclusion
  <2>4. pc[c] \notin CkptPlaces \cup RecPlaces BY <1>0, <2>3, Shapes DEF OpOK, HoldOK
  <2>5. pc[c] # "restartBackfill"
    <3>1. ~HasWrite(c) BY <1>0, <2>1, Excluded
    <3> QED BY <3>1 DEF HasWrite
  <2>6. nBackfill' = nBackfill
    BY <2>4, <2>5, FillSteps DEF CkptBackfill, RestartBackfill, RecoverInfo
  <2> QED BY <2>2, <2>6
<1> QED BY <1>0, <1>1, <1>2, <1>3 DEF PromiseOK, Untouched

(* The header a recovery has found. *)
LEMMA RecOwn ==
  ASSUME Sound, SnapshotInv, Sound', NEW c \in Conn, Step(c)
  PROVE  RecOK(c)'
<1>0. TypeOK /\ Known(c) /\ RecOK(c) BY SoundFacts, DataFacts
<1>1. SUFFICES ASSUME pc'[c] \in RecHdrPlaces PROVE RecOK(c)' BY DEF RecOK
<1>2. CASE RecoverScan(c)
  <2>1. UNCHANGED <<hdr0, wal, walHdr>> BY <1>2, ScanFinds
  <2>2. \A i \in FrameNo : hdr'[c].mxFrame < i /\ hdr'[c].mxFrame > 0 /\ Chain(wal, walHdr.salt, i)
               => wal[i].size = 0
    BY <1>2, ScanFinds
  <2>3. \/ /\ hdr'[c].mxFrame = 0 /\ hdr'[c].ver = hdr0.ver /\ hdr'[c].nPage = 0
        \/ /\ hdr'[c].mxFrame \in FrameNo
           /\ hdr'[c].ver = wal[hdr'[c].mxFrame].txn /\ hdr'[c].nPage = wal[hdr'[c].mxFrame].size
    BY <1>2, ScanFinds
  <2>4. /\ hdr'[c].mxFrame > 0 => /\ hdr'[c].ver = wal[hdr'[c].mxFrame].txn
                                  /\ hdr'[c].nPage = wal[hdr'[c].mxFrame].size
        /\ hdr'[c].mxFrame = 0 => hdr'[c].ver = hdr0.ver /\ hdr'[c].nPage = 0
    BY <2>3, Units
  <2>5. \A i \in FrameNo : Chain(wal, walHdr.salt, i)' <=> Chain(wal, walHdr.salt, i) BY <2>1 DEF Chain
  <2> QED BY <2>1, <2>2, <2>4, <2>5 DEF RecOK
<1>3. CASE RecoverHdr1(c)
  <2>1. UNCHANGED <<hdr0, hdr, wal, walHdr>> /\ pc[c] \in RecHdrPlaces BY <1>3 DEF RecoverHdr1
  <2> QED BY <1>0, <2>1 DEF RecOK, Chain
<1> QED BY <1>0, <1>1, <1>2, <1>3, Moves

(* No writer adds to the log while it is recovered. *)
LEMMA RecOther ==
  ASSUME Sound, SnapshotInv, NEW c \in Conn, NEW d \in Conn \ {c}, Step(c)
  PROVE  RecOK(d)'
<1>0. TypeOK /\ LockInv /\ RecOK(d) BY SoundFacts, DataFacts
<1>1. Untouched(d) BY <1>0, StepKnown DEF LockInv, Alone
<1>2. HasWrite(d) => UNCHANGED <<hdr0, wal, walHdr>> BY <1>0, WriterAlone
<1>3. pc[d] \in RecHdrPlaces => HasWrite(d) BY DEF HasWrite
<1> QED BY <1>0, <1>1, <1>2, <1>3 DEF RecOK, Chain, Untouched

-----------------------------------------------------------------------------
(* The shared parts of the invariant. *)

(* Numbers of transactions and of logs stay behind their counters: a frame gets
   the salt of a log and the number of a transaction already drawn. *)
LEMMA FreshStep ==
  ASSUME Sound, SnapshotInv, Sound', NEW c \in Conn, Step(c)
  PROVE  FreshInv'
<1>0. /\ TypeOK /\ FreshInv /\ VerOK(c) /\ BaseOK(c) /\ SaltOK(c) /\ PendOK(c) /\ FrameOK(c)
      /\ ChainOK(c)
  BY SoundFacts, DataFacts
<1>a. /\ nextTxn <= nextTxn' /\ nextSalt <= nextSalt' /\ nextTxn' \in Nat /\ nextSalt' \in Nat
      /\ nextTxn \in Nat /\ nextSalt \in Nat /\ hdr[c].ver \in Nat /\ txn[c] \in Nat
      /\ hdr0.ver \in Nat /\ hdr[c].salt \in Nat /\ hdr[c].mxFrame \in Nat /\ iFrame[c] \in Nat
      /\ hdr0.ver \in Txn /\ hdr[c].ver \in Txn /\ hdr0.mxFrame \in Nat
  BY <1>0, CountersGrow, Nums, Units
<1>1. latest' = hdr0'.ver /\ hdr0'.ver < nextTxn'
  <2>1. CASE RecoverHdr0(c)
    <3>1. hdr0' = hdr[c] /\ latest' = hdr[c].ver /\ pc[c] = "recHdr0" BY <2>1 DEF RecoverHdr0
    <3>2. hdr[c].ver < nextTxn BY <1>0, <3>1 DEF VerOK
    <3> QED BY <1>a, <3>1, <3>2
  <2>2. CASE Publish0(c)
    <3>1. hdr0' = hdr[c] /\ latest' = txn[c] /\ pc[c] = "publish0" BY <2>2 DEF Publish0
    <3>2. hdr[c].ver < nextTxn /\ hdr[c].ver = txn[c] BY <1>0, <3>1 DEF VerOK, BaseOK
    <3> QED BY <1>a, <3>1, <3>2
  <2>3. CASE ~RecoverHdr0(c) /\ ~Publish0(c)
    <3>1. latest' = latest BY <2>3, DataSteps
    <3>2. hdr0'.ver = hdr0.ver
      <4>1. CASE RestartHdr0(c)
        <5>1. hdr0' = hdr[c] /\ pc[c] = "restartHdr0" BY <4>1 DEF RestartHdr0
        <5> QED BY <1>0, <5>1 DEF BaseOK
      <4>2. CASE ~RestartHdr0(c) BY <2>3, <4>2, HeaderSteps
      <4> QED BY <4>1, <4>2
    <3> QED BY <1>0, <1>a, <3>1, <3>2 DEF FreshInv
  <2> QED BY <2>1, <2>2, <2>3
<1>2. ASSUME NEW i \in FrameNo
      PROVE  wal'[i].salt < nextSalt' /\ wal'[i].txn < nextTxn' /\ wal'[i].prev < nextTxn'
  <2>0. wal[i].salt \in Nat /\ wal[i].txn \in Nat /\ wal[i].prev \in Nat
    BY <1>0, FrameShapes, Units
  <2>1. CASE wal'[i] = wal[i]
    <3>1. wal[i].salt < nextSalt /\ wal[i].txn < nextTxn /\ wal[i].prev < nextTxn
      BY <1>0 DEF FreshInv
    <3> QED BY <1>a, <2>0, <2>1, <3>1
  <2>2. CASE wal'[i] # wal[i]
    <3>1. WriteFrame(c)
      <4>1. wal' # wal BY <2>2
      <4>2. LogHdr(c) => wal' = wal BY DEF LogHdr
      <4> QED BY <4>1, <4>2, LogSteps
    <3>2. /\ pc[c] = "frames" /\ i = iFrame'[c] /\ iFrame'[c] = iFrame[c] + 1
          /\ wal'[i].salt = hdr[c].salt /\ wal'[i].txn = txn[c] /\ wal'[i].prev = hdr[c].cksum
      BY <2>2, <3>1, FrameView
    <3>3. InBase(c) /\ InTxn(c) BY <3>2 DEF InBase, InTxn
    <3>4. hdr[c].salt < nextSalt BY <1>0, <3>3 DEF SaltOK
    <3>5. txn[c] < nextTxn BY <1>0, <3>2, <3>3 DEF FrameOK, PendOK
    <3>6. hdr[c].cksum = 0 \/ \E j \in FrameNo : hdr[c].cksum = wal[j].txn
      <4>1. LogOf(hdr[c].salt, iFrame[c], hdr[c].cksum) BY <1>0, <3>2 DEF ChainOK, HasLog, Top
      <4>2. CASE iFrame[c] = 0 BY <4>1, <4>2 DEF LogOf
      <4>3. CASE iFrame[c] # 0
        <5>1. iFrame[c] \in FrameNo BY <1>a, <4>1, <4>3, BoundFacts DEF LogOf, FrameNo
        <5>2. hdr[c].cksum = wal[iFrame[c]].txn BY <4>1, <4>3 DEF LogOf
        <5> QED BY <5>1, <5>2
      <4> QED BY <4>2, <4>3
    <3>7. hdr[c].cksum < nextTxn BY <1>0, <1>a, <3>6 DEF FreshInv
    <3>8. hdr[c].cksum \in Nat
      <4>1. \A j \in FrameNo : wal[j].txn \in Nat BY <1>0, FrameShapes, Units
      <4> QED BY <3>6, <4>1
    <3> QED BY <1>a, <3>2, <3>4, <3>5, <3>7, <3>8
  <2> QED BY <2>1, <2>2
<1> QED BY <1>1, <1>2 DEF FreshInv

(* The index keeps the pages of the published frames: writers, their rollback and
   recoveries touch the entries behind mxFrame only, or write the same again. *)
LEMMA IndexStep ==
  ASSUME Sound, SnapshotInv, Sound', NEW c \in Conn, Step(c)
  PROVE  IndexInv'
<1>0. /\ TypeOK /\ IndexInv /\ IndexOK(c) /\ BaseOK(c) /\ SaltOK(c) /\ ChainOK(c)
  BY SoundFacts, DataFacts
<1>a. /\ hdr0.mxFrame \in Nat /\ hdr[c].mxFrame \in Nat /\ iFrame[c] \in Nat /\ iIdx[c] \in Nat
      /\ \A i \in FrameNo : i \in Nat /\ i > 0
  BY <1>0, Nums, Units
<1> DEFINE Hole == \A i, j \in FrameNo : i < j /\ aPgno'[j] # 0 => aPgno'[i] # 0
           Keep == \A i \in FrameNo : i <= hdr0.mxFrame => aPgno'[i] = wal[i].pg
<1>1. ASSUME NEW v \in Nat, NEW s, Chain(wal, s, v), hdr0.mxFrame <= v,
             \A i \in FrameNo : aPgno'[i] = IF i <= v THEN wal[i].pg ELSE 0
      PROVE  Hole /\ Keep
  <2>1. ASSUME NEW i \in FrameNo, NEW j \in FrameNo, i < j, aPgno'[j] # 0 PROVE aPgno'[i] # 0
    <3>1. j <= v BY <1>1, <2>1
    <3>2. i <= v BY <1>a, <2>1, <3>1
    <3>3. wal[i].pg # 0 BY <1>1, <3>2 DEF Chain
    <3> QED BY <1>1, <3>2, <3>3
  <2>2. ASSUME NEW i \in FrameNo, i <= hdr0.mxFrame PROVE aPgno'[i] = wal[i].pg
    <3>1. i <= v BY <1>a, <1>1, <2>2
    <3> QED BY <1>1, <3>1
  <2> QED BY <2>1, <2>2
<1>2. aPgno' = aPgno => Hole /\ Keep BY <1>0 DEF IndexInv
<1>3. CASE IndexFrame(c)
  <2>1. /\ UNCHANGED <<hdr0, wal>> /\ pc[c] = "index" /\ iIdx'[c] = iIdx[c] + 1 /\ iIdx'[c] <= iFrame[c]
        /\ \A i \in FrameNo : aPgno'[i] = IF i <= iIdx'[c] THEN wal[i].pg ELSE 0
    BY <1>3, IndexView
  <2>2. Chain(wal, hdr[c].salt, iFrame[c]) BY <1>0, <2>1 DEF ChainOK, HasLog, LogOf, Top
  <2>3. Chain(wal, hdr[c].salt, iIdx'[c]) BY <1>a, <2>1, <2>2 DEF Chain
  <2>4. hdr0.mxFrame <= iIdx'[c] /\ iIdx'[c] \in Nat
    <3>1. hdr0.mxFrame <= hdr[c].mxFrame BY <1>0, <1>a, <2>1 DEF BaseOK, InBase
    <3>2. hdr[c].mxFrame <= iIdx[c] BY <1>0, <2>1 DEF IndexOK
    <3> QED BY <1>a, <2>1, <3>1, <3>2
  <2>5. Hole /\ Keep BY <1>1, <2>1, <2>3, <2>4
  <2> QED BY <2>1, <2>5 DEF IndexInv
<1>4. CASE RecoverScan(c)
  <2>1. /\ Indexed(hdr[c].mxFrame)' /\ hdr0' = hdr0 /\ wal' = wal
        /\ \/ aPgno' = aPgno
           \/ \E v \in Nat : /\ Chain(wal, walHdr.salt, v)
                             /\ \A i \in FrameNo : aPgno'[i] = IF i <= v THEN wal[i].pg ELSE 0
    BY <1>4, SoundFacts, ScanIndex
  <2>2. CASE aPgno' = aPgno BY <1>2, <2>1, <2>2 DEF IndexInv
  <2>3. CASE \E v \in Nat : /\ Chain(wal, walHdr.salt, v)
                            /\ \A i \in FrameNo : aPgno'[i] = IF i <= v THEN wal[i].pg ELSE 0
    <3>1. PICK v \in Nat : /\ Chain(wal, walHdr.salt, v)
                           /\ \A i \in FrameNo : aPgno'[i] = IF i <= v THEN wal[i].pg ELSE 0
      BY <2>3
    <3>2. Hole
      <4>1. ASSUME NEW i \in FrameNo, NEW j \in FrameNo, i < j, aPgno'[j] # 0 PROVE aPgno'[i] # 0
        <5>1. j <= v BY <3>1, <4>1
        <5>2. i <= v BY <1>a, <4>1, <5>1
        <5>3. wal[i].pg # 0 BY <3>1, <5>2 DEF Chain
        <5> QED BY <3>1, <5>2, <5>3
      <4> QED BY <4>1
    <3>3. Keep
      <4>1. hdr0.mxFrame <= hdr'[c].mxFrame /\ hdr'[c].mxFrame \in Nat
        <5>1. pc'[c] \in RecHdrPlaces BY <1>0, <1>4, SoundFacts, RecoverScanView
        <5>2. SaltOK(c)' BY SoundNext
        <5> QED BY <2>1, <5>1, <5>2, NumsNext DEF SaltOK
      <4>2. \A i \in FrameNo : i <= hdr'[c].mxFrame => aPgno'[i] = wal'[i].pg
        BY <2>1 DEF Indexed
      <4> QED BY <1>a, <2>1, <4>1, <4>2
    <3> QED BY <2>1, <3>2, <3>3 DEF IndexInv
  <2> QED BY <2>1, <2>2, <2>3
<1>5. CASE Rollback(c)
  <2>1. UNCHANGED <<hdr0, wal>> /\ aPgno' = Cleaned(aPgno, hdr0.mxFrame)
    BY <1>5 DEF Rollback
  <2>2. \/ aPgno' = aPgno
        \/ \A i \in FrameNo : aPgno'[i] = IF i <= hdr0.mxFrame THEN aPgno[i] ELSE 0
    BY <2>1 DEF Cleaned
  <2>3. CASE aPgno' = aPgno BY <1>2, <2>1, <2>3 DEF IndexInv
  <2>4. CASE \A i \in FrameNo : aPgno'[i] = IF i <= hdr0.mxFrame THEN aPgno[i] ELSE 0
    <3>1. Hole
      <4>1. ASSUME NEW i \in FrameNo, NEW j \in FrameNo, i < j, aPgno'[j] # 0 PROVE aPgno'[i] # 0
        <5>1. j <= hdr0.mxFrame /\ aPgno[j] # 0 BY <2>4, <4>1
        <5>2. i <= hdr0.mxFrame BY <1>a, <4>1, <5>1
        <5>3. aPgno[i] # 0 BY <1>0, <4>1, <5>1 DEF IndexInv
        <5> QED BY <2>4, <5>2, <5>3
      <4> QED BY <4>1
    <3>2. Keep BY <1>0, <2>4 DEF IndexInv
    <3> QED BY <2>1, <3>1, <3>2 DEF IndexInv
  <2> QED BY <2>2, <2>3, <2>4
<1>6. CASE ~IndexFrame(c) /\ ~RecoverScan(c) /\ ~Rollback(c)
  <2>1. aPgno' = aPgno BY <1>6, DataSteps
  <2>2. CASE hdr0' = hdr0
    <3>1. \A i \in FrameNo : i <= hdr0.mxFrame => wal'[i] = wal[i] BY LogFixed
    <3> QED BY <1>0, <1>2, <2>1, <2>2, <3>1 DEF IndexInv
  <2>3. CASE hdr0' # hdr0
    <3>1. /\ hdr0' = hdr[c] /\ wal' = wal
          /\ pc[c] \in {"publish0", "recHdr0"} \/ hdr[c].mxFrame = 0
      BY <2>3, PublishView
    <3>2. CASE pc[c] \in {"publish0", "recHdr0"}
      <4>1. Indexed(hdr[c].mxFrame) BY <1>0, <3>2 DEF IndexOK
      <4> QED BY <1>0, <2>1, <3>1, <4>1 DEF IndexInv, Indexed
    <3>3. CASE hdr[c].mxFrame = 0 BY <1>0, <1>a, <2>1, <3>1, <3>3 DEF IndexInv
    <3> QED BY <3>1, <3>2, <3>3
  <2> QED BY <2>2, <2>3
<1> QED BY <1>3, <1>4, <1>5, <1>6

(* The header published stands for an image that has the pages it says: that of
   the last commit frame, complete when the frame was written. *)
LEMMA ImageStep ==
  ASSUME Sound, SnapshotInv, Sound', NEW c \in Conn, Step(c)
  PROVE  ImageInv'
<1>0. /\ TypeOK /\ ImageInv /\ DataInv /\ FrameOK(c) /\ PendOK(c) /\ VerOK(c) /\ LogInv
  BY SoundFacts, DataFacts
<1>a. hdr0.mxFrame \in Nat /\ hdr[c].mxFrame \in Nat /\ hdr0.ver \in Txn /\ hdr[c].ver \in Txn
  BY <1>0, Nums
<1>1. CASE WriteFrame(c)
  <2>1. /\ hdr0' = hdr0 /\ pc[c] = "frames"
        /\ \A v \in Txn : v # txn[c] => image'[v] = image[v]
        /\ \/ image' = image
           \/ \A q \in Page : image'[txn[c]][q] =
                     IF q > newSize[c] THEN NoData
                     ELSE IF q \in spilled[c] THEN txn[c] ELSE image[hdr0.ver][q]
        /\ image' # image => newSize[c] # 0
    BY <1>1, FrameView
  <2>2. image'[hdr0.ver] = image[hdr0.ver] BY <1>a, ImageFixed, Units
  <2>3. InTxn(c) /\ txn[c] \in Txn BY <1>0, <2>1, Nums DEF InTxn
  <2>4. ASSUME NEW v \in Txn PROVE Shaped(v)'
    <3>1. CASE image'[v] = image[v] BY <1>0, <3>1 DEF ImageInv, Shaped
    <3>2. CASE image'[v] # image[v]
      <4>1. /\ v = txn[c] /\ newSize[c] # 0 /\ newSize[c] \in Nat
            /\ \A q \in Page : image'[v][q] =
                     IF q > newSize[c] THEN NoData
                     ELSE IF q \in spilled[c] THEN txn[c] ELSE image[hdr0.ver][q]
        BY <1>0, <2>1, <3>2, Nums
      <4>2. \A p \in Page : p <= newSize[c] /\ image[hdr0.ver][p] = NoData => p \in spilled[c]
        BY <1>0, <2>1, <2>3, <4>1 DEF FrameOK
      <4>3. \A q \in Page : image'[v][q] # NoData <=> q <= newSize[c]
        BY <2>3, <4>1, <4>2, Units
      <4>4. \A p, q \in Page : q <= p /\ p <= newSize[c] => q <= newSize[c]
        BY <4>1, Units
      <4> QED BY <4>3, <4>4 DEF Shaped
    <3> QED BY <3>1, <3>2
  <2>5. hdr0.mxFrame > 0 => wal'[hdr0.mxFrame] = wal[hdr0.mxFrame]
    <3>1. hdr0.mxFrame > 0 => hdr0.mxFrame \in FrameNo
      BY <1>0, <1>a, BoundFacts DEF LogInv, LogOf, FrameNo
    <3> QED BY <1>a, <3>1, LogFixed
  <2>6. Sized(hdr0)' BY <1>0, <2>1, <2>2 DEF ImageInv, Sized
  <2> QED BY <1>0, <2>1, <2>2, <2>4, <2>5, <2>6 DEF ImageInv
<1>2. CASE ~WriteFrame(c)
  <2>1. image' = image /\ wal' = wal BY <1>2, DataSteps, LogSteps DEF LogHdr
  <2>2. CASE hdr0' = hdr0
    <3>1. Sized(hdr0)' BY <1>0, <2>1, <2>2 DEF ImageInv, Sized
    <3> QED BY <1>0, <2>1, <2>2, <3>1 DEF ImageInv, Shaped
  <2>3. CASE hdr0' # hdr0
    <3>1. /\ hdr0' = hdr[c]
          /\ \/ pc[c] \in PublishPlaces \cup RecHdrPlaces
             \/ hdr[c].mxFrame = 0 /\ hdr[c].ver = hdr0.ver /\ hdr[c].nPage = hdr0.nPage
      BY <2>3, PublishView
    <3>2. \A v \in Txn : Shaped(v)' BY <1>0, <2>1 DEF ImageInv, Shaped
    <3>3. CASE hdr[c].mxFrame = 0 /\ hdr[c].ver = hdr0.ver /\ hdr[c].nPage = hdr0.nPage
      <4>1. Sized(hdr0)' BY <1>0, <2>1, <3>1, <3>3 DEF ImageInv, Sized
      <4> QED BY <1>0, <2>1, <3>1, <3>2, <3>3, <4>1 DEF ImageInv
    <3>4. CASE pc[c] \in PublishPlaces \cup RecHdrPlaces
      <4>1. /\ hdr0.mxFrame <= hdr[c].mxFrame
            /\ hdr[c].mxFrame = hdr0.mxFrame =>
                 /\ hdr[c].ver = hdr0.ver
                 /\ hdr[c].nPage = hdr0.nPage \/ (hdr[c].nPage = 0 /\ hdr[c].mxFrame = 0)
            /\ hdr0.mxFrame < hdr[c].mxFrame =>
                 /\ hdr[c].mxFrame \in FrameNo /\ CommitOK(hdr[c].mxFrame)
                 /\ wal[hdr[c].mxFrame].txn = hdr[c].ver
                 /\ wal[hdr[c].mxFrame].size = hdr[c].nPage /\ hdr[c].nPage # 0
        BY <3>4, NewHdr
      <4>2. CASE hdr[c].mxFrame = hdr0.mxFrame
        <5>1. Sized(hdr0)' BY <1>0, <2>1, <3>1, <4>1, <4>2 DEF ImageInv, Sized
        <5>2. hdr[c].mxFrame > 0 => hdr[c].nPage = hdr0.nPage BY <4>1, <4>2
        <5>3. hdr[c].nPage = 0 => hdr[c].mxFrame = 0 BY <1>0, <4>1, <4>2 DEF ImageInv
        <5> QED BY <1>0, <2>1, <3>1, <3>2, <4>1, <4>2, <5>1, <5>2, <5>3 DEF ImageInv
      <4>3. CASE hdr0.mxFrame < hdr[c].mxFrame
        <5>1. /\ image[hdr[c].ver][1] # NoData
              /\ \A p \in Page : image[hdr[c].ver][p] # NoData <=> p <= hdr[c].nPage
          BY <1>0, <4>1, <4>3, CommitShows
        <5>2. Sized(hdr0)' BY <2>1, <3>1, <5>1 DEF Sized
        <5> QED BY <2>1, <3>1, <3>2, <4>1, <4>3, <5>1, <5>2 DEF ImageInv
      <4> QED BY <1>a, <4>1, <4>2, <4>3
    <3> QED BY <3>1, <3>3, <3>4
  <2> QED BY <2>2, <2>3
<1> QED BY <1>1, <1>2

(* No commit and no recovery is under way while a restart resets nBackfill. *)
LEMMA FillBelow ==
  ASSUME Sound, NEW c \in Conn, HasWrite(c), pc[c] # "restartBackfill"
  PROVE  nBackfill <= hdr0.mxFrame
<1>1. FillInv /\ LockExclusion /\ TypeOK /\ Known(c) BY SoundFacts
<1>2. SUFFICES ASSUME NEW d \in Conn, pc[d] = "restartBackfill" PROVE FALSE BY <1>1 DEF FillInv
<1>3. d \in Conn \ {c} /\ HasWrite(d) /\ Known(d) BY <1>2, SoundFacts DEF HasWrite
<1> QED BY <1>1, <1>3, Excluded

(* Log and file show a header that is published: a restart has all of the log in
   the file, a commit and a recovery have the frames. *)
LEMMA DataPublish ==
  ASSUME Sound, SnapshotInv, Sound', NEW c \in Conn, Step(c), hdr0' # hdr0
  PROVE  DataInv'
<1>0. /\ TypeOK /\ DataInv /\ ImageInv /\ BypassOK(c) /\ Sized(hdr0)
  BY SoundFacts, DataFacts DEF ImageInv
<1>a. /\ hdr0.mxFrame \in Nat /\ hdr[c].mxFrame \in Nat /\ nBackfill \in Nat
      /\ hdr0.nPage \in Nat /\ hdr[c].nPage \in Nat
  BY <1>0, Nums
<1>1. /\ hdr0' = hdr[c] /\ HasWrite(c) /\ UNCHANGED <<wal, db, image, nBackfill>>
      /\ \/ pc[c] \in {"publish0", "recHdr0"}
         \/ /\ pc[c] = "restartHdr0" /\ hdr[c].mxFrame = 0
            /\ hdr[c].ver = hdr0.ver /\ hdr[c].nPage = hdr0.nPage
  BY PublishView
<1> DEFINE n == hdr[c].mxFrame
           v == hdr[c].ver
<1>2. SUFFICES /\ Shows(hdr[c]) /\ (nBackfill >= n => Whole(v))
               /\ \A p \in Page : LET f == LogFrame(wal, p, n)
                                  IN  0 < f /\ f <= nBackfill /\ p <= hdr[c].nPage => db[p] = wal[f].txn
  <2>1. Shows(hdr[c]) => Shows(hdr0)' BY <1>1 DEF Shows, Content
  <2>2. Whole(v) => Whole(hdr0.ver)' BY <1>1 DEF Whole
  <2> QED BY <1>1, <2>1, <2>2 DEF DataInv
<1>3. CASE n = hdr0.mxFrame /\ v = hdr0.ver /\ (hdr[c].nPage = hdr0.nPage \/ n = 0)
  <2>1. Shows(hdr[c]) BY <1>0, <1>3 DEF DataInv, Shows
  <2>2. nBackfill >= n => Whole(v) BY <1>0, <1>3 DEF DataInv
  <2>3. ASSUME NEW p \in Page, 0 < LogFrame(wal, p, n), LogFrame(wal, p, n) <= nBackfill,
               p <= hdr[c].nPage
        PROVE  db[p] = wal[LogFrame(wal, p, n)].txn
    <3>1. LogFrame(wal, p, n) \in FrameNo /\ LogFrame(wal, p, n) <= n
      BY <2>3, LogFrameIs, Units
    <3>2. n # 0 BY <3>1, Units
    <3> QED BY <1>0, <1>3, <2>3, <3>2 DEF DataInv
  <2> QED BY <2>1, <2>2, <2>3
<1>4. CASE pc[c] = "restartHdr0" /\ n = 0 /\ v = hdr0.ver
  <2>1. nBackfill = hdr0.mxFrame BY <1>0, <1>4 DEF BypassOK
  <2>2. Whole(v) BY <1>0, <1>a, <1>4, <2>1 DEF DataInv
  <2>3. \A p \in Page : LogFrame(wal, p, n) = 0
    <3>1. \A i \in FrameNo : ~(i <= n) BY <1>4, Units
    <3> QED BY <3>1, LogFrameIs
  <2>4. Shows(hdr[c]) BY <2>2, <2>3 DEF Shows, Whole, Content
  <2> QED BY <2>2, <2>3, <2>4
<1>5. CASE pc[c] \in {"publish0", "recHdr0"} /\ hdr0.mxFrame < n
  <2>1. /\ n \in FrameNo /\ CommitOK(n) /\ wal[n].txn = v /\ wal[n].size = hdr[c].nPage
        /\ hdr[c].nPage # 0
    BY <1>5, NewHdr
  <2>2. \A p \in Page : image[v][p] # NoData => image[v][p] = Content(p, n)
    BY <1>0, <1>5, <2>1, CommitShows
  <2>3. nBackfill <= hdr0.mxFrame BY <1>1, <1>5, FillBelow
  <2>4. ASSUME NEW p \in Page, 0 < LogFrame(wal, p, n), LogFrame(wal, p, n) <= nBackfill,
               p <= hdr[c].nPage
        PROVE  db[p] = wal[LogFrame(wal, p, n)].txn
    <3>1. LogFrame(wal, p, n) \in Nat /\ LogFrame(wal, p, n) <= hdr0.mxFrame
          /\ LogFrame(wal, p, hdr0.mxFrame) = LogFrame(wal, p, n)
      BY <1>a, <1>5, <2>3, <2>4, LogFrameCut
    <3>2. image[hdr0.ver][p] # NoData BY <2>1, <2>4, <3>1 DEF CommitOK
    <3>3. hdr0.mxFrame # 0 BY <2>4, <3>1
    <3>4. hdr0.nPage # 0 BY <1>0, <3>3 DEF ImageInv
    <3>5. p <= hdr0.nPage BY <1>0, <3>2, <3>4 DEF Sized
    <3> QED BY <1>0, <2>4, <3>1, <3>5 DEF DataInv
  <2> QED BY <1>a, <1>5, <2>2, <2>3, <2>4 DEF Shows
<1>6. CASE pc[c] \in {"publish0", "recHdr0"} /\ ~(hdr0.mxFrame < n)
  <2>1. n = hdr0.mxFrame /\ v = hdr0.ver /\ (hdr[c].nPage = hdr0.nPage \/ n = 0)
    BY <1>a, <1>6, NewHdr
  <2> QED BY <1>3, <2>1
<1> QED BY <1>1, <1>4, <1>5, <1>6

(* And they go on showing it while the log is copied: the pages of the file that a
   checkpoint changes are in the log, or behind the end of the database. *)
LEMMA DataStep ==
  ASSUME Sound, SnapshotInv, Sound', NEW c \in Conn, Step(c)
  PROVE  DataInv'
<1>0. /\ TypeOK /\ DataInv /\ ImageInv /\ BypassOK(c) /\ TargetOK(c) /\ CopyOK(c) /\ Sized(hdr0)
  BY SoundFacts, DataFacts DEF ImageInv
<1>1. CASE hdr0' # hdr0 BY <1>1, DataPublish
<1>2. CASE hdr0' = hdr0
  <2> DEFINE m == hdr0.mxFrame
             v == hdr0.ver
  <2>a. /\ m \in Nat /\ v \in Txn /\ hdr0.nPage \in Nat /\ nBackfill \in Nat /\ mxSafe[c] \in Nat
        /\ hdr[c].mxFrame \in Nat /\ hdr[c].nPage \in Nat /\ v <= v
    BY <1>0, Nums, Units
  <2>1. image'[v] = image[v] BY <2>a, ImageFixed
  <2>2. \A p \in Page : /\ LogFrame(wal', p, m) = LogFrame(wal, p, m) /\ LogFrame(wal, p, m) \in Nat
                        /\ LogFrame(wal, p, m) # 0 =>
                               wal'[LogFrame(wal, p, m)] = wal[LogFrame(wal, p, m)]
    <3>1. m <= m BY <2>a
    <3> QED BY <2>a, <3>1, LogFixed, LogFrameCut
  <2>3. CkptCopying(c) => /\ hdr[c].mxFrame <= m /\ mxSafe[c] <= hdr[c].mxFrame
                          /\ nBackfill < mxSafe[c] /\ SameLog(hdr[c]) /\ m > 0
    <3>1. CkptCopying(c) => pc[c] \in CkGoing BY DEF CkptCopying
    <3> QED BY <1>0, <2>a, <3>1 DEF TargetOK, CopyOK
  <2>4. ASSUME NEW p \in Page, db'[p] # db[p]
        PROVE  /\ CkptCopying(c) /\ nBackfill' = nBackfill
               /\ \/ nBackfill < LogFrame(wal, p, m)
                  \/ hdr0.nPage < p /\ image[v][p] = NoData
    <3>1. CkptCopying(c) /\ nBackfill' = nBackfill BY <2>4, CopyView
    <3>2. CASE \E f \in FrameNo : wal[f].pg = p /\ nBackfill < f /\ f <= mxSafe[c]
      <4>1. PICK f \in FrameNo : wal[f].pg = p /\ nBackfill < f /\ f <= mxSafe[c] BY <3>2
      <4>2. f \in Nat /\ f <= m BY <2>a, <2>3, <3>1, <4>1, Units
      <4>3. f <= LogFrame(wal, p, m) BY <4>1, <4>2, LogFrameIs
      <4> QED BY <2>a, <2>2, <3>1, <4>1, <4>2, <4>3
    <3>3. CASE hdr0.nPage < p
      <4>1. hdr0.nPage # 0 BY <1>0, <2>3, <3>1 DEF ImageInv
      <4>2. ~(p <= hdr0.nPage) BY <2>a, <3>3, Units
      <4> QED BY <1>0, <3>1, <3>3, <4>1, <4>2 DEF Sized
    <3> QED BY <2>4, <3>2, <3>3, CopyView
  <2>5. Shows(hdr0)'
    <3>1. ASSUME NEW p \in Page, image[v][p] # NoData PROVE image[v][p] = Content(p, m)'
      <4>1. image[v][p] = Content(p, m) BY <1>0, <3>1 DEF DataInv, Shows
      <4>2. LogFrame(wal, p, m) = 0 => db'[p] = db[p] BY <2>a, <2>4, <3>1
      <4> QED BY <1>2, <2>2, <4>1, <4>2 DEF Content
    <3> QED BY <1>2, <2>1, <3>1 DEF Shows
  <2>6. ASSUME nBackfill' = nBackfill PROVE DataInv'
    <3>1. nBackfill' >= m => Whole(v)'
      <4>1. SUFFICES ASSUME nBackfill >= m, NEW p \in Page PROVE db'[p] = image'[v][p]
        BY <1>2, <2>6 DEF Whole
      <4>2. db'[p] = db[p] BY <2>a, <2>3, <2>4, <4>1
      <4> QED BY <1>0, <2>1, <4>1, <4>2 DEF DataInv, Whole
    <3>2. ASSUME NEW p \in Page, 0 < LogFrame(wal, p, m), LogFrame(wal, p, m) <= nBackfill,
                 p <= hdr0.nPage
          PROVE  db'[p] = wal'[LogFrame(wal, p, m)].txn
      <4>1. db'[p] = db[p] BY <2>a, <2>2, <2>4, <3>2, Units
      <4>2. db[p] = wal[LogFrame(wal, p, m)].txn BY <1>0, <3>2 DEF DataInv
      <4> QED BY <2>2, <3>2, <4>1, <4>2
    <3>3. \A p \in Page : LET f == LogFrame(wal, p, hdr0.mxFrame)'
                          IN  0 < f /\ f <= nBackfill' /\ p <= hdr0'.nPage => db'[p] = wal'[f].txn
      BY <1>2, <2>2, <2>6, <3>2
    <3> QED BY <1>2, <2>5, <3>1, <3>3 DEF DataInv, Whole
  <2>7. ASSUME nBackfill' # nBackfill PROVE DataInv'
    <3>1. db' = db
      <4>1. CkptBackfill(c) \/ RestartBackfill(c) \/ RecoverInfo(c) BY <2>7, FillSteps
      <4> QED BY <4>1 DEF CkptBackfill, RestartBackfill, RecoverInfo
    <3>2. CASE CkptBackfill(c)
      <4>1. pc[c] = "ckBackfill" /\ nBackfill' = mxSafe[c] /\ CkptCopying(c)
        BY <3>2 DEF CkptBackfill, CkptCopying
      <4>2. iter[c] = {} /\ (mxSafe[c] = m => Whole(v)) BY <1>0, <4>1 DEF CopyOK
      <4>3. nBackfill' >= m => Whole(v)'
        <5>1. nBackfill' >= m => Whole(v) BY <2>a, <2>3, <4>1, <4>2
        <5> QED BY <1>2, <2>1, <3>1, <5>1 DEF Whole
      <4>4. ASSUME NEW p \in Page, 0 < LogFrame(wal, p, m), LogFrame(wal, p, m) <= mxSafe[c],
                   p <= hdr0.nPage
            PROVE  db[p] = wal[LogFrame(wal, p, m)].txn
        <5>1. CASE LogFrame(wal, p, m) <= nBackfill BY <1>0, <4>4, <5>1 DEF DataInv
        <5>2. CASE ~(LogFrame(wal, p, m) <= nBackfill)
          <6>1. LogFrame(wal, p, m) <= hdr[c].mxFrame BY <2>a, <2>2, <2>3, <4>1, <4>4
          <6>2. LogFrame(wal, p, hdr[c].mxFrame) = LogFrame(wal, p, m)
            BY <2>a, <2>3, <4>1, <6>1, LogFrameCut
          <6>3. p <= hdr[c].nPage
            <7>1. SUFFICES ASSUME ~(p <= hdr[c].nPage) PROVE FALSE OBVIOUS
            <7>2. hdr[c].nPage < p BY <2>a, <7>1, Units
            <7>3. PICK i \in FrameNo : hdr[c].mxFrame < i /\ i <= m /\ wal[i].pg = p
              BY <2>3, <4>1, <4>4, <7>2 DEF SameLog
            <7>4. i <= LogFrame(wal, p, m) BY <7>3, LogFrameIs
            <7> QED BY <2>a, <2>2, <6>1, <7>3, <7>4, Units
          <6>4. nBackfill < LogFrame(wal, p, m) BY <2>a, <2>2, <5>2
          <6> QED BY <1>0, <4>1, <4>2, <4>4, <6>2, <6>3, <6>4 DEF CopyOK
        <5> QED BY <5>1, <5>2
      <4>5. \A p \in Page : LET f == LogFrame(wal, p, hdr0.mxFrame)'
                            IN  0 < f /\ f <= nBackfill' /\ p <= hdr0'.nPage => db'[p] = wal'[f].txn
        BY <1>2, <2>2, <3>1, <4>1, <4>4
      <4> QED BY <1>2, <2>5, <4>3, <4>5 DEF DataInv, Whole
    <3>3. CASE RestartBackfill(c) \/ RecoverInfo(c)
      <4>1. nBackfill' = 0 BY <3>3 DEF RestartBackfill, RecoverInfo
      <4>2. nBackfill' >= m => Whole(v)'
        <5>1. nBackfill' >= m => Whole(v) BY <1>0, <2>a, <4>1 DEF DataInv
        <5> QED BY <1>2, <2>1, <3>1, <5>1 DEF Whole
      <4>3. \A p \in Page : LET f == LogFrame(wal, p, hdr0.mxFrame)'
                            IN  0 < f /\ f <= nBackfill' /\ p <= hdr0'.nPage => db'[p] = wal'[f].txn
        BY <1>2, <2>2, <4>1
      <4> QED BY <1>2, <2>5, <4>2, <4>3 DEF DataInv, Whole
    <3> QED BY <2>7, <3>2, <3>3, FillSteps
  <2> QED BY <2>6, <2>7
<1> QED BY <1>1, <1>2

(* A frame of a log chains on the one before it. *)
LEMMA ChainPrev ==
  ASSUME NEW wl, NEW s, NEW n, Chain(wl, s, n), NEW m \in Nat, m > 0, m < n, n \in FrameNo
  PROVE  m + 1 \in FrameNo /\ wl[m + 1].prev = wl[m].txn
<1>1. m + 1 \in FrameNo /\ m + 1 <= n BY Units
<1>2. PICK i \in FrameNo : i = m + 1 BY <1>1
<1>3. i # 1 /\ i - 1 = m /\ i <= n BY <1>1, <1>2
<1>4. wl[i].prev = wl[i - 1].txn BY <1>3 DEF Chain
<1> QED BY <1>1, <1>2, <1>3, <1>4

(* A commit frame behind mxFrame gives the database of its transaction: the log
   behind mxFrame is that of one writer, or left by one that died or failed, and a
   header that is published takes in the last commit frame of its log. *)
LEMMA TailStep ==
  ASSUME Sound, SnapshotInv, Sound', NEW c \in Conn, Step(c)
  PROVE  TailInv'
<1>0. /\ TypeOK /\ TailInv /\ PendOK(c) /\ FrameOK(c) /\ RecOK(c) /\ VerOK(c)
      /\ BaseOK(c) /\ SaltOK(c) /\ ChainOK(c)
  BY SoundFacts, DataFacts
<1>a. /\ hdr0.mxFrame \in Nat /\ hdr0.salt \in Nat /\ hdr0.ver \in Txn /\ hdr[c].mxFrame \in Nat
      /\ hdr[c].salt \in Nat /\ iFrame[c] \in Nat /\ txn[c] \in Txn /\ walHdr.salt \in Nat
      /\ newSize[c] \in Nat
  BY <1>0, Nums
<1>1. SUFFICES ASSUME NEW n \in FrameNo, NEW s \in Nat, hdr0'.mxFrame < n, wal'[n].size # 0,
                      hdr0'.salt <= s, Chain(wal', s, n)
               PROVE  CommitOK(n)'
  BY DEF TailInv
<1>b. n \in Nat /\ n > 0 /\ n <= n BY <1>1, Units
<1>2. CASE hdr0' # hdr0
  <2> DEFINE m == hdr[c].mxFrame
  <2>1. /\ hdr0' = hdr[c] /\ UNCHANGED <<wal, image>>
        /\ pc[c] \in {"publish0", "recHdr0", "restartHdr0"}
    BY <1>2, PublishView
  <2>2. Chain(wal, s, n) /\ m < n /\ wal[n].size # 0 /\ hdr[c].salt <= s
    BY <1>1, <2>1
  <2>3. CASE pc[c] = "restartHdr0"
    <3>1. wal[n].salt < hdr[c].salt BY <1>0, <1>1, <2>3 DEF PendOK
    <3>2. wal[n].salt = s BY <1>1, <1>b, <2>2 DEF Chain
    <3> QED BY <1>a, <1>1, <2>2, <3>1, <3>2
  <2>4. CASE pc[c] = "publish0"
    <3>1. InTxn(c) /\ txn[c] # 0 BY <1>0, <2>4 DEF InTxn, FrameOK
    <3>2. m > hdr0.mxFrame /\ wal[m].txn = txn[c] BY <1>0, <2>4 DEF BaseOK, FrameOK
    <3>3. m + 1 \in FrameNo /\ m + 1 <= n /\ m + 1 # 1 /\ m + 1 - 1 = m
      BY <1>a, <1>b, <2>2, <3>2, Units
    <3>4. wal[m + 1].prev = wal[m].txn
      <4>1. m > 0 BY <1>a, <3>2
      <4> QED BY <1>a, <2>2, <4>1, ChainPrev
    <3>5. m + 1 \in Mine(c) BY <1>0, <3>1, <3>2, <3>3, <3>4 DEF PendOK
    <3>6. Top(c) = m BY <2>4 DEF Top
    <3> QED BY <1>a, <3>5, <3>6 DEF Mine
  <2>5. CASE pc[c] = "recHdr0"
    <3>1. hdr[c].salt = walHdr.salt /\ hdr0.salt <= walHdr.salt /\ hdr0.mxFrame <= m
      BY <1>0, <2>5 DEF SaltOK
    <3>2. CASE m > 0
      <4>1. Chain(wal, walHdr.salt, m) BY <1>0, <2>5, <3>1, <3>2 DEF ChainOK, HasLog, LogOf, Top
      <4>2. 1 \in FrameNo /\ 1 <= m /\ 1 <= n BY <1>a, <1>b, <3>2, Units
      <4>3. wal[1].salt = walHdr.salt BY <4>1, <4>2 DEF Chain
      <4>4. wal[1].salt = s BY <2>2, <4>2 DEF Chain
      <4>5. wal[n].size = 0 BY <1>0, <2>2, <2>5, <3>2, <4>3, <4>4 DEF RecOK
      <4> QED BY <2>2, <4>5
    <3>3. CASE ~(m > 0)
      <4>1. m = 0 /\ hdr0.mxFrame = 0 BY <1>a, <3>1, <3>3
      <4>2. hdr[c].ver = hdr0.ver BY <1>0, <2>5, <4>1 DEF RecOK
      <4>3. hdr0.salt <= s BY <1>a, <1>1, <2>2, <3>1
      <4>4. CommitOK(n) BY <1>0, <2>2, <4>1, <4>3 DEF TailInv
      <4> QED BY <2>1, <4>1, <4>2, <4>4 DEF CommitOK
    <3> QED BY <3>2, <3>3
  <2> QED BY <2>1, <2>3, <2>4, <2>5
<1>3. CASE hdr0' = hdr0 /\ ~WriteFrame(c)
  <2>1. UNCHANGED <<wal, image>> BY <1>3, DataSteps, LogSteps DEF LogHdr
  <2>2. CommitOK(n) BY <1>0, <1>1, <1>3, <2>1 DEF TailInv
  <2> QED BY <1>3, <2>1, <2>2 DEF CommitOK
<1>4. CASE WriteFrame(c)
  <2> DEFINE k == iFrame'[c]
             p0 == wal'[k].pg
  <2>1. /\ hdr0' = hdr0 /\ UNCHANGED <<txn, spilled, newSize>> /\ pc[c] = "frames" /\ k = iFrame[c] + 1 /\ k \in FrameNo
        /\ hdr0.mxFrame <= hdr[c].mxFrame /\ hdr[c].mxFrame <= iFrame[c]
        /\ \A i \in FrameNo : i # k => wal'[i] = wal[i]
        /\ todo'[c] = todo[c] \ {p0} /\ wal'[k].txn = txn[c]
        /\ wal'[k].size # 0 => /\ todo[c] = {p0} /\ wal'[k].size = newSize[c]
                               /\ pc'[c] \in {"syncFrames", "index"}
                               /\ \A q \in Page : image'[txn[c]][q] =
                                    IF q > newSize[c] THEN NoData
                                    ELSE IF q \in spilled[c] THEN txn[c] ELSE image[hdr0.ver][q]
    BY <1>4, FrameView
  <2>2. InTxn(c) /\ Top(c) = iFrame[c] BY <2>1 DEF InTxn, Top
  <2>3. txn[c] # 0 /\ hdr0.ver < txn[c] BY <1>0, <2>1, <2>2 DEF FrameOK, PendOK
  <2>4. hdr0.mxFrame < n BY <1>1, <2>1
  <2> HIDE DEF k, p0
  <2>5. CASE n < k
    <3>1. wal'[n] = wal[n] /\ n # k BY <1>b, <2>1, <2>5, Units
    <3>2. n \in Mine(c) BY <1>a, <1>b, <2>1, <2>2, <2>4, <2>5 DEF Mine
    <3>3. wal[n].size = 0 BY <1>0, <2>1, <2>2, <3>2 DEF FrameOK
    <3> QED BY <1>1, <3>1, <3>3
  <2>6. CASE k < n
    <3>0. k \in Nat /\ k > 0 BY <2>1, Units
    <3>1. k + 1 \in FrameNo /\ k + 1 <= n /\ k + 1 # 1 /\ k + 1 - 1 = k /\ k + 1 # k
      BY <1>b, <2>6, <3>0, Units
    <3>2. wal'[k + 1].prev = wal'[k].txn
      BY <1>1, <2>6, <3>0, ChainPrev
    <3>3. wal[k + 1].prev = txn[c] BY <2>1, <3>1, <3>2
    <3>4. k + 1 \in Mine(c) BY <1>0, <2>2, <2>3, <3>1, <3>3 DEF PendOK
    <3> QED BY <1>a, <2>1, <2>2, <3>4 DEF Mine
  <2>7. CASE n = k
    <3>1. /\ todo[c] = {p0} /\ wal'[n].size = newSize[c] /\ newSize[c] # 0
          /\ todo'[c] = {} /\ pc'[c] \in {"syncFrames", "index"} /\ wal'[n].txn = txn[c]
          /\ \A q \in Page : image'[txn[c]][q] =
                                    IF q > newSize[c] THEN NoData
                                    ELSE IF q \in spilled[c] THEN txn[c] ELSE image[hdr0.ver][q]
      BY <1>1, <2>1, <2>7
    <3>2. FrameOK(c)' BY FrameOwn
    <3>3. InTxn(c)' /\ Top(c)' = n
      BY <2>7, <3>1 DEF InTxn, Top, k
    <3>4. /\ \A i \in Mine(c)' : wal'[i].txn = txn[c] /\ wal'[i].pg \in spilled[c]
          /\ \A q \in spilled[c] : \E i \in Mine(c)' : wal'[i].pg = q
      BY <2>1, <3>1, <3>2, <3>3 DEF FrameOK
    <3>5. Mine(c)' = {i \in FrameNo : hdr0.mxFrame < i /\ i <= n} BY <2>1, <3>3 DEF Mine
    <3>6. image'[hdr0.ver] = image[hdr0.ver]
      <4>1. hdr0.ver <= hdr0.ver BY <1>a, Units
      <4> QED BY <1>a, <4>1, ImageFixed
    <3>7. ASSUME NEW q \in Page
          PROVE  /\ wal'[n].size < q => image'[txn[c]][q] = NoData
                 /\ q <= wal'[n].size /\ LogFrame(wal', q, n) > hdr0.mxFrame =>
                      image'[txn[c]][q] = wal'[LogFrame(wal', q, n)].txn
                 /\ q <= wal'[n].size /\ LogFrame(wal', q, n) <= hdr0.mxFrame =>
                      image'[txn[c]][q] = image'[hdr0.ver][q] /\ image'[hdr0.ver][q] # NoData
      <4> DEFINE f == LogFrame(wal', q, n)
      <4>1. /\ f \in FrameNo \cup {0} /\ (f # 0 => f \in FrameNo /\ f <= n /\ wal'[f].pg = q)
            /\ \A i \in FrameNo : i <= n /\ wal'[i].pg = q => i <= f /\ f # 0
            /\ f \in Nat
        BY LogFrameIs, Units
      <4> HIDE DEF f
      <4>2. CASE wal'[n].size < q
        <5>1. q > newSize[c] /\ ~(q <= wal'[n].size) BY <1>a, <3>1, <4>2, Units
        <5> QED BY <3>1, <4>2, <5>1
      <4>3. CASE q <= wal'[n].size /\ f > hdr0.mxFrame
        <5>1. f \in Mine(c)' /\ wal'[f].pg = q BY <1>a, <3>5, <4>1, <4>3
        <5>2. q \in spilled[c] /\ wal'[f].txn = txn[c] BY <3>4, <5>1
        <5>3. ~(q > newSize[c]) /\ ~(wal'[n].size < q) BY <1>a, <3>1, <4>3, Units
        <5>4. ~(f <= hdr0.mxFrame) BY <1>a, <4>1, <4>3
        <5> QED BY <3>1, <5>2, <5>3, <5>4 DEF f
      <4>4. CASE q <= wal'[n].size /\ ~(f > hdr0.mxFrame)
        <5>1. q \notin spilled[c]
          <6>1. SUFFICES ASSUME q \in spilled[c] PROVE FALSE OBVIOUS
          <6>2. PICK i \in Mine(c)' : wal'[i].pg = q BY <3>4, <6>1
          <6>3. i \in FrameNo /\ i \in Nat /\ hdr0.mxFrame < i /\ i <= f
            BY <3>5, <4>1, <6>2, Units
          <6> QED BY <1>a, <4>1, <4>4, <6>3
        <5>2. ~(q > newSize[c]) /\ ~(wal'[n].size < q) BY <1>a, <3>1, <4>4, Units
        <5>3. image[hdr0.ver][q] # NoData BY <1>0, <2>1, <2>2, <3>1, <4>4, <5>1 DEF FrameOK
        <5> QED BY <3>1, <3>6, <4>4, <5>1, <5>2, <5>3 DEF f
      <4>5. \/ wal'[n].size < q \/ q <= wal'[n].size BY <1>a, <3>1, Units
      <4> QED BY <4>2, <4>3, <4>4, <4>5
    <3>8. hdr0'.ver < wal'[n].txn BY <2>1, <2>3, <3>1
    <3> QED BY <2>1, <3>1, <3>7, <3>8 DEF CommitOK
  <2> QED BY <1>a, <1>b, <2>1, <2>5, <2>6, <2>7
<1>5. WriteFrame(c) => hdr0' = hdr0 BY FrameView
<1> QED BY <1>2, <1>3, <1>4

-----------------------------------------------------------------------------
(* Recovery. *)

(* The database that a recovery of the files brings back: what a reader of all
   frames up to the last commit sees. *)
LEMMA ViewIs ==
  ASSUME NEW n, n = LastCommit(walHdr, wal), NEW p \in Page
  PROVE  View(walHdr, wal, db)[p] = IF n > 0 /\ p > wal[n].size THEN NoData ELSE Content(p, n)
<1> DEFINE S == {i \in 1 .. n : wal[i].pg = p}
           f == LogFrame(wal, p, n)
<1>1. n \in FrameNo \cup {0} BY LastCommitType
<1>2. View(walHdr, wal, db)[p] = IF n > 0 /\ p > wal[n].size THEN NoData
                                 ELSE IF S # {} THEN wal[Max(S)].txn ELSE db[p]
  BY DEF View
<1>3. /\ f \in FrameNo \cup {0} /\ (f # 0 => f \in FrameNo /\ f <= n /\ wal[f].pg = p)
      /\ \A i \in FrameNo : i <= n /\ wal[i].pg = p => i <= f /\ f # 0
  BY LogFrameIs
<1>4. S \in SUBSET (0 .. MaxFrame) /\ S \subseteq FrameNo BY <1>1, BoundFacts DEF FrameNo
<1>5. CASE S = {}
  <2>1. f = 0
    <3>1. SUFFICES ASSUME f # 0 PROVE FALSE OBVIOUS
    <3>2. f \in S BY <1>1, <1>3, <3>1, Units
    <3> QED BY <1>5, <3>2
  <2> QED BY <1>2, <1>5, <2>1 DEF Content
<1>6. CASE S # {}
  <2>1. Max(S) \in S BY <1>4, <1>6, BoundFacts, MaxIn
  <2>2. \A x \in S : x <= Max(S) BY <1>4, BoundFacts, MaxUpper
  <2> DEFINE g == Max(S)
  <2>3. g \in FrameNo /\ g <= n /\ wal[g].pg = p BY <1>1, <1>4, <2>1, Units
  <2>4. \A i \in FrameNo : i <= n /\ wal[i].pg = p => i <= g
    <3>1. \A i \in FrameNo : i <= n /\ wal[i].pg = p => i \in S BY <1>1, Units
    <3> QED BY <2>2, <3>1
  <2> HIDE DEF g
  <2>5. f = g BY <2>3, <2>4, LogFrameOnly
  <2>6. f # 0 BY <2>3, <2>5, Units
  <2> QED BY <1>2, <1>6, <2>5, <2>6 DEF Content, g
<1> QED BY <1>5, <1>6

(* The files always give the database after a transaction: the shared header's,
   or that of a commit frame behind it. *)
LEMMA AlwaysRecoverable ==
  ASSUME Sound, SnapshotInv
  PROVE  Recoverable
<1>0. TypeOK /\ LogInv BY DEF Sound, BackfillInv
<1>1. /\ FreshInv /\ ImageInv /\ DataInv /\ TailInv /\ OldLogInv /\ Sized(hdr0)
  BY DEF SnapshotInv, ImageInv
<1>2. CASE walHdr.salt < hdr0.salt BY <1>1, <1>2 DEF OldLogInv
<1>3. CASE ~(walHdr.salt < hdr0.salt)
  <2> DEFINE n == LastCommit(walHdr, wal)
             m == hdr0.mxFrame
  <2>1. /\ hdr0 \in Hdr /\ m \in Nat /\ hdr0.salt \in Nat /\ hdr0.nPage \in Nat /\ hdr0.ver \in Txn
        /\ walHdr.salt \in Nat /\ nBackfill \in Nat /\ latest = hdr0.ver
    BY <1>0, <1>1, Shapes DEF Hdr, WalHdr, FreshInv
  <2>2. n \in FrameNo \cup {0} /\ n \in Nat
    <3>1. n \in FrameNo \cup {0} BY LastCommitType
    <3> QED BY <3>1, Units
  <2>3. m <= n
    <3>1. CASE m = 0 BY <2>1, <2>2, <3>1
    <3>2. CASE m > 0
      <4>1. LogOf(hdr0.salt, m, hdr0.cksum) /\ wal[m].size # 0 BY <1>0, <3>2 DEF LogInv
      <4>2. walHdr.ok /\ Chain(wal, walHdr.salt, m) /\ m <= MaxFrame BY <4>1 DEF LogOf
      <4>3. m \in FrameNo BY <2>1, <3>2, <4>2, BoundFacts DEF FrameNo
      <4> QED BY <1>0, <4>1, <4>2, <4>3, LastCommitFinds
    <3> QED BY <2>1, <3>1, <3>2
  <2>4. n # 0 => /\ n \in FrameNo /\ Chain(wal, walHdr.salt, n) /\ wal[n].size # 0
                 /\ wal[n].size \in Nat
    BY <1>0, LastCommitIs, FrameShapes
  <2>5. \A p \in Page : View(walHdr, wal, db)[p] =
                           IF n > 0 /\ p > wal[n].size THEN NoData ELSE Content(p, n)
    BY ViewIs
  <2> HIDE DEF n
  <2>6. ASSUME NEW v \in Txn, v >= latest, image[v][1] # NoData,
               \A p \in Page : image[v][p] = View(walHdr, wal, db)[p]
        PROVE  Recoverable
    <3>1. image[v] = [p \in Page |-> image[v][p]] BY <1>0, FrameShapes
    <3>2. View(walHdr, wal, db) = [p \in Page |-> View(walHdr, wal, db)[p]] BY DEF View
    <3>3. image[v] = View(walHdr, wal, db) BY <2>6, <3>1, <3>2
    <3> QED BY <2>6, <3>3 DEF Recoverable
  <2>7. CASE n = 0
    <3>1. Whole(hdr0.ver) BY <1>1, <2>1, <2>3, <2>7 DEF DataInv
    <3>2. \A p \in Page : LogFrame(wal, p, n) = 0
      <4>1. \A i \in FrameNo : ~(i <= n) BY <2>7, Units
      <4> QED BY <4>1, LogFrameIs
    <3>3. \A p \in Page : image[hdr0.ver][p] = View(walHdr, wal, db)[p]
      BY <2>5, <2>7, <3>1, <3>2 DEF Whole, Content
    <3>4. image[hdr0.ver][1] # NoData /\ hdr0.ver >= latest BY <1>1, <2>1, Units DEF ImageInv
    <3> QED BY <2>1, <2>6, <3>3, <3>4
  <2>8. CASE n # 0 /\ n = m
    <3>1. wal[n].size = hdr0.nPage /\ hdr0.nPage # 0 BY <1>1, <2>1, <2>8 DEF ImageInv
    <3>2. \A p \in Page : image[hdr0.ver][p] = View(walHdr, wal, db)[p]
      <4>1. SUFFICES ASSUME NEW p \in Page PROVE image[hdr0.ver][p] = View(walHdr, wal, db)[p]
        OBVIOUS
      <4>2. image[hdr0.ver][p] # NoData <=> p <= hdr0.nPage BY <1>1, <3>1 DEF Sized
      <4>3. p > hdr0.nPage <=> ~(p <= hdr0.nPage) BY <2>1, Units
      <4>4. image[hdr0.ver][p] # NoData => image[hdr0.ver][p] = Content(p, n)
        BY <1>1, <2>8 DEF DataInv, Shows
      <4>5. n > 0 BY <2>2, <2>8
      <4> QED BY <2>5, <3>1, <4>2, <4>3, <4>4, <4>5
    <3>3. image[hdr0.ver][1] # NoData /\ hdr0.ver >= latest BY <1>1, <2>1, Units DEF ImageInv
    <3> QED BY <2>1, <2>6, <3>2, <3>3
  <2>9. CASE n # 0 /\ n # m
    <3>1. m < n /\ n > 0 BY <2>1, <2>2, <2>3, <2>9
    <3>2. CommitOK(n) BY <1>1, <1>3, <2>1, <2>4, <2>9, <3>1 DEF TailInv
    <3>3. /\ hdr0.ver < wal[n].txn /\ wal[n].txn \in Txn /\ image[wal[n].txn][1] # NoData
          /\ \A p \in Page : /\ image[wal[n].txn][p] # NoData <=> p <= wal[n].size
                             /\ image[wal[n].txn][p] # NoData => image[wal[n].txn][p] = Content(p, n)
      BY <1>0, <1>1, <2>4, <2>9, <3>1, <3>2, CommitShows
    <3>4. \A p \in Page : image[wal[n].txn][p] = View(walHdr, wal, db)[p]
      <4>1. SUFFICES ASSUME NEW p \in Page PROVE image[wal[n].txn][p] = View(walHdr, wal, db)[p]
        OBVIOUS
      <4>2. p > wal[n].size <=> ~(p <= wal[n].size) BY <2>4, <2>9, Units
      <4> QED BY <2>5, <3>1, <3>3, <4>2
    <3>5. wal[n].txn >= latest BY <2>1, <3>3, Units
    <3> QED BY <2>6, <3>3, <3>4, <3>5
  <2> QED BY <2>7, <2>8, <2>9
<1> QED BY <1>2, <1>3

(* A restart leaves the old log in the file, which still gives the database that
   the file has too; from the new log header on the salts agree. *)
LEMMA OldLogStep ==
  ASSUME Sound, SnapshotInv, Sound', NEW c \in Conn, Step(c)
  PROVE  OldLogInv'
<1>0. /\ TypeOK /\ LogInv /\ SaltOK(c) /\ ChainOK(c) /\ TargetOK(c) /\ OldLogInv
  BY SoundFacts, DataFacts
<1>a. /\ hdr0.mxFrame \in Nat /\ hdr0.salt \in Nat /\ hdr[c].salt \in Nat /\ walHdr.salt \in Nat
      /\ hdr[c].mxFrame \in Nat /\ nBackfill \in Nat /\ mxSafe[c] \in Nat
  BY <1>0, Nums
<1>1. SUFFICES ASSUME walHdr'.salt < hdr0'.salt PROVE Recoverable' BY DEF OldLogInv
<1>2. ~Publish0(c)
  <2>1. SUFFICES ASSUME Publish0(c) PROVE FALSE OBVIOUS
  <2>2. pc[c] = "publish0" /\ hdr0' = hdr[c] /\ walHdr' = walHdr BY <2>1 DEF Publish0
  <2>3. walHdr.salt = hdr[c].salt BY <1>0, <2>2 DEF ChainOK, HasLog, LogOf
  <2> QED BY <1>a, <1>1, <2>2, <2>3
<1>3. ~RecoverHdr0(c)
  <2>1. SUFFICES ASSUME RecoverHdr0(c) PROVE FALSE OBVIOUS
  <2>2. pc[c] = "recHdr0" /\ hdr0' = hdr[c] /\ walHdr' = walHdr BY <2>1 DEF RecoverHdr0
  <2>3. walHdr.salt = hdr[c].salt BY <1>0, <2>2 DEF SaltOK
  <2> QED BY <1>a, <1>1, <2>2, <2>3
<1>4. ~WriteFrame(c)
  <2>1. SUFFICES ASSUME WriteFrame(c) PROVE FALSE OBVIOUS
  <2>2. pc[c] = "frames" /\ hdr0' = hdr0 /\ walHdr' = walHdr BY <2>1, FrameView
  <2>3. walHdr.salt = hdr[c].salt BY <1>0, <2>2 DEF ChainOK, HasLog, LogOf
  <2>4. hdr0.salt <= hdr[c].salt BY <1>0, <2>2 DEF SaltOK, InBase
  <2> QED BY <1>a, <1>1, <2>2, <2>3, <2>4
<1>5. LogHdr(c) => walHdr' = walHdr
  <2>1. SUFFICES ASSUME LogHdr(c), walHdr' # walHdr PROVE FALSE OBVIOUS
  <2>2. /\ walHdr'.salt = hdr'[c].salt /\ pc'[c] \in {"syncHdr", "frames"} /\ hdr0' = hdr0
    BY <1>0, <2>1, LogHdrView
  <2>3. SaltOK(c)' BY SoundNext
  <2>4. hdr0'.salt <= hdr'[c].salt BY <2>2, <2>3 DEF SaltOK, InBase
  <2> QED BY <1>1, <2>2, <2>4, NumsNext
<1>6. db' = db
  <2>1. SUFFICES ASSUME db' # db PROVE FALSE OBVIOUS
  <2>2. CkptCopying(c) /\ UNCHANGED <<hdr0, walHdr>>
    <3>1. CkptCopy(c) \/ CkptTruncate(c) BY <2>1, DataSteps
    <3> QED BY <3>1 DEF CkptCopy, CkptTruncate, CkptCopying
  <2>3. pc[c] \in CkGoing BY <2>2 DEF CkptCopying
  <2>4. hdr0.mxFrame > 0 BY <1>0, <1>a, <2>3 DEF TargetOK
  <2>5. walHdr.salt = hdr0.salt BY <1>0, <2>4 DEF LogInv, LogOf
  <2> QED BY <1>a, <1>1, <2>2, <2>5
<1>7. UNCHANGED <<wal, walHdr, db, image, latest>>
  <2>1. wal' = wal /\ walHdr' = walHdr
    <3>1. CASE LogHdr(c) BY <1>5, <3>1 DEF LogHdr
    <3>2. CASE ~LogHdr(c) BY <1>4, <3>2, LogSteps
    <3> QED BY <3>1, <3>2
  <2>2. image' = image /\ latest' = latest BY <1>2, <1>3, <1>4, DataSteps
  <2> QED BY <1>6, <2>1, <2>2
<1>8. Recoverable BY AlwaysRecoverable
<1>9. View(walHdr, wal, db)' = View(walHdr, wal, db) BY <1>7
<1>10. PICK v \in Txn : v >= latest /\ image[v][1] # NoData /\ image[v] = View(walHdr, wal, db)
  BY <1>8 DEF Recoverable
<1>11. v >= latest' /\ image'[v][1] # NoData /\ image'[v] = View(walHdr, wal, db)'
  BY <1>7, <1>9, <1>10
<1> QED BY <1>11 DEF Recoverable

-----------------------------------------------------------------------------
(* The invariant. *)

(* The power stays on.  Processes may still die anywhere and calls may fail; what a
   loss of power takes from files that are not synced is not part of the argument. *)
NoPowerLoss == MaxPowerFail = 0

(* It holds at the start: an empty log, and a file of InitSize pages. *)
LEMMA SnapshotInit == Init => SnapshotInv
<1> SUFFICES ASSUME Init PROVE SnapshotInv OBVIOUS
<1>1. /\ hdr0 = EmptyHdr /\ nBackfill = 0 /\ nextTxn = 1 /\ nextSalt = 1 /\ latest = 0
      /\ aPgno = [i \in FrameNo |-> 0] /\ walHdr = NoWalHdr /\ wal = [i \in FrameNo |-> NoFrame]
      /\ db = UpTo(InitSize) /\ image = [t \in Txn |-> UpTo(IF t = 0 THEN InitSize ELSE 0)]
      /\ pc = [c \in Conn |-> "idle"] /\ op = [c \in Conn |-> "none"]
      /\ hdr = [c \in Conn |-> NoHdr] /\ txn = [c \in Conn |-> 0]
      /\ spilled = [c \in Conn |-> {}] /\ todo = [c \in Conn |-> {}]
  BY DEF Init
<1>2. /\ EmptyHdr.salt = 0 /\ EmptyHdr.mxFrame = 0 /\ EmptyHdr.nPage = 0 /\ EmptyHdr.ver = 0
      /\ NoHdr.ver = 0 /\ NoWalHdr.salt = 0
      /\ NoFrame.salt = 0 /\ NoFrame.txn = 0 /\ NoFrame.prev = 0 /\ NoFrame.size = 0
  BY DEF EmptyHdr, NoHdr, NoWalHdr, NoFrame
<1>3. \A n \in Nat, p \in Page : UpTo(n)[p] = IF p <= n THEN 0 ELSE NoData BY DEF UpTo
<1>4. InitSize \in Nat /\ 1 <= InitSize BY WalAssumption
<1>5. /\ \A p \in Page : db[p] = image[0][p]
      /\ image[0][1] # NoData
      /\ \A v \in Txn : \E n \in Nat : \A p \in Page : image[v][p] # NoData <=> p <= n
  <2>1. 0 \in Txn /\ 1 \in Page /\ 0 \in Nat BY Units
  <2>2. \A v \in Txn : \E n \in Nat : image[v] = UpTo(n) BY <1>1, <1>4
  <2>3. image[0] = UpTo(InitSize) BY <1>1, <2>1
  <2>4. \A n \in Nat, p \in Page : UpTo(n)[p] # NoData <=> p <= n BY <1>3 DEF NoData
  <2> QED BY <1>1, <1>4, <2>1, <2>2, <2>3, <2>4
<1>6. FreshInv BY <1>1, <1>2 DEF FreshInv
<1>7. IndexInv BY <1>1, <1>2, Units DEF IndexInv
<1>8. ImageInv
  <2>1. \A v \in Txn : Shaped(v)
    <3>1. SUFFICES ASSUME NEW v \in Txn, NEW p \in Page, NEW q \in Page, q <= p, image[v][p] # NoData
                   PROVE  image[v][q] # NoData
      BY DEF Shaped
    <3>2. PICK n \in Nat : \A r \in Page : image[v][r] # NoData <=> r <= n BY <1>5
    <3>3. p <= n BY <3>1, <3>2
    <3>4. q <= n BY <3>1, <3>3, Units
    <3> QED BY <3>2, <3>4
  <2>2. Sized(hdr0) BY <1>1, <1>2 DEF Sized
  <2> QED BY <1>1, <1>2, <1>5, <2>1, <2>2 DEF ImageInv
<1>9. DataInv
  <2>1. \A p \in Page : LogFrame(wal, p, hdr0.mxFrame) = 0
    <3>1. \A i \in FrameNo : ~(i <= hdr0.mxFrame) BY <1>1, <1>2, Units
    <3> QED BY <3>1, LogFrameIs
  <2>2. Shows(hdr0) BY <1>1, <1>2, <1>5, <2>1 DEF Shows, Content
  <2>3. Whole(hdr0.ver) BY <1>1, <1>2, <1>5 DEF Whole
  <2> QED BY <2>1, <2>2, <2>3 DEF DataInv
<1>10. TailInv BY <1>1, <1>2 DEF TailInv
<1>11. OldLogInv BY <1>1, <1>2 DEF OldLogInv
<1>12. ASSUME NEW c \in Conn PROVE DataKnown(c)
  <2>1. /\ pc[c] = "idle" /\ op[c] = "none" /\ txn[c] = 0 /\ spilled[c] = {} /\ todo[c] = {}
        /\ hdr[c].ver = 0 /\ hdr0.ver = 0
    BY <1>1, <1>2
  <2>2. VerOK(c) /\ PendOK(c) BY <2>1 DEF VerOK, PendOK
  <2>3. FrameOK(c) BY <2>1 DEF FrameOK, InTxn
  <2>4. IndexOK(c) /\ ReadOK(c) /\ RecOK(c) BY <2>1 DEF IndexOK, ReadOK, RecOK
  <2>5. CopyOK(c) /\ PromiseOK(c) BY <2>1 DEF CopyOK, CkptCopying, PromiseOK
  <2> QED BY <2>2, <2>3, <2>4, <2>5 DEF DataKnown
<1> QED BY <1>6, <1>7, <1>8, <1>9, <1>10, <1>11, <1>12 DEF SnapshotInv

(* A step that changes nothing keeps it. *)
LEMMA SnapshotStutter ==
  ASSUME SnapshotInv, UNCHANGED vars
  PROVE  SnapshotInv'
<1> USE DEF vars
<1>1. FreshInv' /\ IndexInv' BY DEF SnapshotInv, FreshInv, IndexInv
<1>2. ImageInv' BY DEF SnapshotInv, ImageInv, Sized, Shaped
<1>3. DataInv' BY DEF SnapshotInv, DataInv, Shows, Whole, Content
<1>4. TailInv'
  <2>1. \A n \in FrameNo : CommitOK(n) => CommitOK(n)' BY DEF CommitOK
  <2> QED BY <2>1 DEF SnapshotInv, TailInv
<1>5. OldLogInv'
  <2>1. View(walHdr, wal, db)' = View(walHdr, wal, db) OBVIOUS
  <2>2. Recoverable => Recoverable'
    <3>1. SUFFICES ASSUME Recoverable PROVE Recoverable' OBVIOUS
    <3>2. PICK v \in Txn : v >= latest /\ image[v][1] # NoData /\ image[v] = View(walHdr, wal, db)
      BY <3>1 DEF Recoverable
    <3>3. v >= latest' /\ image'[v][1] # NoData /\ image'[v] = View(walHdr, wal, db)'
      BY <2>1, <3>2
    <3> QED BY <3>3 DEF Recoverable
  <2> QED BY <2>2 DEF SnapshotInv, OldLogInv
<1>6. ASSUME NEW c \in Conn PROVE DataKnown(c)'
  <2>1. DataKnown(c) BY DEF SnapshotInv
  <2>2. VerOK(c)' /\ PendOK(c)' BY <2>1 DEF DataKnown, VerOK, PendOK, InTxn, Mine, Top
  <2>3. FrameOK(c)' BY <2>1 DEF DataKnown, FrameOK, InTxn, Mine, Top
  <2>4. IndexOK(c)' BY <2>1 DEF DataKnown, IndexOK, Indexed
  <2>5. ReadOK(c)' BY <2>1 DEF DataKnown, ReadOK, Sized, Shows, Whole, Content
  <2>6. CopyOK(c)'
    <3>1. SameLog(hdr[c]) => SameLog(hdr[c])' BY DEF SameLog
    <3>2. Whole(hdr0.ver) => Whole(hdr0.ver)' BY DEF Whole
    <3> QED BY <2>1, <3>1, <3>2 DEF DataKnown, CopyOK, CkptCopying
  <2>7. PromiseOK(c)' /\ RecOK(c)' BY <2>1 DEF DataKnown, PromiseOK, RecOK, Chain
  <2> QED BY <2>2, <2>3, <2>4, <2>5, <2>6, <2>7 DEF DataKnown
<1> QED BY <1>1, <1>2, <1>3, <1>4, <1>5, <1>6 DEF SnapshotInv

(* Every step keeps it. *)
LEMMA SnapshotStep ==
  ASSUME NoRaces, NoPowerLoss, TypeOK, LockInv, BackfillInv, SnapshotInv,
         TypeOK', LockInv', BackfillInv', [Next]_vars
  PROVE  SnapshotInv'
<1>0. Sound /\ Sound' BY DEF Sound
<1>1. CASE UNCHANGED vars BY <1>1, SnapshotStutter
<1>2. CASE PowerFail
  <2>1. nPower \in Nat /\ nPower < 0 BY <1>2 DEF PowerFail, NoPowerLoss, TypeOK, BoundTypeOK
  <2> QED BY <2>1
<1>3. ASSUME NEW c \in Conn, Step(c) PROVE SnapshotInv'
  <2>1. FreshInv' /\ IndexInv' /\ ImageInv' BY <1>0, <1>3, FreshStep, IndexStep, ImageStep
  <2>2. DataInv' /\ TailInv' /\ OldLogInv' BY <1>0, <1>3, DataStep, TailStep, OldLogStep
  <2>3. DataKnown(c)'
    <3>1. VerOK(c)' /\ PendOK(c)' /\ FrameOK(c)' /\ IndexOK(c)'
      BY <1>0, <1>3, VerOwn, PendOwn, FrameOwn, IndexOwn
    <3>2. ReadOK(c)' /\ CopyOK(c)' /\ PromiseOK(c)' /\ RecOK(c)'
      BY <1>0, <1>3, ReadOwn, CopyOwn, PromiseOwn, RecOwn
    <3> QED BY <3>1, <3>2 DEF DataKnown
  <2>4. ASSUME NEW d \in Conn \ {c} PROVE DataKnown(d)'
    <3>1. VerOK(d)' /\ PendOK(d)' /\ FrameOK(d)' /\ IndexOK(d)'
      BY <1>0, <1>3, VerOther, PendOther, FrameOther, IndexOther
    <3>2. ReadOK(d)' /\ CopyOK(d)' /\ PromiseOK(d)' /\ RecOK(d)'
      BY <1>0, <1>3, ReadOther, CopyOther, PromiseOther, RecOther
    <3> QED BY <3>1, <3>2 DEF DataKnown
  <2> QED BY <2>1, <2>2, <2>3, <2>4 DEF SnapshotInv
<1> QED BY <1>1, <1>2, <1>3 DEF Next, Step

-----------------------------------------------------------------------------
(* What it shows, while the machine does not lose power. *)

(* The log, its index, the database file and the images of all transactions agree,
   and every connection knows what it needs of them. *)
THEOREM SnapshotKnown == ASSUME NoRaces, NoPowerLoss PROVE Spec => []SnapshotInv
<1>1. Init => SnapshotInv BY SnapshotInit
<1>2. TypeOK /\ LockInv /\ BackfillInv /\ TypeOK' /\ LockInv' /\ BackfillInv' /\ SnapshotInv
         /\ [Next]_vars => SnapshotInv'
  BY SnapshotStep
<1> QED BY <1>1, <1>2, TypeCorrect, LockSafe, BackfillKnown, PTL DEF Spec

(* Snapshot isolation: the page a reader finds through the wal-index or in the
   database file is that of its snapshot, and a writer's own once it has spilled
   it; the database has the size it had (sqlite3WalRead() and sqlite3WalDbsize(),
   wal.c 2406-2550). *)
THEOREM SnapshotsIsolated == ASSUME NoRaces, NoPowerLoss PROVE Spec => []SnapshotRead
<1>1. ASSUME Sound, SnapshotInv PROVE SnapshotRead
  <2>1. ASSUME NEW c \in Conn, pc[c] \in {"open", "write"}, NEW p \in Page,
               NEW want, want = IF p \in spilled[c] THEN txn[c] ELSE image[hdr[c].ver][p],
               want # NoData
        PROVE  ReadPage(c, p) = want
    <3>0. /\ TypeOK /\ IndexInv /\ DataInv /\ OpOK(c) /\ BaseOK(c) /\ BypassOK(c) /\ FrameOK(c)
          /\ IndexOK(c) /\ ReadOK(c)
      BY <1>1, SoundFacts, DataFacts
    <3>a. hdr0.mxFrame \in Nat /\ hdr[c].mxFrame \in Nat /\ nBackfill \in Nat
      BY <3>0, Nums
    <3> DEFINE n == hdr[c].mxFrame
               f == LogFrame(wal, p, n)
    <3>b. /\ f \in FrameNo \cup {0} /\ (f # 0 => f \in FrameNo /\ f <= n /\ wal[f].pg = p)
          /\ (\A i \in FrameNo : i <= n /\ wal[i].pg = p => i <= f /\ f # 0) /\ f \in Nat
      BY LogFrameIs, Units
    <3>1. CASE pc[c] = "open"
      <4>1. spilled[c] = {} BY <3>0, <3>1 DEF FrameOK, InTxn, OpOK
      <4>2. want = image[hdr[c].ver][p] BY <2>1, <4>1
      <4>3. CASE readLock[c] = 0
        <5>1. db[p] = image[hdr[c].ver][p] BY <3>0, <3>1, <4>3 DEF ReadOK, Whole
        <5> QED BY <4>2, <4>3, <5>1 DEF ReadPage
      <4>4. CASE readLock[c] # 0
        <5>1. n <= hdr0.mxFrame /\ want = Content(p, n)
          BY <2>1, <3>0, <3>1, <4>2, <4>4 DEF ReadOK, Shows
        <5>2. Indexed(n) BY <3>0, <3>a, <5>1, Units DEF IndexInv, Indexed
        <5>3. LastFrame(p, n) = f BY <5>2, LogFrameIndex
        <5> QED BY <4>4, <5>1, <5>3 DEF ReadPage, Content
      <4> QED BY <4>3, <4>4
    <3>2. CASE pc[c] = "write"
      <4>1. InTxn(c) /\ todo[c] = {} /\ hdr[c].ver = hdr0.ver /\ hdr0.mxFrame <= n
        BY <3>0, <3>a, <3>2 DEF InTxn, FrameOK, BaseOK, InBase
      <4>2. CASE readLock[c] = 0
        <5>1. spilled[c] = {} /\ nBackfill = hdr0.mxFrame
          BY <3>0, <3>2, <4>2 DEF FrameOK, BypassOK
        <5>2. db[p] = image[hdr0.ver][p] BY <3>0, <3>a, <5>1 DEF DataInv, Whole
        <5> QED BY <2>1, <4>1, <4>2, <5>1, <5>2 DEF ReadPage
      <4>3. CASE readLock[c] # 0
        <5>1. Indexed(n) BY <3>0, <3>2 DEF IndexOK
        <5>2. LastFrame(p, n) = f BY <5>1, LogFrameIndex
        <5>3. ReadPage(c, p) = Content(p, n) BY <4>3, <5>2 DEF ReadPage, Content
        <5>4. Mine(c) = {i \in FrameNo : hdr0.mxFrame < i /\ i <= n} BY <3>2 DEF Mine, Top
        <5>5. /\ \A i \in Mine(c) : wal[i].txn = txn[c] /\ wal[i].pg \in spilled[c]
              /\ \A q \in spilled[c] : \E i \in Mine(c) : wal[i].pg = q
          BY <3>0, <3>2, <4>1 DEF FrameOK
        <5> HIDE DEF f
        <5>6. CASE p \in spilled[c]
          <6>1. PICK i \in Mine(c) : wal[i].pg = p BY <5>5, <5>6
          <6>2. i \in FrameNo /\ i \in Nat /\ hdr0.mxFrame < i /\ i <= f /\ f # 0
            BY <3>b, <5>4, <6>1, Units
          <6>3. f \in Mine(c) BY <3>a, <3>b, <5>4, <6>2
          <6>4. wal[f].txn = txn[c] BY <5>5, <6>3
          <6> QED BY <2>1, <5>3, <5>6, <6>2, <6>4 DEF Content, f
        <5>7. CASE p \notin spilled[c]
          <6>1. want = Content(p, hdr0.mxFrame)
            BY <2>1, <3>0, <4>1, <5>7 DEF DataInv, Shows
          <6>2. f <= hdr0.mxFrame
            <7>1. SUFFICES ASSUME ~(f <= hdr0.mxFrame) PROVE FALSE OBVIOUS
            <7>2. f # 0 /\ hdr0.mxFrame < f BY <3>a, <3>b, <7>1
            <7>3. f \in Mine(c) /\ wal[f].pg = p BY <3>b, <5>4, <7>2
            <7> QED BY <5>5, <5>7, <7>3
          <6>3. LogFrame(wal, p, hdr0.mxFrame) = f BY <3>a, <4>1, <6>2, LogFrameCut DEF f
          <6> QED BY <5>3, <6>1, <6>3 DEF Content, f
        <5> QED BY <5>6, <5>7
      <4> QED BY <4>2, <4>3
    <3> QED BY <2>1, <3>1, <3>2
  <2>2. ASSUME NEW c \in Conn, pc[c] = "open", NEW p \in Page
        PROVE  image[hdr[c].ver][p] # NoData <=> p <= DbSize(c)
    <3>0. TypeOK /\ ImageInv /\ ReadOK(c) BY <1>1, SoundFacts, DataFacts
    <3>1. CASE hdr[c].nPage # 0
      BY <2>2, <3>0, <3>1 DEF ReadOK, Sized, DbSize
    <3>2. CASE hdr[c].nPage = 0
      <4> DEFINE v == hdr[c].ver
                 S == {q \in Page : db[q] # NoData} \cup {0}
                 m == Max(S)
      <4>1. Whole(v) /\ v \in Txn BY <2>2, <3>0, <3>2, Nums DEF ReadOK
      <4>2. DbSize(c) = m BY <3>2 DEF DbSize, FileSize
      <4>3. NPages \in Nat /\ S \in SUBSET (0 .. NPages) /\ S # {}
        BY WalAssumption DEF Page
      <4>4. m \in S /\ \A x \in S : x <= m BY <4>3, MaxIn, MaxUpper
      <4>5. image[v][p] # NoData => p <= m BY <4>1, <4>4 DEF Whole
      <4>6. p <= m => image[v][p] # NoData
        <5>1. m # 0 /\ p <= m => m \in Page /\ image[v][m] # NoData BY <4>1, <4>4 DEF Whole
        <5>2. p <= m => m # 0 BY Units
        <5> QED BY <3>0, <4>1, <5>1, <5>2 DEF ImageInv, Shaped
      <4> QED BY <4>2, <4>5, <4>6
    <3> QED BY <3>1, <3>2
  <2> QED BY <2>1, <2>2 DEF SnapshotRead
<1>2. TypeOK /\ LockInv /\ BackfillInv /\ SnapshotInv => SnapshotRead BY <1>1 DEF Sound
<1> QED BY <1>2, TypeCorrect, LockSafe, BackfillKnown, SnapshotKnown, PTL

(* Whatever processes die and whatever calls fail, the files recovered from scratch
   give the database after a transaction, and none older than the last published
   (walIndexRecover(), wal.c 1096-1259). *)
THEOREM FilesRecoverable == ASSUME NoRaces, NoPowerLoss PROVE Spec => []Recoverable
<1>1. TypeOK /\ LockInv /\ BackfillInv /\ SnapshotInv => Recoverable
  BY AlwaysRecoverable DEF Sound
<1> QED BY <1>1, TypeCorrect, LockSafe, BackfillKnown, SnapshotKnown, PTL

(* A FULL or RESTART checkpoint that returns SQLITE_OK has the newest database in
   the file (the end of walCheckpoint(), wal.c 1840-1850, and the result of
   sqlite3WalCheckpoint(), wal.c 3189: one that became a passive one is busy). *)
THEOREM CkptKeepsPromise == ASSUME NoRaces, NoPowerLoss PROVE Spec => []CkptPromise
<1>1. ASSUME Sound, SnapshotInv PROVE CkptPromise
  <2>1. ASSUME NEW c \in Conn, pc[c] = "ckEnd", mode[c] # "passive", Result(c) = "ok"
        PROVE  nBackfill = hdr0.mxFrame /\ \A p \in Page : image[hdr0.ver][p] = db[p]
    <3>0. /\ TypeOK /\ OpOK(c) /\ PromiseOK(c) /\ DataInv BY <1>1, SoundFacts, DataFacts
    <3>1. mode[c] \in {"full", "restart"} /\ rc[c] = "ok"
      <4>1. mode[c] \in {"passive", "full", "restart", "degraded"} /\ rc[c] \in {"ok", "busy", "error"}
        BY <3>0, FrameShapes
      <4>2. rc[c] = "ok" /\ mode[c] # "degraded" BY <2>1, <4>1 DEF Result
      <4> QED BY <2>1, <4>1, <4>2
    <3>2. op[c] = "ckpt" BY <3>0, <3>1 DEF OpOK
    <3>3. HasWrite(c) BY <2>1, <3>1, <3>2 DEF HasWrite
    <3>4. nBackfill <= hdr0.mxFrame BY <1>1, <2>1, <3>3, FillBelow
    <3>5. nBackfill >= hdr0.mxFrame BY <2>1, <3>0, <3>1, <3>2 DEF PromiseOK
    <3>6. nBackfill = hdr0.mxFrame BY <3>0, <3>4, <3>5, Nums
    <3> QED BY <3>0, <3>5, <3>6 DEF DataInv, Whole
  <2> QED BY <2>1 DEF CkptPromise
<1>2. TypeOK /\ LockInv /\ BackfillInv /\ SnapshotInv => CkptPromise BY <1>1 DEF Sound
<1> QED BY <1>2, TypeCorrect, LockSafe, BackfillKnown, SnapshotKnown, PTL
=============================================================================
