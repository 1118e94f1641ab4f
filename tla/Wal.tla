-------------------------------- MODULE Wal --------------------------------
(***************************************************************************)
(* The write-ahead log of wal.c: readers, one writer at a time,            *)
(* checkpointers, restart of the log, recovery of the wal-index, the death *)
(* of a process between any two steps and the loss of power.               *)
(*                                                                         *)
(* One action is one access to shared memory, to a lock or to a file; what *)
(* a connection does on its own data rides along with the access next to   *)
(* it.  pc[c] is the place in the code where connection c stands.          *)
(*                                                                         *)
(* Data.  A transaction is a number, given when it first writes frames; a  *)
(* page's content is the number of the transaction that wrote it.  A       *)
(* cumulative checksum is the transaction that wrote the last frame it     *)
(* covers: with the frame's position that names one prefix of the log.     *)
(***************************************************************************)
EXTENDS ShmLock, FiniteSetsExt

CONSTANTS
    Readers, Writers, Ckpters,  \* which connections read, write, checkpoint
    NPages,          \* bound: pages of the largest database
    InitSize,        \* pages of the database file at the start
    Batches,         \* the calls of sqlite3WalFrames(): [pages, size, sync], size 0
                     \* for a cache spill, nTruncate for a commit; sync is
                     \* sync_flags & WAL_SYNC_TRANSACTIONS (synchronous=FULL)
    Modes,           \* checkpoint modes in use: "passive", "full", "restart"
    SyncCkpt,        \* sync_flags # 0 (synchronous is not OFF)
    SyncHeader,      \* pWal->syncHeader
    MaxFrame,        \* bound: frames in the log
    MaxTxn,          \* bound: transactions that write frames
    MaxSalt,         \* bound: salts drawn
    MaxRetry,        \* bound on attempts to open a snapshot (100 in the code)
    MaxCrash,        \* bound: deaths of a process
    MaxPowerFail,    \* bound: losses of power
    IoErrors,        \* may a read, write or sync fail
    AllowRestartRace,   \* a restart may reset nBackfill while a checkpoint is
                        \* between its reads of the header and of nBackfill
    AllowRestartCrash,  \* a process may die in walRestartLog() between the
                        \* header and the reset of nBackfill
    AllowRecoverRace    \* a recovery may reset nBackfill while a reader is
                        \* between its reads of nBackfill and of its lock

ASSUME WalAssumption ==
    /\ Readers \subseteq Conn /\ Writers \subseteq Conn /\ Ckpters \subseteq Conn
    /\ NPages \in Nat \ {0} /\ InitSize \in 1 .. NPages
    /\ Batches \subseteq [pages : (SUBSET (1 .. NPages)) \ {{}}, size : 0 .. NPages,
                          sync : BOOLEAN]
    /\ Modes \subseteq {"passive", "full", "restart"}
    /\ {MaxFrame, MaxTxn, MaxSalt, MaxRetry} \subseteq Nat \ {0}
    /\ {MaxCrash, MaxPowerFail} \subseteq Nat
    /\ {SyncCkpt, SyncHeader, IoErrors} \subseteq BOOLEAN
    /\ {AllowRestartRace, AllowRestartCrash, AllowRecoverRace} \subseteq BOOLEAN

Page == 1 .. NPages
FrameNo == 1 .. MaxFrame
Txn == 0 .. MaxTxn

NoData == -1                    \* a page past the end of the file
Torn == -2                      \* a page or header half written when power failed
Value == Txn \cup {NoData, Torn}
NoVer == -1                     \* no snapshot: the page cache is empty
NotUsed == MaxFrame + 1         \* READMARK_NOT_USED, larger than any frame

(* The fields of WalIndexHdr that change while a database is in use.  ver is
   a ghost: the transaction whose database image the header stands for. *)
Hdr == [isInit : BOOLEAN, iChange : Nat, salt : Nat, mxFrame : Nat,
        nPage : Nat, cksum : Txn, ver : Txn]
NoHdr == [isInit |-> FALSE, iChange |-> 0, salt |-> 0, mxFrame |-> 0,
          nPage |-> 0, cksum |-> 0, ver |-> 0]

(* The header of the log file, and whether its checkpoint number is non-zero. *)
WalHdr == [salt : Nat, ckpt : BOOLEAN, ok : BOOLEAN]
NoWalHdr == [salt |-> 0, ckpt |-> FALSE, ok |-> FALSE]

(* A frame; size is nTruncate of a commit frame, prev the checksum it chains on. *)
Frame == [salt : Nat, pg : Nat, size : Nat, txn : Txn, prev : Txn]
NoFrame == [salt |-> 0, pg |-> 0, size |-> 0, txn |-> 0, prev |-> 0]

Image == [Page -> Txn \cup {NoData}]

VARIABLES
    hdr0, hdr1,      \* shared: the two copies aHdr[0] and aHdr[1]
    nBackfill,       \* shared: WalCkptInfo.nBackfill
    aReadMark,       \* shared: WalCkptInfo.aReadMark[1..]
    aPgno,           \* shared: the page number of every indexed frame
    walHdr, wal, db, \* the files as read() returns them
    walHdrOld, walOld, dbOld,  \* what a crash may leave on disk instead
    pc, op, cnt, changed,      \* private: control, of an attempt to open too
    hdr,             \* private: pWal->hdr
    readLock,        \* private: pWal->readLock, -1 when none
    slot, mxI, mxMark,         \* private: the loops over the read marks
    cacheVer,        \* private: the snapshot the page cache was read from
    reset,           \* private: pWal->nCkpt # 0
    txn, spilled,    \* private: the transaction and the pages it has put in the log
    todo, newSize, newSync,    \* private: what sqlite3WalFrames() has still to do
    iFrame, iIdx,    \* private: last frame written, last frame indexed
    mode, rc,        \* private: eMode2, "degraded" when it is PASSIVE in place of
                     \* eMode, and the result of a checkpoint
    mxSafe, ckFill, iter,      \* private: mxSafeFrame, nBackfill, WalIterator
    image,           \* ghost: the database after each transaction
    latest, durable, \* ghost: last transaction published, last one that is safe
    nextTxn, nextSalt, nCrash, nPower   \* bounded counters

shmVars == <<hdr0, hdr1, nBackfill, aReadMark, aPgno>>
fileVars == <<walHdr, wal, db, walHdrOld, walOld, dbOld>>
openVars == <<op, cnt, changed, slot, mxI, mxMark>>
connVars == <<hdr, readLock, cacheVer, reset>>
writeVars == <<txn, spilled, todo, newSize, newSync, iFrame, iIdx>>
ckptVars == <<mode, rc, mxSafe, ckFill, iter>>
ghostVars == <<image, latest, durable>>
boundVars == <<nextTxn, nextSalt, nCrash, nPower>>
vars == <<lockVars, shmVars, fileVars, pc, openVars, connVars, writeVars,
          ckptVars, ghostVars, boundVars>>

-----------------------------------------------------------------------------
(* Helpers. *)

UpTo(n) == [p \in Page |-> IF p <= n THEN 0 ELSE NoData]
EmptyHdr == [NoHdr EXCEPT !.isInit = TRUE]

(* The state after the first connection has recovered an absent log. *)
Init ==
    /\ LockInit
    /\ hdr0 = EmptyHdr /\ hdr1 = EmptyHdr /\ nBackfill = 0
    /\ aReadMark = [i \in Slot |-> NotUsed]
    /\ aPgno = [i \in FrameNo |-> 0]
    /\ walHdr = NoWalHdr /\ wal = [i \in FrameNo |-> NoFrame]
    /\ db = UpTo(InitSize)
    /\ walHdrOld = {} /\ walOld = [i \in FrameNo |-> {}] /\ dbOld = [p \in Page |-> {}]
    /\ pc = [c \in Conn |-> "idle"] /\ op = [c \in Conn |-> "none"]
    /\ cnt = [c \in Conn |-> 0] /\ changed = [c \in Conn |-> FALSE]
    /\ slot = [c \in Conn |-> 0] /\ mxI = [c \in Conn |-> 0]
    /\ mxMark = [c \in Conn |-> 0]
    /\ hdr = [c \in Conn |-> NoHdr] /\ readLock = [c \in Conn |-> -1]
    /\ cacheVer = [c \in Conn |-> NoVer] /\ reset = [c \in Conn |-> FALSE]
    /\ txn = [c \in Conn |-> 0] /\ spilled = [c \in Conn |-> {}]
    /\ todo = [c \in Conn |-> {}] /\ newSize = [c \in Conn |-> 0]
    /\ newSync = [c \in Conn |-> FALSE]
    /\ iFrame = [c \in Conn |-> 0] /\ iIdx = [c \in Conn |-> 0]
    /\ mode = [c \in Conn |-> "passive"] /\ rc = [c \in Conn |-> "ok"]
    /\ mxSafe = [c \in Conn |-> 0] /\ ckFill = [c \in Conn |-> 0]
    /\ iter = [c \in Conn |-> {}]
    /\ image = [t \in Txn |-> UpTo(IF t = 0 THEN InitSize ELSE 0)]
    /\ latest = 0 /\ durable = 0
    /\ nextTxn = 1 /\ nextSalt = 1 /\ nCrash = 0 /\ nPower = 0

Goto(c, l) == pc' = [pc EXCEPT ![c] = l]

(* The number of pages of the database file. *)
FileSize == Max({p \in Page : db[p] # NoData} \cup {0})

(* sqlite3WalDbsize(), and the file's size when the log says nothing. *)
DbSize(c) == IF hdr[c].nPage # 0 THEN hdr[c].nPage ELSE FileSize

(* Mutant: the search stops at the first frame it meets. *)
LastFrame_First(p, n) ==
    LET F == {i \in FrameNo : i <= n /\ aPgno[i] = p} IN IF F = {} THEN 0 ELSE Min(F)

(* The last frame of page p among the first n of the index, 0 when none. *)
LastFrame(p, n) == Max({i \in FrameNo : i <= n /\ aPgno[i] = p} \cup {0})

(* sqlite3WalRead() and, when the page is not in the log, the database. *)
ReadPage(c, p) ==
    LET f == IF readLock[c] = 0 THEN 0 ELSE LastFrame(p, hdr[c].mxFrame)
    IN  IF f = 0 THEN db[p] ELSE wal[f].txn

(* memcmp(walIndexHdr(pWal), &pWal->hdr): somebody has moved the log on. *)
HdrMoved(c) == hdr0 # hdr[c]

(* walIndexTryHdr(): both copies the same, and initialised.  A copy torn by
   a concurrent write counts as different (module WalHdr). *)
HdrGood == hdr0 = hdr1 /\ hdr0.isInit

LoadHdr(c) ==
    /\ hdr' = [hdr EXCEPT ![c] = hdr0]
    /\ changed' = [changed EXCEPT ![c] = IF hdr0 = hdr[c] THEN @ ELSE TRUE]

(* The frames walDecodeFrame() accepts in log file <<wh, w>>: the salt is
   that of the log header and the checksum goes on from the frame before. *)
FrameOk(wh, w, i) ==
    /\ w[i].pg # 0
    /\ w[i].salt = wh.salt
    /\ w[i].prev = IF i = 1 THEN 0 ELSE w[i - 1].txn

ValidLen(wh, w) ==
    IF wh.ok THEN Max({n \in 0 .. MaxFrame : \A i \in 1 .. n : FrameOk(wh, w, i)}) ELSE 0

(* Mutant: the frames after the last commit are recovered too. *)
LastCommit_Any(wh, w) == ValidLen(wh, w)
LastCommit(wh, w) == Max({i \in 1 .. ValidLen(wh, w) : w[i].size # 0} \cup {0})

-----------------------------------------------------------------------------
(* Opening a snapshot: walTryBeginRead() and its callers. *)

(* The attempt failed with an error other than WAL_RETRY.  A reader's pager
   empties its cache; a writer, whose READ_LOCK(0) is gone, must roll back. *)
OpenFails(c) ==
    IF op[c] = "read"
      THEN /\ Goto(c, "idle")
           /\ cacheVer' = [cacheVer EXCEPT ![c] = NoVer]
           /\ op' = [op EXCEPT ![c] = "none"]
           /\ cnt' = [cnt EXCEPT ![c] = 0] /\ changed' = [changed EXCEPT ![c] = FALSE]
      ELSE /\ Goto(c, "failed")
           /\ op' = [op EXCEPT ![c] = "none"] /\ cnt' = [cnt EXCEPT ![c] = 0]
           /\ UNCHANGED <<cacheVer, changed>>

(* WAL_RETRY, and SQLITE_PROTOCOL after too many attempts.  A writer that
   has restarted the log does not read the header again (useWal). *)
Retry(c) ==
    /\ slot' = [slot EXCEPT ![c] = IF op[c] = "read" \/ cnt[c] >= MaxRetry THEN 0 ELSE 1]
    /\ mxI' = [mxI EXCEPT ![c] = 0] /\ mxMark' = [mxMark EXCEPT ![c] = 0]
    /\ IF cnt[c] >= MaxRetry
         THEN OpenFails(c)
         ELSE /\ Goto(c, IF op[c] = "read" THEN "readHdr" ELSE "scan")
              /\ cnt' = [cnt EXCEPT ![c] = @ + 1]
              /\ UNCHANGED <<op, changed, cacheVer>>

(* The snapshot is open.  The pager drops its cache if the header changed;
   sqlite3WalFrames() goes on with the log header. *)
Opened(c, i) ==
    /\ readLock' = [readLock EXCEPT ![c] = i]
    /\ slot' = [slot EXCEPT ![c] = 0] /\ mxI' = [mxI EXCEPT ![c] = 0]
    /\ mxMark' = [mxMark EXCEPT ![c] = 0] /\ cnt' = [cnt EXCEPT ![c] = 0]
    /\ op' = [op EXCEPT ![c] = "none"]
    /\ changed' = [changed EXCEPT ![c] = FALSE]
    /\ IF op[c] = "read"
         THEN /\ Goto(c, "open")
              /\ cacheVer' = [cacheVer EXCEPT ![c] =
                                IF changed[c] \/ @ = NoVer THEN hdr[c].ver ELSE @]
         ELSE /\ Goto(c, "logHdr") /\ UNCHANGED cacheVer

AfterHdr(c) == Goto(c, IF op[c] = "read" THEN "readBackfill" ELSE "ckStart")

BeginRead(c) ==
    /\ pc[c] = "idle" /\ c \in Readers \cup Writers
    /\ Goto(c, "readHdr")
    /\ op' = [op EXCEPT ![c] = "read"] /\ cnt' = [cnt EXCEPT ![c] = 1]
    /\ UNCHANGED <<lockVars, shmVars, fileVars, changed, slot, mxI, mxMark, connVars,
                   writeVars, ckptVars, ghostVars, boundVars>>

(* walIndexReadHdr(), first attempt without a lock. *)
ReadHdr(c) ==
    /\ pc[c] = "readHdr"
    /\ IF HdrGood THEN LoadHdr(c) /\ AfterHdr(c)
                  ELSE Goto(c, "lockHdr") /\ UNCHANGED <<hdr, changed>>
    /\ UNCHANGED <<lockVars, shmVars, fileVars, op, cnt, slot, mxI, mxMark, readLock,
                   cacheVer, reset, writeVars, ckptVars, ghostVars, boundVars>>

(* SQLITE_BUSY out of walIndexReadHdr(). *)
HdrBusy(c) ==
    IF op[c] = "read"
      THEN Goto(c, "hdrBusy") /\ UNCHANGED rc
      ELSE Goto(c, "ckEnd") /\ rc' = [rc EXCEPT ![c] = "busy"]

LockHdr(c) ==
    /\ pc[c] = "lockHdr"
    /\ \/ LockExclusive(c, {WRITE}) /\ Goto(c, "rereadHdr") /\ UNCHANGED rc
       \/ ~CanExclude({WRITE}) /\ HdrBusy(c) /\ UNCHANGED lockVars
    /\ UNCHANGED <<shmVars, fileVars, openVars, connVars, writeVars, mode, mxSafe,
                   ckFill, iter, ghostVars, boundVars>>

RereadHdr(c) ==
    /\ pc[c] = "rereadHdr"
    /\ IF HdrGood THEN LoadHdr(c) /\ AfterHdr(c) /\ Unlock(c, {WRITE})
                  ELSE /\ Goto(c, "recover")
                       /\ changed' = [changed EXCEPT ![c] = TRUE]
                       /\ UNCHANGED <<hdr, lockVars>>
    /\ UNCHANGED <<shmVars, fileVars, op, cnt, slot, mxI, mxMark, readLock, cacheVer,
                   reset, writeVars, ckptVars, ghostVars, boundVars>>

(* Is the writer that kept us out recovering?  Then give up, else retry. *)
HdrBusyLock(c) ==
    /\ pc[c] = "hdrBusy"
    /\ \/ /\ LockShared(c, RECOVER) /\ Goto(c, "hdrBusyRetry")
          /\ UNCHANGED <<op, cnt, changed, cacheVer>>
       \/ ~CanShare(RECOVER) /\ OpenFails(c) /\ UNCHANGED lockVars
    /\ UNCHANGED <<shmVars, fileVars, slot, mxI, mxMark, hdr, readLock, reset,
                   writeVars, ckptVars, ghostVars, boundVars>>

HdrBusyRetry(c) ==
    /\ pc[c] = "hdrBusyRetry"
    /\ Unlock(c, {RECOVER}) /\ Retry(c)
    /\ UNCHANGED <<shmVars, fileVars, hdr, readLock, reset, writeVars, ckptVars,
                   ghostVars, boundVars>>

StartScan(c) ==
    Goto(c, "scan") /\ slot' = [slot EXCEPT ![c] = 1]

(* Mutant: any part of the log in the database will do. *)
Bypass_Partly(c) == nBackfill <= hdr[c].mxFrame

(* The whole log is in the database: the snapshot may bypass it. *)
Bypass(c) == nBackfill = hdr[c].mxFrame

ReadBackfill(c) ==
    /\ pc[c] = "readBackfill"
    /\ IF Bypass(c) THEN Goto(c, "lockRead0") /\ UNCHANGED slot
                                     ELSE StartScan(c)
    /\ UNCHANGED <<lockVars, shmVars, fileVars, op, cnt, changed, mxI, mxMark,
                   connVars, writeVars, ckptVars, ghostVars, boundVars>>

LockRead0(c) ==
    /\ pc[c] = "lockRead0"
    /\ \/ LockShared(c, READ(0)) /\ Goto(c, "checkRead0") /\ UNCHANGED slot
       \/ ~CanShare(READ(0)) /\ StartScan(c) /\ UNCHANGED lockVars
    /\ UNCHANGED <<shmVars, fileVars, op, cnt, changed, mxI, mxMark,
                   connVars, writeVars, ckptVars, ghostVars, boundVars>>

CheckRead0(c) ==
    /\ pc[c] = "checkRead0"
    /\ IF HdrMoved(c) THEN Unlock(c, {READ(0)}) /\ Retry(c) /\ UNCHANGED readLock
                      ELSE Opened(c, 0) /\ UNCHANGED lockVars
    /\ UNCHANGED <<shmVars, fileVars, hdr, reset, writeVars, ckptVars, ghostVars,
                   boundVars>>

(* Mutant: the loops over the marks run one slot too far. *)
LastSlot_OneTooFar(c) == slot[c] = NReader
LastSlot(c) == slot[c] = NReader - 1

(* Mutant: a mark above the snapshot will do. *)
Better_AnyMark(c) == mxMark[c] <= aReadMark[slot[c]]

(* A mark is of use if it is not above the snapshot, the larger the better. *)
Better(c) == mxMark[c] <= aReadMark[slot[c]] /\ aReadMark[slot[c]] <= hdr[c].mxFrame

(* One turn of the loop that looks for the largest usable mark. *)
ScanMark(c) ==
    LET i == IF Better(c) THEN slot[c] ELSE mxI[c]
        mark == IF Better(c) THEN aReadMark[slot[c]] ELSE mxMark[c]
        grab == mark < hdr[c].mxFrame \/ i = 0
    IN  /\ pc[c] = "scan"
        /\ mxI' = [mxI EXCEPT ![c] = i] /\ mxMark' = [mxMark EXCEPT ![c] = mark]
        /\ slot' = [slot EXCEPT ![c] = IF ~LastSlot(c) THEN @ + 1 ELSE IF grab THEN 1 ELSE 0]
        /\ Goto(c, IF ~LastSlot(c) THEN "scan" ELSE IF grab THEN "grab" ELSE "lockMark")
        /\ UNCHANGED <<lockVars, shmVars, fileVars, op, cnt, changed, connVars,
                       writeVars, ckptVars, ghostVars, boundVars>>

(* No mark is good enough: take the first slot nobody uses, or make do. *)
GrabMark(c) ==
    /\ pc[c] = "grab"
    /\ \/ /\ LockExclusive(c, {READ(slot[c])})
          /\ Goto(c, "setMark") /\ UNCHANGED <<slot, mxI, mxMark, op, cnt, changed, cacheVer>>
       \/ /\ ~CanExclude({READ(slot[c])}) /\ UNCHANGED lockVars
          /\ IF ~LastSlot(c)
               THEN /\ slot' = [slot EXCEPT ![c] = @ + 1]
                    /\ UNCHANGED <<pc, mxI, mxMark, op, cnt, changed, cacheVer>>
               ELSE IF mxI[c] = 0 THEN Retry(c)
               ELSE /\ Goto(c, "lockMark") /\ slot' = [slot EXCEPT ![c] = 0]
                    /\ UNCHANGED <<mxI, mxMark, op, cnt, changed, cacheVer>>
    /\ UNCHANGED <<shmVars, fileVars, hdr, readLock, reset, writeVars, ckptVars,
                   ghostVars, boundVars>>

SetMark(c) ==
    /\ pc[c] = "setMark"
    /\ aReadMark' = [aReadMark EXCEPT ![slot[c]] = hdr[c].mxFrame]
    /\ mxI' = [mxI EXCEPT ![c] = slot[c]]
    /\ mxMark' = [mxMark EXCEPT ![c] = hdr[c].mxFrame]
    /\ slot' = [slot EXCEPT ![c] = 0]
    /\ Unlock(c, {READ(slot[c])})
    /\ Goto(c, "lockMark")
    /\ UNCHANGED <<hdr0, hdr1, nBackfill, aPgno, fileVars, op, cnt, changed, connVars,
                   writeVars, ckptVars, ghostVars, boundVars>>

LockMark(c) ==
    /\ pc[c] = "lockMark"
    /\ \/ /\ LockShared(c, READ(mxI[c])) /\ Goto(c, "checkMark")
          /\ UNCHANGED <<slot, mxI, mxMark, op, cnt, changed, cacheVer>>
       \/ ~CanShare(READ(mxI[c])) /\ Retry(c) /\ UNCHANGED lockVars
    /\ UNCHANGED <<shmVars, fileVars, hdr, readLock, reset, writeVars, ckptVars,
                   ghostVars, boundVars>>

(* Mutant: only one half of the check under the lock. *)
MarkMoved_MarkOnly(c) == aReadMark[mxI[c]] # mxMark[c]

(* Between the choice of the slot and the lock a checkpointer may have come
   to think the slot free, or a writer may have moved the log on. *)
MarkMoved(c) == aReadMark[mxI[c]] # mxMark[c] \/ HdrMoved(c)

CheckMark(c) ==
    /\ pc[c] = "checkMark"
    /\ IF MarkMoved(c)
         THEN Unlock(c, {READ(mxI[c])}) /\ Retry(c) /\ UNCHANGED readLock
         ELSE Opened(c, mxI[c]) /\ UNCHANGED lockVars
    /\ UNCHANGED <<shmVars, fileVars, hdr, reset, writeVars, ckptVars, ghostVars,
                   boundVars>>

(* sqlite3WalEndReadTransaction() of a connection that does not write. *)
EndRead(c) ==
    /\ pc[c] = "open"
    /\ Unlock(c, {READ(readLock[c])})
    /\ readLock' = [readLock EXCEPT ![c] = -1]
    /\ Goto(c, "idle")
    /\ UNCHANGED <<shmVars, fileVars, openVars, hdr, cacheVer, reset, writeVars,
                   ckptVars, ghostVars, boundVars>>

-----------------------------------------------------------------------------
(* Recovery of the wal-index: walIndexRecover(), under WRITE. *)

(* Mutant: recovery does not keep readers out. *)
RecoverLocks_Readers(c) == {RECOVER}
RecoverLocks(c) == {RECOVER} \cup ReadLocks \cup (IF op[c] = "ckpt" THEN {} ELSE {CKPT})

RecoverLock(c) ==
    /\ pc[c] = "recover"
    /\ \/ /\ LockExclusive(c, RecoverLocks(c)) /\ Goto(c, "recScan") /\ UNCHANGED rc
       \/ ~CanExclude(RecoverLocks(c)) /\ HdrBusy(c) /\ Unlock(c, {WRITE})
    /\ UNCHANGED <<shmVars, fileVars, openVars, connVars, writeVars, mode, mxSafe,
                   ckFill, iter, ghostVars, boundVars>>

(* Read the log and index its valid frames, up to the last commit. *)
RecoverScan(c) ==
    /\ pc[c] = "recScan"
    /\ LET valid == ValidLen(walHdr, wal)
           n == LastCommit(walHdr, wal)
       IN  /\ hdr' = [hdr EXCEPT ![c] =
                [isInit |-> TRUE, iChange |-> 0, salt |-> walHdr.salt, mxFrame |-> n,
                 nPage |-> IF n = 0 THEN 0 ELSE wal[n].size,
                 cksum |-> IF n = 0 THEN 0 ELSE wal[n].txn,
                 ver |-> IF n = 0 THEN latest ELSE wal[n].txn]]
           /\ aPgno' = IF valid = 0 THEN aPgno
                       ELSE [i \in FrameNo |-> IF i <= valid THEN wal[i].pg ELSE 0]
    /\ reset' = [reset EXCEPT ![c] = IF walHdr.ok THEN walHdr.ckpt ELSE @]
    /\ Goto(c, "recHdr1")
    /\ UNCHANGED <<lockVars, hdr0, hdr1, nBackfill, aReadMark, fileVars, openVars,
                   readLock, cacheVer, writeVars, ckptVars, ghostVars, boundVars>>

RecoverHdr1(c) ==
    /\ pc[c] = "recHdr1"
    /\ hdr1' = hdr[c]
    /\ Goto(c, "recHdr0")
    /\ UNCHANGED <<lockVars, hdr0, nBackfill, aReadMark, aPgno, fileVars, openVars,
                   connVars, writeVars, ckptVars, ghostVars, boundVars>>

RecoverHdr0(c) ==
    /\ pc[c] = "recHdr0"
    /\ hdr0' = hdr[c]
    /\ latest' = hdr[c].ver
    /\ Goto(c, "recInfo")
    /\ UNCHANGED <<lockVars, hdr1, nBackfill, aReadMark, aPgno, fileVars, openVars,
                   connVars, writeVars, ckptVars, image, durable, boundVars>>

RecoverInfo(c) ==
    /\ pc[c] = "recInfo"
    /\ AllowRecoverRace \/ \A d \in Conn : pc[d] # "lockRead0"
    /\ nBackfill' = 0
    /\ aReadMark' = [i \in Slot |-> IF i = 1 /\ hdr[c].mxFrame # 0
                                      THEN hdr[c].mxFrame ELSE NotUsed]
    /\ Unlock(c, RecoverLocks(c))
    /\ Goto(c, "recDone")
    /\ UNCHANGED <<hdr0, hdr1, aPgno, fileVars, openVars, connVars, writeVars,
                   ckptVars, ghostVars, boundVars>>

RecoverDone(c) ==
    /\ pc[c] = "recDone"
    /\ Unlock(c, {WRITE})
    /\ AfterHdr(c)
    /\ UNCHANGED <<shmVars, fileVars, openVars, connVars, writeVars, ckptVars,
                   ghostVars, boundVars>>

(* The log cannot be read: the private header is left zeroed. *)
RecoverError(c) ==
    /\ IoErrors /\ pc[c] = "recScan"
    /\ hdr' = [hdr EXCEPT ![c] = NoHdr]
    /\ Unlock(c, RecoverLocks(c) \cup {WRITE})
    /\ IF op[c] = "read"
         THEN OpenFails(c) /\ UNCHANGED rc
         ELSE /\ Goto(c, "ckEnd") /\ rc' = [rc EXCEPT ![c] = "error"]
              /\ UNCHANGED <<op, cnt, changed, cacheVer>>
    /\ UNCHANGED <<shmVars, fileVars, slot, mxI, mxMark, readLock, reset, writeVars,
                   mode, mxSafe, ckFill, iter, ghostVars, boundVars>>

-----------------------------------------------------------------------------
(* Write transactions. *)

(* sqlite3WalBeginWriteTransaction().  A snapshot that is no longer the
   newest one cannot be written to: SQLITE_BUSY, nothing changes. *)
BeginWrite(c) ==
    /\ pc[c] = "open" /\ c \in Writers
    /\ ~HdrMoved(c)
    /\ LockExclusive(c, {WRITE})
    /\ Goto(c, "write")
    /\ UNCHANGED <<shmVars, fileVars, openVars, connVars, writeVars, ckptVars,
                   ghostVars, boundVars>>

(* The pager calls sqlite3WalFrames(): to spill dirty pages, or to commit.
   A commit that makes the database grow writes the new pages. *)
BeginFrames(c) ==
    /\ pc[c] = "write"
    /\ \E b \in Batches :
         /\ b.size # 0 =>
              /\ b.pages \subseteq 1 .. b.size
              /\ {p \in 1 .. b.size : image[hdr[c].ver][p] = NoData}
                    \subseteq b.pages \cup spilled[c]
         /\ hdr[c].mxFrame + Cardinality(b.pages) <= MaxFrame
         /\ todo' = [todo EXCEPT ![c] = b.pages]
         /\ spilled' = [spilled EXCEPT ![c] = @ \cup b.pages]
         /\ newSize' = [newSize EXCEPT ![c] = b.size]
         /\ newSync' = [newSync EXCEPT ![c] = b.sync]
    /\ nextSalt <= MaxSalt
    /\ IF txn[c] # 0 THEN UNCHANGED <<txn, nextTxn>>
       ELSE /\ nextTxn <= MaxTxn
            /\ txn' = [txn EXCEPT ![c] = nextTxn]
            /\ nextTxn' = nextTxn + 1
    /\ Goto(c, IF readLock[c] = 0 THEN "restart" ELSE "logHdr")
    /\ UNCHANGED <<lockVars, shmVars, fileVars, openVars, connVars, iFrame, iIdx,
                   ckptVars, ghostVars, nextSalt, nCrash, nPower>>

(* Mutant: the log starts again whoever reads from it. *)
RestartLock_Anyway(c) ==
    /\ pc[c] = "restart"
    /\ \/ /\ nBackfill > 0
          /\ reset' = [reset EXCEPT ![c] = TRUE]
          /\ hdr' = [hdr EXCEPT ![c].mxFrame = 0, ![c].salt = nextSalt]
          /\ nextSalt' = nextSalt + 1
          /\ Goto(c, "restartHdr1")
       \/ nBackfill = 0 /\ Goto(c, "leaveRead0") /\ UNCHANGED <<reset, hdr, nextSalt>>
    /\ UNCHANGED <<lockVars, shmVars, fileVars, openVars, readLock, cacheVer, writeVars,
                   ckptVars, ghostVars, nextTxn, nCrash, nPower>>

(* walRestartLog(): with READ_LOCK(0) the whole log is in the database; if
   nobody reads from it either, it starts again at frame 1. *)
RestartLock(c) ==
    /\ pc[c] = "restart"
    /\ \/ /\ nBackfill > 0 /\ LockExclusive(c, MarkLocks)
          /\ reset' = [reset EXCEPT ![c] = TRUE]
          /\ hdr' = [hdr EXCEPT ![c].mxFrame = 0, ![c].salt = nextSalt]
          /\ nextSalt' = nextSalt + 1
          /\ Goto(c, "restartHdr1")
       \/ /\ nBackfill = 0 \/ ~CanExclude(MarkLocks)
          /\ Goto(c, "leaveRead0")
          /\ UNCHANGED <<lockVars, reset, hdr, nextSalt>>
    /\ UNCHANGED <<shmVars, fileVars, openVars, readLock, cacheVer, writeVars,
                   ckptVars, ghostVars, nextTxn, nCrash, nPower>>

RestartHdr1(c) ==
    /\ pc[c] = "restartHdr1"
    /\ hdr1' = hdr[c]
    /\ Goto(c, "restartHdr0")
    /\ UNCHANGED <<lockVars, hdr0, nBackfill, aReadMark, aPgno, fileVars, openVars,
                   connVars, writeVars, ckptVars, ghostVars, boundVars>>

RestartHdr0(c) ==
    /\ pc[c] = "restartHdr0"
    /\ hdr0' = hdr[c]
    /\ Goto(c, "restartBackfill")
    /\ UNCHANGED <<lockVars, hdr1, nBackfill, aReadMark, aPgno, fileVars, openVars,
                   connVars, writeVars, ckptVars, ghostVars, boundVars>>

(* A checkpointer that has read the header but not yet nBackfill goes wrong
   here; AllowRestartRace = FALSE assumes that there is none. *)
RestartBackfill(c) ==
    /\ pc[c] = "restartBackfill"
    /\ AllowRestartRace \/ \A d \in Conn : pc[d] # "ckStart"
    /\ nBackfill' = 0
    /\ Goto(c, "restartMarks")
    /\ UNCHANGED <<lockVars, hdr0, hdr1, aReadMark, aPgno, fileVars, openVars,
                   connVars, writeVars, ckptVars, ghostVars, boundVars>>

RestartMarks(c) ==
    /\ pc[c] = "restartMarks"
    /\ aReadMark' = [i \in Slot |-> IF i = 1 THEN 0 ELSE NotUsed]
    /\ Unlock(c, MarkLocks)
    /\ Goto(c, "leaveRead0")
    /\ UNCHANGED <<hdr0, hdr1, nBackfill, aPgno, fileVars, openVars,
                   connVars, writeVars, ckptVars, ghostVars, boundVars>>

(* Move to a slot with a mark, the header being the one in hand. *)
LeaveRead0(c) ==
    /\ pc[c] = "leaveRead0"
    /\ Unlock(c, {READ(0)})
    /\ readLock' = [readLock EXCEPT ![c] = -1]
    /\ op' = [op EXCEPT ![c] = "frames"] /\ cnt' = [cnt EXCEPT ![c] = 1]
    /\ StartScan(c)
    /\ UNCHANGED <<shmVars, fileVars, changed, mxI, mxMark, hdr, cacheVer, reset,
                   writeVars, ckptVars, ghostVars, boundVars>>

(* Mutant: frames may reach the disk before the header of their log. *)
HdrNeedsSync_Never == FALSE
HdrNeedsSync == SyncHeader /\ SyncCkpt

(* The header of an empty log goes to the file, with the salt of the restart
   or, for a connection that never reset a log, a new one. *)
LogHdr(c) ==
    /\ pc[c] = "logHdr"
    /\ iFrame' = [iFrame EXCEPT ![c] = hdr[c].mxFrame]
    /\ iIdx' = [iIdx EXCEPT ![c] = hdr[c].mxFrame]
    /\ IF hdr[c].mxFrame # 0
         THEN Goto(c, "frames") /\ UNCHANGED <<hdr, walHdr, walHdrOld, nextSalt>>
         ELSE LET s == IF reset[c] THEN hdr[c].salt ELSE nextSalt
              IN  /\ walHdr' = [salt |-> s, ckpt |-> reset[c], ok |-> TRUE]
                  /\ walHdrOld' = walHdrOld \cup {walHdr, NoWalHdr}
                  /\ hdr' = [hdr EXCEPT ![c].salt = s, ![c].cksum = 0]
                  /\ nextSalt' = IF reset[c] THEN nextSalt ELSE nextSalt + 1
                  /\ Goto(c, IF HdrNeedsSync THEN "syncHdr" ELSE "frames")
    /\ UNCHANGED <<lockVars, shmVars, wal, db, walOld, dbOld, openVars, readLock,
                   cacheVer, reset, txn, spilled, todo, newSize, newSync, ckptVars, ghostVars,
                   nextTxn, nCrash, nPower>>

(* sqlite3OsSync() of the log file. *)
SyncWal == walHdrOld' = {} /\ walOld' = [i \in FrameNo |-> {}]

SyncHdr(c) ==
    /\ pc[c] = "syncHdr"
    /\ SyncWal
    /\ Goto(c, "frames")
    /\ UNCHANGED <<lockVars, shmVars, walHdr, wal, db, dbOld, openVars, connVars,
                   writeVars, ckptVars, ghostVars, boundVars>>

(* One frame: the smallest page first, the commit mark on the last one. *)
WriteFrame(c) ==
    /\ pc[c] = "frames"
    /\ \E p \in todo[c] :
         LET n == iFrame[c] + 1
             last == todo[c] = {p}
             size == IF last THEN newSize[c] ELSE 0
         IN  /\ \A q \in todo[c] : p <= q
             /\ wal' = [wal EXCEPT ![n] = [salt |-> hdr[c].salt, pg |-> p, size |-> size,
                                           txn |-> txn[c], prev |-> hdr[c].cksum]]
             /\ walOld' = [walOld EXCEPT ![n] = @ \cup {wal[n], NoFrame}]
             /\ hdr' = [hdr EXCEPT ![c].cksum = txn[c]]
             /\ iFrame' = [iFrame EXCEPT ![c] = n]
             /\ todo' = [todo EXCEPT ![c] = @ \ {p}]
             /\ image' = IF size = 0 THEN image
                         ELSE [image EXCEPT ![txn[c]] = [q \in Page |->
                                 IF q > size THEN NoData
                                 ELSE IF q \in spilled[c] THEN txn[c]
                                 ELSE image[hdr[c].ver][q]]]
             /\ Goto(c, IF ~last THEN "frames"
                        ELSE IF size # 0 /\ newSync[c] THEN "syncFrames" ELSE "index")
    /\ UNCHANGED <<lockVars, shmVars, walHdr, db, walHdrOld, dbOld, openVars, readLock,
                   cacheVer, reset, txn, spilled, newSize, newSync, iIdx, ckptVars, latest,
                   durable, boundVars>>

SyncFrames(c) ==
    /\ pc[c] = "syncFrames"
    /\ SyncWal
    /\ Goto(c, "index")
    /\ UNCHANGED <<lockVars, shmVars, walHdr, wal, db, dbOld, openVars, connVars,
                   writeVars, ckptVars, ghostVars, boundVars>>

(* walCleanupHash(): forget the frames after the last one of this snapshot. *)
Cleaned(idx, n) ==
    IF n = 0 THEN idx ELSE [i \in FrameNo |-> IF i <= n THEN idx[i] ELSE 0]

(* walIndexAppend() of the next frame.  Frame 1 empties the table; an entry
   left by a writer that rolled back or died is cleaned up first. *)
IndexFrame(c) ==
    /\ pc[c] = "index"
    /\ LET n == iIdx[c] + 1
           fresh == IF n = 1 THEN [i \in FrameNo |-> 0] ELSE aPgno
           free == IF fresh[n] = 0 THEN fresh ELSE Cleaned(fresh, hdr[c].mxFrame)
       IN  /\ aPgno' = [free EXCEPT ![n] = wal[n].pg]
           /\ iIdx' = [iIdx EXCEPT ![c] = n]
           /\ Goto(c, IF n = iFrame[c] THEN "framesDone" ELSE "index")
    /\ UNCHANGED <<lockVars, hdr0, hdr1, nBackfill, aReadMark, fileVars, openVars,
                   connVars, txn, spilled, todo, newSize, newSync, iFrame, ckptVars, ghostVars,
                   boundVars>>

(* The private header takes the frames in; a commit goes on to publish it,
   the copy aHdr[1] first. *)
FramesDone(c) ==
    /\ pc[c] = "framesDone"
    /\ hdr' = [hdr EXCEPT ![c] =
         IF newSize[c] = 0 THEN [hdr[c] EXCEPT !.mxFrame = iFrame[c]]
         ELSE [hdr[c] EXCEPT !.mxFrame = iFrame[c], !.iChange = hdr[c].iChange + 1,
                             !.nPage = newSize[c], !.ver = txn[c]]]
    /\ Goto(c, IF newSize[c] = 0 THEN "write" ELSE "publish1")
    /\ UNCHANGED <<lockVars, shmVars, fileVars, openVars, readLock, cacheVer, reset,
                   writeVars, ckptVars, ghostVars, boundVars>>

Publish1(c) ==
    /\ pc[c] = "publish1"
    /\ hdr1' = hdr[c]
    /\ Goto(c, "publish0")
    /\ UNCHANGED <<lockVars, hdr0, nBackfill, aReadMark, aPgno, fileVars, openVars,
                   connVars, writeVars, ckptVars, ghostVars, boundVars>>

Publish0(c) ==
    /\ pc[c] = "publish0"
    /\ hdr0' = hdr[c]
    /\ latest' = txn[c]
    /\ durable' = IF newSync[c] THEN txn[c] ELSE durable
    /\ cacheVer' = [cacheVer EXCEPT ![c] = txn[c]]
    /\ Goto(c, "committed")
    /\ UNCHANGED <<lockVars, hdr1, nBackfill, aReadMark, aPgno, fileVars, openVars,
                   hdr, readLock, reset, writeVars, ckptVars, image, boundVars>>

(* The fields of a write transaction, once it is over. *)
ForgetTxn(c) ==
    /\ txn' = [txn EXCEPT ![c] = 0] /\ spilled' = [spilled EXCEPT ![c] = {}]
    /\ todo' = [todo EXCEPT ![c] = {}] /\ newSize' = [newSize EXCEPT ![c] = 0]
    /\ newSync' = [newSync EXCEPT ![c] = FALSE]
    /\ iFrame' = [iFrame EXCEPT ![c] = 0] /\ iIdx' = [iIdx EXCEPT ![c] = 0]

(* sqlite3WalEndWriteTransaction() after a commit: back to reading. *)
EndWrite(c) ==
    /\ pc[c] = "committed"
    /\ Unlock(c, {WRITE})
    /\ ForgetTxn(c)
    /\ Goto(c, "open")
    /\ UNCHANGED <<shmVars, fileVars, openVars, connVars, ckptVars, ghostVars, boundVars>>

(* sqlite3WalFrames() fails in a write or a sync. *)
FramesError(c) ==
    /\ IoErrors /\ pc[c] \in {"logHdr", "syncHdr", "frames", "syncFrames"}
    /\ Goto(c, "failed")
    /\ UNCHANGED <<lockVars, shmVars, fileVars, openVars, connVars, writeVars,
                   ckptVars, ghostVars, boundVars>>

(* Rollback: sqlite3WalUndo() and the end of the write transaction; a
   connection that lost its read lock on the way ends the read as well. *)
Rollback(c) ==
    /\ pc[c] \in {"write", "failed"}
    /\ hdr' = [hdr EXCEPT ![c] = hdr0]
    /\ aPgno' = Cleaned(aPgno, hdr0.mxFrame)
    /\ Unlock(c, {WRITE})
    /\ ForgetTxn(c)
    /\ Goto(c, IF readLock[c] < 0 THEN "idle" ELSE "open")
    /\ UNCHANGED <<hdr0, hdr1, nBackfill, aReadMark, fileVars, openVars, readLock,
                   cacheVer, reset, ckptVars, ghostVars, boundVars>>

-----------------------------------------------------------------------------
(* Checkpoints: sqlite3WalCheckpoint() and walCheckpoint(). *)

CkptBegin(c) ==
    /\ pc[c] = "idle" /\ c \in Ckpters
    /\ LockExclusive(c, {CKPT})
    /\ op' = [op EXCEPT ![c] = "ckpt"]
    /\ \E m \in Modes :
         /\ mode' = [mode EXCEPT ![c] = m]
         /\ Goto(c, IF m = "passive" THEN "readHdr" ELSE "ckWrite")
    /\ UNCHANGED <<shmVars, fileVars, cnt, changed, slot, mxI, mxMark, connVars,
                   writeVars, rc, mxSafe, ckFill, iter, ghostVars, boundVars>>

(* Mutant: the busy handler never gives up. *)
CkptWrite_Waits(c) ==
    /\ pc[c] = "ckWrite"
    /\ LockExclusive(c, {WRITE})
    /\ Goto(c, "readHdr")
    /\ UNCHANGED <<shmVars, fileVars, openVars, connVars, writeVars, ckptVars,
                   ghostVars, boundVars>>

(* FULL and RESTART exclude writers, or fall back to PASSIVE when the busy
   handler gives up; the caller will be told. *)
CkptWrite(c) ==
    /\ pc[c] = "ckWrite"
    /\ \/ LockExclusive(c, {WRITE}) /\ UNCHANGED mode
       \/ /\ ~CanExclude({WRITE}) /\ UNCHANGED lockVars
          /\ mode' = [mode EXCEPT ![c] = "degraded"]
    /\ Goto(c, "readHdr")
    /\ UNCHANGED <<shmVars, fileVars, openVars, connVars, writeVars, rc, mxSafe,
                   ckFill, iter, ghostVars, boundVars>>

(* walIteratorInit(): every page of the log with its last frame. *)
CkptStart(c) ==
    /\ pc[c] = "ckStart"
    /\ IF nBackfill >= hdr[c].mxFrame
         THEN Goto(c, "ckEnd") /\ UNCHANGED <<iter, mxSafe, slot>>
         ELSE /\ iter' = [iter EXCEPT ![c] =
                   {<<p, LastFrame(p, hdr[c].mxFrame)>> : p \in
                      {p \in Page : LastFrame(p, hdr[c].mxFrame) # 0}}]
              /\ mxSafe' = [mxSafe EXCEPT ![c] = hdr[c].mxFrame]
              /\ slot' = [slot EXCEPT ![c] = 1]
              /\ Goto(c, "ckMark")
    /\ UNCHANGED <<lockVars, shmVars, fileVars, op, cnt, changed, mxI, mxMark,
                   connVars, writeVars, mode, rc, ckFill, ghostVars, boundVars>>

NextMark(c) ==
    IF LastSlot(c)
      THEN Goto(c, "ckLock0") /\ slot' = [slot EXCEPT ![c] = 0]
      ELSE Goto(c, "ckMark") /\ slot' = [slot EXCEPT ![c] = @ + 1]

(* A mark below the target: either nobody uses the slot, or the reader that
   does must keep its view of the database file.  mxMark holds y. *)
CkptMark(c) ==
    /\ pc[c] = "ckMark"
    /\ IF mxSafe[c] > aReadMark[slot[c]]
         THEN /\ mxMark' = [mxMark EXCEPT ![c] = aReadMark[slot[c]]]
              /\ Goto(c, "ckMarkLock") /\ UNCHANGED slot
         ELSE NextMark(c) /\ UNCHANGED mxMark
    /\ UNCHANGED <<lockVars, shmVars, fileVars, op, cnt, changed, mxI, connVars,
                   writeVars, ckptVars, ghostVars, boundVars>>

CkptMarkLock(c) ==
    /\ pc[c] = "ckMarkLock"
    /\ \/ /\ LockExclusive(c, {READ(slot[c])})
          /\ Goto(c, "ckMarkSet") /\ UNCHANGED <<slot, mxSafe, mxMark>>
       \/ /\ ~CanExclude({READ(slot[c])}) /\ UNCHANGED lockVars
          /\ mxSafe' = [mxSafe EXCEPT ![c] = mxMark[c]]
          /\ mxMark' = [mxMark EXCEPT ![c] = 0]
          /\ NextMark(c)
    /\ UNCHANGED <<shmVars, fileVars, op, cnt, changed, mxI, connVars, writeVars,
                   mode, rc, ckFill, iter, ghostVars, boundVars>>

CkptMarkSet(c) ==
    /\ pc[c] = "ckMarkSet"
    /\ aReadMark' = [aReadMark EXCEPT ![slot[c]] = IF slot[c] = 1 THEN mxSafe[c] ELSE NotUsed]
    /\ mxMark' = [mxMark EXCEPT ![c] = 0]
    /\ Unlock(c, {READ(slot[c])})
    /\ NextMark(c)
    /\ UNCHANGED <<hdr0, hdr1, nBackfill, aPgno, fileVars, op, cnt, changed, mxI,
                   connVars, writeVars, ckptVars, ghostVars, boundVars>>

(* The frames to copy: not yet backfilled, safe, inside the database. *)
Wanted(c) == {e \in iter[c] : /\ nBackfill < e[2] /\ e[2] <= mxSafe[c]
                              /\ e[1] <= hdr[c].nPage}

CkptLock0(c) ==
    /\ pc[c] = "ckLock0"
    /\ \/ /\ nBackfill < mxSafe[c] /\ LockExclusive(c, {READ(0)})
          /\ ckFill' = [ckFill EXCEPT ![c] = nBackfill]
          /\ iter' = [iter EXCEPT ![c] = Wanted(c)]
          /\ Goto(c, IF SyncCkpt THEN "ckSync" ELSE "ckCopy")
       \/ /\ nBackfill >= mxSafe[c] \/ ~CanExclude({READ(0)})
          /\ Goto(c, "ckTail") /\ UNCHANGED <<lockVars, ckFill, iter>>
    /\ UNCHANGED <<shmVars, fileVars, openVars, connVars, writeVars, mode, rc, mxSafe,
                   ghostVars, boundVars>>

(* The log is on disk before any of it overwrites the database. *)
CkptSync(c) ==
    /\ pc[c] = "ckSync"
    /\ SyncWal
    /\ durable' = latest
    /\ Goto(c, "ckCopy")
    /\ UNCHANGED <<lockVars, shmVars, walHdr, wal, db, dbOld, openVars, connVars,
                   writeVars, ckptVars, image, latest, boundVars>>

CkptCopy(c) ==
    /\ pc[c] = "ckCopy"
    /\ \/ /\ iter[c] = {} /\ Goto(c, "ckTruncate")
          /\ UNCHANGED <<db, dbOld, iter>>
       \/ \E e \in iter[c] :
            /\ \A d \in iter[c] : e[1] <= d[1]
            /\ db' = [db EXCEPT ![e[1]] = wal[e[2]].txn]
            /\ dbOld' = [dbOld EXCEPT ![e[1]] = @ \cup {db[e[1]], Torn}]
            /\ iter' = [iter EXCEPT ![c] = @ \ {e}]
            /\ UNCHANGED pc
    /\ UNCHANGED <<lockVars, shmVars, walHdr, wal, walHdrOld, walOld, openVars, connVars,
                   writeVars, mode, rc, mxSafe, ckFill, ghostVars, boundVars>>

Shrunk(c) == [p \in Page |-> IF p <= hdr[c].nPage THEN db[p] ELSE NoData]

(* Mutant: the database is not synced after the copy. *)
DbUnsynced_NoSync == [p \in Page |-> dbOld[p] \cup {db[p]}]
DbUnsynced == [p \in Page |-> IF SyncCkpt THEN {} ELSE dbOld[p] \cup {db[p]}]

(* Everything copied: give the database its size and make it durable. *)
CkptTruncate(c) ==
    /\ pc[c] = "ckTruncate"
    /\ IF mxSafe[c] = hdr0.mxFrame
         THEN db' = Shrunk(c) /\ dbOld' = DbUnsynced
         ELSE UNCHANGED <<db, dbOld>>
    /\ Goto(c, "ckBackfill")
    /\ UNCHANGED <<lockVars, shmVars, walHdr, wal, walHdrOld, walOld, openVars,
                   connVars, writeVars, ckptVars, ghostVars, boundVars>>

CkptBackfill(c) ==
    /\ pc[c] = "ckBackfill"
    /\ nBackfill' = mxSafe[c]
    /\ Unlock(c, {READ(0)})
    /\ Goto(c, "ckTail")
    /\ UNCHANGED <<hdr0, hdr1, aReadMark, aPgno, fileVars, openVars, connVars,
                   writeVars, ckptVars, ghostVars, boundVars>>

Short(c) == mode[c] \in {"full", "restart"} /\ nBackfill < hdr[c].mxFrame

(* FULL must have copied everything; RESTART waits for the readers of the
   log to leave, or for the busy handler to give up. *)
CkptTail(c) ==
    /\ pc[c] = "ckTail"
    /\ rc' = [rc EXCEPT ![c] = IF Short(c) THEN "busy" ELSE @]
    /\ Goto(c, IF mode[c] = "restart" /\ ~Short(c) THEN "ckRestart" ELSE "ckEnd")
    /\ UNCHANGED <<lockVars, shmVars, fileVars, openVars, connVars, writeVars, mode,
                   mxSafe, ckFill, iter, ghostVars, boundVars>>

CkptRestart(c) ==
    /\ pc[c] = "ckRestart"
    /\ rc' = [rc EXCEPT ![c] = IF CanExclude(MarkLocks) THEN @ ELSE "busy"]
    /\ Goto(c, "ckEnd")
    /\ UNCHANGED <<lockVars, shmVars, fileVars, openVars, connVars, writeVars, mode,
                   mxSafe, ckFill, iter, ghostVars, boundVars>>

(* Mutant: only a checkpoint that succeeds gives up READ_LOCK(0). *)
CkptError_KeepsLock(c) ==
    /\ IoErrors /\ pc[c] \in {"ckSync", "ckCopy", "ckTruncate"}
    /\ rc' = [rc EXCEPT ![c] = "error"]
    /\ Goto(c, "ckEnd")
    /\ UNCHANGED <<lockVars, shmVars, fileVars, openVars, connVars, writeVars, mode, mxSafe,
                   ckFill, iter, ghostVars, boundVars>>

CkptError(c) ==
    /\ IoErrors /\ pc[c] \in {"ckSync", "ckCopy", "ckTruncate"}
    /\ Unlock(c, {READ(0)})
    /\ rc' = [rc EXCEPT ![c] = "error"]
    /\ Goto(c, "ckEnd")
    /\ UNCHANGED <<shmVars, fileVars, openVars, connVars, writeVars, mode, mxSafe,
                   ckFill, iter, ghostVars, boundVars>>

(* Mutant: the reloaded header is kept. *)
KeptHdr_Always(c) == hdr[c]

(* If the header was reloaded, the page cache is older than it: forget the
   header, so that the next reader sees a change. *)
KeptHdr(c) == IF changed[c] THEN NoHdr ELSE hdr[c]

(* Mutant: the caller is not told of a checkpoint run in a lesser mode. *)
Result_OfCkpt(c) == rc[c]

(* What sqlite3WalCheckpoint() returns (eMode # eMode2 is SQLITE_BUSY). *)
Result(c) == IF rc[c] = "ok" /\ mode[c] = "degraded" THEN "busy" ELSE rc[c]

CkptEnd(c) ==
    /\ pc[c] = "ckEnd"
    /\ hdr' = [hdr EXCEPT ![c] = KeptHdr(c)]
    /\ Unlock(c, {WRITE, CKPT})
    /\ Goto(c, "idle")
    /\ op' = [op EXCEPT ![c] = "none"] /\ changed' = [changed EXCEPT ![c] = FALSE]
    /\ slot' = [slot EXCEPT ![c] = 0]
    /\ mode' = [mode EXCEPT ![c] = "passive"] /\ rc' = [rc EXCEPT ![c] = "ok"]
    /\ mxSafe' = [mxSafe EXCEPT ![c] = 0] /\ ckFill' = [ckFill EXCEPT ![c] = 0]
    /\ iter' = [iter EXCEPT ![c] = {}]
    /\ UNCHANGED <<shmVars, fileVars, cnt, mxI, mxMark, readLock, cacheVer, reset,
                   writeVars, ghostVars, boundVars>>

-----------------------------------------------------------------------------
(* Failures. *)

(* The process of connection c dies; a new one may take its place. *)
Crash(c) ==
    /\ nCrash < MaxCrash /\ pc[c] # "idle"
    /\ AllowRestartCrash \/ pc[c] # "restartBackfill"
    /\ nCrash' = nCrash + 1
    /\ UnlockAll(c)
    /\ Goto(c, "idle")
    /\ op' = [op EXCEPT ![c] = "none"] /\ cnt' = [cnt EXCEPT ![c] = 0]
    /\ changed' = [changed EXCEPT ![c] = FALSE] /\ slot' = [slot EXCEPT ![c] = 0]
    /\ mxI' = [mxI EXCEPT ![c] = 0] /\ mxMark' = [mxMark EXCEPT ![c] = 0]
    /\ hdr' = [hdr EXCEPT ![c] = NoHdr] /\ readLock' = [readLock EXCEPT ![c] = -1]
    /\ cacheVer' = [cacheVer EXCEPT ![c] = NoVer] /\ reset' = [reset EXCEPT ![c] = FALSE]
    /\ ForgetTxn(c)
    /\ mode' = [mode EXCEPT ![c] = "passive"] /\ rc' = [rc EXCEPT ![c] = "ok"]
    /\ mxSafe' = [mxSafe EXCEPT ![c] = 0] /\ ckFill' = [ckFill EXCEPT ![c] = 0]
    /\ iter' = [iter EXCEPT ![c] = {}]
    /\ UNCHANGED <<shmVars, fileVars, ghostVars, nextTxn, nextSalt, nPower>>

(* The database that a recovery of the files <<wh, w, d>> brings back. *)
View(wh, w, d) ==
    LET n == LastCommit(wh, w)
        frames(p) == {i \in 1 .. n : w[i].pg = p}
    IN  [p \in Page |-> IF n > 0 /\ p > w[n].size THEN NoData
                        ELSE IF frames(p) # {} THEN w[Max(frames(p))].txn
                        ELSE d[p]]

OnDisk(new, old) == {f \in [DOMAIN new -> UNION {old[i] \cup {new[i]} : i \in DOMAIN new}] :
                        \A i \in DOMAIN new : f[i] \in old[i] \cup {new[i]}}

(* Power fails: every process dies, shared memory is gone, and every page
   and frame not yet synced is on disk, or not, or damaged. *)
PowerFail ==
    /\ nPower < MaxPowerFail
    /\ nPower' = nPower + 1
    /\ \E wh \in walHdrOld \cup {walHdr}, w \in OnDisk(wal, walOld), d \in OnDisk(db, dbOld) :
         /\ walHdr' = wh /\ wal' = w /\ db' = d
         /\ latest' = IF \E v \in Txn : image[v] = View(wh, w, d)
                      THEN CHOOSE v \in Txn : image[v] = View(wh, w, d)
                      ELSE latest
    /\ walHdrOld' = {} /\ walOld' = [i \in FrameNo |-> {}] /\ dbOld' = [p \in Page |-> {}]
    /\ hdr0' = NoHdr /\ hdr1' = NoHdr /\ nBackfill' = 0
    /\ aReadMark' = [i \in Slot |-> 0] /\ aPgno' = [i \in FrameNo |-> 0]
    /\ sharedMask' = [c \in Conn |-> {}] /\ exclMask' = [c \in Conn |-> {}]
    /\ pc' = [c \in Conn |-> "idle"] /\ op' = [c \in Conn |-> "none"]
    /\ cnt' = [c \in Conn |-> 0] /\ changed' = [c \in Conn |-> FALSE]
    /\ slot' = [c \in Conn |-> 0] /\ mxI' = [c \in Conn |-> 0]
    /\ mxMark' = [c \in Conn |-> 0]
    /\ hdr' = [c \in Conn |-> NoHdr] /\ readLock' = [c \in Conn |-> -1]
    /\ cacheVer' = [c \in Conn |-> NoVer] /\ reset' = [c \in Conn |-> FALSE]
    /\ txn' = [c \in Conn |-> 0] /\ spilled' = [c \in Conn |-> {}]
    /\ todo' = [c \in Conn |-> {}] /\ newSize' = [c \in Conn |-> 0]
    /\ newSync' = [c \in Conn |-> FALSE]
    /\ iFrame' = [c \in Conn |-> 0] /\ iIdx' = [c \in Conn |-> 0]
    /\ mode' = [c \in Conn |-> "passive"] /\ rc' = [c \in Conn |-> "ok"]
    /\ mxSafe' = [c \in Conn |-> 0] /\ ckFill' = [c \in Conn |-> 0]
    /\ iter' = [c \in Conn |-> {}]
    /\ UNCHANGED <<image, durable, nextTxn, nextSalt, nCrash>>

-----------------------------------------------------------------------------

OpenStep(c) ==
    \/ ReadHdr(c) \/ LockHdr(c) \/ RereadHdr(c) \/ HdrBusyLock(c) \/ HdrBusyRetry(c)
    \/ ReadBackfill(c) \/ LockRead0(c) \/ CheckRead0(c) \/ ScanMark(c) \/ GrabMark(c)
    \/ SetMark(c) \/ LockMark(c) \/ CheckMark(c)
RecoverStep(c) ==
    \/ RecoverLock(c) \/ RecoverScan(c) \/ RecoverHdr1(c) \/ RecoverHdr0(c)
    \/ RecoverInfo(c) \/ RecoverDone(c) \/ RecoverError(c)
WriteStep(c) ==
    \/ RestartLock(c) \/ RestartHdr1(c) \/ RestartHdr0(c) \/ RestartBackfill(c)
    \/ RestartMarks(c) \/ LeaveRead0(c) \/ LogHdr(c) \/ SyncHdr(c) \/ WriteFrame(c)
    \/ SyncFrames(c) \/ IndexFrame(c) \/ FramesDone(c) \/ Publish1(c) \/ Publish0(c)
    \/ EndWrite(c) \/ FramesError(c)
CkptStep(c) ==
    \/ CkptWrite(c) \/ CkptStart(c) \/ CkptMark(c) \/ CkptMarkLock(c) \/ CkptMarkSet(c)
    \/ CkptLock0(c) \/ CkptSync(c) \/ CkptCopy(c) \/ CkptTruncate(c) \/ CkptBackfill(c)
    \/ CkptTail(c) \/ CkptRestart(c) \/ CkptError(c) \/ CkptEnd(c)

(* What the application decides to start or to end. *)
UserStep(c) ==
    BeginRead(c) \/ EndRead(c) \/ BeginWrite(c) \/ BeginFrames(c) \/ Rollback(c) \/ CkptBegin(c)

ConnStep(c) == OpenStep(c) \/ RecoverStep(c) \/ WriteStep(c) \/ CkptStep(c)

Next == (\E c \in Conn : ConnStep(c) \/ UserStep(c) \/ Crash(c)) \/ PowerFail

Spec == Init /\ [][Next]_vars

(* A call into the library, once made, runs on.  Strong fairness only undoes
   the guard that AllowRestartRace = FALSE puts on a step the code always takes. *)
FairSpec ==
    /\ Spec
    /\ \A c \in Conn : WF_vars(ConnStep(c))
    /\ \A c \in Writers : SF_vars(RestartBackfill(c))

-----------------------------------------------------------------------------
(* Properties. *)

PcSet == {"idle", "readHdr", "lockHdr", "rereadHdr", "hdrBusy", "hdrBusyRetry",
    "readBackfill", "lockRead0", "checkRead0", "scan", "grab", "setMark", "lockMark",
    "checkMark", "open", "recover", "recScan", "recHdr1", "recHdr0", "recInfo",
    "recDone", "write", "restart", "restartHdr1", "restartHdr0", "restartBackfill",
    "restartMarks", "leaveRead0", "logHdr", "syncHdr", "frames", "syncFrames", "index",
    "framesDone", "publish1", "publish0", "committed", "failed", "ckWrite", "ckStart",
    "ckMark", "ckMarkLock", "ckMarkSet", "ckLock0", "ckSync", "ckCopy", "ckTruncate",
    "ckBackfill", "ckTail", "ckRestart", "ckEnd"}

ShmTypeOK ==
    /\ hdr0 \in Hdr /\ hdr1 \in Hdr /\ nBackfill \in Nat
    /\ aReadMark \in [Slot -> Nat] /\ aPgno \in [FrameNo -> Nat]
FileTypeOK ==
    /\ walHdr \in WalHdr /\ wal \in [FrameNo -> Frame] /\ db \in [Page -> Value]
    /\ walHdrOld \in SUBSET WalHdr /\ walOld \in [FrameNo -> SUBSET Frame]
    /\ dbOld \in [Page -> SUBSET Value]
OpenTypeOK ==
    /\ op \in [Conn -> {"none", "read", "frames", "ckpt"}]
    /\ cnt \in [Conn -> Nat] /\ changed \in [Conn -> BOOLEAN]
    /\ slot \in [Conn -> Slot \cup {0}] /\ mxI \in [Conn -> Slot \cup {0}]
    /\ mxMark \in [Conn -> Nat]
ConnTypeOK ==
    /\ hdr \in [Conn -> Hdr] /\ readLock \in [Conn -> Slot \cup {0, -1}]
    /\ cacheVer \in [Conn -> Txn \cup {NoVer}] /\ reset \in [Conn -> BOOLEAN]
WriteTypeOK ==
    /\ txn \in [Conn -> Txn] /\ spilled \in [Conn -> SUBSET Page]
    /\ todo \in [Conn -> SUBSET Page] /\ newSize \in [Conn -> Nat]
    /\ newSync \in [Conn -> BOOLEAN]
    /\ iFrame \in [Conn -> Nat] /\ iIdx \in [Conn -> Nat]
CkptTypeOK ==
    /\ mode \in [Conn -> {"passive", "full", "restart", "degraded"}]
    /\ rc \in [Conn -> {"ok", "busy", "error"}]
    /\ mxSafe \in [Conn -> Nat] /\ ckFill \in [Conn -> Nat]
    /\ iter \in [Conn -> SUBSET (Page \X FrameNo)]
GhostTypeOK ==
    /\ image \in [Txn -> Image] /\ latest \in Txn /\ durable \in Txn
BoundTypeOK == nextTxn \in Nat /\ nextSalt \in Nat /\ nCrash \in Nat /\ nPower \in Nat

(* The places inside the loops over the read marks. *)
InMarkLoop == {"scan", "grab", "setMark", "ckMark", "ckMarkLock", "ckMarkSet"}
LoopTypeOK == \A c \in Conn : pc[c] \in InMarkLoop => slot[c] \in Slot

(* Type correctness: every variable of the model keeps its shape, and a loop
   over the marks (wal.c 1753, 2271, 2285) stands on a slot that has one. *)
TypeOK ==
    /\ LockTypeOK /\ ShmTypeOK /\ FileTypeOK /\ pc \in [Conn -> PcSet]
    /\ OpenTypeOK /\ ConnTypeOK /\ WriteTypeOK /\ CkptTypeOK
    /\ GhostTypeOK /\ BoundTypeOK /\ LoopTypeOK

(* Snapshot isolation.  Every page a connection can read inside its
   transaction is the page of the snapshot it opened, or its own version once
   it has put that page in the log, whatever other connections write, restart
   or checkpoint meanwhile; and the database has the size of the snapshot. *)
SnapshotRead ==
    \A c \in Conn :
        /\ pc[c] \in {"open", "write"} =>
             \A p \in Page :
                 LET want == IF p \in spilled[c] THEN txn[c] ELSE image[hdr[c].ver][p]
                 IN  want # NoData => ReadPage(c, p) = want
        /\ pc[c] = "open" => \A p \in Page : image[hdr[c].ver][p] # NoData <=> p <= DbSize(c)

(* A call into the library returns, whatever the other connections do: no
   reader, writer or checkpointer waits for another for ever. *)
CallsReturn ==
    \A c \in Conn : (pc[c] \notin {"idle", "open", "write", "failed"})
                       ~> (pc[c] \in {"idle", "open", "write", "failed"})

(* The page cache that a transaction starts from is of its own snapshot: a
   header reloaded by a checkpoint, a recovery or a failed attempt never hides
   a change from the pager (wal.c 3172-3182). *)
CacheFresh == \A c \in Conn : pc[c] = "open" => cacheVer[c] = hdr[c].ver

(* At every moment the files, recovered from scratch, give the database after
   some transaction that wrote its commit frame (its image has a page 1), and
   not one older than the last one published. *)
Recoverable ==
    \E v \in Txn : /\ v >= latest /\ image[v][1] # NoData
                   /\ image[v] = View(walHdr, wal, db)

(* A commit survives a loss of power from the first sync of the log after it
   on; with synchronous=FULL, from the moment it is reported. *)
Durable == durable <= latest

(* wal.c 329: the mark of a slot is no greater than mxFrame of its readers. *)
ReadMarkSafe ==
    \A c \in Conn : readLock[c] > 0 => aReadMark[readLock[c]] <= hdr[c].mxFrame

(* While the log is being copied, no reader of the log stands on a snapshot
   older than the last frame copied: its pages of the file stay its own. *)
CkptCopying(c) == pc[c] \in {"ckSync", "ckCopy", "ckTruncate", "ckBackfill"}

CkptBehindReaders ==
    \A c, d \in Conn : (CkptCopying(c) /\ readLock[d] > 0) => mxSafe[c] <= hdr[d].mxFrame

(* wal.c 338: a read mark changes only under the exclusive lock of its slot,
   so never while a reader relies on it. *)
ReadMarkStable ==
    [][\A c \in Conn : (readLock[c] > 0 /\ readLock'[c] = readLock[c])
          => aReadMark'[readLock[c]] = aReadMark[readLock[c]]]_vars

(* The assertion of walRestartLog(): a writer that holds READ_LOCK(0) finds
   its whole snapshot backfilled. *)
RestartAssert == \A c \in Conn : pc[c] = "restart" => nBackfill = hdr[c].mxFrame

(* A checkpoint asked for as FULL or RESTART that returns SQLITE_OK has the
   newest snapshot in the database file: one that stopped short of a reader, or
   ran as PASSIVE beside a writer (wal.c 3143, 3189), does not return it. *)
CkptPromise ==
    \A c \in Conn : (pc[c] = "ckEnd" /\ mode[c] # "passive" /\ Result(c) = "ok") =>
        /\ nBackfill = hdr0.mxFrame
        /\ \A p \in Page : image[hdr0.ver][p] = db[p]

(* What the shared header publishes is in the log file: an unbroken chain of
   frames from the header of that log to a commit frame, so that a recovery
   (wal.c 1179-1210), after any death, finds no less.  Writers append to the
   snapshot they have, restarts and recoveries replace the header: none of
   them may write over frames that others have been promised. *)
LogIntact ==
    hdr0.mxFrame > 0 =>
        /\ walHdr.salt = hdr0.salt
        /\ wal[hdr0.mxFrame].txn = hdr0.cksum /\ wal[hdr0.mxFrame].size # 0
        /\ hdr0.mxFrame <= LastCommit(walHdr, wal)

(* wal.c 2751: the log starts again only when no connection reads from it.  No
   frame of a snapshot is overwritten while its connection holds the lock of a
   mark, whoever writes, restarts, recovers or dies meanwhile. *)
SnapshotFramesStable ==
    [][\A c \in Conn : (readLock[c] > 0 /\ readLock'[c] = readLock[c])
          => \A i \in FrameNo : i <= hdr[c].mxFrame => wal'[i] = wal[i]]_vars

(* A call that has returned, with whatever result, has left no lock behind; an
   open snapshot keeps the one lock it reads under. *)
NothingHeld ==
    \A c \in Conn :
        /\ pc[c] \in {"idle", "open"} => exclMask[c] = {}
        /\ pc[c] = "idle" => sharedMask[c] = {}
        /\ pc[c] = "open" => sharedMask[c] = {READ(readLock[c])}
=============================================================================
