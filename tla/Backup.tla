------------------------------- MODULE Backup -------------------------------
(***************************************************************************)
(* Online backup (backup.c): copying a database page by page while other   *)
(* statements of the process, and other processes, go on writing to it.    *)
(*                                                                         *)
(* The pager of the source (read in the amalgamation) tells the backups of *)
(* every page it writes to the file, and to start over when somebody else  *)
(* wrote.  A call of the library holds the mutexes of the source from its  *)
(* start to its end; it is one step.                                       *)
(***************************************************************************)
EXTENDS Naturals, FiniteSets

CONSTANTS
    N,             \* pages of the largest database
    Val,           \* contents of a page of the source
    Hole, Old,     \* no content; a page of the destination before the backup
    BackupObj,     \* sqlite3_backup objects with the same source
    MaxChange      \* bound: committed changes of the source

ASSUME BackupAssumption ==
    /\ N \in Nat \ {0} /\ MaxChange \in Nat
    /\ Hole \notin Val /\ Old \notin Val

VARIABLES
    file,      \* the database file of the source
    counter,   \* its change counter, as of the last commit
    hot,       \* the journal of a process that died while it wrote to it
    isRead,    \* this process has a SHARED lock, or more, on the source
    known,     \* Pager.dbFileVers: the counter this process has last seen
    txn,       \* the write transaction of this process on the source
    bak,       \* the backups
    dest       \* the database file each of them writes to

srcVars == <<file, counter, hot, isRead, known, txn>>
vars == <<srcVars, bak, dest>>

-----------------------------------------------------------------------------
(* Databases: a number of pages and their contents. *)
Page == 1 .. N
Data == Val \cup {Hole, Old}
Pages == [Page -> Data]
Db == [n : 0 .. N, at : Pages]

Larger(k, l) == IF k > l THEN k ELSE l
All(v) == [p \in Page |-> v]
Put(at, P, from) == [p \in Page |-> IF p \in P THEN from[p] ELSE at[p]]
Cut(at, k) == [n |-> k, at |-> [p \in Page |-> IF p <= k THEN at[p] ELSE Hole]]
Empty == Cut(All(Hole), 0)

NoTxn == [open |-> FALSE, image |-> Empty, orig |-> Empty, dirty |-> {},
          touched |-> {}, written |-> FALSE]
NoJournal == [exists |-> FALSE, orig |-> Empty, pages |-> {}]

(* The database as the last commit left it. *)
Committed ==
    IF hot.exists THEN hot.orig ELSE IF txn.open THEN txn.orig ELSE file

Idle == [active |-> FALSE, iNext |-> 1, rc |-> "OK", isAttached |-> FALSE,
         bDestLocked |-> FALSE, image |-> All(Hole)]

Init ==
    /\ \E v \in Val, k \in Page : file = Cut(All(v), k)
    /\ counter = 0 /\ known = 0 /\ hot = NoJournal
    /\ isRead = FALSE /\ txn = NoTxn
    /\ bak = [b \in BackupObj |-> Idle]
    /\ dest = [b \in BackupObj |-> Cut(All(Old), N)]

isFatalError(rc) == rc \in {"DONE", "ERROR"}

(* The pages a backup has copied. *)
Copied(r) == {p \in Page : p < r.iNext}

(* sqlite3BackupUpdate() for the pages P, which the pager writes; for some
   backups, bad, the copy fails. *)
Concerned(r, P) == r.isAttached /\ ~isFatalError(r.rc) /\ P \cap Copied(r) # {}
BackupUpdate(B, P, from, bad) ==
    [b \in BackupObj |->
        IF ~Concerned(B[b], P) THEN B[b]
        ELSE IF b \in bad THEN [B[b] EXCEPT !.rc = "ERROR"]
        ELSE [B[b] EXCEPT !.image = Put(@, P \cap Copied(B[b]), from)]]

(* Mutant: a backup that was busy is not told. *)
BackupRestart_OK(B) ==
    [b \in BackupObj |->
        IF B[b].isAttached /\ B[b].rc = "OK" THEN [B[b] EXCEPT !.iNext = 1] ELSE B[b]]

(* sqlite3BackupRestart(), called by pager_reset(). *)
BackupRestart(B) ==
    [b \in BackupObj |-> IF B[b].isAttached THEN [B[b] EXCEPT !.iNext = 1] ELSE B[b]]

-----------------------------------------------------------------------------
(* sqlite3PagerSharedLock(): the process starts to read the source.  A hot
   journal is rolled back, and the change counter tells whether what is cached
   and copied can be trusted. *)
Restored == IF hot.exists THEN hot.orig ELSE file
Played(bad) == IF hot.exists THEN BackupUpdate(bak, hot.pages, hot.orig.at, bad) ELSE bak
Validated(B) == IF known # counter THEN BackupRestart(B) ELSE B

Source(bad) == IF isRead THEN bak ELSE Validated(Played(bad))
SharedLock ==
    /\ file' = IF isRead THEN file ELSE Restored
    /\ hot' = IF isRead THEN hot ELSE NoJournal
    /\ known' = counter

OpenRead ==
    /\ ~isRead /\ SharedLock /\ isRead' = TRUE
    /\ \E bad \in SUBSET BackupObj : bak' = Source(bad)
    /\ UNCHANGED <<counter, txn, dest>>

CloseRead ==
    /\ isRead /\ ~txn.open
    /\ isRead' = FALSE
    /\ UNCHANGED <<file, counter, hot, known, txn, bak, dest>>

-----------------------------------------------------------------------------
(* A write transaction of this process.  A page is changed in the cache and
   written to the file when the cache is full or at the end. *)
Begin ==
    /\ isRead /\ ~txn.open /\ counter < MaxChange
    /\ txn' = [NoTxn EXCEPT !.open = TRUE, !.image = file, !.orig = file]
    /\ UNCHANGED <<file, counter, hot, isRead, known, bak, dest>>

Change(p, v) ==
    /\ txn.open /\ p <= txn.image.n + 1
    /\ txn' = [txn EXCEPT !.image = [n |-> Larger(@.n, p), at |-> [@.at EXCEPT ![p] = v]],
                          !.dirty = @ \cup {p}, !.touched = @ \cup {p}]
    /\ UNCHANGED <<file, counter, hot, isRead, known, bak, dest>>

(* Pages that a smaller database no longer has; a transaction keeps the first. *)
Shrink ==
    /\ txn.open /\ txn.image.n > 1
    /\ LET k == txn.image.n - 1 IN
       txn' = [txn EXCEPT !.image = Cut(@.at, k), !.dirty = @ \cap (1 .. k),
                          !.touched = @ \cup {k + 1}]
    /\ UNCHANGED <<file, counter, hot, isRead, known, bak, dest>>

(* pager_write_pagelist(), before the end of the transaction. *)
Spill(p) ==
    /\ p \in txn.dirty
    /\ file' = [n |-> Larger(file.n, p), at |-> Put(file.at, {p}, txn.image.at)]
    /\ txn' = [txn EXCEPT !.dirty = @ \ {p}, !.written = TRUE]
    /\ \E bad \in SUBSET BackupObj : bak' = BackupUpdate(bak, {p}, txn.image.at, bad)
    /\ UNCHANGED <<counter, hot, isRead, known, dest>>

(* The commit writes the rest, with the change counter on page 1. *)
Commit ==
    /\ txn.open /\ txn.touched # {}
    /\ LET P == txn.dirty \cup {1} IN
       /\ file' = Cut(Put(file.at, P, txn.image.at), txn.image.n)
       /\ \E bad \in SUBSET BackupObj : bak' = BackupUpdate(bak, P, txn.image.at, bad)
    /\ counter' = counter + 1 /\ known' = counter + 1
    /\ txn' = NoTxn
    /\ UNCHANGED <<hot, isRead, dest>>

(* Mutant: a rollback does not tell the backups. *)
RolledBack_Silent(bad) == bak

(* pager_playback(): pages of the journal go back to the file, if anything was
   written to the file, and to the backups. *)
RolledBack(bad) ==
    IF txn.written
    THEN BackupUpdate(bak, txn.touched \cap (1 .. txn.orig.n), txn.orig.at, bad)
    ELSE bak
Rollback ==
    /\ txn.open
    /\ file' = txn.orig
    /\ \E bad \in SUBSET BackupObj : bak' = RolledBack(bad)
    /\ txn' = NoTxn
    /\ UNCHANGED <<counter, hot, isRead, known, dest>>

(* A rollback that fails leaves a hot journal; when the last statement has given
   up, pager_unlock() drops the lock and resets the cache. *)
RollbackFails ==
    /\ txn.open /\ txn.written
    /\ hot' = [exists |-> TRUE, orig |-> txn.orig, pages |-> txn.touched \cap (1 .. txn.orig.n)]
    /\ bak' = BackupRestart(bak)
    /\ isRead' = FALSE /\ txn' = NoTxn
    /\ UNCHANGED <<file, counter, known, dest>>

-----------------------------------------------------------------------------
(* Another process.  Its transactions need the lock this process does not have;
   how they work is the subject of Journal. *)
OtherCommits(k, P, v) ==
    /\ ~isRead /\ ~hot.exists /\ counter < MaxChange
    /\ \A p \in file.n + 1 .. k : p \in P
    /\ file' = Cut(Put(file.at, P, All(v)), k)
    /\ counter' = counter + 1
    /\ UNCHANGED <<hot, isRead, known, txn, bak, dest>>

OtherDies(P, v) ==
    /\ ~isRead /\ ~hot.exists
    /\ hot' = [exists |-> TRUE, orig |-> file, pages |-> P \cap (1 .. file.n)]
    /\ file' = [file EXCEPT !.at = Put(@, P, All(v))]
    /\ UNCHANGED <<counter, isRead, known, txn, bak, dest>>

OtherRecovers ==
    /\ ~isRead /\ hot.exists
    /\ file' = hot.orig /\ hot' = NoJournal
    /\ UNCHANGED <<counter, isRead, known, txn, bak, dest>>

-----------------------------------------------------------------------------
(* sqlite3_backup_init(). *)
BackupInit(b) ==
    /\ ~bak[b].active
    /\ bak' = [bak EXCEPT ![b] = [Idle EXCEPT !.active = TRUE]]
    /\ UNCHANGED <<srcVars, dest>>

(* The first step that gets so far opens an exclusive transaction on the
   destination, which it keeps. *)
Locked(r, b) ==
    IF r.bDestLocked THEN r ELSE [r EXCEPT !.bDestLocked = TRUE, !.image = dest[b].at]

(* sqlite3_backup_step() while this process writes to the source, or when the
   lock on the destination cannot be had, or after it that on the source. *)
MayStep(b) == bak[b].active /\ ~isFatalError(bak[b].rc)
Refusals == IF txn.open THEN {"BUSY"} ELSE {"BUSY", "ERROR"}
StepRefused(b) ==
    /\ MayStep(b)
    /\ txn.open \/ ~bak[b].bDestLocked \/ ~isRead
    /\ \E rc \in Refusals,
          r \in {bak[b]} \cup (IF txn.open \/ isRead THEN {} ELSE {Locked(bak[b], b)}) :
          bak' = [bak EXCEPT ![b] = [r EXCEPT !.rc = rc]]
    /\ UNCHANGED <<srcVars, dest>>

(* What is committed to the destination in the end. *)
Finished(r, d) == Cut(r.image, d.n)

(* sqlite3_backup_step(b, k): the next k pages, and the end if none is left. *)
Advanced(r, k, d) ==
    LET next == IF r.iNext > d.n THEN r.iNext
                ELSE IF r.iNext + k > d.n THEN d.n + 1 ELSE r.iNext + k IN
    [r EXCEPT !.image = Put(@, r.iNext .. next - 1, d.at), !.iNext = next]

Step(b, k) ==
    /\ MayStep(b) /\ ~txn.open
    /\ SharedLock
    /\ \E bad \in SUBSET BackupObj :
          LET B == Source(bad)
              r == Advanced(Locked(B[b], b), k, file') IN
          IF r.iNext > file'.n
          THEN /\ bak' = [B EXCEPT ![b] = [r EXCEPT !.rc = "DONE"]]
               /\ dest' = [dest EXCEPT ![b] = Finished(r, file')]
          ELSE /\ bak' = [B EXCEPT ![b] = [r EXCEPT !.rc = "OK", !.isAttached = TRUE]]
               /\ UNCHANGED dest
    /\ UNCHANGED <<counter, isRead, txn>>

(* An error while it copies or commits ends the backup; where it stood is of no
   use to anyone any more. *)
StepFails(b) ==
    /\ MayStep(b) /\ ~txn.open
    /\ SharedLock
    /\ \E bad \in SUBSET BackupObj :
          LET B == Source(bad) IN
          bak' = [B EXCEPT ![b] = [Locked(B[b], b) EXCEPT !.rc = "ERROR"]]
    /\ UNCHANGED <<counter, isRead, txn, dest>>

(* Mutant: the pager of the source keeps its pointer to the backup. *)
Detached_Never(r) == [Idle EXCEPT !.isAttached = r.isAttached]

(* sqlite3_backup_finish(): what was not committed is rolled back. *)
Detached(r) == Idle
Finish(b) ==
    /\ bak[b].active
    /\ bak' = [bak EXCEPT ![b] = Detached(@)]
    /\ UNCHANGED <<srcVars, dest>>

Next ==
    \/ OpenRead \/ CloseRead \/ Begin \/ Shrink \/ Commit \/ Rollback \/ RollbackFails
    \/ OtherRecovers
    \/ \E p \in Page : Spill(p) \/ \E v \in Val : Change(p, v)
    \/ \E P \in SUBSET Page, v \in Val : OtherDies(P, v) \/ \E k \in Page : OtherCommits(k, P, v)
    \/ \E b \in BackupObj :
          \/ BackupInit(b) \/ StepRefused(b) \/ StepFails(b) \/ Finish(b)
          \/ \E k \in Page : Step(b, k)

Spec == Init /\ [][Next]_vars

-----------------------------------------------------------------------------
(* Every variable keeps its shape; a backup the pager knows of has its
   destination locked (the assertion of backupOnePage()). *)
TypeOK ==
    /\ file \in Db /\ counter \in 0 .. MaxChange /\ known \in 0 .. MaxChange
    /\ hot \in [exists : BOOLEAN, orig : Db, pages : SUBSET Page]
    /\ isRead \in BOOLEAN
    /\ txn \in [open : BOOLEAN, image : Db, orig : Db, dirty : SUBSET Page,
                touched : SUBSET Page, written : BOOLEAN]
    /\ bak \in [BackupObj -> [active : BOOLEAN, iNext : 1 .. N + 1, rc : {"OK", "BUSY", "DONE", "ERROR"},
                              isAttached : BOOLEAN, bDestLocked : BOOLEAN, image : Pages]]
    /\ dest \in [BackupObj -> Db]
    /\ \A b \in BackupObj : bak[b].isAttached => bak[b].active /\ bak[b].bDestLocked

(* As long as no other process has written to the source, the pages a backup has
   passed are what the source file has, though some were written, rolled back or
   dropped since: sqlite3BackupUpdate() misses none. *)
PrefixCopied ==
    \A b \in BackupObj :
        LET r == bak[b] IN
        r.active /\ ~isFatalError(r.rc) /\ known = counter =>
            \A p \in Copied(r) : Restored.at[p] # Hole => r.image[p] = Restored.at[p]

(* A destination only ever changes into a complete copy of the database as its
   last commit left it, and only when the backup is done. *)
CopyIsSnapshot ==
    [][\A b \in BackupObj :
          /\ dest'[b] # dest[b] => bak'[b].rc = "DONE"
          /\ bak'[b].rc = "DONE" /\ bak[b].rc # "DONE" => dest'[b] = Committed']_vars
=============================================================================
