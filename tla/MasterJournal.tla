--------------------------- MODULE MasterJournal ---------------------------
(***************************************************************************)
(* A commit over several database files: vdbeCommit() of vdbeaux.c with    *)
(* the parts of the pager that write, read and delete the master journal.  *)
(* One process at a time commits; others find what it left behind when it  *)
(* dies, and recover each file on its own.                                 *)
(*                                                                         *)
(* A transaction is a number.  Its master journal has the same number for  *)
(* a name, drawn afresh.  The content of a file is the transaction that    *)
(* wrote it, its journal is known by what a rollback would restore (module *)
(* Journal tells why), by its length and by the name at its end.           *)
(***************************************************************************)
EXTENDS Integers, FiniteSets, FiniteSetsExt

CONSTANTS
    NFile,         \* files, in the order of db->aDb
    CommitModes,   \* journal modes of the connections that write
    RecoverModes,  \* and of those that recover; the code keeps the promise below
                   \* only for {"delete"} (README, What the runs show)
    Kinds,         \* what may go wrong: "fault" (deaths, I/O errors), "power"
    MaxRec,        \* bound: records of a transaction in a journal
    MaxTxn,        \* bound: transactions
    MaxEvents      \* bound: transactions with faults or losses of power

AllModes == {"delete", "truncate", "persist"}
ASSUME MasterAssumption ==
    /\ {NFile, MaxRec, MaxTxn, MaxEvents} \subseteq Nat
    /\ CommitModes \subseteq AllModes /\ RecoverModes \subseteq AllModes
    /\ Kinds \subseteq {"fault", "power"} /\ Kinds # {}

File == 1 .. NFile
Txn == 0 .. MaxTxn
Half == -1                   \* a database file between two transactions
None == 0                    \* no master journal

VARIABLES
    db, jrnl,      \* of each file: content and journal, as read() returns them
    masters, list, \* the master journals there are, the files each one lists
    dbOld, jrnlOld, masterOld,  \* what the disk may hold instead
    lock,          \* of each file: nobody, a writer or a connection recovering it,
                   \* one that has recovered it, both ("joined")
    pc,            \* where the committing process is
    inTrans, todo, \* the files of its transaction, those left in a loop
    master,        \* the master journal it has made
    size,          \* of each file in it: records in the journal
    pb,            \* of each file: pager_playback()
    unsettled,     \* ghost: commits a loss of power may undo
    txn, kind, nBad

files == <<db, jrnl, masters, list>>
olds == <<dbOld, jrnlOld, masterOld>>
own == <<pc, inTrans, todo, master, size>>
rest == <<unsettled, txn, kind, nBad>>
vars == <<files, olds, lock, own, pb, rest>>

-----------------------------------------------------------------------------
(* Journals. *)

Journals == [there : BOOLEAN, hot : BOOLEAN, orig : Txn, len : 0 .. MaxRec + 1, ptr : Txn,
             at : 0 .. MaxRec + 1]
NoJrnl == [there |-> FALSE, hot |-> FALSE, orig |-> 0, len |-> 0, ptr |-> None, at |-> 0]

(* readMasterJournal(): the name is only found at the very end. *)
Tail(j) == IF j.there /\ j.ptr # None /\ j.at = j.len THEN j.ptr ELSE None

(* The journal calls for a rollback: it has its header, and the master journal
   it names, if any, is there (hasHotJournal(), pager_playback()). *)
Named(j) == Tail(j) # None
Redo(j) == Named(j) => Tail(j) \in masters
Hot(j) == j.there /\ j.hot

(* Mutant: the old file is taken to end with the new records. *)
Opened_Shorter(j, n, v) ==
    [j EXCEPT !.there = TRUE, !.hot = FALSE, !.orig = v, !.len = n]

(* pager_open_journal(): a file that is there already keeps its end. *)
Opened(j, n, v) ==
    [there |-> TRUE, hot |-> FALSE, orig |-> v, len |-> IF j.len > n THEN j.len ELSE n,
     ptr |-> IF j.at > n THEN j.ptr ELSE None, at |-> IF j.at > n THEN j.at ELSE 0]

Emptied(j) == [j EXCEPT !.hot = FALSE, !.len = 0, !.ptr = None, !.at = 0]

(* Mutant: a journal that names a master is only zeroed as well. *)
Finalised_Zeroed(j, mode, hasMaster) ==
    CASE mode = "delete" -> NoJrnl
      [] mode = "truncate" -> Emptied(j)
      [] mode = "persist" -> [j EXCEPT !.hot = FALSE]

(* pager_end_transaction(): a journal that names a master is not just zeroed. *)
Finalised(j, mode, hasMaster) ==
    CASE mode = "delete" -> NoJrnl
      [] mode = "truncate" -> Emptied(j)
      [] mode = "persist" -> IF hasMaster THEN Emptied(j) ELSE [j EXCEPT !.hot = FALSE]

(* What a user of file f finds: the content, after a rollback if need be. *)
Content(f) == IF Hot(jrnl[f]) /\ Redo(jrnl[f]) THEN jrnl[f].orig ELSE db[f]

-----------------------------------------------------------------------------
(* Writes and syncs, remembered for a loss of power. *)

Kept(old, x) == IF kind = "power" THEN old \cup x ELSE {}

WriteDb(f, v) ==
    /\ db' = [db EXCEPT ![f] = v]
    /\ dbOld' = [dbOld EXCEPT ![f] = Kept(@, {db[f], Half})]
SyncedDb(f) == dbOld' = [dbOld EXCEPT ![f] = {}]

WriteJrnl(f, j, torn) ==
    /\ jrnl' = [jrnl EXCEPT ![f] = j]
    /\ jrnlOld' = [jrnlOld EXCEPT ![f] = Kept(@, {jrnl[f]} \cup torn)]
SyncedJrnl(f, j) ==
    /\ jrnl' = [jrnl EXCEPT ![f] = j]
    /\ jrnlOld' = [jrnlOld EXCEPT ![f] = {}]

Unlinked(m) == masters' = masters \ {m} /\ masterOld' = Kept(masterOld, {m})

Idle == [at |-> "idle", redo |-> FALSE, ptr |-> None, left |-> {}]

Init ==
    /\ db = [f \in File |-> 0] /\ jrnl = [f \in File |-> NoJrnl]
    /\ masters = {} /\ list = [m \in Txn |-> {}]
    /\ dbOld = [f \in File |-> {}] /\ jrnlOld = [f \in File |-> {}] /\ masterOld = {}
    /\ lock = [f \in File |-> "free"]
    /\ pc = "write" /\ inTrans = {} /\ todo = {} /\ master = None
    /\ size = [f \in File |-> 0]
    /\ pb = [f \in File |-> Idle]
    /\ unsettled = {} /\ txn = 0 /\ kind \in Kinds /\ nBad = 0

-----------------------------------------------------------------------------
(* The transaction before its commit. *)

(* sqlite3PagerBegin() and the first write to file f.  The connection has looked
   for a hot journal; if there was one it has recovered the file itself, or another
   has, which may not be back yet: RESERVED is there beside its SHARED. *)
Open(f, n) ==
    /\ pc = "write" /\ f \notin inTrans
    /\ lock[f] = "reader" \/ (lock[f] = "free" /\ ~Hot(jrnl[f]))
    /\ inTrans # {} \/ (txn < MaxTxn /\ txn + nBad < MaxEvents)
    /\ txn' = IF inTrans = {} THEN txn + 1 ELSE txn
    /\ inTrans' = inTrans \cup {f}
    /\ size' = [size EXCEPT ![f] = n]
    /\ lock' = [lock EXCEPT ![f] = IF pb[f] = Idle THEN "writer" ELSE "joined"]
    /\ WriteJrnl(f, Opened(jrnl[f], n, db[f]), {})
    /\ UNCHANGED <<db, masters, list, dbOld, masterOld, pc, todo, master, pb, unsettled,
                   kind, nBad>>

(* A sync of f's journal also settles the commit whose journal was here before. *)
SettledBy(f) == unsettled' = {u \in unsettled : f \notin DOMAIN u}

(* pagerStress(): the journal is synced, which takes the EXCLUSIVE lock, then dirty
   pages go to the file. *)
Spill(f) ==
    /\ pc = "write" /\ f \in inTrans /\ ~jrnl[f].hot /\ lock[f] = "writer"
    /\ SyncedJrnl(f, [jrnl[f] EXCEPT !.hot = TRUE])
    /\ SettledBy(f)
    /\ WriteDb(f, Half)
    /\ UNCHANGED <<masters, list, masterOld, lock, own, pb, txn, kind, nBad>>

Rollback ==
    /\ pc = "write" /\ inTrans # {}
    /\ pc' = "rollback" /\ todo' = inTrans
    /\ UNCHANGED <<files, olds, lock, inTrans, master, size, pb, rest>>

-----------------------------------------------------------------------------
(* vdbeCommit(). *)

(* sqlite3PagerExclusiveLock() for every file first; nTrans: with one file there is no
   master journal. *)
Commit ==
    /\ pc = "write" /\ inTrans # {} /\ \A f \in inTrans : lock[f] = "writer"
    /\ todo' = inTrans
    /\ pc' = IF Cardinality(inTrans) <= 1 THEN "sync" ELSE "create"
    /\ UNCHANGED <<files, olds, lock, inTrans, master, size, pb, rest>>

(* The names of the journals are written to a new file. *)
CreateMaster ==
    /\ pc = "create"
    /\ master' = txn
    /\ masters' = masters \cup {txn} /\ list' = [list EXCEPT ![txn] = inTrans]
    /\ masterOld' = Kept(masterOld, {txn})
    /\ pc' = "syncMaster"
    /\ UNCHANGED <<db, jrnl, dbOld, jrnlOld, lock, inTrans, todo, size, pb, rest>>

(* The first sync of a new file syncs its directory. *)
SyncMaster ==
    /\ pc = "syncMaster"
    /\ masterOld' = masterOld \ {master}
    /\ pc' = "ptr"
    /\ UNCHANGED <<files, dbOld, jrnlOld, lock, inTrans, todo, master, size, pb, rest>>

(* sqlite3PagerCommitPhaseOne() is called for one file after the other. *)
This == Min(todo)

(* writeMasterJournal(): the name goes behind the records ... *)
WritePtr ==
    /\ pc = "ptr"
    /\ LET j == jrnl[This]
           end == size[This] + 1
           long == IF j.len > end THEN j.len ELSE end
       IN WriteJrnl(This, [j EXCEPT !.ptr = master, !.at = end, !.len = long],
                    {[j EXCEPT !.ptr = None, !.at = 0, !.len = long]})
    /\ pc' = "cut"
    /\ UNCHANGED <<db, masters, list, dbOld, masterOld, lock, inTrans, todo, master, size,
                   pb, rest>>

(* ... and what an older transaction left behind it is cut off. *)
CutJrnl ==
    /\ pc = "cut"
    /\ WriteJrnl(This, [jrnl[This] EXCEPT !.len = jrnl[This].at], {})
    /\ pc' = "sync"
    /\ UNCHANGED <<db, masters, list, dbOld, masterOld, lock, inTrans, todo, master, size,
                   pb, rest>>

(* syncJournal() gives the journal its header. *)
SyncJrnl ==
    /\ pc = "sync"
    /\ SyncedJrnl(This, [jrnl[This] EXCEPT !.hot = TRUE])
    /\ SettledBy(This)
    /\ pc' = "writeDb"
    /\ UNCHANGED <<db, masters, list, dbOld, masterOld, lock, inTrans, todo, master, size,
                   pb, txn, kind, nBad>>

(* pager_write_pagelist(), one page and then the last one. *)
WritePages ==
    /\ pc = "writeDb"
    /\ \/ WriteDb(This, Half) /\ UNCHANGED pc
       \/ WriteDb(This, txn) /\ pc' = "syncDb"
    /\ UNCHANGED <<jrnl, masters, list, jrnlOld, masterOld, lock, inTrans, todo, master,
                   size, pb, rest>>

SyncDb ==
    /\ pc = "syncDb"
    /\ SyncedDb(This)
    /\ IF todo # {This}
         THEN todo' = todo \ {This} /\ pc' = IF master = None THEN "sync" ELSE "ptr"
         ELSE todo' = inTrans /\ pc' = IF master = None THEN "finalise" ELSE "unlink"
    /\ UNCHANGED <<files, jrnlOld, masterOld, lock, inTrans, master, size, pb, rest>>

(* sqlite3OsDelete(zMaster, 1): this commits the transaction. *)
UnlinkMaster ==
    /\ pc = "unlink"
    /\ Unlinked(master)
    /\ unsettled' = unsettled \cup {[f \in inTrans |-> Content(f)]}
    /\ pc' = "dirSync"
    /\ UNCHANGED <<db, jrnl, list, dbOld, jrnlOld, lock, inTrans, todo, master, size, pb,
                   txn, kind, nBad>>

SyncDir ==
    /\ pc = "dirSync"
    /\ masterOld' = masterOld \ {master}
    /\ unsettled' = {u \in unsettled : DOMAIN u # inTrans}
    /\ pc' = "finalise"
    /\ UNCHANGED <<files, dbOld, jrnlOld, lock, inTrans, todo, master, size, pb, txn, kind,
                   nBad>>

(* The loops over the files of the transaction end here. *)
FileDone(f) ==
    /\ lock' = [lock EXCEPT ![f] = "free"]
    /\ todo' = todo \ {f}
    /\ IF todo = {f} THEN pc' = "write" /\ inTrans' = {} /\ master' = None
                     ELSE UNCHANGED <<pc, inTrans, master>>

(* sqlite3PagerCommitPhaseTwo().  Zeroing or truncating in persist mode is synced. *)
Finalise(mode) ==
    /\ pc = "finalise"
    /\ LET j == Finalised(jrnl[This], mode, master # None) IN
       IF mode = "persist"
         THEN SyncedJrnl(This, j) /\ UNCHANGED unsettled
         ELSE /\ WriteJrnl(This, j, {})
              /\ unsettled' = IF master # None THEN unsettled
                              ELSE unsettled \cup {[f \in inTrans |-> Content(f)]}
    /\ FileDone(This)
    /\ UNCHANGED <<db, masters, list, dbOld, masterOld, size, pb, txn, kind, nBad>>

-----------------------------------------------------------------------------
(* pager_playback() of file f: by the writer (sqlite3RollbackAll(), one file    *)
(* after the other) or by whoever finds the journal hot.                        *)

Live(f) == lock[f] = "writer"
At(f, l) == pb[f].at = l
Go(f, l) == pb' = [pb EXCEPT ![f].at = l]

(* A journal that was never synced has nothing to undo in the database file.  A
   writer that rolls back beside a recoverer (nothing of it but a journal that is not
   hot) does so when that one is back. *)
Playback(f) ==
    /\ pb[f] = Idle
    /\ \/ pc = "rollback" /\ todo # {} /\ f = This /\ UNCHANGED <<lock, jrnlOld>>
       \/ /\ lock[f] = "free" /\ Hot(jrnl[f])
          /\ lock' = [lock EXCEPT ![f] = "recoverer"]
          /\ jrnlOld' = [jrnlOld EXCEPT ![f] = {}]   \* pagerSyncHotJournal()
    /\ pb' = [pb EXCEPT ![f] =
           [Idle EXCEPT !.at = IF Redo(jrnl[f]) /\ Hot(jrnl[f]) THEN "restore" ELSE "end",
                        !.redo = Redo(jrnl[f]), !.ptr = Tail(jrnl[f])]]
    /\ UNCHANGED <<files, dbOld, masterOld, own, rest>>

Restore(f) ==
    /\ At(f, "restore")
    /\ \/ WriteDb(f, Half) /\ UNCHANGED pb
       \/ WriteDb(f, jrnl[f].orig) /\ Go(f, "syncDb")
    /\ UNCHANGED <<jrnl, masters, list, jrnlOld, masterOld, lock, own, rest>>

SyncRestored(f) ==
    /\ At(f, "syncDb")
    /\ SyncedDb(f) /\ Go(f, "end")
    /\ UNCHANGED <<files, jrnlOld, masterOld, lock, own, rest>>

(* pager_playback() returns.  A recoverer keeps SHARED, or lets go when the call
   failed. *)
Returned(f, lockOf) ==
    /\ pb' = [pb EXCEPT ![f] = Idle]
    /\ IF Live(f) THEN FileDone(f)
       ELSE /\ lock' = [lock EXCEPT ![f] = IF @ = "joined" THEN "writer" ELSE lockOf]
            /\ UNCHANGED <<pc, inTrans, todo, master>>

(* pager_end_transaction().  A hot journal that was not played leaves journalOff
   at 0, and then only the delete mode does anything.  The lock falls to SHARED;
   nobody but a recoverer's next writer can tell, as one process commits at a time. *)
EndPlayback(f, mode) ==
    /\ At(f, "end")
    /\ mode \in IF Live(f) THEN CommitModes ELSE RecoverModes
    /\ LET j == IF Live(f) \/ pb[f].redo \/ mode = "delete"
                THEN Finalised(jrnl[f], mode, pb[f].ptr # None) ELSE jrnl[f]
       IN IF mode = "persist" THEN SyncedJrnl(f, j) ELSE WriteJrnl(f, j, {})
    /\ IF pb[f].ptr # None /\ pb[f].redo
         THEN /\ Go(f, "open")
              /\ lock' = IF Live(f) THEN lock ELSE [lock EXCEPT ![f] = "reader"]
              /\ UNCHANGED <<pc, inTrans, todo, master>>
         ELSE Returned(f, "reader")
    /\ UNCHANGED <<db, masters, list, dbOld, masterOld, size, rest>>

(* pager_delmaster(): it may be gone already (SQLITE_CANTOPEN). *)
DelOpen(f) ==
    /\ At(f, "open")
    /\ IF pb[f].ptr \in masters
         THEN /\ pb' = [pb EXCEPT ![f].at = "child", ![f].left = list[pb[f].ptr]]
              /\ UNCHANGED <<lock, pc, inTrans, todo, master>>
         ELSE Returned(f, "free")
    /\ UNCHANGED <<files, olds, size, rest>>

(* A child journal that names it keeps it alive. *)
DelChild(f) ==
    /\ At(f, "child") /\ pb[f].left # {}
    /\ LET g == Min(pb[f].left) IN
       IF Tail(jrnl[g]) = pb[f].ptr
         THEN Returned(f, "reader")
         ELSE /\ pb' = [pb EXCEPT ![f].left = @ \ {g}]
              /\ UNCHANGED <<lock, pc, inTrans, todo, master>>
    /\ UNCHANGED <<files, olds, size, rest>>

DelMaster(f) ==
    /\ At(f, "child") /\ pb[f].left = {}
    /\ Unlinked(pb[f].ptr)
    /\ Returned(f, "reader")
    /\ UNCHANGED <<db, jrnl, list, dbOld, jrnlOld, size, rest>>

EndRead(f) ==
    /\ lock[f] = "reader" /\ pb[f] = Idle
    /\ lock' = [lock EXCEPT ![f] = "free"]
    /\ UNCHANGED <<files, olds, own, pb, rest>>

-----------------------------------------------------------------------------
(* Failures. *)

Bad(k) == kind = k /\ txn + nBad < MaxEvents /\ nBad' = nBad + 1

CommitSteps == {"ptr", "cut", "sync", "writeDb", "syncDb", "unlink", "dirSync"}

(* vdbeCommit() fails and sqlite3RollbackAll() follows. *)
CommitError ==
    /\ Bad("fault")
    /\ pc \in CommitSteps \cup {"create", "syncMaster"}
    /\ \/ UNCHANGED <<db, jrnl>>
       \/ pc = "writeDb" /\ db' = [db EXCEPT ![This] = Half] /\ UNCHANGED jrnl
       \/ /\ pc = "ptr" /\ UNCHANGED db
          /\ jrnl' = [jrnl EXCEPT ![This].ptr = None, ![This].at = 0]
    /\ masters' = IF pc = "syncMaster" THEN masters \ {master} ELSE masters
    /\ pc' = "rollback" /\ todo' = inTrans
    /\ UNCHANGED <<list, olds, lock, inTrans, master, size, pb, unsettled, txn, kind>>

(* A journal that cannot be finalised stays behind. *)
FinaliseError ==
    /\ Bad("fault")
    /\ pc = "finalise"
    /\ FileDone(This)
    /\ UNCHANGED <<files, olds, size, pb, unsettled, txn, kind>>

(* A rollback fails: the pager is in the error state and lets go of the file. *)
PlaybackError(f) ==
    /\ Bad("fault")
    /\ pb[f] # Idle
    /\ \/ UNCHANGED db
       \/ At(f, "restore") /\ db' = [db EXCEPT ![f] = Half]
    /\ Returned(f, "free")
    /\ UNCHANGED <<jrnl, masters, list, olds, size, unsettled, txn, kind>>

(* The committing process dies, or the one that recovers file f. *)
Death ==
    /\ Bad("fault")
    /\ inTrans # {}
    /\ pc' = "write" /\ inTrans' = {} /\ todo' = {} /\ master' = None
    /\ lock' = [f \in File |-> CASE lock[f] = "writer" -> "free"
                                 [] lock[f] = "joined" -> "reader"
                                 [] OTHER -> lock[f]]
    /\ pb' = [f \in File |-> IF Live(f) THEN Idle ELSE pb[f]]
    /\ UNCHANGED <<files, olds, size, unsettled, txn, kind>>

RecovererDies(f) ==
    /\ Bad("fault")
    /\ lock[f] \in {"recoverer", "reader", "joined"}
    /\ lock' = [lock EXCEPT ![f] = IF @ = "joined" THEN "writer" ELSE "free"]
    /\ pb' = [pb EXCEPT ![f] = Idle]
    /\ UNCHANGED <<files, olds, own, unsettled, txn, kind>>

PowerFail ==
    /\ Bad("power")
    /\ db' \in {d \in [File -> Txn \cup {Half}] : \A f \in File : d[f] \in {db[f]} \cup dbOld[f]}
    /\ \E J \in [File -> {jrnl[f] : f \in File} \cup UNION {jrnlOld[f] : f \in File}] :
          /\ \A f \in File : J[f] \in {jrnl[f]} \cup jrnlOld[f]
          /\ jrnl' = J
    /\ \E M \in SUBSET masterOld : masters' = (masters \ masterOld) \cup M
    /\ dbOld' = [f \in File |-> {}] /\ jrnlOld' = [f \in File |-> {}] /\ masterOld' = {}
    /\ lock' = [f \in File |-> "free"] /\ pb' = [f \in File |-> Idle]
    /\ pc' = "write" /\ inTrans' = {} /\ todo' = {} /\ master' = None
    /\ unsettled' = {}
    /\ UNCHANGED <<list, size, txn, kind>>

Next ==
    \/ Rollback \/ Commit \/ CreateMaster \/ SyncMaster \/ WritePtr \/ CutJrnl \/ SyncJrnl
    \/ WritePages \/ SyncDb \/ UnlinkMaster \/ SyncDir
    \/ \E mode \in CommitModes : Finalise(mode)
    \/ \E f \in File :
          \/ \E n \in 1 .. MaxRec : Open(f, n)
          \/ Spill(f) \/ Playback(f) \/ Restore(f) \/ SyncRestored(f) \/ DelOpen(f)
          \/ DelChild(f) \/ DelMaster(f) \/ EndRead(f) \/ PlaybackError(f) \/ RecovererDies(f)
          \/ \E mode \in AllModes : EndPlayback(f, mode)
    \/ CommitError \/ FinaliseError \/ Death \/ PowerFail

Spec == Init /\ [][Next]_vars

-----------------------------------------------------------------------------
(* Every variable has its type.  The name of a master journal lies inside the
   journal, a transaction has a file left to work on until it is over, and a file
   is played back under a writer's or a recoverer's lock. *)
TypeOK ==
    /\ db \in [File -> Txn \cup {Half}]
    /\ jrnl \in [File -> Journals] /\ \A f \in File : jrnl[f].at <= jrnl[f].len
    /\ masters \subseteq Txn /\ list \in [Txn -> SUBSET File]
    /\ dbOld \in [File -> SUBSET (Txn \cup {Half})]
    /\ \A f \in File : jrnlOld[f] \subseteq Journals
    /\ masterOld \subseteq Txn
    /\ lock \in [File -> {"free", "writer", "recoverer", "reader", "joined"}]
    /\ pc \in CommitSteps \cup {"write", "create", "syncMaster", "finalise", "rollback"}
    /\ inTrans \subseteq File /\ todo \subseteq inTrans
    /\ pc # "write" => todo # {}
    /\ master \in Txn /\ size \in [File -> 0 .. MaxRec]
    /\ pb \in [File -> [at : {"idle", "restore", "syncDb", "end", "open", "child"},
                        redo : BOOLEAN, ptr : Txn, left : SUBSET File]]
    /\ \A f \in File : pb[f] # Idle =>
          \/ lock[f] \in {"writer", "recoverer"}
          \/ lock[f] \in {"reader", "joined"} /\ pb[f].at \in {"open", "child"}
    /\ txn \in Txn /\ kind \in Kinds /\ nBad \in 0 .. MaxEvents

Abstract == INSTANCE AtomicCommit WITH
    Value <- Txn, value <- [f \in File |-> Content(f)], writing <- inTrans

(* The files of a transaction change together (vdbeaux.c 2010-2012: the master journal is
   there to ensure that the transaction is committed atomically): not when the commit fails half-way, not when the
   process dies, with the journals of some files synced, named or deleted, not while
   other processes recover the files one by one and tidy up the master journal, and
   not when power fails. *)
CommitsAtomically == Abstract!Spec
=============================================================================
