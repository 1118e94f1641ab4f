------------------------------ MODULE Journal ------------------------------
(***************************************************************************)
(* The rollback journal of the pager (amalgamation sqlite3.c 38000-43030). *)
(* Connections in one or several processes share a database file, its lock *)
(* (FileLock) and one journal beside it.  One action is one call of the    *)
(* VFS with the private computation next to it, so that processes may      *)
(* interleave, die, get an I/O error or lose power between any two calls.  *)
(*                                                                         *)
(* Page 1 is its change counter; the content of another page is the number *)
(* of the transaction that wrote it.  The journal is a sequence of items,  *)
(* headers and page records, each in sectors of its own.                   *)
(***************************************************************************)
EXTENDS Integers, Sequences, FiniteSets, FiniteSetsExt

CONSTANTS
    Conn,                \* connections to the database
    ProcOf,              \* the process of each connection
    NPages, InitSize,    \* most pages of the file, pages at the start
    Modes,               \* the journal modes the connections may be set to
    FullSync,            \* Pager.fullSync: sync the records before the count
    HeaderAligned,       \* synced records end where a header may start
    MaxTxn, MaxItems,    \* bounds: journals started, items in a journal
    MaxFault,            \* bound: deaths and I/O errors, by journal mode
    MaxPowerFail         \* bound: losses of power

ASSUME JournalAssumption ==
    /\ NPages \in Nat /\ InitSize \in 1 .. NPages
    /\ Modes \subseteq [Conn -> {"delete", "truncate", "persist"}] /\ Modes # {}
    /\ MaxFault \in [{"delete", "truncate", "persist"} -> Nat]
    /\ FullSync \in BOOLEAN /\ HeaderAligned \in BOOLEAN
    /\ {MaxTxn, MaxItems, MaxPowerFail} \subseteq Nat
    /\ DOMAIN ProcOf = Conn

VARIABLES
    pc,         \* where each connection is in the code
    pager,      \* its Pager
    mode,       \* its Pager.journalMode
    lock,       \* its lock on the database file
    db, dbDisk,      \* the file as read() returns it, and as it was last synced
    jrnl,            \* the journal: is it there, its items, its items on the disk
    lost,            \* older versions of it the disk may still have
    image, maybe,    \* the committed database, and what a loss of power may leave
    txn, nFault, nPower

files == <<db, dbDisk, jrnl, lost>>
ghosts == <<image, maybe>>
counts == <<txn, nFault, nPower>>
vars == <<pc, pager, mode, lock, files, ghosts, counts>>

Lock == INSTANCE FileLock WITH File <- Conn, level <- lock

Page == 1 .. NPages
Garbage == -1          \* a page or record torn by a loss of power

-----------------------------------------------------------------------------
(* The journal file. *)

Hdr(magic, n, cs, size) ==
    [kind |-> "hdr", magic |-> magic, n |-> n, cs |-> cs, size |-> size]
Rec(p, v, cs) == [kind |-> "rec", page |-> p, value |-> v, cs |-> cs]
Junk == [kind |-> "junk"]

Settled == [name |-> FALSE, files |-> {}]
NoFile == [there |-> FALSE, at |-> <<>>, disk |-> <<>>]
Put(f, i, x) ==
    [f EXCEPT !.there = TRUE,
              !.at = IF i > Len(@) THEN Append(@, x) ELSE [@ EXCEPT ![i] = x]]

(* pager_playback(): how many records are expected before each item, with the
   checksum seed of the header they follow; -1 where reading has stopped.
   last is Pager.journalHdr in a rollback by the writer: a header there is read
   whatever its magic, and when its count is still 0 the records up to the end
   of the file follow it.  For a hot journal last is 0. *)
Scan(j, last) ==
    LET s[i \in 1 .. Len(j) + 1] ==
            IF i = 1 THEN <<0, 0>>
            ELSE LET n == s[i - 1][1]
                     cs == s[i - 1][2]
                     x == j[i - 1]
                     own == i - 1 = last
                 IN CASE n = 0 /\ x.kind = "hdr" /\ (x.magic \/ own) ->
                            <<IF x.n = 0 /\ own THEN Len(j) - last ELSE x.n, x.cs>>
                      [] n > 0 /\ x.kind = "rec" /\ (x.page > j[1].size \/ x.cs = cs) ->
                            <<n - 1, cs>>
                      [] OTHER -> <<-1, 0>>
    IN s

Readable(j, last) == j # <<>> /\ Scan(j, last)[2][1] >= 0
Expected(j, last) == \E i \in 1 .. Len(j) + 1 : Scan(j, last)[i][1] > 0
Played(j, last) ==
    LET s == Scan(j, last)
    IN {i \in DOMAIN j : s[i][1] > 0 /\ s[i + 1][1] >= 0 /\ j[i].page <= j[1].size}

Resized(d, n) == [p \in 1 .. n |-> IF p <= Len(d) THEN d[p] ELSE 0]
PutPage(d, p, v) == [Resized(d, IF p > Len(d) THEN p ELSE Len(d)) EXCEPT ![p] = v]

(* The database a connection finds after a complete rollback of journal f. *)
Restored(f, d) ==
    IF ~f.there \/ ~Readable(f.at, 0) THEN d
    ELSE [p \in 1 .. f.at[1].size |->
            LET W == {i \in Played(f.at, 0) : f.at[i].page = p}
            IN IF W # {} THEN f.at[Max(W)].value
               ELSE Resized(d, f.at[1].size)[p]]

-----------------------------------------------------------------------------
(* Pagers. *)

NoPages == [p \in {} |-> 0]
Fresh == [st |-> "open", op |-> "none", page |-> 0, jfd |-> "closed", own |-> NoFile,
          cache |-> NoPages, vers |-> 0, dirty |-> {}, needSync |-> {}, inJournal |-> {},
          size |-> 0, origSize |-> 0, fileSize |-> 0, countDone |-> FALSE,
          hdr |-> 0, off |-> 0, nRec |-> 0, todo |-> {}]

Cached(P) == DOMAIN P.cache
WithPage(P, p, v) ==
    [P EXCEPT !.cache = [q \in Cached(P) \cup {p} |-> IF q = p THEN v ELSE P.cache[q]]]
Keep(P, S) == [P EXCEPT !.cache = [p \in Cached(P) \cap S |-> P.cache[p]]]

(* pager_reset(). *)
Reset(P) == [P EXCEPT !.cache = NoPages]

(* The fields that only mean something inside a write transaction. *)
EndedTxn(P) ==
    [P EXCEPT !.dirty = {}, !.needSync = {}, !.inJournal = {}, !.origSize = 0,
              !.fileSize = 0, !.countDone = FALSE, !.hdr = 0, !.off = 0, !.nRec = 0,
              !.todo = {}, !.page = 0, !.op = "none"]

(* Mutant: it survives an error as well. *)
KeepsCache_Always(P) == TRUE

KeepsCache(P) == P.st # "error"

(* pager_unlock(): everything but the cache goes, and after an error that too. *)
Unlocked(P) ==
    LET Q == [EndedTxn(P) EXCEPT !.st = "open", !.jfd = "closed", !.own = NoFile]
    IN IF KeepsCache(P) THEN Q ELSE Reset(Q)

Is(c, place) == pc[c] = place
Go(c, place) == pc' = [pc EXCEPT ![c] = place]
SetPager(c, P) == pager' = [pager EXCEPT ![c] = P]
Writing(P) == P.st \in {"locked", "cachemod", "dbmod", "finished"}

(* What the connection reads: its cache, and the file behind it. *)
View(c) == [p \in 1 .. pager[c].size |->
              IF p \in Cached(pager[c]) THEN pager[c].cache[p] ELSE Resized(db, NPages)[p]]

Init ==
    LET d == [p \in 1 .. InitSize |-> 0] IN
    /\ pc = [c \in Conn |-> "idle"]
    /\ pager = [c \in Conn |-> Fresh]
    /\ mode \in Modes
    /\ Lock!Init
    /\ db = d /\ dbDisk = d
    /\ jrnl = NoFile /\ lost = Settled
    /\ image = d /\ maybe = {d}
    /\ txn = 0 /\ nFault = 0 /\ nPower = 0

-----------------------------------------------------------------------------
(* The journal as a connection has it open: another connection may have      *)
(* deleted the file under its descriptor (jfd = "unlinked").                 *)

JFile(c) == IF pager[c].jfd = "unlinked" THEN pager[c].own ELSE jrnl

WriteJrnl(c, P, f) ==
    IF P.jfd = "unlinked"
    THEN SetPager(c, [P EXCEPT !.own = f]) /\ UNCHANGED jrnl
    ELSE SetPager(c, P) /\ jrnl' = f

(* unixSync(): the first sync through a descriptor opened to create the journal
   also syncs its directory. *)
SyncJrnl(c, P) ==
    /\ WriteJrnl(c, IF P.jfd = "dirsync" THEN [P EXCEPT !.jfd = "open"] ELSE P,
                 [JFile(c) EXCEPT !.disk = JFile(c).at])
    /\ LET done == P.jfd = "dirsync" \/ (P.jfd = "open" /\ ~lost.name) IN
       /\ lost' = IF done THEN Settled ELSE lost
       /\ maybe' = IF done THEN {image} ELSE maybe

(* Before the journal is deleted, created or truncated. *)
Forget(name) == lost' = [name |-> name \/ lost.name, files |-> lost.files \cup {jrnl}]

-----------------------------------------------------------------------------
(* sqlite3PagerSharedLock(): take SHARED, look for a hot journal, roll it back. *)

SharedLock(c) ==
    /\ Is(c, "idle") /\ pager[c].st = "open"
    /\ Lock!LockShared(c)
    /\ Go(c, "access")
    /\ UNCHANGED <<pager, mode, files, ghosts, counts>>

(* hasHotJournal() looks three times: for the file, for a RESERVED lock, and
   at the first byte of the file. *)
Access(c) ==
    /\ Is(c, "access")
    /\ Go(c, IF jrnl.there THEN "reserved" ELSE "validate")
    /\ UNCHANGED <<pager, mode, lock, files, ghosts, counts>>

(* Mutant: the PENDING lock of a hot rollback elsewhere counts as well. *)
SeenReserved_Above(c) == \E d \in Conn \ {c} : lock[d] > Lock!SHARED

(* unixCheckReservedLock(): any lock above SHARED in this process, but in
   another process only the RESERVED byte, which a writer keeps under PENDING
   and EXCLUSIVE and a hot rollback never takes. *)
SeenReserved(c) ==
    \E d \in Conn \ {c} :
        lock[d] > Lock!SHARED /\ (ProcOf[d] = ProcOf[c] \/ pager[d].st # "open")

CheckReserved(c) ==
    /\ Is(c, "reserved")
    /\ Go(c, IF SeenReserved(c) THEN "validate" ELSE "first")
    /\ UNCHANGED <<pager, mode, lock, files, ghosts, counts>>

MayBeHot(f) == f.there => f.at # <<>> /\ (f.at[1].kind = "hdr" => f.at[1].magic)
MayBeCold(f) == f.there /\ (f.at # <<>> /\ f.at[1] # Junk => ~MayBeHot(f))

FirstByte(c) ==
    /\ Is(c, "first")
    /\ \/ MayBeHot(jrnl) /\ Go(c, "hotLock")
       \/ MayBeCold(jrnl) /\ Go(c, "validate")
    /\ UNCHANGED <<pager, mode, lock, files, ghosts, counts>>

(* Mutant: two connections may be PENDING. *)
TryExclusive_Both(c) == Lock!SetLevel(c, Lock!PENDING)

(* A request for EXCLUSIVE that is refused leaves PENDING behind if it can. *)
TryExclusive(c) ==
    \/ Lock!LockPending(c)
    \/ (\E d \in Conn \ {c} : lock[d] >= Lock!PENDING) /\ UNCHANGED lock
Alone(c) == \A d \in Conn \ {c} : lock[d] = Lock!NO

HotLock(c) ==
    /\ Is(c, "hotLock")
    /\ \/ Lock!LockExclusive(c) /\ Go(c, "hotOpen")
       \/ ~Alone(c) /\ TryExclusive(c) /\ Go(c, "hotBusy")
    /\ UNCHANGED <<pager, mode, files, ghosts, counts>>

HotBusy(c) ==
    /\ Is(c, "hotBusy")
    /\ Lock!Unlock(c) /\ lock'[c] = Lock!NO
    /\ SetPager(c, Unlocked(pager[c]))
    /\ Go(c, "idle")
    /\ UNCHANGED <<mode, files, ghosts, counts>>

(* Another process may have rolled it back meanwhile; otherwise sync it first
   (pagerSyncHotJournal()). *)
HotOpen(c) ==
    /\ Is(c, "hotOpen")
    /\ \/ /\ ~jrnl.there
          /\ Lock!Unlock(c) /\ lock'[c] = Lock!SHARED
          /\ Go(c, "validate")
          /\ UNCHANGED <<pager, files, ghosts>>
       \/ /\ jrnl.there
          /\ SyncJrnl(c, [pager[c] EXCEPT !.jfd = "open", !.op = "hot"])
          /\ Go(c, "playback")
          /\ UNCHANGED <<lock, db, dbDisk, image>>
    /\ UNCHANGED <<mode, counts>>

(* pager_playback() up to the first record. *)
Playback(c) ==
    /\ Is(c, "playback")
    /\ LET P == pager[c]
           f == JFile(c)
           hot == P.op = "hot"
           last == IF hot \/ (P.hdr > P.off /\ ~HeaderAligned) THEN 0 ELSE P.hdr
           play == Readable(f.at, last)
           n == f.at[1].size
           Q == [P EXCEPT !.todo = Played(f.at, last),
                          !.off = IF play THEN Len(f.at) ELSE 0,
                          !.size = IF play THEN n ELSE @,
                          !.fileSize = IF play THEN n ELSE @,
                          !.countDone = FALSE]
       IN /\ SetPager(c, IF hot /\ Expected(f.at, last) THEN Reset(Q) ELSE Q)
          /\ db' = IF play /\ P.st \in {"open", "dbmod", "finished"} THEN Resized(db, n) ELSE db
    /\ Go(c, "restore")
    /\ UNCHANGED <<mode, lock, dbDisk, jrnl, lost, ghosts, counts>>

(* Mutant: a transaction that spilled pages and did not commit is not undone. *)
IntoFile_Finished(P, i) == P.op = "hot" \/ (P.st = "finished" /\ i < P.hdr)

(* The file needs the record, unless that may not be on the disk yet. *)
IntoFile(P, i) == P.op = "hot" \/ (P.st \in {"dbmod", "finished"} /\ i < P.hdr)

(* pager_playback_one_page(): into the file and into the cache. *)
Restore(c) ==
    /\ Is(c, "restore")
    /\ LET P == pager[c] IN
       \/ /\ P.todo # {}
          /\ LET i == Min(P.todo)
                 x == JFile(c).at[i]
                 Q == [P EXCEPT !.todo = @ \ {i},
                                !.vers = IF x.page = 1 /\ 1 \in Cached(P) THEN x.value ELSE @]
             IN /\ SetPager(c, IF x.page \in Cached(P)
                                THEN [WithPage(Q, x.page, x.value) EXCEPT !.dirty = @ \ {x.page}]
                                ELSE Q)
                /\ db' = IF IntoFile(P, i) THEN PutPage(db, x.page, x.value) ELSE db
          /\ UNCHANGED pc
       \/ /\ P.todo = {}
          /\ Go(c, IF P.st \in {"open", "dbmod", "finished"} THEN "syncDb" ELSE "finalise")
          /\ UNCHANGED <<pager, db>>
    /\ UNCHANGED <<mode, lock, dbDisk, jrnl, lost, ghosts, counts>>

(* sqlite3PagerSync(). *)
SyncDb(c) ==
    /\ Is(c, "syncDb")
    /\ dbDisk' = db
    /\ SetPager(c, [pager[c] EXCEPT !.st = IF pager[c].op = "commit" THEN "finished" ELSE @])
    /\ Go(c, "finalise")
    /\ UNCHANGED <<mode, lock, db, jrnl, lost, ghosts, counts>>

(* A commit takes effect with the journal out of use. *)
Committed(c) ==
    IF pager[c].op = "commit" /\ pager[c].st = "finished"
    THEN image' = View(c) /\ maybe' = maybe \cup {View(c)}
    ELSE UNCHANGED ghosts

(* pager_end_transaction(): the journal is deleted, truncated or its header is
   zeroed.  It is not open when nothing was written. *)
Finalise(c) ==
    /\ Is(c, "finalise")
    /\ LET P == pager[c] IN
       \/ /\ P.jfd = "closed" \/ (mode[c] # "delete" /\ P.off = 0)
          /\ Go(c, "unlock")
          /\ UNCHANGED <<pager, jrnl, lost, ghosts>>
       \/ /\ P.jfd # "closed" /\ mode[c] = "delete"
          /\ jrnl' = NoFile /\ Forget(TRUE)
          /\ pager' = [d \in Conn |->
                IF d = c THEN [P EXCEPT !.jfd = "closed", !.own = NoFile]
                ELSE IF pager[d].jfd \in {"open", "dirsync"}
                THEN [pager[d] EXCEPT !.jfd = "unlinked", !.own = jrnl]
                ELSE pager[d]]
          /\ Committed(c) /\ Go(c, "unlock")
       \/ /\ P.jfd # "closed" /\ mode[c] = "truncate" /\ P.off # 0
          /\ WriteJrnl(c, P, [NoFile EXCEPT !.there = TRUE])
          /\ IF P.jfd = "unlinked" THEN UNCHANGED lost ELSE Forget(FALSE)
          /\ Committed(c) /\ Go(c, "unlock")
       \/ /\ P.jfd # "closed" /\ mode[c] = "persist" /\ P.off # 0
          /\ WriteJrnl(c, P, Put(JFile(c), 1, Hdr(FALSE, 0, 0, 0)))
          /\ Committed(c) /\ Go(c, "syncZero")
          /\ UNCHANGED lost
    /\ UNCHANGED <<mode, lock, db, dbDisk, counts>>

SyncZero(c) ==
    /\ Is(c, "syncZero")
    /\ SyncJrnl(c, pager[c])
    /\ Go(c, "unlock")
    /\ UNCHANGED <<mode, lock, db, dbDisk, image, counts>>

(* The end of pager_end_transaction(): every cached page counts as clean. *)
Unlock(c) ==
    /\ Is(c, "unlock")
    /\ IF lock[c] > Lock!SHARED THEN Lock!Unlock(c) /\ lock'[c] = Lock!SHARED
                                ELSE UNCHANGED lock
    /\ LET P == Keep(EndedTxn(pager[c]), 1 .. pager[c].size) IN
       \/ pager[c].op = "hot" /\ SetPager(c, P) /\ Go(c, "validate")
       \/ pager[c].op # "hot" /\ SetPager(c, [P EXCEPT !.st = "reader"]) /\ Go(c, "idle")
    /\ UNCHANGED <<mode, files, ghosts, counts>>

(* The cache is kept if the change counter of the file is the one it knows. *)
Validate(c) ==
    /\ Is(c, "validate")
    /\ LET P == [pager[c] EXCEPT !.size = Len(db), !.st = "reader"] IN
       SetPager(c, IF Cached(P) # {} /\ P.vers # db[1] THEN Reset(P) ELSE P)
    /\ Go(c, "idle")
    /\ UNCHANGED <<mode, lock, files, ghosts, counts>>

-----------------------------------------------------------------------------
(* Reading, and the start of a write transaction. *)

(* sqlite3PagerAcquire(); the b-tree always holds page 1 first. *)
Loaded(P, p) ==
    IF p \in Cached(P) THEN P
    ELSE LET v == IF p <= P.size /\ p <= Len(db) THEN db[p] ELSE 0 IN
         [WithPage(P, p, v) EXCEPT !.vers = IF p = 1 THEN v ELSE @]

Read(c, p) ==
    /\ Is(c, "idle")
    /\ pager[c].st = "reader" \/ Writing(pager[c])
    /\ p \notin Cached(pager[c]) /\ p <= pager[c].size
    /\ p = 1 \/ 1 \in Cached(pager[c])
    /\ SetPager(c, Loaded(pager[c], p))
    /\ UNCHANGED <<pc, mode, lock, files, ghosts, counts>>

(* pager_unlock(), also the way out of the error state. *)
EndRead(c) ==
    /\ Is(c, "idle") /\ pager[c].st \in {"reader", "error"}
    /\ Lock!Unlock(c) /\ lock'[c] = Lock!NO
    /\ SetPager(c, Unlocked(pager[c]))
    /\ UNCHANGED <<pc, mode, files, ghosts, counts>>

Begin(c) ==
    /\ Is(c, "idle") /\ pager[c].st = "reader" /\ 1 \in Cached(pager[c])
    /\ Lock!LockReserved(c) /\ ~SeenReserved(c)
    /\ SetPager(c, [pager[c] EXCEPT !.st = "locked", !.origSize = pager[c].size,
                                    !.fileSize = pager[c].size])
    /\ UNCHANGED <<pc, mode, files, ghosts, counts>>

-----------------------------------------------------------------------------
(* Writing. *)

(* pager_open_journal() and writeJournalHdr(): the magic and the count of a new
   header are zero. *)
OpenJournal(c, p) ==
    /\ Is(c, "idle") /\ pager[c].st = "locked" /\ txn < MaxTxn
    /\ LET P == pager[c]
           new == P.jfd = "closed"
           Q == [P EXCEPT !.jfd = IF new THEN "dirsync" ELSE @, !.hdr = 1, !.off = 1,
                          !.st = "cachemod", !.page = p]
       IN /\ WriteJrnl(c, Q, Put(JFile(c), 1, Hdr(FALSE, 0, txn + 1, P.origSize)))
          /\ IF new /\ ~jrnl.there THEN Forget(TRUE) ELSE UNCHANGED lost
    /\ txn' = txn + 1
    /\ Go(c, "record")
    /\ UNCHANGED <<mode, lock, db, dbDisk, ghosts, nFault, nPower>>

Seed(c) == JFile(c).at[1].cs

(* pager_write(): page p, loaded in P, is journaled if it has to be and becomes v. *)
WritePage(c, P, p, v) ==
    LET log == p \notin P.inJournal /\ p <= P.origSize
        grown == p > P.origSize /\ P.st # "dbmod"
        Q == [WithPage(P, p, v) EXCEPT
                !.dirty = @ \cup {p}, !.page = 0,
                !.needSync = IF log \/ grown THEN @ \cup {p} ELSE @]
    IN IF log
       THEN /\ P.off < MaxItems
            /\ WriteJrnl(c, [Q EXCEPT !.inJournal = @ \cup {p}, !.off = @ + 1, !.nRec = @ + 1],
                         Put(JFile(c), P.off + 1, Rec(p, P.cache[p], Seed(c))))
       ELSE SetPager(c, Q) /\ UNCHANGED jrnl

(* sqlite3PagerWrite(), also of a new page at the end. *)
Write(c, p) ==
    /\ \/ Is(c, "record") /\ pager[c].page = p
       \/ Is(c, "idle") /\ pager[c].st \in {"cachemod", "dbmod"}
    /\ p \in 2 .. pager[c].size + 1
    /\ p <= pager[c].size \/ pager[c].size >= pager[c].origSize
    /\ WritePage(c, [Loaded(pager[c], p) EXCEPT !.size = IF p > @ THEN p ELSE @], p, txn)
    /\ Go(c, "idle")
    /\ UNCHANGED <<mode, lock, db, dbDisk, lost, ghosts, counts>>

(* sqlite3PagerTruncateImage(), as auto-vacuum uses it. *)
TruncateImage(c) ==
    /\ Is(c, "idle") /\ pager[c].st \in {"cachemod", "dbmod"} /\ pager[c].size > 1
    /\ SetPager(c, [pager[c] EXCEPT !.size = @ - 1])
    /\ UNCHANGED <<pc, mode, lock, files, ghosts, counts>>

(* A record the page depends on is not on the disk. *)
MustSync(c, p) == p \in pager[c].needSync \/ pager[c].st = "cachemod"

(* pagerStress(): a dirty page has to leave the cache. *)
Spill(c, p) ==
    /\ Is(c, "idle") /\ pager[c].st \in {"cachemod", "dbmod"}
    /\ p \in pager[c].dirty \ {1} /\ pager[c].off < MaxItems
    /\ SetPager(c, [pager[c] EXCEPT !.op = "spill", !.page = p])
    /\ Go(c, IF MustSync(c, p) THEN "exclusive" ELSE "writeOut")
    /\ UNCHANGED <<mode, lock, files, ghosts, counts>>

(* sqlite3PagerCommitPhaseOne(), or PhaseTwo at once if nothing was written. *)
Commit(c) ==
    /\ Is(c, "idle") /\ Writing(pager[c])
    /\ SetPager(c, [pager[c] EXCEPT !.op = "commit"])
    /\ Go(c, IF pager[c].st = "locked" THEN "finalise" ELSE "counter")
    /\ UNCHANGED <<mode, lock, files, ghosts, counts>>

(* pager_incr_changecounter(). *)
Counter(c) ==
    /\ Is(c, "counter")
    /\ IF pager[c].countDone THEN UNCHANGED <<pager, jrnl>>
       ELSE WritePage(c, [pager[c] EXCEPT !.countDone = TRUE], 1, pager[c].vers + 1)
    /\ Go(c, "discard")
    /\ UNCHANGED <<mode, lock, db, dbDisk, lost, ghosts, counts>>

(* The pages behind the new end of the file are journaled too. *)
Discard(c) ==
    /\ Is(c, "discard")
    /\ LET P == pager[c]
           rest == (P.size + 1 .. P.origSize) \ P.inJournal
           L == Loaded([P EXCEPT !.size = P.origSize], Min(rest))
       IN IF rest = {} THEN Go(c, "exclusive") /\ UNCHANGED <<pager, jrnl>>
          ELSE WritePage(c, [L EXCEPT !.size = P.size], Min(rest), L.cache[Min(rest)])
               /\ UNCHANGED pc
    /\ UNCHANGED <<mode, lock, db, dbDisk, lost, ghosts, counts>>

-----------------------------------------------------------------------------
(* syncJournal(). *)

(* Mutant: PENDING, left by an attempt that was refused, is enough. *)
Held_Pending(c) == lock[c] >= Lock!PENDING

Held(c) == lock[c] = Lock!EXCLUSIVE

(* The caller gives up when EXCLUSIVE is refused; the transaction stays open. *)
Exclusive(c) ==
    /\ Is(c, "exclusive")
    /\ \/ /\ Lock!LockExclusive(c) \/ (Held(c) /\ UNCHANGED lock)
          /\ Go(c, "nextHeader") /\ UNCHANGED pager
       \/ /\ ~Alone(c) /\ TryExclusive(c)
          /\ SetPager(c, [pager[c] EXCEPT !.op = "none", !.page = 0])
          /\ Go(c, "idle")
    /\ UNCHANGED <<mode, files, ghosts, counts>>

(* Mutant: one sync is saved. *)
NextStep_Early == "count"

NextStep == IF FullSync THEN "sync1" ELSE "count"

(* A header of an older transaction right behind the records loses its magic. *)
NextHeader(c) ==
    /\ Is(c, "nextHeader")
    /\ LET f == JFile(c)
           i == pager[c].off + 1
       IN IF i <= Len(f.at) /\ f.at[i].kind = "hdr" /\ f.at[i].magic
          THEN WriteJrnl(c, pager[c], Put(f, i, [f.at[i] EXCEPT !.magic = FALSE]))
          ELSE UNCHANGED <<pager, jrnl>>
    /\ Go(c, NextStep)
    /\ UNCHANGED <<mode, lock, db, dbDisk, lost, ghosts, counts>>

Sync1(c) ==
    /\ Is(c, "sync1")
    /\ SyncJrnl(c, pager[c])
    /\ Go(c, "count")
    /\ UNCHANGED <<mode, lock, db, dbDisk, image, counts>>

(* Now the header is valid and promises the records. *)
Count(c) ==
    /\ Is(c, "count")
    /\ LET P == pager[c]
           f == JFile(c)
       IN WriteJrnl(c, P, Put(f, P.hdr, [f.at[P.hdr] EXCEPT !.magic = TRUE, !.n = P.nRec]))
    /\ Go(c, "sync2")
    /\ UNCHANGED <<mode, lock, db, dbDisk, lost, ghosts, counts>>

(* journalHdr moves to the end: everything before it is on the disk. *)
Sync2(c) ==
    /\ Is(c, "sync2")
    /\ SyncJrnl(c, [pager[c] EXCEPT !.hdr = pager[c].off + 1, !.st = "dbmod", !.needSync = {},
                       !.todo = IF pager[c].op = "commit"
                                THEN pager[c].dirty \cap (1 .. pager[c].size) ELSE {}])
    /\ Go(c, IF pager[c].op = "spill" THEN "newHeader" ELSE "writeOut")
    /\ UNCHANGED <<mode, lock, db, dbDisk, image, counts>>

NewHeader(c) ==
    /\ Is(c, "newHeader")
    /\ LET P == pager[c]
           i == P.off + 1
       IN WriteJrnl(c, [P EXCEPT !.hdr = i, !.off = i, !.nRec = 0],
                    Put(JFile(c), i, Hdr(FALSE, 0, Seed(c), P.origSize)))
    /\ Go(c, "writeOut")
    /\ UNCHANGED <<mode, lock, db, dbDisk, lost, ghosts, counts>>

(* pager_write_pagelist(): the dirty pages of a commit in order, or the one page
   of a spill, which then leaves the cache. *)
WriteOut(c) ==
    /\ Is(c, "writeOut")
    /\ LET P == pager[c]
           p == IF P.op = "spill" THEN P.page ELSE Min(P.todo)
           Q == [P EXCEPT !.todo = @ \ {p}, !.vers = IF p = 1 THEN P.cache[1] ELSE @,
                          !.fileSize = IF p > @ /\ p <= P.size THEN p ELSE @]
       IN \/ /\ P.op = "spill"
             /\ db' = IF p <= P.size THEN PutPage(db, p, P.cache[p]) ELSE db
             /\ SetPager(c, Keep([Q EXCEPT !.op = "none", !.page = 0, !.dirty = @ \ {p}],
                                 Page \ {p}))
             /\ Go(c, "idle")
          \/ /\ P.op = "commit" /\ P.todo # {}
             /\ db' = PutPage(db, p, P.cache[p])
             /\ SetPager(c, Q)
             /\ UNCHANGED pc
          \/ /\ P.op = "commit" /\ P.todo = {}
             /\ SetPager(c, [P EXCEPT !.dirty = {}])
             /\ Go(c, IF P.size # P.fileSize THEN "truncate" ELSE "syncDb")
             /\ UNCHANGED db
    /\ UNCHANGED <<mode, lock, dbDisk, jrnl, lost, ghosts, counts>>

(* pager_truncate(). *)
Truncate(c) ==
    /\ Is(c, "truncate")
    /\ db' = Resized(db, pager[c].size)
    /\ SetPager(c, [pager[c] EXCEPT !.fileSize = pager[c].size])
    /\ Go(c, "syncDb")
    /\ UNCHANGED <<mode, lock, dbDisk, jrnl, lost, ghosts, counts>>

(* sqlite3PagerRollback(). *)
Rollback(c) ==
    /\ Is(c, "idle") /\ Writing(pager[c])
    /\ SetPager(c, [pager[c] EXCEPT !.op = "rollback", !.page = 0, !.todo = {}])
    /\ Go(c, IF pager[c].st = "locked" THEN "finalise" ELSE "playback")
    /\ UNCHANGED <<mode, lock, files, ghosts, counts>>

-----------------------------------------------------------------------------
(* Failures. *)

JournalWrites == {"record", "counter", "discard", "nextHeader", "sync1", "count", "sync2",
                  "newHeader"}
FileWrites == {"writeOut", "restore", "truncate", "syncDb"}
Finals == {"finalise", "syncZero"}

(* A write that fails may have been carried out in part. *)
PartlyDone(c) ==
    LET P == pager[c]
        f == JFile(c)
    IN \/ UNCHANGED <<db, jrnl>>
       \/ /\ pc[c] = "writeOut" /\ P.todo # {}
          /\ db' = PutPage(db, Min(P.todo), Garbage) /\ UNCHANGED jrnl
       \/ /\ pc[c] = "restore" /\ P.todo # {} /\ P.op = "hot"
          /\ db' = PutPage(db, f.at[Min(P.todo)].page, Garbage) /\ UNCHANGED jrnl
       \/ /\ pc[c] \in {"record", "counter", "discard"} /\ P.jfd # "unlinked"
          /\ P.off < MaxItems
          /\ jrnl' = Put(f, P.off + 1, Junk) /\ UNCHANGED db

MayFail == \A c \in Conn : nFault < MaxFault[mode[c]]
Failed(P) == [EndedTxn(P) EXCEPT !.st = "error"]

(* An I/O error: a commit or a write is rolled back at once, a spill or a
   rollback puts the pager into the error state, a hot rollback is given up and
   an end of transaction that fails still falls back to SHARED. *)
IoError(c) ==
    /\ MayFail /\ nFault' = nFault + 1
    /\ LET P == pager[c] IN
       \/ /\ pc[c] \in JournalWrites \cup FileWrites /\ P.op \in {"none", "commit"}
          /\ PartlyDone(c)
          /\ SetPager(c, [P EXCEPT !.op = "rollback", !.page = 0, !.todo = {}])
          /\ Go(c, "playback")
          /\ UNCHANGED lock
       \/ /\ pc[c] \in JournalWrites \cup FileWrites /\ P.op \in {"spill", "rollback"}
          /\ UNCHANGED <<db, jrnl, lock>>
          /\ SetPager(c, Failed(P))
          /\ Go(c, "idle")
       \/ /\ pc[c] \in FileWrites \cup Finals /\ P.op = "hot"
          /\ PartlyDone(c)
          /\ SetPager(c, Unlocked(Failed(P)))
          /\ Go(c, "idle")
          /\ lock' = [lock EXCEPT ![c] = Lock!NO]
       \/ /\ pc[c] \in Finals /\ P.op \in {"commit", "rollback"} /\ P.jfd # "closed"
          /\ SetPager(c, Failed(P))
          /\ Go(c, "idle")
          /\ lock' = [lock EXCEPT ![c] = Lock!SHARED]
          /\ UNCHANGED <<db, jrnl>>
    /\ UNCHANGED <<mode, dbDisk, lost, ghosts, txn, nPower>>

(* The connections of one process vanish. *)
Crash(k) ==
    /\ MayFail /\ nFault' = nFault + 1
    /\ LET dead == {c \in Conn : ProcOf[c] = k} IN
       /\ pc' = [c \in Conn |-> IF c \in dead THEN "idle" ELSE pc[c]]
       /\ pager' = [c \in Conn |-> IF c \in dead THEN Fresh ELSE pager[c]]
       /\ Lock!Vanish(dead)
    /\ UNCHANGED <<mode, files, ghosts, txn, nPower>>

(* What a loss of power makes of a sequence of sectors: each has the old or the
   new content or is torn, and the end of the file may be missing. *)
Torn(at, disk, spoilt) ==
    LET outcomes(i) ==
            IF i \in DOMAIN at /\ i \in DOMAIN disk /\ at[i] = disk[i] THEN {at[i]}
            ELSE {at[j] : j \in {i} \cap DOMAIN at} \cup {disk[j] : j \in {i} \cap DOMAIN disk}
                 \cup UNION {spoilt[j] : j \in {i} \cap DOMAIN at}
        prefix[n \in 0 .. Len(at) + Len(disk)] ==
            IF n = 0 THEN {<<>>}
            ELSE {Append(s, x) : s \in prefix[n - 1], x \in outcomes(n)}
    IN prefix[Len(at)] \cup prefix[Len(disk)]
SpoiltPages(at) == [i \in DOMAIN at |-> {Garbage}]
SpoiltItems(at) ==
    [i \in DOMAIN at |-> {Junk} \cup (IF at[i].kind = "rec" THEN {[at[i] EXCEPT !.value = Garbage]} ELSE {})]

PowerFail ==
    /\ nPower < MaxPowerFail /\ nPower' = nPower + 1
    /\ \E d \in Torn(db, dbDisk, SpoiltPages(db)), f \in {jrnl} \cup lost.files :
       \E s \in Torn(f.at, f.disk, SpoiltItems(f.at)) :
          LET g == [there |-> f.there, at |-> s, disk |-> s]
              r == Restored(g, d)
          IN /\ db' = d /\ dbDisk' = d
             /\ jrnl' = g
             /\ image' = IF r \in maybe THEN r ELSE image
             /\ maybe' = {image'}
    /\ lost' = Settled
    /\ pc' = [c \in Conn |-> "idle"] /\ pager' = [c \in Conn |-> Fresh]
    /\ Lock!Vanish(Conn)
    /\ UNCHANGED <<mode, txn, nFault>>

Next ==
    \/ \E c \in Conn :
          \/ SharedLock(c) \/ Access(c) \/ CheckReserved(c) \/ FirstByte(c) \/ HotLock(c)
          \/ HotBusy(c) \/ HotOpen(c) \/ Playback(c) \/ Restore(c) \/ SyncDb(c)
          \/ Finalise(c) \/ SyncZero(c) \/ Unlock(c) \/ Validate(c)
          \/ EndRead(c) \/ Begin(c) \/ TruncateImage(c) \/ Commit(c) \/ Counter(c)
          \/ Discard(c) \/ Exclusive(c) \/ NextHeader(c) \/ Sync1(c) \/ Count(c)
          \/ Sync2(c) \/ NewHeader(c) \/ WriteOut(c) \/ Truncate(c) \/ Rollback(c)
          \/ IoError(c)
          \/ \E p \in Page : Read(c, p) \/ OpenJournal(c, p) \/ Write(c, p) \/ Spill(c, p)
    \/ \E k \in {ProcOf[c] : c \in Conn} : Crash(k)
    \/ PowerFail

Spec == Init /\ [][Next]_vars

-----------------------------------------------------------------------------
(* Every variable keeps its shape. *)
TypeOK ==
    /\ mode \in Modes
    /\ Lock!TypeOK /\ Lock!Exclusion
    /\ DOMAIN pc = Conn /\ DOMAIN pager = Conn
    /\ txn \in 0 .. MaxTxn

(* Whatever connections, crashes and losses of power did, rolling back the
   journal that lies beside the file gives the last committed database
   (syncJournal(), pager_playback()). *)
Recoverable == Restored(jrnl, db) = image

(* A connection between two calls of a read transaction, or of a write
   transaction that has not changed anything yet, sees the last committed
   database: through its cache and through the file, whose journal it has found
   to be absent, cold, or in the hands of a live writer. *)
ViewOK ==
    \A c \in Conn :
        Is(c, "idle") /\ pager[c].st \in {"reader", "locked"} => View(c) = image

(* Pages kept over the end of a transaction are those of the database with that
   change counter, so a later transaction may trust them (the check of
   dbFileVers in sqlite3PagerSharedLock()). *)
CacheTrusted ==
    \A c \in Conn :
        LET P == pager[c] IN
        Is(c, "idle") /\ P.st = "open" /\ Cached(P) # {} /\ P.vers = image[1] =>
            \A p \in Cached(P) : p \in DOMAIN image /\ P.cache[p] = image[p]

(* sqlite3.c 37026-37055: the database file is only written, by a process and
   not by a loss of power, under EXCLUSIVE, and the journal beside it only while
   someone has RESERVED or more. *)
WritesLocked ==
    [][\/ PowerFail
       \/ /\ db' # db => \E c \in Conn : lock[c] = Lock!EXCLUSIVE
          /\ jrnl' # jrnl => \E c \in Conn : lock[c] >= Lock!RESERVED]_vars
=============================================================================
