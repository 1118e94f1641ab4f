--------------------------- MODULE JournalProofs ---------------------------
(***************************************************************************)
(* The lock discipline of Journal, for any number of connections, pages,   *)
(* transactions and faults.                                                *)
(***************************************************************************)
EXTENDS Journal, TLAPS

Undo == {"playback", "restore", "syncDb", "finalise", "syncZero", "unlock"}
Prepare == {"record", "counter", "discard", "exclusive"}
Flush == {"nextHeader", "sync1", "count", "sync2", "newHeader", "writeOut", "truncate"}
WriterStates == {"locked", "cachemod", "dbmod", "finished"}

(* The lock l a connection has at a place of the code with a pager in state st
   that carries out op. *)
Allowed(at, st, op, l) ==
    /\ st \in {"open", "reader", "error"} \cup WriterStates
    /\ at = "idle" => /\ st = "open" => l = Lock!NO
                      /\ st = "reader" => l = Lock!SHARED
                      /\ st = "error" => l >= Lock!SHARED
    /\ at \in {"access", "reserved", "first", "hotLock", "validate"} =>
          st = "open" /\ l = Lock!SHARED
    /\ at = "hotBusy" => st = "open" /\ l >= Lock!SHARED
    /\ at = "hotOpen" => st = "open" /\ l = Lock!EXCLUSIVE
    /\ at \in Undo => IF op = "hot" THEN st = "open" /\ l = Lock!EXCLUSIVE
                                    ELSE st \in WriterStates
    /\ at = "syncDb" => l = Lock!EXCLUSIVE
    /\ at \in Prepare => st \in WriterStates
    /\ at \in Flush => st \in WriterStates /\ l = Lock!EXCLUSIVE
    /\ at = "truncate" => op # "hot"
    /\ st \in WriterStates => l >= Lock!RESERVED
    /\ st \in {"dbmod", "finished"} => l = Lock!EXCLUSIVE
    /\ at \in {"idle", "access", "reserved", "first", "hotLock", "validate", "hotBusy",
               "hotOpen"} \cup Undo \cup Prepare \cup Flush

HasState(P) == {"st", "op"} \subseteq DOMAIN P

Shape == DOMAIN pc = Conn /\ DOMAIN pager = Conn /\ \A c \in Conn : HasState(pager[c])
Places == \A c \in Conn : Allowed(pc[c], pager[c].st, pager[c].op, lock[c])
LockInv == Lock!TypeOK /\ Lock!Exclusion
IInv == Shape /\ Places /\ LockInv /\ mode \in Modes /\ txn \in 0 .. MaxTxn

-----------------------------------------------------------------------------
(* The lock by itself. *)

(* The five levels of os.h as numbers. *)
LEMMA LockLevels == Lock!NO = 0 /\ Lock!SHARED = 1 /\ Lock!RESERVED = 2 /\ Lock!PENDING = 3
                    /\ Lock!EXCLUSIVE = 4
  BY DEF Lock!NO, Lock!SHARED, Lock!RESERVED, Lock!PENDING, Lock!EXCLUSIVE

(* The abstract lock keeps its type and its exclusion. *)
LEMMA LockNext == LockInv /\ (Lock!Next \/ UNCHANGED lock) => LockInv'
<1> USE DEF LockInv, Lock!TypeOK, Lock!Exclusion, Lock!Level, Lock!Others, Lock!SetLevel,
            Lock!NO, Lock!SHARED, Lock!RESERVED, Lock!PENDING, Lock!EXCLUSIVE
<1> SUFFICES ASSUME LockInv, Lock!Next \/ UNCHANGED lock
             PROVE  LockInv'
  OBVIOUS
<1>1. CASE UNCHANGED lock
  BY <1>1
<1>2. ASSUME NEW c \in Conn, Lock!LockShared(c) PROVE LockInv'
  BY <1>2 DEF Lock!LockShared
<1>3. ASSUME NEW c \in Conn, Lock!LockReserved(c) PROVE LockInv'
  BY <1>3 DEF Lock!LockReserved
<1>4. ASSUME NEW c \in Conn, Lock!LockPending(c) PROVE LockInv'
  BY <1>4 DEF Lock!LockPending
<1>5. ASSUME NEW c \in Conn, Lock!LockExclusive(c) PROVE LockInv'
  BY <1>5 DEF Lock!LockExclusive
<1>6. ASSUME NEW c \in Conn, Lock!Unlock(c) PROVE LockInv'
  BY <1>6 DEF Lock!Unlock
<1>7. ASSUME NEW F \in SUBSET Conn, Lock!Vanish(F) PROVE LockInv'
  BY <1>7 DEF Lock!Vanish
<1> QED
  BY <1>1, <1>2, <1>3, <1>4, <1>5, <1>6, <1>7 DEF Lock!Next

LockOfOthers(c) == \A d \in Conn \ {c} : lock'[d] = lock[d]

(* What a call of the VFS does to the levels. *)
LEMMA LockCalls ==
    ASSUME LockInv, NEW c \in Conn
    PROVE  /\ Lock!LockShared(c) =>
                  Lock!Next /\ LockOfOthers(c) /\ lock'[c] = Lock!SHARED
           /\ Lock!LockReserved(c) =>
                  Lock!Next /\ LockOfOthers(c) /\ lock'[c] = Lock!RESERVED
           /\ Lock!LockPending(c) =>
                  /\ Lock!Next /\ LockOfOthers(c)
                  /\ lock'[c] = Lock!PENDING /\ lock[c] < Lock!PENDING
           /\ Lock!LockExclusive(c) =>
                  Lock!Next /\ LockOfOthers(c) /\ lock'[c] = Lock!EXCLUSIVE
           /\ Lock!Unlock(c) => Lock!Next /\ LockOfOthers(c)
  BY DEF Lock!LockShared, Lock!LockReserved, Lock!LockPending, Lock!LockExclusive,
         Lock!Unlock, Lock!SetLevel, LockInv, Lock!TypeOK, LockOfOthers, Lock!Next,
         Lock!NO, Lock!SHARED, Lock!RESERVED, Lock!PENDING, Lock!EXCLUSIVE

(* A refused request for EXCLUSIVE leaves the level as it was, or PENDING. *)
LEMMA TriedExclusive ==
    ASSUME LockInv, NEW c \in Conn, TryExclusive(c)
    PROVE  /\ Lock!Next \/ UNCHANGED lock
           /\ LockOfOthers(c)
           /\ lock'[c] = lock[c] \/ (lock'[c] = Lock!PENDING /\ lock[c] < Lock!PENDING)
  BY LockCalls DEF TryExclusive, LockOfOthers

-----------------------------------------------------------------------------
(* What a step of one connection leaves of the pagers: its own in state st with
   op, the others as they were. *)

PlaceIs(c, at) ==
    /\ DOMAIN pc' = Conn /\ pc'[c] = at
    /\ \A d \in Conn \ {c} : pc'[d] = pc[d]
PagerIs(c, st, op) ==
    /\ DOMAIN pager' = Conn
    /\ HasState(pager'[c]) /\ pager'[c].st = st /\ pager'[c].op = op
    /\ \A d \in Conn \ {c} : /\ HasState(pager'[d])
                             /\ pager'[d].st = pager[d].st /\ pager'[d].op = pager[d].op

Keeps == /\ Shape' /\ Places' /\ (Lock!Next \/ UNCHANGED lock)
         /\ mode' = mode /\ txn' \in 0 .. MaxTxn

(* A step of one connection keeps the invariant if its new place allows its lock. *)
LEMMA Settle ==
    ASSUME IInv, NEW c \in Conn, NEW at, NEW st, NEW op, PlaceIs(c, at), PagerIs(c, st, op),
           LockOfOthers(c), Allowed(at, st, op, lock'[c])
    PROVE  Shape' /\ Places'
<1>1. Shape'
  BY DEF PlaceIs, PagerIs, Shape
<1>2. Places'
  <2> SUFFICES ASSUME NEW d \in Conn
               PROVE  Allowed(pc'[d], pager'[d].st, pager'[d].op, lock'[d])
    BY DEF Places
  <2>1. CASE d = c
    BY <2>1 DEF PlaceIs, PagerIs
  <2>2. CASE d # c
    <3>1. Allowed(pc[d], pager[d].st, pager[d].op, lock[d])
      BY DEF IInv, Places
    <3>2. /\ pc'[d] = pc[d] /\ lock'[d] = lock[d]
          /\ pager'[d].st = pager[d].st /\ pager'[d].op = pager[d].op
      BY <2>2 DEF PlaceIs, PagerIs, LockOfOthers
    <3> QED
      BY <3>1, <3>2
  <2> QED
    BY <2>1, <2>2
<1> QED
  BY <1>1, <1>2

(* Where a connection goes. *)
LEMMA GoPlace ==
    ASSUME Shape, NEW c \in Conn, NEW at
    PROVE  (Go(c, at) => PlaceIs(c, at)) /\ (UNCHANGED pc => PlaceIs(c, pc[c]))
  BY DEF Shape, Go, PlaceIs

(* A step that leaves the pagers alone. *)
LEMMA SamePager ==
    ASSUME Shape, NEW c \in Conn, UNCHANGED pager
    PROVE  PagerIs(c, pager[c].st, pager[c].op)
  BY DEF Shape, PagerIs

(* A step that only changes its own pager. *)
LEMMA SetPagerIs ==
    ASSUME Shape, NEW c \in Conn, NEW P, HasState(P), SetPager(c, P)
    PROVE  PagerIs(c, P.st, P.op)
  BY DEF Shape, SetPager, PagerIs

(* A write to the journal. *)
LEMMA WriteJrnlIs ==
    ASSUME Shape, NEW c \in Conn, NEW P, HasState(P), NEW f, WriteJrnl(c, P, f)
    PROVE  PagerIs(c, P.st, P.op)
<1>1. HasState([P EXCEPT !.own = f]) /\ [P EXCEPT !.own = f].st = P.st
      /\ [P EXCEPT !.own = f].op = P.op
  BY DEF HasState
<1> QED
  BY <1>1, SetPagerIs DEF WriteJrnl

(* A sync of the journal. *)
LEMMA SyncJrnlIs ==
    ASSUME Shape, NEW c \in Conn, NEW P, HasState(P), SyncJrnl(c, P)
    PROVE  PagerIs(c, P.st, P.op)
<1>1. HasState([P EXCEPT !.jfd = "open"]) /\ [P EXCEPT !.jfd = "open"].st = P.st
      /\ [P EXCEPT !.jfd = "open"].op = P.op
  BY DEF HasState
<1> DEFINE Q == IF P.jfd = "dirsync" THEN [P EXCEPT !.jfd = "open"] ELSE P
           f == [JFile(c) EXCEPT !.disk = JFile(c).at]
<1>2. HasState(Q) /\ Q.st = P.st /\ Q.op = P.op
  BY <1>1
<1>3. WriteJrnl(c, Q, f)
  BY DEF SyncJrnl
<1> HIDE DEF Q, f
<1> QED
  BY <1>2, <1>3, WriteJrnlIs

(* The helpers that change a pager leave its state alone, but for the two that
   end a transaction. *)
SameState(Q, P) == HasState(Q) /\ Q.st = P.st /\ Q.op = P.op

(* pager_reset(). *)
LEMMA ResetState == ASSUME NEW P, HasState(P) PROVE SameState(Reset(P), P)
  BY DEF SameState, Reset, HasState

(* A page enters the cache. *)
LEMMA WithPageState ==
    ASSUME NEW P, HasState(P), NEW p, NEW v PROVE SameState(WithPage(P, p, v), P)
  BY DEF SameState, WithPage, HasState

(* Pages leave the cache. *)
LEMMA KeepState == ASSUME NEW P, HasState(P), NEW S PROVE SameState(Keep(P, S), P)
  BY DEF SameState, Keep, HasState

(* sqlite3PagerAcquire(). *)
LEMMA LoadedState == ASSUME NEW P, HasState(P), NEW p PROVE SameState(Loaded(P, p), P)
<1> DEFINE v == IF p <= P.size /\ p <= Len(db) THEN db[p] ELSE 0
           w == IF p = 1 THEN v ELSE WithPage(P, p, v).vers
           Q == [WithPage(P, p, v) EXCEPT !.vers = w]
<1>1. SameState(WithPage(P, p, v), P)
  BY WithPageState
<1>2. SameState(Q, P)
  BY <1>1 DEF SameState, HasState
<1>3. Loaded(P, p) = IF p \in Cached(P) THEN P ELSE Q
  BY DEF Loaded
<1> QED
  BY <1>2, <1>3 DEF SameState

(* The end of a transaction clears op and keeps the state. *)
LEMMA EndedState ==
    ASSUME NEW P, HasState(P)
    PROVE  HasState(EndedTxn(P)) /\ EndedTxn(P).st = P.st /\ EndedTxn(P).op = "none"
  BY DEF EndedTxn, HasState

(* pager_unlock() ends in state open. *)
LEMMA UnlockedState ==
    ASSUME NEW P, HasState(P) PROVE HasState(Unlocked(P)) /\ Unlocked(P).st = "open"
<1> DEFINE Q == [EndedTxn(P) EXCEPT !.st = "open", !.jfd = "closed", !.own = NoFile]
<1>1. HasState(Q) /\ Q.st = "open"
  BY EndedState DEF HasState
<1>2. Unlocked(P) = Q \/ Unlocked(P) = Reset(Q)
  BY DEF Unlocked
<1> HIDE DEF Q
<1> QED
  BY <1>1, <1>2, ResetState DEF SameState

(* pager_error() ends in state error. *)
LEMMA FailedState ==
    ASSUME NEW P, HasState(P) PROVE HasState(Failed(P)) /\ Failed(P).st = "error"
  BY EndedState DEF Failed, HasState

(* pager_write(). *)
LEMMA WritePageIs ==
    ASSUME Shape, NEW c \in Conn, NEW P, HasState(P), NEW p, NEW v, WritePage(c, P, p, v)
    PROVE  PagerIs(c, P.st, P.op)
<1> DEFINE log == p \notin P.inJournal /\ p <= P.origSize
           grown == p > P.origSize /\ P.st # "dbmod"
           W == WithPage(P, p, v)
           Q == [W EXCEPT !.dirty = @ \cup {p}, !.page = 0,
                          !.needSync = IF log \/ grown THEN @ \cup {p} ELSE @]
           R == [Q EXCEPT !.inJournal = @ \cup {p}, !.off = @ + 1, !.nRec = @ + 1]
           f == Put(JFile(c), P.off + 1, Rec(p, P.cache[p], Seed(c)))
<1>1. SameState(W, P)
  BY WithPageState
<1>2. SameState(Q, P)
  <2> HIDE DEF W, log, grown
  <2> QED
    BY <1>1 DEF SameState, HasState
<1>3. SameState(R, P)
  <2> HIDE DEF Q
  <2> QED
    BY <1>2 DEF SameState, HasState
<1>4. WriteJrnl(c, R, f) \/ SetPager(c, Q)
  BY DEF WritePage
<1> HIDE DEF Q, R, f
<1>5. CASE WriteJrnl(c, R, f)
  BY <1>3, <1>5, WriteJrnlIs DEF SameState
<1>6. CASE SetPager(c, Q)
  BY <1>2, <1>6, SetPagerIs DEF SameState
<1> QED
  BY <1>4, <1>5, <1>6

-----------------------------------------------------------------------------
(* The steps, one lemma for each. *)

(* What the invariant says of one connection. *)
LEMMA Here ==
    ASSUME IInv, NEW c \in Conn
    PROVE  /\ Allowed(pc[c], pager[c].st, pager[c].op, lock[c])
           /\ HasState(pager[c]) /\ lock[c] \in Lock!Level /\ Shape /\ LockInv
           /\ mode \in Modes /\ txn \in 0 .. MaxTxn
  BY DEF IInv, Shape, Places, LockInv, Lock!TypeOK

(* A step that leaves the lock and the journals begun alone. *)
LEMMA QuietStep ==
    ASSUME IInv, NEW c \in Conn, NEW at, NEW st, NEW op, PlaceIs(c, at), PagerIs(c, st, op),
           UNCHANGED <<lock, mode, txn>>, Allowed(at, st, op, lock[c])
    PROVE  Keeps
<1>1. LockOfOthers(c) /\ lock'[c] = lock[c]
  BY DEF LockOfOthers
<1>2. Shape' /\ Places'
  BY <1>1, Settle
<1> QED
  BY <1>2 DEF IInv, Keeps

(* The set of levels. *)
LEMMA Levels == Lock!Level = 0 .. 4
  BY LockLevels DEF Lock!Level

(* The invariant over a step: hasHotJournal(), the file. *)
LEMMA StepAccess == ASSUME IInv, NEW c \in Conn, Access(c) PROVE Keeps
<1>1. PagerIs(c, pager[c].st, pager[c].op) /\ UNCHANGED <<lock, mode, txn>>
  BY Here, SamePager DEF Access, counts
<1>2. \/ PlaceIs(c, "reserved") /\ Allowed("reserved", pager[c].st, pager[c].op, lock[c])
      \/ PlaceIs(c, "validate") /\ Allowed("validate", pager[c].st, pager[c].op, lock[c])
  BY Here, GoPlace, LockLevels DEF Access, Is, Allowed, Undo, Prepare, Flush, WriterStates
<1> QED
  BY <1>1, <1>2, QuietStep

(* The invariant over a step: hasHotJournal(), the lock. *)
LEMMA StepCheckReserved == ASSUME IInv, NEW c \in Conn, CheckReserved(c) PROVE Keeps
<1>1. PagerIs(c, pager[c].st, pager[c].op) /\ UNCHANGED <<lock, mode, txn>>
  BY Here, SamePager DEF CheckReserved, counts
<1>2. \/ PlaceIs(c, "first") /\ Allowed("first", pager[c].st, pager[c].op, lock[c])
      \/ PlaceIs(c, "validate") /\ Allowed("validate", pager[c].st, pager[c].op, lock[c])
  BY Here, GoPlace, LockLevels
  DEF CheckReserved, Is, Allowed, Undo, Prepare, Flush, WriterStates
<1> QED
  BY <1>1, <1>2, QuietStep

(* The invariant over a step: hasHotJournal(), the first byte. *)
LEMMA StepFirstByte == ASSUME IInv, NEW c \in Conn, FirstByte(c) PROVE Keeps
<1>1. PagerIs(c, pager[c].st, pager[c].op) /\ UNCHANGED <<lock, mode, txn>>
  BY Here, SamePager DEF FirstByte, counts
<1>2. \/ PlaceIs(c, "hotLock") /\ Allowed("hotLock", pager[c].st, pager[c].op, lock[c])
      \/ PlaceIs(c, "validate") /\ Allowed("validate", pager[c].st, pager[c].op, lock[c])
  BY Here, GoPlace, LockLevels
  DEF FirstByte, Is, Allowed, Undo, Prepare, Flush, WriterStates
<1> QED
  BY <1>1, <1>2, QuietStep

(* A step of the lock. *)
LEMMA LockStep ==
    ASSUME IInv, NEW c \in Conn, NEW at, NEW st, NEW op, PlaceIs(c, at), PagerIs(c, st, op),
           UNCHANGED <<mode, txn>>, Lock!Next \/ UNCHANGED lock, LockOfOthers(c),
           Allowed(at, st, op, lock'[c])
    PROVE  Keeps
  BY Settle DEF IInv, Keeps

(* The invariant over a step: SHARED. *)
LEMMA StepSharedLock == ASSUME IInv, NEW c \in Conn, SharedLock(c) PROVE Keeps
<1>1. PlaceIs(c, "access") /\ PagerIs(c, pager[c].st, pager[c].op)
      /\ UNCHANGED <<mode, txn>>
  BY Here, GoPlace, SamePager DEF SharedLock, counts
<1>2. Lock!Next /\ LockOfOthers(c) /\ lock'[c] = Lock!SHARED
  BY Here, LockCalls DEF SharedLock
<1>3. Allowed("access", pager[c].st, pager[c].op, lock'[c])
  BY <1>2, Here, LockLevels
  DEF SharedLock, Allowed, Undo, Prepare, Flush, WriterStates
<1> QED
  BY <1>1, <1>2, <1>3, LockStep

(* The invariant over a step: EXCLUSIVE for a hot journal. *)
LEMMA StepHotLock == ASSUME IInv, NEW c \in Conn, HotLock(c) PROVE Keeps
<1>1. PagerIs(c, pager[c].st, pager[c].op) /\ UNCHANGED <<mode, txn>>
  BY Here, SamePager DEF HotLock, counts
<1>2. CASE Lock!LockExclusive(c) /\ Go(c, "hotOpen")
  <2>1. PlaceIs(c, "hotOpen") /\ Lock!Next /\ LockOfOthers(c) /\ lock'[c] = Lock!EXCLUSIVE
    BY <1>2, Here, LockCalls, GoPlace
  <2>2. Allowed("hotOpen", pager[c].st, pager[c].op, lock'[c])
    BY <2>1, Here, LockLevels
    DEF HotLock, Is, Allowed, Undo, Prepare, Flush, WriterStates
  <2> QED
    BY <1>1, <2>1, <2>2, LockStep
<1>3. CASE TryExclusive(c) /\ Go(c, "hotBusy")
  <2>1. PlaceIs(c, "hotBusy")
    BY <1>3, Here, GoPlace
  <2>2. /\ Lock!Next \/ UNCHANGED lock
        /\ LockOfOthers(c) /\ (lock'[c] = lock[c] \/ lock'[c] = Lock!PENDING)
    BY <1>3, Here, TriedExclusive
  <2>3. Allowed("hotBusy", pager[c].st, pager[c].op, lock'[c])
    BY <2>2, Here, LockLevels
    DEF HotLock, Is, Allowed, Undo, Prepare, Flush, WriterStates
  <2> QED
    BY <1>1, <2>1, <2>2, <2>3, LockStep
<1> QED
  BY <1>2, <1>3 DEF HotLock

(* The invariant over a step: the lock given back. *)
LEMMA StepHotBusy == ASSUME IInv, NEW c \in Conn, HotBusy(c) PROVE Keeps
<1> DEFINE Q == Unlocked(pager[c])
<1>1. HasState(Q) /\ Q.st = "open"
  BY Here, UnlockedState
<1>2. SetPager(c, Q) /\ UNCHANGED <<mode, txn>>
  BY DEF HotBusy, counts
<1> HIDE DEF Q
<1>3. PlaceIs(c, "idle") /\ PagerIs(c, Q.st, Q.op)
  BY <1>1, <1>2, Here, GoPlace, SetPagerIs DEF HotBusy
<1>4. Lock!Next /\ LockOfOthers(c) /\ lock'[c] = Lock!NO
  BY Here, LockCalls DEF HotBusy
<1>5. Allowed("idle", Q.st, Q.op, lock'[c])
  BY <1>1, <1>4, LockLevels DEF Allowed, Undo, Prepare, Flush, WriterStates
<1> QED
  BY <1>2, <1>3, <1>4, <1>5, LockStep

(* The invariant over a step: a hot journal opened. *)
LEMMA StepHotOpen == ASSUME IInv, NEW c \in Conn, HotOpen(c) PROVE Keeps
<1>1. pager[c].st = "open" /\ lock[c] = Lock!EXCLUSIVE /\ UNCHANGED <<mode, txn>>
  BY Here DEF HotOpen, Is, Allowed, counts
<1>2. CASE UNCHANGED pager /\ Lock!Unlock(c) /\ lock'[c] = Lock!SHARED /\ Go(c, "validate")
  <2>1. PlaceIs(c, "validate") /\ PagerIs(c, pager[c].st, pager[c].op)
    BY <1>2, Here, GoPlace, SamePager
  <2>2. Lock!Next /\ LockOfOthers(c)
    BY <1>2, Here, LockCalls
  <2>3. Allowed("validate", pager[c].st, pager[c].op, lock'[c])
    BY <1>1, <1>2, LockLevels DEF Allowed, Undo, Prepare, Flush, WriterStates
  <2> QED
    BY <1>1, <2>1, <2>2, <2>3, LockStep
<1> DEFINE Q == [pager[c] EXCEPT !.jfd = "open", !.op = "hot"]
<1>3. CASE UNCHANGED lock /\ SyncJrnl(c, Q) /\ Go(c, "playback")
  <2>1. HasState(Q) /\ Q.st = "open" /\ Q.op = "hot"
    BY <1>1, Here DEF HasState
  <2> HIDE DEF Q
  <2>2. PlaceIs(c, "playback") /\ PagerIs(c, Q.st, Q.op)
    BY <1>3, <2>1, Here, GoPlace, SyncJrnlIs
  <2>3. Allowed("playback", Q.st, Q.op, lock[c])
    BY <1>1, <2>1, LockLevels DEF Allowed, Undo, Prepare, Flush, WriterStates
  <2> QED
    BY <1>1, <1>3, <2>2, <2>3, QuietStep
<1> QED
  BY <1>2, <1>3 DEF HotOpen

(* The invariant over a step: pager_playback(). *)
LEMMA StepPlayback == ASSUME IInv, NEW c \in Conn, Playback(c) PROVE Keeps
<1> DEFINE P == pager[c]
           f == JFile(c)
           hot == P.op = "hot"
           last == IF hot \/ (P.hdr > P.off /\ ~HeaderAligned) THEN 0 ELSE P.hdr
           play == Readable(f.at, last)
           n == f.at[1].size
           Q == [P EXCEPT !.todo = Played(f.at, last),
                          !.off = IF play THEN Len(f.at) ELSE 0,
                          !.size = IF play THEN n ELSE @,
                          !.fileSize = IF play THEN n ELSE @,
                          !.countDone = FALSE]
<1>1. SameState(Q, P)
  <2> HIDE DEF f, hot, last, play, n
  <2> QED
    BY Here DEF SameState, HasState
<1>2. SetPager(c, Q) \/ SetPager(c, Reset(Q))
  BY DEF Playback
<1>3. Go(c, "restore") /\ UNCHANGED <<lock, mode, txn>> /\ Is(c, "playback")
  BY DEF Playback, counts
<1> HIDE DEF Q
<1>4. PlaceIs(c, "restore") /\ PagerIs(c, P.st, P.op)
  BY <1>1, <1>2, <1>3, Here, GoPlace, SetPagerIs, ResetState DEF SameState
<1>5. Allowed("restore", P.st, P.op, lock[c])
  BY <1>3, Here, LockLevels DEF Is, Allowed, Undo, Prepare, Flush, WriterStates
<1> QED
  BY <1>3, <1>4, <1>5, QuietStep

(* The invariant over a step: pager_playback_one_page(). *)
LEMMA StepRestore == ASSUME IInv, NEW c \in Conn, Restore(c) PROVE Keeps
<1> DEFINE P == pager[c]
<1>1. UNCHANGED <<lock, mode, txn>> /\ Is(c, "restore") /\ HasState(P) /\ Shape
  BY Here DEF Restore, counts
<1>2. CASE P.todo # {} /\ UNCHANGED pc
  <2> DEFINE i == Min(P.todo)
             x == JFile(c).at[i]
             Q == [P EXCEPT !.todo = @ \ {i},
                            !.vers = IF x.page = 1 /\ 1 \in Cached(P) THEN x.value ELSE @]
             W == WithPage(Q, x.page, x.value)
             R == [W EXCEPT !.dirty = @ \ {x.page}]
  <2>1. SetPager(c, R) \/ SetPager(c, Q)
    BY <1>2 DEF Restore
  <2>2. SameState(Q, P)
    <3> HIDE DEF x, i
    <3> QED
      BY <1>1 DEF SameState, HasState
  <2>3. SameState(W, P)
    <3> HIDE DEF x, Q
    <3> QED
      BY <2>2, WithPageState DEF SameState
  <2>4. SameState(R, P)
    <3> HIDE DEF x, W
    <3> QED
      BY <2>3 DEF SameState, HasState
  <2> HIDE DEF Q, R
  <2>5. PlaceIs(c, pc[c]) /\ PagerIs(c, P.st, P.op)
    BY <1>1, <1>2, <2>1, <2>2, <2>4, GoPlace, SetPagerIs DEF SameState
  <2> QED
    BY <1>1, <2>5, Here, QuietStep
<1>3. CASE P.todo = {} /\ UNCHANGED pager
           /\ Go(c, IF P.st \in {"open", "dbmod", "finished"} THEN "syncDb" ELSE "finalise")
  <2> DEFINE at == IF P.st \in {"open", "dbmod", "finished"} THEN "syncDb" ELSE "finalise"
  <2>1. Allowed(at, P.st, P.op, lock[c])
    BY <1>1, Here, LockLevels DEF Is, Allowed, Undo, Prepare, Flush, WriterStates
  <2>2. Go(c, at)
    BY <1>3
  <2> HIDE DEF at
  <2>3. PlaceIs(c, at) /\ PagerIs(c, P.st, P.op)
    BY <1>1, <1>3, <2>2, GoPlace, SamePager
  <2> QED
    BY <1>1, <2>1, <2>3, QuietStep
<1> QED
  BY <1>2, <1>3 DEF Restore

(* The invariant over a step: sqlite3PagerSync(). *)
LEMMA StepSyncDb == ASSUME IInv, NEW c \in Conn, SyncDb(c) PROVE Keeps
<1> DEFINE P == pager[c]
           Q == [P EXCEPT !.st = IF P.op = "commit" THEN "finished" ELSE @]
<1>1. /\ UNCHANGED <<lock, mode, txn>> /\ Is(c, "syncDb") /\ HasState(P) /\ Shape
      /\ SetPager(c, Q) /\ Go(c, "finalise")
  BY Here DEF SyncDb, counts
<1>2. HasState(Q) /\ Q.op = P.op /\ Q.st = IF P.op = "commit" THEN "finished" ELSE P.st
  BY <1>1 DEF HasState
<1>3. Allowed("finalise", Q.st, Q.op, lock[c])
  BY <1>1, <1>2, Here, LockLevels DEF Is, Allowed, Undo, Prepare, Flush, WriterStates
<1> HIDE DEF Q
<1>4. PlaceIs(c, "finalise") /\ PagerIs(c, Q.st, Q.op)
  BY <1>1, <1>2, GoPlace, SetPagerIs
<1> QED
  BY <1>1, <1>3, <1>4, QuietStep

(* Deleting the journal also takes the name from the descriptors of others. *)
LEMMA StepFinalise == ASSUME IInv, NEW c \in Conn, Finalise(c) PROVE Keeps
<1> DEFINE P == pager[c]
<1>1. UNCHANGED <<lock, mode, txn>> /\ Is(c, "finalise") /\ HasState(P) /\ Shape
  BY Here DEF Finalise, counts
<1>2. /\ Allowed("unlock", P.st, P.op, lock[c])
      /\ Allowed("syncZero", P.st, P.op, lock[c])
  BY <1>1, Here, LockLevels DEF Is, Allowed, Undo, Prepare, Flush, WriterStates
<1>3. Go(c, "unlock") \/ Go(c, "syncZero")
  BY DEF Finalise
<1>4. ASSUME PagerIs(c, P.st, P.op) PROVE Keeps
  <2>1. PlaceIs(c, "unlock") \/ PlaceIs(c, "syncZero")
    BY <1>1, <1>3, GoPlace
  <2> QED
    BY <1>1, <1>2, <1>4, <2>1, QuietStep
<1>5. CASE UNCHANGED pager
  BY <1>1, <1>4, <1>5, SamePager
<1> DEFINE gone(d) == IF d = c THEN [P EXCEPT !.jfd = "closed", !.own = NoFile]
                      ELSE IF pager[d].jfd \in {"open", "dirsync"}
                      THEN [pager[d] EXCEPT !.jfd = "unlinked", !.own = jrnl]
                      ELSE pager[d]
<1>6. CASE pager' = [d \in Conn |-> gone(d)]
  <2>1. ASSUME NEW d \in Conn
        PROVE  SameState(gone(d), pager[d])
    BY <1>1 DEF Shape, SameState, HasState
  <2> HIDE DEF gone
  <2>2. DOMAIN pager' = Conn /\ \A d \in Conn : pager'[d] = gone(d)
    BY <1>6
  <2>3. PagerIs(c, P.st, P.op)
    BY <2>1, <2>2 DEF PagerIs, SameState
  <2> QED
    BY <1>4, <2>3
<1>7. ASSUME NEW f, WriteJrnl(c, P, f)
      PROVE  Keeps
  BY <1>1, <1>4, <1>7, WriteJrnlIs
<1> QED
  BY <1>5, <1>6, <1>7 DEF Finalise

(* The invariant over a step: the sync after the header was zeroed. *)
LEMMA StepSyncZero == ASSUME IInv, NEW c \in Conn, SyncZero(c) PROVE Keeps
<1>1. UNCHANGED <<lock, mode, txn>> /\ Is(c, "syncZero")
  BY DEF SyncZero, counts
<1>2. PlaceIs(c, "unlock") /\ PagerIs(c, pager[c].st, pager[c].op)
  BY Here, GoPlace, SyncJrnlIs DEF SyncZero
<1>3. Allowed("unlock", pager[c].st, pager[c].op, lock[c])
  BY <1>1, Here, LockLevels DEF Is, Allowed, Undo, Prepare, Flush, WriterStates
<1> QED
  BY <1>1, <1>2, <1>3, QuietStep

(* The invariant over a step: back to SHARED. *)
LEMMA StepUnlock == ASSUME IInv, NEW c \in Conn, Unlock(c) PROVE Keeps
<1> DEFINE E == EndedTxn(pager[c])
           P == Keep(E, 1 .. pager[c].size)
           R == [P EXCEPT !.st = "reader"]
<1>1. UNCHANGED <<mode, txn>> /\ Is(c, "unlock") /\ Shape
  BY Here DEF Unlock, counts
<1>2. HasState(E) /\ E.st = pager[c].st /\ E.op = "none"
  BY Here, EndedState
<1>3. HasState(P) /\ P.st = pager[c].st /\ P.op = "none"
  <2> HIDE DEF E
  <2> QED
    BY <1>2, KeepState DEF SameState
<1>4. HasState(R) /\ R.st = "reader" /\ R.op = "none"
  <2> HIDE DEF P
  <2> QED
    BY <1>3 DEF HasState
<1>5. /\ Lock!Next \/ UNCHANGED lock
      /\ LockOfOthers(c) /\ lock'[c] = Lock!SHARED
  <2>1. lock[c] >= Lock!SHARED /\ lock[c] \in 0 .. 4
    BY <1>1, Here, LockLevels, Levels
    DEF Is, Allowed, Undo, Prepare, Flush, WriterStates
  <2>2. CASE lock[c] > Lock!SHARED
    BY <2>2, Here, LockCalls DEF Unlock
  <2>3. CASE ~(lock[c] > Lock!SHARED)
    <3>1. UNCHANGED lock /\ lock[c] = Lock!SHARED
      BY <2>1, <2>3, LockLevels DEF Unlock
    <3> QED
      BY <3>1 DEF LockOfOthers
  <2> QED
    BY <2>2, <2>3
<1>6. CASE pager[c].op = "hot" /\ SetPager(c, P) /\ Go(c, "validate")
  <2>1. Allowed("validate", P.st, P.op, lock'[c])
    BY <1>1, <1>3, <1>5, <1>6, Here, LockLevels
    DEF Is, Allowed, Undo, Prepare, Flush, WriterStates
  <2> HIDE DEF P
  <2>2. PlaceIs(c, "validate") /\ PagerIs(c, P.st, P.op)
    BY <1>1, <1>3, <1>6, GoPlace, SetPagerIs
  <2> QED
    BY <1>1, <1>5, <2>1, <2>2, LockStep
<1>7. CASE SetPager(c, R) /\ Go(c, "idle")
  <2>1. Allowed("idle", R.st, R.op, lock'[c])
    BY <1>4, <1>5, LockLevels DEF Allowed, Undo, Prepare, Flush, WriterStates
  <2> HIDE DEF R
  <2>2. PlaceIs(c, "idle") /\ PagerIs(c, R.st, R.op)
    BY <1>1, <1>4, <1>7, GoPlace, SetPagerIs
  <2> QED
    BY <1>1, <1>5, <2>1, <2>2, LockStep
<1> QED
  BY <1>6, <1>7 DEF Unlock

(* The invariant over a step: the change counter read. *)
LEMMA StepValidate == ASSUME IInv, NEW c \in Conn, Validate(c) PROVE Keeps
<1> DEFINE P == [pager[c] EXCEPT !.size = Len(db), !.st = "reader"]
<1>1. /\ UNCHANGED <<lock, mode, txn>> /\ Is(c, "validate") /\ Shape /\ Go(c, "idle")
      /\ SetPager(c, P) \/ SetPager(c, Reset(P))
  BY Here DEF Validate, counts
<1>2. HasState(P) /\ P.st = "reader" /\ P.op = pager[c].op
  BY Here DEF HasState
<1>3. Allowed("idle", "reader", P.op, lock[c])
  BY <1>1, Here, LockLevels DEF Is, Allowed, Undo, Prepare, Flush, WriterStates
<1> HIDE DEF P
<1>4. PlaceIs(c, "idle") /\ PagerIs(c, "reader", P.op)
  BY <1>1, <1>2, GoPlace, SetPagerIs, ResetState DEF SameState
<1> QED
  BY <1>1, <1>3, <1>4, QuietStep

(* The invariant over a step: a page read. *)
LEMMA StepRead == ASSUME IInv, NEW c \in Conn, NEW p \in Page, Read(c, p) PROVE Keeps
<1>1. /\ UNCHANGED <<lock, mode, txn>> /\ PlaceIs(c, pc[c])
      /\ PagerIs(c, pager[c].st, pager[c].op)
  BY Here, GoPlace, SetPagerIs, LoadedState DEF Read, counts, SameState
<1> QED
  BY <1>1, Here, QuietStep

(* The invariant over a step: pager_unlock(). *)
LEMMA StepEndRead == ASSUME IInv, NEW c \in Conn, EndRead(c) PROVE Keeps
<1> DEFINE Q == Unlocked(pager[c])
<1>1. HasState(Q) /\ Q.st = "open"
  BY Here, UnlockedState
<1>2. SetPager(c, Q) /\ UNCHANGED <<mode, txn>> /\ PlaceIs(c, "idle")
  BY Here, GoPlace DEF EndRead, counts, Is
<1> HIDE DEF Q
<1>3. PagerIs(c, Q.st, Q.op)
  BY <1>1, <1>2, Here, SetPagerIs
<1>4. Lock!Next /\ LockOfOthers(c) /\ lock'[c] = Lock!NO
  BY Here, LockCalls DEF EndRead
<1>5. Allowed("idle", Q.st, Q.op, lock'[c])
  BY <1>1, <1>4, LockLevels DEF Allowed, Undo, Prepare, Flush, WriterStates
<1> QED
  BY <1>2, <1>3, <1>4, <1>5, LockStep

(* The invariant over a step: RESERVED. *)
LEMMA StepBegin == ASSUME IInv, NEW c \in Conn, Begin(c) PROVE Keeps
<1> DEFINE Q == [pager[c] EXCEPT !.st = "locked", !.origSize = pager[c].size,
                                 !.fileSize = pager[c].size]
<1>1. HasState(Q) /\ Q.st = "locked"
  BY Here DEF HasState
<1>2. SetPager(c, Q) /\ UNCHANGED <<mode, txn>> /\ PlaceIs(c, "idle")
  BY Here, GoPlace DEF Begin, counts, Is
<1> HIDE DEF Q
<1>3. PagerIs(c, Q.st, Q.op)
  BY <1>1, <1>2, Here, SetPagerIs
<1>4. Lock!Next /\ LockOfOthers(c) /\ lock'[c] = Lock!RESERVED
  BY Here, LockCalls DEF Begin
<1>5. Allowed("idle", Q.st, Q.op, lock'[c])
  BY <1>1, <1>4, LockLevels DEF Allowed, Undo, Prepare, Flush, WriterStates
<1> QED
  BY <1>2, <1>3, <1>4, <1>5, LockStep

(* The one step that counts a journal. *)
LEMMA StepOpenJournal ==
    ASSUME IInv, NEW c \in Conn, NEW p \in Page, OpenJournal(c, p) PROVE Keeps
<1> DEFINE P == pager[c]
           new == P.jfd = "closed"
           Q == [P EXCEPT !.jfd = IF new THEN "dirsync" ELSE @, !.hdr = 1, !.off = 1,
                          !.st = "cachemod", !.page = p]
           f == Put(JFile(c), 1, Hdr(FALSE, 0, txn + 1, P.origSize))
<1>1. HasState(Q) /\ Q.st = "cachemod" /\ Q.op = P.op
  BY Here DEF HasState
<1>2. WriteJrnl(c, Q, f) /\ UNCHANGED <<lock, mode>> /\ Go(c, "record")
      /\ txn < MaxTxn /\ txn' = txn + 1 /\ P.st = "locked"
  BY DEF OpenJournal
<1>3. Allowed("record", Q.st, Q.op, lock[c])
  BY <1>1, <1>2, Here, LockLevels DEF Allowed, Undo, Prepare, Flush, WriterStates
<1> HIDE DEF Q, f
<1>4. PlaceIs(c, "record") /\ PagerIs(c, Q.st, Q.op)
  BY <1>1, <1>2, Here, GoPlace, WriteJrnlIs
<1>5. LockOfOthers(c) /\ lock'[c] = lock[c]
  BY <1>2 DEF LockOfOthers
<1>6. Shape' /\ Places'
  BY <1>3, <1>4, <1>5, Settle
<1>7. txn' \in 0 .. MaxTxn
  BY <1>2, Here, JournalAssumption
<1> QED
  BY <1>2, <1>6, <1>7 DEF Keeps

(* The invariant over a step: sqlite3PagerWrite(). *)
LEMMA StepWrite == ASSUME IInv, NEW c \in Conn, NEW p \in Page, Write(c, p) PROVE Keeps
<1> DEFINE L == Loaded(pager[c], p)
           Q == [L EXCEPT !.size = IF p > @ THEN p ELSE @]
<1>1. SameState(L, pager[c])
  BY Here, LoadedState
<1>2. SameState(Q, pager[c])
  <2> HIDE DEF L
  <2> QED
    BY <1>1 DEF SameState, HasState
<1>3. /\ UNCHANGED <<lock, mode, txn>> /\ WritePage(c, Q, p, txn) /\ Go(c, "idle")
      /\ Is(c, "record") \/ pager[c].st \in {"cachemod", "dbmod"}
  BY DEF Write, counts
<1> HIDE DEF Q
<1>4. PlaceIs(c, "idle") /\ PagerIs(c, pager[c].st, pager[c].op)
  BY <1>2, <1>3, Here, GoPlace, WritePageIs DEF SameState
<1>5. Allowed("idle", pager[c].st, pager[c].op, lock[c])
  BY <1>3, Here, LockLevels DEF Is, Allowed, Undo, Prepare, Flush, WriterStates
<1> QED
  BY <1>3, <1>4, <1>5, QuietStep

(* The invariant over a step: sqlite3PagerTruncateImage(). *)
LEMMA StepTruncateImage == ASSUME IInv, NEW c \in Conn, TruncateImage(c) PROVE Keeps
<1> DEFINE Q == [pager[c] EXCEPT !.size = @ - 1]
<1>1. SameState(Q, pager[c])
  BY Here DEF SameState, HasState
<1>2. UNCHANGED <<lock, mode, txn>> /\ PlaceIs(c, pc[c]) /\ SetPager(c, Q)
  BY Here, GoPlace DEF TruncateImage, counts
<1> HIDE DEF Q
<1>3. PagerIs(c, pager[c].st, pager[c].op)
  BY <1>1, <1>2, Here, SetPagerIs DEF SameState
<1> QED
  BY <1>2, <1>3, Here, QuietStep

(* The invariant over a step: pagerStress(). *)
LEMMA StepSpill == ASSUME IInv, NEW c \in Conn, NEW p \in Page, Spill(c, p) PROVE Keeps
<1> DEFINE Q == [pager[c] EXCEPT !.op = "spill", !.page = p]
           at == IF MustSync(c, p) THEN "exclusive" ELSE "writeOut"
<1>1. HasState(Q) /\ Q.st = pager[c].st /\ Q.op = "spill"
  BY Here DEF HasState
<1>2. UNCHANGED <<lock, mode, txn>> /\ SetPager(c, Q) /\ Go(c, at)
  BY DEF Spill, counts
<1>3. Allowed(at, Q.st, Q.op, lock[c])
  BY <1>1, Here, LockLevels
  DEF Spill, Is, MustSync, Allowed, Undo, Prepare, Flush, WriterStates
<1> HIDE DEF Q, at
<1>4. PlaceIs(c, at) /\ PagerIs(c, Q.st, Q.op)
  BY <1>1, <1>2, Here, GoPlace, SetPagerIs
<1> QED
  BY <1>2, <1>3, <1>4, QuietStep

(* The invariant over a step: sqlite3PagerCommitPhaseOne(). *)
LEMMA StepCommit == ASSUME IInv, NEW c \in Conn, Commit(c) PROVE Keeps
<1> DEFINE Q == [pager[c] EXCEPT !.op = "commit"]
           at == IF pager[c].st = "locked" THEN "finalise" ELSE "counter"
<1>1. HasState(Q) /\ Q.st = pager[c].st /\ Q.op = "commit"
  BY Here DEF HasState
<1>2. UNCHANGED <<lock, mode, txn>> /\ SetPager(c, Q) /\ Go(c, at)
  BY DEF Commit, counts
<1>3. Allowed(at, Q.st, Q.op, lock[c])
  BY <1>1, Here, LockLevels
  DEF Commit, Writing, Is, Allowed, Undo, Prepare, Flush, WriterStates
<1> HIDE DEF Q, at
<1>4. PlaceIs(c, at) /\ PagerIs(c, Q.st, Q.op)
  BY <1>1, <1>2, Here, GoPlace, SetPagerIs
<1> QED
  BY <1>2, <1>3, <1>4, QuietStep

(* The invariant over a step: pager_incr_changecounter(). *)
LEMMA StepCounter == ASSUME IInv, NEW c \in Conn, Counter(c) PROVE Keeps
<1> DEFINE Q == [pager[c] EXCEPT !.countDone = TRUE]
<1>1. SameState(Q, pager[c])
  BY Here DEF SameState, HasState
<1>2. /\ UNCHANGED <<lock, mode, txn>> /\ Go(c, "discard") /\ Is(c, "counter")
      /\ UNCHANGED pager \/ WritePage(c, Q, 1, pager[c].vers + 1)
  BY DEF Counter, counts
<1>3. Allowed("discard", pager[c].st, pager[c].op, lock[c])
  BY <1>2, Here, LockLevels DEF Is, Allowed, Undo, Prepare, Flush, WriterStates
<1> HIDE DEF Q
<1>4. PlaceIs(c, "discard") /\ PagerIs(c, pager[c].st, pager[c].op)
  BY <1>1, <1>2, Here, GoPlace, SamePager, WritePageIs DEF SameState
<1> QED
  BY <1>2, <1>3, <1>4, QuietStep

(* The invariant over a step: the pages behind the new end. *)
LEMMA StepDiscard == ASSUME IInv, NEW c \in Conn, Discard(c) PROVE Keeps
<1> DEFINE P == pager[c]
           rest == (P.size + 1 .. P.origSize) \ P.inJournal
           O == [P EXCEPT !.size = P.origSize]
           L == Loaded(O, Min(rest))
           Q == [L EXCEPT !.size = P.size]
           v == L.cache[Min(rest)]
<1>1. SameState(O, P)
  BY Here DEF SameState, HasState
<1>2. SameState(L, P)
  <2> HIDE DEF O, rest
  <2> QED
    BY <1>1, LoadedState DEF SameState
<1>3. SameState(Q, P)
  <2> HIDE DEF L
  <2> QED
    BY <1>2 DEF SameState, HasState
<1>4. /\ UNCHANGED <<lock, mode, txn>> /\ Is(c, "discard")
      /\ \/ Go(c, "exclusive") /\ UNCHANGED pager
         \/ WritePage(c, Q, Min(rest), v) /\ UNCHANGED pc
  BY DEF Discard, counts
<1> HIDE DEF Q, rest, v
<1>5. CASE Go(c, "exclusive") /\ UNCHANGED pager
  <2>1. Allowed("exclusive", P.st, P.op, lock[c])
    BY <1>4, Here, LockLevels DEF Is, Allowed, Undo, Prepare, Flush, WriterStates
  <2> QED
    BY <1>4, <1>5, <2>1, Here, GoPlace, SamePager, QuietStep
<1>6. CASE WritePage(c, Q, Min(rest), v) /\ UNCHANGED pc
  <2>1. PlaceIs(c, pc[c]) /\ PagerIs(c, P.st, P.op)
    BY <1>3, <1>6, Here, GoPlace, WritePageIs DEF SameState
  <2> QED
    BY <1>4, <2>1, Here, QuietStep
<1> QED
  BY <1>4, <1>5, <1>6

(* The invariant over a step: EXCLUSIVE for a write. *)
LEMMA StepExclusive == ASSUME IInv, NEW c \in Conn, Exclusive(c) PROVE Keeps
<1> DEFINE Q == [pager[c] EXCEPT !.op = "none", !.page = 0]
<1>1. UNCHANGED <<mode, txn>> /\ Is(c, "exclusive") /\ Shape
  BY Here DEF Exclusive, counts
<1>2. CASE /\ Lock!LockExclusive(c) \/ (Held(c) /\ UNCHANGED lock)
           /\ Go(c, "nextHeader") /\ UNCHANGED pager
  <2>1. /\ Lock!Next \/ UNCHANGED lock
        /\ LockOfOthers(c) /\ lock'[c] = Lock!EXCLUSIVE
    BY <1>2, Here, LockCalls DEF Held, LockOfOthers
  <2>2. Allowed("nextHeader", pager[c].st, pager[c].op, lock'[c])
    BY <1>1, <2>1, Here, LockLevels DEF Is, Allowed, Undo, Prepare, Flush, WriterStates
  <2> QED
    BY <1>1, <1>2, <2>1, <2>2, GoPlace, SamePager, LockStep
<1>3. CASE TryExclusive(c) /\ SetPager(c, Q) /\ Go(c, "idle")
  <2>1. /\ Lock!Next \/ UNCHANGED lock
        /\ LockOfOthers(c)
        /\ lock'[c] = lock[c] \/ (lock'[c] = Lock!PENDING /\ lock[c] < Lock!PENDING)
    BY <1>3, Here, TriedExclusive
  <2>2. HasState(Q) /\ Q.st = pager[c].st /\ Q.op = "none"
    BY Here DEF HasState
  <2>3. Allowed("idle", Q.st, Q.op, lock'[c])
    BY <1>1, <2>1, <2>2, Here, LockLevels
    DEF Is, Allowed, Undo, Prepare, Flush, WriterStates
  <2> HIDE DEF Q
  <2>4. PlaceIs(c, "idle") /\ PagerIs(c, Q.st, Q.op)
    BY <1>1, <1>3, <2>2, GoPlace, SetPagerIs
  <2> QED
    BY <1>1, <2>1, <2>3, <2>4, LockStep
<1> QED
  BY <1>2, <1>3 DEF Exclusive

(* The steps of syncJournal() between two places where EXCLUSIVE is held. *)
LEMMA StepNextHeader == ASSUME IInv, NEW c \in Conn, NextHeader(c) PROVE Keeps
<1>1. UNCHANGED <<lock, mode, txn>> /\ Is(c, "nextHeader") /\ Go(c, NextStep)
  BY DEF NextHeader, counts
<1>2. PagerIs(c, pager[c].st, pager[c].op)
  BY Here, SamePager, WriteJrnlIs DEF NextHeader
<1>3. Allowed(NextStep, pager[c].st, pager[c].op, lock[c])
  BY <1>1, Here, LockLevels
  DEF Is, NextStep, Allowed, Undo, Prepare, Flush, WriterStates
<1> QED
  BY <1>1, <1>2, <1>3, Here, GoPlace, QuietStep

(* The invariant over a step: the first sync. *)
LEMMA StepSync1 == ASSUME IInv, NEW c \in Conn, Sync1(c) PROVE Keeps
<1>1. UNCHANGED <<lock, mode, txn>> /\ Is(c, "sync1") /\ Go(c, "count")
  BY DEF Sync1, counts
<1>2. PagerIs(c, pager[c].st, pager[c].op)
  BY Here, SyncJrnlIs DEF Sync1
<1>3. Allowed("count", pager[c].st, pager[c].op, lock[c])
  BY <1>1, Here, LockLevels DEF Is, Allowed, Undo, Prepare, Flush, WriterStates
<1> QED
  BY <1>1, <1>2, <1>3, Here, GoPlace, QuietStep

(* The invariant over a step: the count written. *)
LEMMA StepCount == ASSUME IInv, NEW c \in Conn, Count(c) PROVE Keeps
<1>1. UNCHANGED <<lock, mode, txn>> /\ Is(c, "count") /\ Go(c, "sync2")
  BY DEF Count, counts
<1>2. PagerIs(c, pager[c].st, pager[c].op)
  BY Here, WriteJrnlIs DEF Count
<1>3. Allowed("sync2", pager[c].st, pager[c].op, lock[c])
  BY <1>1, Here, LockLevels DEF Is, Allowed, Undo, Prepare, Flush, WriterStates
<1> QED
  BY <1>1, <1>2, <1>3, Here, GoPlace, QuietStep

(* The invariant over a step: the second sync. *)
LEMMA StepSync2 == ASSUME IInv, NEW c \in Conn, Sync2(c) PROVE Keeps
<1> DEFINE P == pager[c]
           t == IF P.op = "commit" THEN P.dirty \cap (1 .. P.size) ELSE {}
           Q == [P EXCEPT !.hdr = P.off + 1, !.st = "dbmod", !.needSync = {}, !.todo = t]
           at == IF P.op = "spill" THEN "newHeader" ELSE "writeOut"
<1>1. UNCHANGED <<lock, mode, txn>> /\ Is(c, "sync2") /\ Go(c, at) /\ SyncJrnl(c, Q)
  BY DEF Sync2, counts
<1>2. HasState(Q) /\ Q.st = "dbmod" /\ Q.op = P.op
  <2> HIDE DEF t
  <2> QED
    BY Here DEF HasState
<1>3. Allowed(at, Q.st, Q.op, lock[c])
  BY <1>1, <1>2, Here, LockLevels DEF Is, Allowed, Undo, Prepare, Flush, WriterStates
<1> HIDE DEF Q, at
<1>4. PlaceIs(c, at) /\ PagerIs(c, Q.st, Q.op)
  BY <1>1, <1>2, Here, GoPlace, SyncJrnlIs
<1> QED
  BY <1>1, <1>3, <1>4, QuietStep

(* The invariant over a step: a header after a spill. *)
LEMMA StepNewHeader == ASSUME IInv, NEW c \in Conn, NewHeader(c) PROVE Keeps
<1> DEFINE P == pager[c]
           i == P.off + 1
           Q == [P EXCEPT !.hdr = i, !.off = i, !.nRec = 0]
           f == Put(JFile(c), i, Hdr(FALSE, 0, Seed(c), P.origSize))
<1>1. UNCHANGED <<lock, mode, txn>> /\ Is(c, "newHeader") /\ Go(c, "writeOut")
      /\ WriteJrnl(c, Q, f)
  BY DEF NewHeader, counts
<1>2. SameState(Q, P)
  BY Here DEF SameState, HasState
<1>3. Allowed("writeOut", P.st, P.op, lock[c])
  BY <1>1, Here, LockLevels DEF Is, Allowed, Undo, Prepare, Flush, WriterStates
<1> HIDE DEF Q, f
<1>4. PlaceIs(c, "writeOut") /\ PagerIs(c, P.st, P.op)
  BY <1>1, <1>2, Here, GoPlace, WriteJrnlIs DEF SameState
<1> QED
  BY <1>1, <1>3, <1>4, QuietStep

(* The invariant over a step: pager_write_pagelist(). *)
LEMMA StepWriteOut == ASSUME IInv, NEW c \in Conn, WriteOut(c) PROVE Keeps
<1> DEFINE P == pager[c]
           p == IF P.op = "spill" THEN P.page ELSE Min(P.todo)
           Q == [P EXCEPT !.todo = @ \ {p}, !.vers = IF p = 1 THEN P.cache[1] ELSE @,
                          !.fileSize = IF p > @ /\ p <= P.size THEN p ELSE @]
           R == [Q EXCEPT !.op = "none", !.page = 0, !.dirty = @ \ {p}]
           C == [P EXCEPT !.dirty = {}]
           at == IF P.size # P.fileSize THEN "truncate" ELSE "syncDb"
<1>1. UNCHANGED <<lock, mode, txn>> /\ Is(c, "writeOut") /\ HasState(P) /\ Shape
  BY Here DEF WriteOut, counts
<1>2. SameState(Q, P)
  <2> HIDE DEF p
  <2> QED
    BY <1>1 DEF SameState, HasState
<1>3. HasState(R) /\ R.st = P.st
  <2> HIDE DEF Q, p
  <2> QED
    BY <1>2 DEF SameState, HasState
<1>4. SameState(C, P)
  BY <1>1 DEF SameState, HasState
<1>5. /\ Allowed("idle", P.st, R.op, lock[c])
      /\ P.op = "commit" => Allowed(at, P.st, P.op, lock[c])
  <2> HIDE DEF R
  <2> QED
    BY <1>1, Here, LockLevels DEF Is, Allowed, Undo, Prepare, Flush, WriterStates
<1>6. \/ SetPager(c, Keep(R, Page \ {p})) /\ Go(c, "idle")
      \/ SetPager(c, Q) /\ UNCHANGED pc
      \/ SetPager(c, C) /\ Go(c, at) /\ P.op = "commit"
  BY DEF WriteOut
<1> HIDE DEF Q, C, at
<1>7. CASE SetPager(c, Keep(R, Page \ {p})) /\ Go(c, "idle")
  <2> HIDE DEF R, p
  <2> DEFINE K == Keep(R, Page \ {p})
  <2>1. HasState(K) /\ K.st = P.st /\ K.op = R.op
    BY <1>3, KeepState DEF SameState
  <2> HIDE DEF K
  <2>2. PlaceIs(c, "idle") /\ PagerIs(c, P.st, R.op)
    BY <1>1, <1>7, <2>1, GoPlace, SetPagerIs DEF K
  <2> QED
    BY <1>1, <1>5, <2>2, QuietStep
<1>8. CASE SetPager(c, Q) /\ UNCHANGED pc
  <2>1. PlaceIs(c, pc[c]) /\ PagerIs(c, P.st, P.op)
    BY <1>1, <1>2, <1>8, GoPlace, SetPagerIs DEF SameState
  <2> QED
    BY <1>1, <2>1, Here, QuietStep
<1>9. CASE SetPager(c, C) /\ Go(c, at) /\ P.op = "commit"
  <2>1. PlaceIs(c, at) /\ PagerIs(c, P.st, P.op)
    BY <1>1, <1>4, <1>9, GoPlace, SetPagerIs DEF SameState
  <2> QED
    BY <1>1, <1>5, <1>9, <2>1, QuietStep
<1> QED
  BY <1>6, <1>7, <1>8, <1>9

(* The invariant over a step: pager_truncate(). *)
LEMMA StepTruncate == ASSUME IInv, NEW c \in Conn, Truncate(c) PROVE Keeps
<1> DEFINE Q == [pager[c] EXCEPT !.fileSize = pager[c].size]
<1>1. SameState(Q, pager[c])
  BY Here DEF SameState, HasState
<1>2. UNCHANGED <<lock, mode, txn>> /\ Is(c, "truncate") /\ Go(c, "syncDb")
      /\ SetPager(c, Q)
  BY DEF Truncate, counts
<1> HIDE DEF Q
<1>3. Allowed("syncDb", pager[c].st, pager[c].op, lock[c])
  BY <1>2, Here, LockLevels DEF Is, Allowed, Undo, Prepare, Flush, WriterStates
<1>4. PlaceIs(c, "syncDb") /\ PagerIs(c, pager[c].st, pager[c].op)
  BY <1>1, <1>2, Here, GoPlace, SetPagerIs DEF SameState
<1> QED
  BY <1>2, <1>3, <1>4, QuietStep

(* The invariant over a step: sqlite3PagerRollback(). *)
LEMMA StepRollback == ASSUME IInv, NEW c \in Conn, Rollback(c) PROVE Keeps
<1> DEFINE Q == [pager[c] EXCEPT !.op = "rollback", !.page = 0, !.todo = {}]
           at == IF pager[c].st = "locked" THEN "finalise" ELSE "playback"
<1>1. HasState(Q) /\ Q.st = pager[c].st /\ Q.op = "rollback"
  BY Here DEF HasState
<1>2. UNCHANGED <<lock, mode, txn>> /\ SetPager(c, Q) /\ Go(c, at)
  BY DEF Rollback, counts
<1>3. Allowed(at, Q.st, Q.op, lock[c])
  BY <1>1, Here, LockLevels
  DEF Rollback, Writing, Is, Allowed, Undo, Prepare, Flush, WriterStates
<1> HIDE DEF Q, at
<1>4. PlaceIs(c, at) /\ PagerIs(c, Q.st, Q.op)
  BY <1>1, <1>2, Here, GoPlace, SetPagerIs
<1> QED
  BY <1>2, <1>3, <1>4, QuietStep

(* The four ways an I/O error is dealt with. *)
LEMMA StepIoError == ASSUME IInv, NEW c \in Conn, IoError(c) PROVE Keeps
<1> DEFINE P == pager[c]
           Q == [P EXCEPT !.op = "rollback", !.page = 0, !.todo = {}]
           F == Failed(P)
           U == Unlocked(F)
<1>1. UNCHANGED <<mode, txn>> /\ HasState(P) /\ Shape /\ lock[c] \in 0 .. 4
  BY Here, Levels DEF IoError
<1>2. HasState(Q) /\ Q.st = P.st /\ Q.op = "rollback"
  BY <1>1 DEF HasState
<1>3. HasState(F) /\ F.st = "error"
  BY <1>1, FailedState
<1>4. HasState(U) /\ U.st = "open"
  <2> HIDE DEF F
  <2> QED
    BY <1>3, UnlockedState
<1>5. \/ /\ pc[c] \in JournalWrites \cup FileWrites /\ P.op \in {"none", "commit"}
         /\ SetPager(c, Q) /\ Go(c, "playback") /\ UNCHANGED lock
      \/ /\ pc[c] \in JournalWrites \cup FileWrites /\ P.op \in {"spill", "rollback"}
         /\ SetPager(c, F) /\ Go(c, "idle") /\ UNCHANGED lock
      \/ SetPager(c, U) /\ Go(c, "idle") /\ lock' = [lock EXCEPT ![c] = Lock!NO]
      \/ /\ pc[c] \in Finals /\ P.op \in {"commit", "rollback"}
         /\ SetPager(c, F) /\ Go(c, "idle") /\ lock' = [lock EXCEPT ![c] = Lock!SHARED]
  BY DEF IoError
<1> HIDE DEF Q, F, U
<1>6. CASE /\ pc[c] \in JournalWrites \cup FileWrites /\ P.op \in {"none", "commit"}
           /\ SetPager(c, Q) /\ Go(c, "playback") /\ UNCHANGED lock
  <2>1. Allowed("playback", Q.st, Q.op, lock[c])
    BY <1>2, <1>6, Here, LockLevels
    DEF JournalWrites, FileWrites, Allowed, Undo, Prepare, Flush, WriterStates
  <2>2. PlaceIs(c, "playback") /\ PagerIs(c, Q.st, Q.op)
    BY <1>1, <1>2, <1>6, GoPlace, SetPagerIs
  <2> QED
    BY <1>1, <1>6, <2>1, <2>2, QuietStep
<1>7. CASE /\ pc[c] \in JournalWrites \cup FileWrites /\ P.op \in {"spill", "rollback"}
           /\ SetPager(c, F) /\ Go(c, "idle") /\ UNCHANGED lock
  <2>1. Allowed("idle", F.st, F.op, lock[c])
    BY <1>1, <1>3, <1>7, Here, LockLevels
    DEF JournalWrites, FileWrites, Allowed, Undo, Prepare, Flush, WriterStates
  <2>2. PlaceIs(c, "idle") /\ PagerIs(c, F.st, F.op)
    BY <1>1, <1>3, <1>7, GoPlace, SetPagerIs
  <2> QED
    BY <1>1, <1>7, <2>1, <2>2, QuietStep
<1>8. CASE SetPager(c, U) /\ Go(c, "idle") /\ lock' = [lock EXCEPT ![c] = Lock!NO]
  <2>1. LockOfOthers(c) /\ lock'[c] = Lock!NO
    BY <1>8, Here DEF LockInv, Lock!TypeOK, LockOfOthers
  <2>2. Lock!Vanish({c})
    BY <1>8, Here DEF LockInv, Lock!TypeOK, Lock!Vanish, Lock!NO
  <2>3. Lock!Next
    BY <2>2 DEF Lock!Next
  <2>4. Allowed("idle", U.st, U.op, lock'[c])
    BY <1>4, <2>1, LockLevels DEF Allowed, Undo, Prepare, Flush, WriterStates
  <2>5. PlaceIs(c, "idle") /\ PagerIs(c, U.st, U.op)
    BY <1>1, <1>4, <1>8, GoPlace, SetPagerIs
  <2> QED
    BY <1>1, <2>1, <2>3, <2>4, <2>5, LockStep
<1>9. CASE /\ pc[c] \in Finals /\ P.op \in {"commit", "rollback"}
           /\ SetPager(c, F) /\ Go(c, "idle") /\ lock' = [lock EXCEPT ![c] = Lock!SHARED]
  <2>1. LockOfOthers(c) /\ lock'[c] = Lock!SHARED
    BY <1>9, Here DEF LockInv, Lock!TypeOK, LockOfOthers
  <2>2. lock[c] > Lock!SHARED
    BY <1>1, <1>9, Here, LockLevels
    DEF Finals, Allowed, Undo, Prepare, Flush, WriterStates
  <2>3. Lock!Unlock(c)
    BY <1>9, <2>2 DEF Lock!Unlock, Lock!SetLevel, Lock!SHARED
  <2>4. Lock!Next
    BY <2>3 DEF Lock!Next
  <2>5. Allowed("idle", F.st, F.op, lock'[c])
    BY <1>3, <2>1, LockLevels DEF Allowed, Undo, Prepare, Flush, WriterStates
  <2>6. PlaceIs(c, "idle") /\ PagerIs(c, F.st, F.op)
    BY <1>1, <1>3, <1>9, GoPlace, SetPagerIs
  <2> QED
    BY <1>1, <2>1, <2>4, <2>5, <2>6, LockStep
<1> QED
  BY <1>5, <1>6, <1>7, <1>8, <1>9

(* Connections that vanish start again with nothing. *)
LEMMA FreshAllowed == HasState(Fresh) /\ Allowed("idle", Fresh.st, Fresh.op, Lock!NO)
  BY LockLevels DEF Fresh, HasState, Allowed, Undo, Prepare, Flush, WriterStates

(* A process that dies, or all of them. *)
LEMMA StepVanish ==
    ASSUME IInv, NEW D \in SUBSET Conn, Lock!Vanish(D), UNCHANGED <<mode, txn>>,
           pc' = [c \in Conn |-> IF c \in D THEN "idle" ELSE pc[c]],
           pager' = [c \in Conn |-> IF c \in D THEN Fresh ELSE pager[c]]
    PROVE  Keeps
<1>1. Shape'
  BY FreshAllowed DEF IInv, Shape
<1>2. Places'
  <2> SUFFICES ASSUME NEW c \in Conn
               PROVE  Allowed(pc'[c], pager'[c].st, pager'[c].op, lock'[c])
    BY DEF Places
  <2>1. CASE c \in D
    <3>1. pc'[c] = "idle" /\ pager'[c] = Fresh /\ lock'[c] = Lock!NO
      BY <2>1 DEF Lock!Vanish, Lock!NO
    <3> QED
      BY <3>1, FreshAllowed
  <2>2. CASE c \notin D
    <3>1. pc'[c] = pc[c] /\ pager'[c] = pager[c] /\ lock'[c] = lock[c]
      BY <2>2 DEF Lock!Vanish
    <3> QED
      BY <3>1, Here
  <2> QED
    BY <2>1, <2>2
<1>3. Lock!Next
  BY DEF Lock!Next
<1> QED
  BY <1>1, <1>2, <1>3 DEF Keeps, IInv

(* The invariant over a step: a process dies. *)
LEMMA StepCrash == ASSUME IInv, NEW k, Crash(k) PROVE Keeps
<1> DEFINE dead == {c \in Conn : ProcOf[c] = k}
<1>1. /\ Lock!Vanish(dead) /\ UNCHANGED <<mode, txn>>
      /\ pc' = [c \in Conn |-> IF c \in dead THEN "idle" ELSE pc[c]]
      /\ pager' = [c \in Conn |-> IF c \in dead THEN Fresh ELSE pager[c]]
  BY DEF Crash
<1>2. dead \in SUBSET Conn
  OBVIOUS
<1> HIDE DEF dead
<1> QED
  BY <1>1, <1>2, StepVanish

(* The invariant over a step: power is lost. *)
LEMMA StepPowerFail == ASSUME IInv, PowerFail PROVE Keeps
<1>1. /\ Lock!Vanish(Conn) /\ UNCHANGED <<mode, txn>>
      /\ pc' = [c \in Conn |-> IF c \in Conn THEN "idle" ELSE pc[c]]
      /\ pager' = [c \in Conn |-> IF c \in Conn THEN Fresh ELSE pager[c]]
  BY DEF PowerFail
<1> QED
  BY <1>1, StepVanish

-----------------------------------------------------------------------------
(* The theorems. *)

(* The invariant holds at the start. *)
LEMMA InitIInv == Init => IInv
<1> SUFFICES ASSUME Init PROVE IInv
  OBVIOUS
<1>1. Shape
  BY FreshAllowed DEF Init, Shape
<1>2. Places
  BY FreshAllowed DEF Init, Places, Lock!Init, Lock!NO
<1>3. LockInv
  BY DEF Init, LockInv, Lock!Init, Lock!TypeOK, Lock!Exclusion, Lock!Others, Lock!Level,
         Lock!NO, Lock!SHARED, Lock!RESERVED, Lock!PENDING, Lock!EXCLUSIVE
<1>4. mode \in Modes /\ txn \in 0 .. MaxTxn
  BY JournalAssumption DEF Init
<1> QED
  BY <1>1, <1>2, <1>3, <1>4 DEF IInv

(* Every step keeps it. *)
LEMMA NextKeeps == IInv /\ [Next]_vars => Keeps
<1> SUFFICES ASSUME IInv, [Next]_vars PROVE Keeps
  OBVIOUS
<1>1. CASE UNCHANGED vars
  <2>1. UNCHANGED <<pc, pager, mode, lock, txn>>
    BY <1>1 DEF vars, counts
  <2> QED
    BY <2>1 DEF IInv, Shape, Places, Keeps
<1>2. ASSUME NEW c \in Conn, NEW p \in Page,
             Read(c, p) \/ OpenJournal(c, p) \/ Write(c, p) \/ Spill(c, p)
      PROVE  Keeps
  BY <1>2, StepRead, StepOpenJournal, StepWrite, StepSpill
<1>3. ASSUME NEW c \in Conn,
             \/ SharedLock(c) \/ Access(c) \/ CheckReserved(c) \/ FirstByte(c) \/ HotLock(c)
             \/ HotBusy(c) \/ HotOpen(c) \/ Playback(c) \/ Restore(c) \/ SyncDb(c)
      PROVE  Keeps
  BY <1>3, StepSharedLock, StepAccess, StepCheckReserved, StepFirstByte, StepHotLock,
     StepHotBusy, StepHotOpen, StepPlayback, StepRestore, StepSyncDb
<1>4. ASSUME NEW c \in Conn,
             \/ Finalise(c) \/ SyncZero(c) \/ Unlock(c) \/ Validate(c)
             \/ EndRead(c) \/ Begin(c) \/ TruncateImage(c) \/ Commit(c) \/ Counter(c)
      PROVE  Keeps
  BY <1>4, StepFinalise, StepSyncZero, StepUnlock, StepValidate, StepEndRead, StepBegin,
     StepTruncateImage, StepCommit, StepCounter
<1>5. ASSUME NEW c \in Conn,
             \/ Discard(c) \/ Exclusive(c) \/ NextHeader(c) \/ Sync1(c) \/ Count(c)
             \/ Sync2(c) \/ NewHeader(c) \/ WriteOut(c) \/ Truncate(c) \/ Rollback(c)
             \/ IoError(c)
      PROVE  Keeps
  BY <1>5, StepDiscard, StepExclusive, StepNextHeader, StepSync1, StepCount, StepSync2,
     StepNewHeader, StepWriteOut, StepTruncate, StepRollback, StepIoError
<1>6. ASSUME NEW k, Crash(k) PROVE Keeps
  BY <1>6, StepCrash
<1>7. ASSUME PowerFail PROVE Keeps
  BY <1>7, StepPowerFail
<1>8. CASE Next
  <2>1. \/ \E c \in Conn :
             \/ SharedLock(c) \/ Access(c) \/ CheckReserved(c) \/ FirstByte(c) \/ HotLock(c)
             \/ HotBusy(c) \/ HotOpen(c) \/ Playback(c) \/ Restore(c) \/ SyncDb(c)
        \/ \E c \in Conn :
             \/ Finalise(c) \/ SyncZero(c) \/ Unlock(c) \/ Validate(c)
             \/ EndRead(c) \/ Begin(c) \/ TruncateImage(c) \/ Commit(c) \/ Counter(c)
        \/ \E c \in Conn :
             \/ Discard(c) \/ Exclusive(c) \/ NextHeader(c) \/ Sync1(c) \/ Count(c)
             \/ Sync2(c) \/ NewHeader(c) \/ WriteOut(c) \/ Truncate(c) \/ Rollback(c)
             \/ IoError(c)
        \/ \E c \in Conn : \E p \in Page :
             Read(c, p) \/ OpenJournal(c, p) \/ Write(c, p) \/ Spill(c, p)
        \/ \E k : Crash(k)
        \/ PowerFail
    BY <1>8, Zenon DEF Next
  <2> QED
    BY <2>1, <1>2, <1>3, <1>4, <1>5, <1>6, <1>7
<1> QED
  BY <1>1, <1>8

(* With the lock, all of it. *)
LEMMA KeepsIInv == IInv /\ Keeps => IInv'
  BY LockNext DEF IInv, Keeps

(* So it holds always. *)
LEMMA AlwaysIInv == Spec => []IInv
<1>1. Init => IInv
  BY InitIInv
<1>2. IInv /\ [Next]_vars => IInv'
  BY NextKeeps, KeepsIInv
<1> QED
  BY <1>1, <1>2, PTL DEF Spec

(* TypeOK: in particular the lock of the database file is kept exclusive by
   every path through the pager. *)
THEOREM TypeCorrect == Spec => []TypeOK
<1>1. IInv => TypeOK
  BY DEF IInv, TypeOK, Shape, LockInv
<1> QED
  BY <1>1, AlwaysIInv, PTL

(* Every call the pager makes of the VFS, and every process that dies, is a step
   of the abstract lock: the pager never asks for a level it may not ask for. *)
THEOREM LockRefined == Spec => Lock!Spec
<1>1. Init => Lock!Init
  BY DEF Init
<1>2. IInv /\ [Next]_vars => [Lock!Next]_lock
  BY NextKeeps DEF Keeps
<1> QED
  BY <1>1, <1>2, AlwaysIInv, PTL DEF Spec, Lock!Spec

-----------------------------------------------------------------------------
(* Who writes. *)

(* The lock at the places from which files are written. *)
LEMMA WriterHasLock ==
    ASSUME IInv, NEW c \in Conn
    PROVE  /\ pager[c].st \in {"dbmod", "finished"} => lock[c] = Lock!EXCLUSIVE
           /\ pc[c] \in Flush => lock[c] = Lock!EXCLUSIVE
           /\ pc[c] \in Undo /\ (pager[c].op = "hot" \/ pager[c].st = "open") =>
                 lock[c] = Lock!EXCLUSIVE
           /\ pc[c] \in Undo \cup Prepare => lock[c] >= Lock!RESERVED
           /\ pager[c].st \in WriterStates => lock[c] >= Lock!RESERVED
           /\ pc[c] \in Flush => lock[c] >= Lock!RESERVED
           /\ pc[c] = "hotOpen" => lock[c] >= Lock!RESERVED
  BY Here, LockLevels DEF Allowed, Undo, Prepare, Flush, WriterStates

(* The steps that change the database file. *)
LEMMA DbWriters ==
    ASSUME IInv, NEW c \in Conn, db' # db,
           \/ Playback(c) \/ Restore(c) \/ WriteOut(c) \/ Truncate(c) \/ IoError(c)
    PROVE  lock[c] = Lock!EXCLUSIVE
<1>1. CASE Playback(c)
  <2>1. pc[c] = "playback" /\ pager[c].st \in {"open", "dbmod", "finished"}
    BY <1>1 DEF Playback, Is
  <2> QED
    BY <2>1, WriterHasLock DEF Undo
<1>2. CASE Restore(c)
  <2>1. pc[c] = "restore" /\ (pager[c].op = "hot" \/ pager[c].st \in {"dbmod", "finished"})
    BY <1>2 DEF Restore, IntoFile, Is
  <2> QED
    BY <2>1, WriterHasLock DEF Undo
<1>3. CASE WriteOut(c)
  BY <1>3, WriterHasLock DEF WriteOut, Is, Flush
<1>4. CASE Truncate(c)
  BY <1>4, WriterHasLock DEF Truncate, Is, Flush
<1>5. CASE IoError(c)
  <2>1. PartlyDone(c)
    BY <1>5 DEF IoError
  <2>2. pc[c] = "writeOut" \/ (pc[c] = "restore" /\ pager[c].op = "hot")
    BY <2>1 DEF PartlyDone
  <2> QED
    BY <2>2, WriterHasLock DEF Undo, Flush
<1> QED
  BY <1>1, <1>2, <1>3, <1>4, <1>5

(* The steps that change the journal beside it. *)
LEMMA JrnlWriters ==
    ASSUME IInv, NEW c \in Conn, jrnl' # jrnl, NEW p \in Page,
           \/ HotOpen(c) \/ Finalise(c) \/ SyncZero(c) \/ OpenJournal(c, p) \/ Write(c, p)
           \/ Counter(c) \/ Discard(c) \/ NextHeader(c) \/ Sync1(c) \/ Count(c) \/ Sync2(c)
           \/ NewHeader(c) \/ IoError(c)
    PROVE  lock[c] >= Lock!RESERVED
<1>1. CASE OpenJournal(c, p)
  <2>1. pager[c].st = "locked"
    BY <1>1 DEF OpenJournal
  <2> QED
    BY <2>1, WriterHasLock DEF WriterStates
<1>2. CASE Write(c, p)
  <2>1. pc[c] = "record" \/ pager[c].st \in {"cachemod", "dbmod"}
    BY <1>2 DEF Write, Is
  <2> QED
    BY <2>1, WriterHasLock DEF WriterStates, Prepare
<1>3. CASE IoError(c)
  <2>1. PartlyDone(c)
    BY <1>3 DEF IoError
  <2>2. pc[c] \in {"record", "counter", "discard"}
    BY <2>1 DEF PartlyDone
  <2> QED
    BY <2>2, WriterHasLock DEF Prepare
<1>4. CASE \/ HotOpen(c) \/ Finalise(c) \/ SyncZero(c) \/ Counter(c) \/ Discard(c)
           \/ NextHeader(c) \/ Sync1(c) \/ Count(c) \/ Sync2(c) \/ NewHeader(c)
  <2>1. pc[c] \in {"hotOpen", "finalise", "syncZero", "counter", "discard", "nextHeader",
                   "sync1", "count", "sync2", "newHeader"}
    BY <1>4 DEF HotOpen, Finalise, SyncZero, Counter, Discard, NextHeader, Sync1, Count,
                Sync2, NewHeader, Is
  <2> QED
    BY <2>1, WriterHasLock DEF Undo, Prepare, Flush
<1> QED
  BY <1>1, <1>2, <1>3, <1>4

(* The steps that leave the database file, or the journal, alone. *)
LEMMA SameDb1 ==
    ASSUME NEW c \in Conn, NEW p \in Page,
           \/ SharedLock(c) \/ Access(c) \/ CheckReserved(c) \/ FirstByte(c)
           \/ HotLock(c) \/ HotBusy(c) \/ HotOpen(c) \/ SyncDb(c)
    PROVE  UNCHANGED db
  BY DEF SharedLock, Access, CheckReserved, FirstByte, HotLock, HotBusy, HotOpen,
         SyncDb, files

LEMMA SameDb2 ==
    ASSUME NEW c \in Conn, NEW p \in Page,
           \/ Finalise(c) \/ SyncZero(c) \/ Unlock(c) \/ Validate(c) \/ EndRead(c)
           \/ Begin(c) \/ TruncateImage(c) \/ Commit(c)
    PROVE  UNCHANGED db
  BY DEF Finalise, SyncZero, Unlock, Validate, EndRead, Begin, TruncateImage,
         Commit, files

LEMMA SameDb3 ==
    ASSUME NEW c \in Conn, NEW p \in Page,
           \/ Counter(c) \/ Discard(c) \/ Exclusive(c) \/ NextHeader(c) \/ Sync1(c)
           \/ Count(c) \/ Sync2(c) \/ NewHeader(c)
    PROVE  UNCHANGED db
  BY DEF Counter, Discard, Exclusive, NextHeader, Sync1, Count, Sync2, NewHeader,
         files

LEMMA SameDb4 ==
    ASSUME NEW c \in Conn, NEW p \in Page,
           \/ Rollback(c) \/ Read(c, p) \/ OpenJournal(c, p) \/ Write(c, p)
           \/ Spill(c, p)
    PROVE  UNCHANGED db
  BY DEF Rollback, Read, OpenJournal, Write, Spill, files

LEMMA SameJrnl1 ==
    ASSUME NEW c \in Conn, NEW p \in Page,
           \/ SharedLock(c) \/ Access(c) \/ CheckReserved(c) \/ FirstByte(c)
           \/ HotLock(c) \/ HotBusy(c) \/ Playback(c) \/ Restore(c)
    PROVE  UNCHANGED jrnl
  BY DEF SharedLock, Access, CheckReserved, FirstByte, HotLock, HotBusy, Playback,
         Restore, files

LEMMA SameJrnl2 ==
    ASSUME NEW c \in Conn, NEW p \in Page,
           \/ SyncDb(c) \/ Unlock(c) \/ Validate(c) \/ EndRead(c) \/ Begin(c)
           \/ TruncateImage(c) \/ Commit(c) \/ Exclusive(c)
    PROVE  UNCHANGED jrnl
  BY DEF SyncDb, Unlock, Validate, EndRead, Begin, TruncateImage, Commit, Exclusive,
         files

LEMMA SameJrnl3 ==
    ASSUME NEW c \in Conn, NEW p \in Page,
           \/ WriteOut(c) \/ Truncate(c) \/ Rollback(c) \/ Read(c, p) \/ Spill(c, p)
    PROVE  UNCHANGED jrnl
  BY DEF WriteOut, Truncate, Rollback, Read, Spill, files


(* One step of one connection. *)
LEMMA StepWritesLocked ==
    ASSUME IInv, NEW c \in Conn, NEW p \in Page,
           \/ SharedLock(c) \/ Access(c) \/ CheckReserved(c) \/ FirstByte(c) \/ HotLock(c)
           \/ HotBusy(c) \/ HotOpen(c) \/ Playback(c) \/ Restore(c) \/ SyncDb(c)
           \/ Finalise(c) \/ SyncZero(c) \/ Unlock(c) \/ Validate(c)
           \/ EndRead(c) \/ Begin(c) \/ TruncateImage(c) \/ Commit(c) \/ Counter(c)
           \/ Discard(c) \/ Exclusive(c) \/ NextHeader(c) \/ Sync1(c) \/ Count(c)
           \/ Sync2(c) \/ NewHeader(c) \/ WriteOut(c) \/ Truncate(c) \/ Rollback(c)
           \/ IoError(c)
           \/ Read(c, p) \/ OpenJournal(c, p) \/ Write(c, p) \/ Spill(c, p)
    PROVE  /\ db' # db => lock[c] = Lock!EXCLUSIVE
           /\ jrnl' # jrnl => lock[c] >= Lock!RESERVED
<1>1. db' # db => Playback(c) \/ Restore(c) \/ WriteOut(c) \/ Truncate(c) \/ IoError(c)
  BY SameDb1, SameDb2, SameDb3, SameDb4
<1>2. jrnl' # jrnl =>
         \/ HotOpen(c) \/ Finalise(c) \/ SyncZero(c) \/ OpenJournal(c, p) \/ Write(c, p)
         \/ Counter(c) \/ Discard(c) \/ NextHeader(c) \/ Sync1(c) \/ Count(c) \/ Sync2(c)
         \/ NewHeader(c) \/ IoError(c)
  BY SameJrnl1, SameJrnl2, SameJrnl3
<1> QED
  BY <1>1, <1>2, DbWriters, JrnlWriters

(* WritesLocked: no path through commit, spill, rollback, hot rollback or failure
   writes to either file without the lock it takes. *)
THEOREM WritesAlwaysLocked == Spec => WritesLocked
<1> DEFINE Locked == /\ db' # db => \E c \in Conn : lock[c] = Lock!EXCLUSIVE
                     /\ jrnl' # jrnl => \E c \in Conn : lock[c] >= Lock!RESERVED
<1>1. ASSUME IInv, NEW c \in Conn, NEW p \in Page,
             \/ SharedLock(c) \/ Access(c) \/ CheckReserved(c) \/ FirstByte(c) \/ HotLock(c)
             \/ HotBusy(c) \/ HotOpen(c) \/ Playback(c) \/ Restore(c) \/ SyncDb(c)
             \/ Finalise(c) \/ SyncZero(c) \/ Unlock(c) \/ Validate(c)
             \/ EndRead(c) \/ Begin(c) \/ TruncateImage(c) \/ Commit(c) \/ Counter(c)
             \/ Discard(c) \/ Exclusive(c) \/ NextHeader(c) \/ Sync1(c) \/ Count(c)
             \/ Sync2(c) \/ NewHeader(c) \/ WriteOut(c) \/ Truncate(c) \/ Rollback(c)
             \/ IoError(c)
             \/ Read(c, p) \/ OpenJournal(c, p) \/ Write(c, p) \/ Spill(c, p)
      PROVE  Locked
  BY <1>1, StepWritesLocked
<1>2. ASSUME NEW k, Crash(k) PROVE Locked
  BY <1>2 DEF Crash, files
<1>3. ASSUME UNCHANGED vars PROVE Locked
  BY <1>3 DEF vars, files
<1>4. 1 \in Page
  BY JournalAssumption DEF Page
<1> HIDE DEF Locked
<1>5. ASSUME IInv, Next PROVE PowerFail \/ Locked
  <2>1. \/ \E c \in Conn : \E p \in Page :
             \/ SharedLock(c) \/ Access(c) \/ CheckReserved(c) \/ FirstByte(c) \/ HotLock(c)
             \/ HotBusy(c) \/ HotOpen(c) \/ Playback(c) \/ Restore(c) \/ SyncDb(c)
             \/ Finalise(c) \/ SyncZero(c) \/ Unlock(c) \/ Validate(c)
             \/ EndRead(c) \/ Begin(c) \/ TruncateImage(c) \/ Commit(c) \/ Counter(c)
             \/ Discard(c) \/ Exclusive(c) \/ NextHeader(c) \/ Sync1(c) \/ Count(c)
             \/ Sync2(c) \/ NewHeader(c) \/ WriteOut(c) \/ Truncate(c) \/ Rollback(c)
             \/ IoError(c)
             \/ Read(c, p) \/ OpenJournal(c, p) \/ Write(c, p) \/ Spill(c, p)
        \/ \E k : Crash(k)
        \/ PowerFail
    BY <1>4, <1>5, ZenonT(60) DEF Next
  <2> QED
    BY <1>1, <1>2, <1>5, <2>1
<1>6. IInv /\ [Next]_vars => PowerFail \/ Locked
  BY <1>3, <1>5
<1> QED
  BY <1>6, AlwaysIInv, PTL DEF Spec, WritesLocked, Locked
=============================================================================
