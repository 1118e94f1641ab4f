---------------------------- MODULE BackupProofs ----------------------------
(***************************************************************************)
(* What holds of Backup for any number of pages, contents and backups.     *)
(***************************************************************************)
EXTENDS Backup, TLAPS

(* A database has a content on every page up to its size and none behind. *)
Whole(d) == \A p \in Page : d.at[p] # Hole <=> p <= d.n

(* The source: a writer holds the lock, a lock holder has seen the last commit
   and no journal is left while it reads.  What a transaction did not touch is
   as before it, what is not dirty is in the file. *)
SourceInv ==
    /\ isRead => known = counter /\ ~hot.exists
    /\ txn.open => isRead /\ counter < MaxChange
    /\ txn.dirty # {} => txn.open
    /\ known <= counter
    /\ hot.exists => Whole(hot.orig)
    /\ ~hot.exists /\ ~txn.open => Whole(file)
    /\ txn.open => Whole(txn.orig) /\ Whole(txn.image)
    /\ txn.open /\ ~txn.written => file = txn.orig
    /\ txn.open => \A p \in Page :
          /\ p \notin txn.touched => file.at[p] = txn.orig.at[p]
          /\ p <= txn.image.n /\ p \notin txn.dirty => file.at[p] = txn.image.at[p]
          /\ p \in txn.dirty => p <= txn.image.n /\ p \in txn.touched

(* The backups: of the right shape, and known to the pager as soon as they have
   copied anything. *)
Record == [active : BOOLEAN, iNext : 1 .. N + 1, rc : {"OK", "BUSY", "DONE", "ERROR"},
           isAttached : BOOLEAN, bDestLocked : BOOLEAN, image : Pages]
Sound(B) ==
    /\ B \in [BackupObj -> Record]
    /\ \A b \in BackupObj : B[b].isAttached => B[b].active /\ B[b].bDestLocked
    /\ \A b \in BackupObj : ~B[b].isAttached /\ ~isFatalError(B[b].rc) => B[b].iNext = 1

(* What they have copied is what at has. *)
Good(B, at) ==
    \A b \in BackupObj : B[b].active /\ ~isFatalError(B[b].rc) =>
        \A p \in Copied(B[b]) : at[p] # Hole => B[b].image[p] = at[p]

IInv == TypeOK /\ SourceInv /\ Sound(bak) /\ PrefixCopied

LEMMA PrefixIsGood == PrefixCopied <=> (known = counter => Good(bak, Restored.at))
BY DEF PrefixCopied, Good

-----------------------------------------------------------------------------
(* Operators on databases and backups. *)

LEMMA CutDb ==
    ASSUME NEW at \in Pages, NEW k \in 0 .. N
    PROVE  Cut(at, k) \in Db /\ Cut(at, k).n = k
           /\ \A p \in Page : Cut(at, k).at[p] = IF p <= k THEN at[p] ELSE Hole
BY DEF Cut, Db, Pages, Data

LEMMA PutPages ==
    ASSUME NEW at \in Pages, NEW P, NEW from \in Pages
    PROVE  Put(at, P, from) \in Pages
           /\ \A p \in Page : Put(at, P, from)[p] = IF p \in P THEN from[p] ELSE at[p]
BY DEF Put, Pages

LEMMA AllPages ==
    ASSUME NEW v \in Data
    PROVE  All(v) \in Pages /\ \A p \in Page : All(v)[p] = v
BY DEF All, Pages

(* Telling the backups of written pages keeps them sound, and right if what was
   written is right. *)
LEMMA UpdateSound ==
    ASSUME NEW B, Sound(B), NEW P \in SUBSET Page, NEW from \in Pages, NEW bad
    PROVE  Sound(BackupUpdate(B, P, from, bad))
<1> DEFINE U == BackupUpdate(B, P, from, bad)
<1>1. ASSUME NEW b \in BackupObj
      PROVE  /\ U[b] \in Record /\ U[b].active = B[b].active /\ U[b].isAttached = B[b].isAttached
             /\ U[b].iNext = B[b].iNext /\ U[b].bDestLocked = B[b].bDestLocked
             /\ ~isFatalError(U[b].rc) => ~isFatalError(B[b].rc)
  <2>1. B[b] \in Record
    BY DEF Sound
  <2>2. CASE ~Concerned(B[b], P)
    BY <2>1, <2>2 DEF BackupUpdate
  <2>3. CASE Concerned(B[b], P) /\ b \in bad
    <3>1. U[b] = [B[b] EXCEPT !.rc = "ERROR"]
      BY <2>3 DEF BackupUpdate
    <3> QED BY <3>1, <2>1 DEF Record, isFatalError
  <2>4. CASE Concerned(B[b], P) /\ b \notin bad
    <3>1. U[b] = [B[b] EXCEPT !.image = Put(@, P \cap Copied(B[b]), from)]
      BY <2>4 DEF BackupUpdate
    <3>2. Put(B[b].image, P \cap Copied(B[b]), from) \in Pages
      BY <2>1, PutPages DEF Record
    <3> QED BY <3>1, <3>2, <2>1 DEF Record
  <2> QED BY <2>2, <2>3, <2>4
<1>2. U = [b \in BackupObj |-> U[b]]
  BY DEF BackupUpdate
<1>3. U \in [BackupObj -> Record]
  BY <1>1, <1>2
<1> QED BY <1>1, <1>3 DEF Sound

LEMMA UpdateGood ==
    ASSUME NEW B, Sound(B), NEW P \in SUBSET Page, NEW from \in Pages, NEW bad, NEW at,
           \A b \in BackupObj : B[b].active /\ ~isFatalError(B[b].rc) =>
               \A p \in Copied(B[b]) \ P : at[p] # Hole => B[b].image[p] = at[p],
           \A p \in P : at[p] # Hole => from[p] = at[p]
    PROVE  Good(BackupUpdate(B, P, from, bad), at)
<1> DEFINE U == BackupUpdate(B, P, from, bad)
<1>1. SUFFICES ASSUME NEW b \in BackupObj, U[b].active, ~isFatalError(U[b].rc),
                      NEW p \in Copied(U[b]), at[p] # Hole
               PROVE  U[b].image[p] = at[p]
  BY DEF Good
<1>2. B[b] \in Record /\ (~B[b].isAttached /\ ~isFatalError(B[b].rc) => B[b].iNext = 1)
  BY DEF Sound
<1>3. CASE ~Concerned(B[b], P)
  <2>1. U[b] = B[b]
    BY <1>3 DEF BackupUpdate
  <2>2. p \notin P
    BY <1>1, <1>2, <1>3, <2>1 DEF Concerned, Copied, Page
  <2> QED BY <1>1, <2>1, <2>2
<1>4. CASE Concerned(B[b], P)
  <2>1. b \notin bad
    BY <1>1, <1>2, <1>4 DEF BackupUpdate, isFatalError, Record
  <2>2. U[b] = [B[b] EXCEPT !.image = Put(@, P \cap Copied(B[b]), from)]
    BY <1>4, <2>1 DEF BackupUpdate
  <2>3. /\ U[b].image = Put(B[b].image, P \cap Copied(B[b]), from)
        /\ U[b].active = B[b].active /\ U[b].rc = B[b].rc /\ U[b].iNext = B[b].iNext
    BY <2>2, <1>2 DEF Record
  <2>4. p \in Copied(B[b]) /\ p \in Page
    BY <1>1, <2>3 DEF Copied
  <2>5. U[b].image[p] = IF p \in P THEN from[p] ELSE B[b].image[p]
    BY <2>3, <2>4, <1>2, PutPages DEF Record
  <2> QED BY <1>1, <2>3, <2>4, <2>5
<1> QED BY <1>3, <1>4

(* Backups that start over are right whatever the database is. *)
LEMMA RestartSound ==
    ASSUME NEW B, Sound(B)
    PROVE  Sound(BackupRestart(B)) /\ \A at : Good(BackupRestart(B), at)
<1> DEFINE R == BackupRestart(B)
<1>1. ASSUME NEW b \in BackupObj
      PROVE  /\ R[b] \in Record /\ R[b].active = B[b].active /\ R[b].isAttached = B[b].isAttached
             /\ R[b].bDestLocked = B[b].bDestLocked /\ R[b].rc = B[b].rc
             /\ ~isFatalError(R[b].rc) => R[b].iNext = 1
  <2>1. B[b] \in Record /\ (~B[b].isAttached /\ ~isFatalError(B[b].rc) => B[b].iNext = 1)
    BY DEF Sound
  <2>2. CASE B[b].isAttached
    <3>1. R[b] = [B[b] EXCEPT !.iNext = 1]
      BY <2>2 DEF BackupRestart
    <3>2. 1 \in 1 .. N + 1
      BY BackupAssumption
    <3> QED BY <3>1, <3>2, <2>1 DEF Record
  <2>3. CASE ~B[b].isAttached
    BY <2>1, <2>3 DEF BackupRestart
  <2> QED BY <2>2, <2>3
<1>2. R \in [BackupObj -> Record]
  BY <1>1 DEF BackupRestart
<1>3. Sound(R)
  BY <1>1, <1>2 DEF Sound
<1>4. \A at : Good(R, at)
  BY <1>1 DEF Good, Copied, Page
<1> QED BY <1>3, <1>4

(* After the lock is taken what is copied is what the file has. *)
LEMMA SourceGood ==
    ASSUME IInv, NEW bad
    PROVE  /\ Sound(Source(bad))
           /\ Good(Source(bad), (IF isRead THEN file ELSE Restored).at)
<1>1. Sound(bak) /\ TypeOK /\ SourceInv /\ (known = counter => Good(bak, Restored.at))
  BY PrefixIsGood DEF IInv
<1>2. CASE isRead
  BY <1>1, <1>2 DEF Source, SourceInv, Restored
<1>3. CASE ~isRead
  <2>1. Sound(Played(bad)) /\ (known = counter => Good(Played(bad), Restored.at))
    <3>1. CASE ~hot.exists
      BY <1>1, <3>1 DEF Played
    <3>2. CASE hot.exists
      <4>1. hot.pages \in SUBSET Page /\ hot.orig.at \in Pages /\ Restored = hot.orig
        BY <3>2, <1>1 DEF TypeOK, Db, Restored
      <4>2. Played(bad) = BackupUpdate(bak, hot.pages, hot.orig.at, bad)
        BY <3>2 DEF Played
      <4>3. Sound(Played(bad))
        BY <4>1, <4>2, <1>1, UpdateSound
      <4>4. ASSUME known = counter PROVE Good(Played(bad), Restored.at)
        <5>1. \A b \in BackupObj : bak[b].active /\ ~isFatalError(bak[b].rc) =>
                 \A p \in Copied(bak[b]) \ hot.pages : Restored.at[p] # Hole => bak[b].image[p] = Restored.at[p]
          BY <1>1, <4>4 DEF Good
        <5> QED BY <5>1, <4>1, <4>2, <1>1, UpdateGood
      <4> QED BY <4>3, <4>4
    <3> QED BY <3>1, <3>2
  <2>2. Sound(Validated(Played(bad))) /\ Good(Validated(Played(bad)), Restored.at)
    BY <2>1, RestartSound DEF Validated
  <2> QED BY <2>2, <1>3 DEF Source
<1> QED BY <1>2, <1>3

(* And a backup whose copy failed meanwhile has missed nothing: rolling back a
   journal brings back what it had copied. *)
GoodOne(r, at) == \A p \in Copied(r) : at[p] # Hole => r.image[p] = at[p]

LEMMA SourceGoodOne ==
    ASSUME IInv, NEW bad, NEW b \in BackupObj, bak[b].active, ~isFatalError(bak[b].rc)
    PROVE  GoodOne(Source(bad)[b], (IF isRead THEN file ELSE Restored).at)
<1>1. /\ Sound(bak) /\ TypeOK /\ SourceInv
      /\ known = counter => GoodOne(bak[b], Restored.at)
  BY PrefixIsGood DEF IInv, Good, GoodOne
<1>2. CASE isRead
  BY <1>1, <1>2 DEF Source, SourceInv, Restored
<1>3. CASE ~isRead
  <2> DEFINE R == Played(bad)[b]
  <2>1. bak[b] \in Record /\ (~bak[b].isAttached => bak[b].iNext = 1)
    BY <1>1 DEF Sound
  <2>2. /\ R.iNext = bak[b].iNext /\ R.isAttached = bak[b].isAttached
        /\ known = counter => GoodOne(R, Restored.at)
        /\ R \in Record
    <3>1. CASE ~hot.exists \/ ~Concerned(bak[b], hot.pages)
      <4>1. R = bak[b]
        BY <3>1 DEF Played, BackupUpdate
      <4> QED BY <4>1, <1>1, <2>1
    <3>2. CASE hot.exists /\ Concerned(bak[b], hot.pages) /\ b \in bad
      <4>1. R = [bak[b] EXCEPT !.rc = "ERROR"]
        BY <3>2 DEF Played, BackupUpdate
      <4>2. R.iNext = bak[b].iNext /\ R.isAttached = bak[b].isAttached /\ R.image = bak[b].image /\ R \in Record
        BY <4>1, <2>1 DEF Record
      <4> QED BY <4>2, <1>1 DEF GoodOne, Copied
    <3>3. CASE hot.exists /\ Concerned(bak[b], hot.pages) /\ b \notin bad
      <4>1. R = [bak[b] EXCEPT !.image = Put(@, hot.pages \cap Copied(bak[b]), hot.orig.at)]
        BY <3>3 DEF Played, BackupUpdate
      <4>2. bak[b].image \in Pages /\ hot.orig.at \in Pages /\ Restored = hot.orig
        BY <3>3, <2>1, <1>1 DEF Record, TypeOK, Db, Restored
      <4>3. /\ R.iNext = bak[b].iNext /\ R.isAttached = bak[b].isAttached
            /\ R.image = Put(bak[b].image, hot.pages \cap Copied(bak[b]), hot.orig.at) /\ R \in Record
        BY <4>1, <4>2, <2>1, PutPages DEF Record
      <4>4. ASSUME known = counter, NEW p \in Copied(R), Restored.at[p] # Hole
            PROVE  R.image[p] = Restored.at[p]
        <5>1. p \in Page /\ p \in Copied(bak[b])
          BY <4>3, <4>4 DEF Copied
        <5>2. R.image[p] = IF p \in hot.pages \cap Copied(bak[b]) THEN hot.orig.at[p] ELSE bak[b].image[p]
          BY <4>2, <4>3, <5>1, PutPages
        <5> QED BY <5>1, <5>2, <4>2, <4>4, <1>1 DEF GoodOne
      <4> QED BY <4>3, <4>4 DEF GoodOne
    <3> QED BY <3>1, <3>2, <3>3
  <2>3. CASE known = counter
    BY <2>2, <2>3, <1>3 DEF Source, Validated
  <2>4. CASE known # counter
    <3>1. Source(bad)[b].iNext = 1
      BY <2>1, <2>2, <2>4, <1>3 DEF Source, Validated, BackupRestart, Record
    <3> QED BY <3>1 DEF GoodOne, Copied, Page
  <2> QED BY <2>3, <2>4
<1> QED BY <1>2, <1>3

(* One backup of several takes another state. *)
LEMMA OneSound ==
    ASSUME NEW B, Sound(B), NEW b \in BackupObj, NEW r \in Record,
           r.isAttached => r.active /\ r.bDestLocked,
           ~r.isAttached /\ ~isFatalError(r.rc) => r.iNext = 1
    PROVE  Sound([B EXCEPT ![b] = r])
BY DEF Sound

LEMMA OneGood ==
    ASSUME NEW B, Sound(B), NEW b \in BackupObj, NEW r, NEW at, Good(B, at),
           r.active /\ ~isFatalError(r.rc) => GoodOne(r, at)
    PROVE  Good([B EXCEPT ![b] = r], at)
<1>1. B \in [BackupObj -> Record]
  BY DEF Sound
<1> QED BY <1>1 DEF Good, GoodOne

-----------------------------------------------------------------------------
(* The invariant, part by part. *)
SourceType ==
    /\ file \in Db /\ counter \in 0 .. MaxChange /\ known \in 0 .. MaxChange
    /\ hot \in [exists : BOOLEAN, orig : Db, pages : SUBSET Page]
    /\ isRead \in BOOLEAN
    /\ txn \in [open : BOOLEAN, image : Db, orig : Db, dirty : SUBSET Page,
                touched : SUBSET Page, written : BOOLEAN]
    /\ dest \in [BackupObj -> Db]

LEMMA Parts ==
    /\ IInv => SourceType /\ SourceInv /\ Sound(bak)
               /\ (known = counter => Good(bak, Restored.at))
    /\ SourceType' /\ SourceInv' /\ Sound(bak') /\ (known' = counter' => Good(bak', Restored'.at))
           => IInv'
<1>1. IInv => SourceType /\ SourceInv /\ Sound(bak) /\ (known = counter => Good(bak, Restored.at))
  BY PrefixIsGood DEF IInv, TypeOK, SourceType
<1>2. SourceType' /\ Sound(bak') => TypeOK'
  BY DEF SourceType, Sound, Record, TypeOK
<1>3. (known' = counter' => Good(bak', Restored'.at)) => PrefixCopied'
  BY DEF Good, PrefixCopied
<1> QED BY <1>1, <1>2, <1>3 DEF IInv

LEMMA Constants == /\ 1 \in Page /\ 1 \in 1 .. N + 1 /\ Page \subseteq Nat /\ N \in 0 .. N
                   /\ Val \subseteq Data /\ Hole \in Data /\ Old \in Data /\ Hole \notin Val
                   /\ Empty \in Db /\ 0 \in 0 .. MaxChange
<1>1. /\ 1 \in Page /\ 1 \in 1 .. N + 1 /\ Page \subseteq Nat /\ N \in 0 .. N /\ 0 \in 0 .. N
      /\ Val \subseteq Data /\ Hole \in Data /\ Old \in Data /\ Hole \notin Val /\ 0 \in 0 .. MaxChange
  BY BackupAssumption DEF Page, Data
<1>2. Empty \in Db
  BY <1>1, AllPages, CutDb DEF Empty
<1> QED BY <1>1, <1>2

LEMMA InitInv == Init => IInv
<1> SUFFICES ASSUME Init PROVE IInv
  OBVIOUS
<1>1. file \in Db /\ Whole(file)
  <2>1. PICK v \in Val, k \in Page : file = Cut(All(v), k)
    BY DEF Init
  <2>2. All(v) \in Pages /\ k \in 0 .. N /\ v # Hole /\ \A p \in Page : All(v)[p] = v
    BY Constants, AllPages, BackupAssumption DEF Page
  <2> QED BY <2>1, <2>2, CutDb DEF Whole
<1>2. Idle \in Record /\ ~Idle.active /\ Idle.iNext = 1 /\ ~Idle.isAttached
  BY Constants, AllPages DEF Idle, Record
<1>3. Sound(bak) /\ PrefixCopied
  BY <1>2 DEF Init, Sound, PrefixCopied
<1>4. Cut(All(Old), N) \in Db
  BY Constants, AllPages, CutDb
<1>5. SourceType
  BY <1>1, <1>4, Constants DEF Init, SourceType, NoJournal, NoTxn
<1>6. SourceInv
  BY <1>1, Constants DEF Init, SourceInv, NoJournal, NoTxn
<1>7. TypeOK
  BY <1>3, <1>5 DEF SourceType, Sound, Record, TypeOK
<1> QED BY <1>3, <1>6, <1>7 DEF IInv

-----------------------------------------------------------------------------
(* The steps of this process on the source. *)

LEMMA Lock ==
    ASSUME IInv, SharedLock
    PROVE  /\ file' \in Db /\ known' = counter /\ ~hot'.exists
           /\ hot' \in [exists : BOOLEAN, orig : Db, pages : SUBSET Page]
           /\ file' = (IF isRead THEN file ELSE Restored) /\ Restored' = file'
           /\ ~txn.open => Whole(file')
<1>1. SourceType /\ SourceInv
  BY Parts
<1>2. NoJournal \in [exists : BOOLEAN, orig : Db, pages : SUBSET Page] /\ ~NoJournal.exists
  BY Constants DEF NoJournal
<1>3. Restored \in Db
  BY <1>1 DEF Restored, SourceType
<1>4. ~hot'.exists
  BY <1>1, <1>2 DEF SharedLock, SourceInv
<1>5. file' \in Db /\ known' = counter /\ file' = (IF isRead THEN file ELSE Restored)
      /\ hot' \in [exists : BOOLEAN, orig : Db, pages : SUBSET Page]
  BY <1>1, <1>2, <1>3 DEF SharedLock, SourceType
<1>6. ~txn.open => Whole(file')
  BY <1>1, <1>5 DEF SourceInv, Restored
<1> QED BY <1>4, <1>5, <1>6 DEF Restored

LEMMA OpenReadInv == IInv /\ OpenRead => IInv'
<1> SUFFICES ASSUME IInv, OpenRead PROVE IInv'
  OBVIOUS
<1>1. SourceType /\ SourceInv
  BY Parts
<1>2. PICK bad \in SUBSET BackupObj : bak' = Source(bad)
  BY DEF OpenRead
<1>3. /\ SharedLock /\ isRead' = TRUE /\ ~isRead /\ ~txn.open
      /\ counter' = counter /\ txn' = txn /\ dest' = dest
  BY <1>1 DEF OpenRead, SourceInv
<1>4. SourceType'
  BY <1>1, <1>3, Lock DEF SourceType
<1>5. SourceInv'
  BY <1>1, <1>3, Lock DEF SourceInv, SourceType
<1>6. Sound(bak') /\ Good(bak', Restored'.at)
  BY <1>2, <1>3, Lock, SourceGood
<1> QED BY <1>4, <1>5, <1>6, Parts

LEMMA CloseReadInv == IInv /\ CloseRead => IInv'
<1> SUFFICES ASSUME IInv, CloseRead PROVE IInv'
  OBVIOUS
<1>1. SourceType /\ SourceInv /\ Sound(bak) /\ (known = counter => Good(bak, Restored.at))
  BY Parts
<1>2. SourceType' /\ SourceInv'
  BY <1>1 DEF CloseRead, SourceType, SourceInv, Whole
<1>3. bak' = bak /\ Restored' = Restored /\ known' = known /\ counter' = counter
  BY DEF CloseRead, Restored
<1> QED BY <1>1, <1>2, <1>3, Parts

LEMMA BeginInv == IInv /\ Begin => IInv'
<1> SUFFICES ASSUME IInv, Begin PROVE IInv'
  OBVIOUS
<1>1. SourceType /\ SourceInv /\ Sound(bak) /\ (known = counter => Good(bak, Restored.at))
  BY Parts
<1>2. txn' = [NoTxn EXCEPT !.open = TRUE, !.image = file, !.orig = file]
      /\ UNCHANGED <<file, counter, hot, isRead, known, bak, dest>>
  BY DEF Begin
<1>3. /\ txn'.open /\ txn'.image = file /\ txn'.orig = file /\ txn'.dirty = {}
      /\ txn'.touched = {} /\ txn'.written = FALSE
      /\ txn' \in [open : BOOLEAN, image : Db, orig : Db, dirty : SUBSET Page,
                   touched : SUBSET Page, written : BOOLEAN]
  BY <1>1, <1>2, Constants DEF NoTxn, SourceType
<1>4. SourceType'
  BY <1>1, <1>2, <1>3 DEF SourceType
<1>5. Whole(file) /\ isRead /\ counter < MaxChange /\ known = counter /\ ~hot.exists
  BY <1>1 DEF Begin, SourceInv
<1>6. \A p \in Page : p <= file.n => file.at[p] = file.at[p]
  OBVIOUS
<1>7. SourceInv'
  BY <1>1, <1>2, <1>3, <1>5 DEF SourceInv, Whole
<1>8. bak' = bak /\ Restored' = Restored /\ known' = known /\ counter' = counter
  BY <1>2 DEF Restored
<1> QED BY <1>1, <1>4, <1>7, <1>8, Parts

LEMMA ChangeInv == \A p \in Page, v \in Val : IInv /\ Change(p, v) => IInv'
<1> SUFFICES ASSUME NEW p \in Page, NEW v \in Val, IInv, Change(p, v) PROVE IInv'
  OBVIOUS
<1>1. SourceType /\ SourceInv /\ Sound(bak) /\ (known = counter => Good(bak, Restored.at))
  BY Parts
<1> DEFINE im == [n |-> Larger(txn.image.n, p), at |-> [txn.image.at EXCEPT ![p] = v]]
<1>2. /\ txn' = [txn EXCEPT !.image = im, !.dirty = txn.dirty \cup {p}, !.touched = txn.touched \cup {p}]
      /\ UNCHANGED <<file, counter, hot, isRead, known, bak, dest>>
      /\ txn.open /\ p <= txn.image.n + 1
  BY DEF Change
<1>3. /\ im.n = Larger(txn.image.n, p) /\ im.n \in 0 .. N
      /\ p <= im.n
      /\ im.n = txn.image.n \/ (p = txn.image.n + 1 /\ im.n = p)
      /\ \A q \in Page : im.at[q] = IF q = p THEN v ELSE txn.image.at[q]
      /\ im.at \in Pages
  <2>1. txn.image.n \in 0 .. N /\ txn.image.at \in Pages /\ p \in 1 .. N /\ v \in Data
    BY <1>1, Constants DEF SourceType, Db, Page
  <2>2. im.n = Larger(txn.image.n, p) /\ im.at = [txn.image.at EXCEPT ![p] = v]
    OBVIOUS
  <2>3. Larger(txn.image.n, p) \in 0 .. N /\ p <= Larger(txn.image.n, p)
        /\ (Larger(txn.image.n, p) = txn.image.n
            \/ (p = txn.image.n + 1 /\ Larger(txn.image.n, p) = p))
    BY <2>1, <1>2, BackupAssumption DEF Larger
  <2>4. im.at \in Pages /\ \A q \in Page : im.at[q] = IF q = p THEN v ELSE txn.image.at[q]
    BY <2>1, <2>2 DEF Pages
  <2> QED BY <2>2, <2>3, <2>4
<1>4. im \in Db
  BY <1>3 DEF Db
<1> HIDE DEF im
<1>5. /\ txn'.open /\ txn'.image = im /\ txn'.orig = txn.orig /\ txn'.dirty = txn.dirty \cup {p}
      /\ txn'.touched = txn.touched \cup {p} /\ txn'.written = txn.written
      /\ txn' \in [open : BOOLEAN, image : Db, orig : Db, dirty : SUBSET Page,
                   touched : SUBSET Page, written : BOOLEAN]
  BY <1>1, <1>2, <1>4 DEF SourceType
<1>6. SourceType'
  BY <1>1, <1>2, <1>5 DEF SourceType
<1>7. txn.image.n \in 0 .. N
  BY <1>1 DEF SourceType, Db
<1>8. Whole(im)
  <2> SUFFICES ASSUME NEW q \in Page PROVE im.at[q] # Hole <=> q <= im.n
    BY DEF Whole
  <2>1. txn.image.at[q] # Hole <=> q <= txn.image.n
    BY <1>1, <1>2 DEF SourceInv, Whole
  <2>2. v # Hole
    BY Constants
  <2> QED BY <2>1, <2>2, <1>2, <1>3, <1>7, BackupAssumption DEF Page
<1>9. \A q \in Page : q \in txn'.dirty => q <= im.n
  <2> SUFFICES ASSUME NEW q \in Page, q \in txn'.dirty PROVE q <= im.n
    OBVIOUS
  <2>1. q = p \/ q <= txn.image.n
    BY <1>1, <1>2, <1>5 DEF SourceInv
  <2> QED BY <2>1, <1>2, <1>3, <1>7, BackupAssumption DEF Page
<1>10. \A q \in Page : q <= im.n /\ q \notin txn'.dirty => file.at[q] = im.at[q]
  <2> SUFFICES ASSUME NEW q \in Page, q <= im.n, q \notin txn'.dirty
               PROVE  file.at[q] = im.at[q]
    OBVIOUS
  <2>1. q # p /\ q \notin txn.dirty
    BY <1>5
  <2>2. q <= txn.image.n
    BY <2>1, <1>2, <1>3, <1>7, BackupAssumption DEF Page
  <2> QED BY <2>1, <2>2, <1>1, <1>2, <1>3 DEF SourceInv
<1>11. SourceInv'
  BY <1>1, <1>2, <1>5, <1>8, <1>9, <1>10 DEF SourceInv, Whole
<1>12. bak' = bak /\ Restored' = Restored /\ known' = known /\ counter' = counter
  BY <1>2 DEF Restored
<1> QED BY <1>1, <1>6, <1>11, <1>12, Parts

LEMMA ShrinkInv == IInv /\ Shrink => IInv'
<1> SUFFICES ASSUME IInv, Shrink PROVE IInv'
  OBVIOUS
<1>1. SourceType /\ SourceInv /\ Sound(bak) /\ (known = counter => Good(bak, Restored.at))
  BY Parts
<1> DEFINE k == txn.image.n - 1
           im == Cut(txn.image.at, k)
<1>2. /\ txn' = [txn EXCEPT !.image = im, !.dirty = txn.dirty \cap (1 .. k),
                            !.touched = txn.touched \cup {k + 1}]
      /\ UNCHANGED <<file, counter, hot, isRead, known, bak, dest>>
      /\ txn.open /\ txn.image.n > 1
  <2>1. txn' = [txn EXCEPT !.image = Cut(@.at, k), !.dirty = @ \cap (1 .. k),
                           !.touched = @ \cup {k + 1}]
    BY DEF Shrink
  <2> QED BY <2>1 DEF Shrink
<1>3. txn.image.n \in 0 .. N /\ txn.image.at \in Pages
  BY <1>1 DEF SourceType, Db
<1>4. k \in 0 .. N /\ k + 1 \in Page /\ k < txn.image.n
  BY <1>2, <1>3, BackupAssumption DEF Page
<1>5. im \in Db /\ im.n = k /\ \A q \in Page : im.at[q] = IF q <= k THEN txn.image.at[q] ELSE Hole
  BY <1>3, <1>4, CutDb
<1>6. Whole(im)
  <2> SUFFICES ASSUME NEW q \in Page PROVE im.at[q] # Hole <=> q <= im.n
    BY DEF Whole
  <2>1. txn.image.at[q] # Hole <=> q <= txn.image.n
    BY <1>1, <1>2 DEF SourceInv, Whole
  <2> QED BY <2>1, <1>3, <1>4, <1>5 DEF Page
<1> HIDE DEF im, k
<1>7. /\ txn'.open /\ txn'.image = im /\ txn'.orig = txn.orig /\ txn'.dirty = txn.dirty \cap (1 .. k)
      /\ txn'.touched = txn.touched \cup {k + 1} /\ txn'.written = txn.written
      /\ txn' \in [open : BOOLEAN, image : Db, orig : Db, dirty : SUBSET Page,
                   touched : SUBSET Page, written : BOOLEAN]
  BY <1>1, <1>2, <1>4, <1>5 DEF SourceType
<1>8. SourceType'
  BY <1>1, <1>2, <1>7 DEF SourceType
<1>9. \A q \in Page : /\ q \notin txn'.touched => file.at[q] = txn.orig.at[q]
                      /\ q \in txn'.dirty => q <= im.n /\ q \in txn'.touched
                      /\ q <= im.n /\ q \notin txn'.dirty => file.at[q] = im.at[q]
  <2> SUFFICES ASSUME NEW q \in Page
               PROVE  /\ q \notin txn'.touched => file.at[q] = txn.orig.at[q]
                      /\ q \in txn'.dirty => q <= im.n /\ q \in txn'.touched
                      /\ q <= im.n /\ q \notin txn'.dirty => file.at[q] = im.at[q]
    OBVIOUS
  <2>1. /\ q \notin txn.touched => file.at[q] = txn.orig.at[q]
        /\ q <= txn.image.n /\ q \notin txn.dirty => file.at[q] = txn.image.at[q]
        /\ q \in txn.dirty => q \in txn.touched
    BY <1>1, <1>2 DEF SourceInv
  <2> QED BY <2>1, <1>3, <1>4, <1>5, <1>7 DEF Page
<1>10. SourceInv'
  BY <1>1, <1>2, <1>6, <1>7, <1>9 DEF SourceInv, Whole
<1>11. bak' = bak /\ Restored' = Restored /\ known' = known /\ counter' = counter
  BY <1>2 DEF Restored
<1> QED BY <1>1, <1>8, <1>10, <1>11, Parts

LEMMA SpillInv == \A p \in Page : IInv /\ Spill(p) => IInv'
<1> SUFFICES ASSUME NEW p \in Page, IInv, Spill(p) PROVE IInv'
  OBVIOUS
<1>1. SourceType /\ SourceInv /\ Sound(bak) /\ (known = counter => Good(bak, Restored.at))
  BY Parts
<1> DEFINE at == Put(file.at, {p}, txn.image.at)
<1>2. /\ p \in txn.dirty
      /\ file' = [n |-> Larger(file.n, p), at |-> at]
      /\ txn' = [txn EXCEPT !.dirty = txn.dirty \ {p}, !.written = TRUE]
      /\ UNCHANGED <<counter, hot, isRead, known, dest>>
  BY DEF Spill
<1>3. PICK bad \in SUBSET BackupObj : bak' = BackupUpdate(bak, {p}, txn.image.at, bad)
  BY DEF Spill
<1>4. /\ file.n \in 0 .. N /\ file.at \in Pages /\ txn.image.at \in Pages /\ {p} \in SUBSET Page
      /\ txn.image.n \in 0 .. N
  BY <1>1 DEF SourceType, Db
<1>5. at \in Pages /\ \A q \in Page : at[q] = IF q \in {p} THEN txn.image.at[q] ELSE file.at[q]
  BY <1>4, PutPages
<1> HIDE DEF at
<1>6. Larger(file.n, p) \in 0 .. N
  BY <1>4 DEF Larger, Page
<1>7. file' \in Db /\ file'.at = at
  BY <1>2, <1>5, <1>6 DEF Db
<1>8. /\ txn'.open = txn.open /\ txn'.image = txn.image /\ txn'.orig = txn.orig
      /\ txn'.dirty = txn.dirty \ {p} /\ txn'.touched = txn.touched /\ txn'.written = TRUE
      /\ txn' \in [open : BOOLEAN, image : Db, orig : Db, dirty : SUBSET Page,
                   touched : SUBSET Page, written : BOOLEAN]
  BY <1>1, <1>2 DEF SourceType
<1>9. SourceType'
  BY <1>1, <1>2, <1>7, <1>8 DEF SourceType
<1>10. txn.open
  BY <1>1, <1>2 DEF SourceInv
<1>11. SourceInv'
  <2>1. \A q \in Page : /\ q \notin txn.touched => at[q] = txn.orig.at[q]
                        /\ q <= txn.image.n /\ q \notin txn'.dirty => at[q] = txn.image.at[q]
                        /\ q \in txn'.dirty => q <= txn.image.n /\ q \in txn.touched
    BY <1>1, <1>2, <1>5, <1>8, <1>10 DEF SourceInv
  <2> QED BY <2>1, <1>1, <1>2, <1>7, <1>8, <1>10 DEF SourceInv, Whole
<1>12. Restored.at = file.at /\ Restored'.at = at /\ Good(bak, file.at)
  BY <1>1, <1>2, <1>7, <1>10 DEF Restored, SourceInv
<1>13. \A b \in BackupObj : bak[b].active /\ ~isFatalError(bak[b].rc) =>
          \A q \in Copied(bak[b]) \ {p} : at[q] # Hole => bak[b].image[q] = at[q]
  BY <1>5, <1>12 DEF Good, Copied
<1>14. \A q \in {p} : at[q] # Hole => txn.image.at[q] = at[q]
  BY <1>5
<1>15. Sound(bak') /\ Good(bak', at)
  BY <1>1, <1>3, <1>4, <1>13, <1>14, UpdateSound, UpdateGood
<1> QED BY <1>9, <1>11, <1>12, <1>15, Parts

LEMMA CommitInv == IInv /\ Commit => IInv'
<1> SUFFICES ASSUME IInv, Commit PROVE IInv'
  OBVIOUS
<1>1. SourceType /\ SourceInv /\ Sound(bak) /\ (known = counter => Good(bak, Restored.at))
  BY Parts
<1> DEFINE P == txn.dirty \cup {1}
           at == Put(file.at, P, txn.image.at)
<1>2. /\ txn.open /\ file' = Cut(at, txn.image.n) /\ txn' = NoTxn
      /\ counter' = counter + 1 /\ known' = counter + 1
      /\ UNCHANGED <<hot, isRead, dest>>
  BY DEF Commit
<1>3. PICK bad \in SUBSET BackupObj : bak' = BackupUpdate(bak, P, txn.image.at, bad)
  BY DEF Commit
<1>4. /\ file.at \in Pages /\ txn.image.at \in Pages /\ P \in SUBSET Page
      /\ txn.image.n \in 0 .. N
  BY <1>1, Constants DEF SourceType, Db
<1>5. at \in Pages /\ \A q \in Page : at[q] = IF q \in P THEN txn.image.at[q] ELSE file.at[q]
  BY <1>4, PutPages
<1>6. \A q \in Page : q \in txn.dirty => q \in P
  OBVIOUS
<1> HIDE DEF at, P
<1>7. /\ file' \in Db /\ file'.n = txn.image.n
      /\ \A q \in Page : file'.at[q] = IF q <= txn.image.n THEN at[q] ELSE Hole
  BY <1>2, <1>4, <1>5, CutDb
<1>8. \A q \in Page : q <= txn.image.n => file'.at[q] = txn.image.at[q]
  BY <1>1, <1>2, <1>5, <1>6, <1>7 DEF SourceInv
<1>9. Whole(file')
  <2>1. Whole(txn.image)
    BY <1>1, <1>2 DEF SourceInv
  <2> QED BY <2>1, <1>7, <1>8 DEF Whole
<1>10. counter + 1 \in 0 .. MaxChange
  BY <1>1, <1>2, BackupAssumption DEF SourceInv, SourceType
<1>11. SourceType'
  BY <1>1, <1>2, <1>7, <1>10, Constants DEF SourceType, NoTxn
<1>12. isRead /\ known = counter /\ ~hot.exists
  BY <1>1, <1>2 DEF SourceInv
<1>13. ~txn'.open /\ txn'.dirty = {}
  BY <1>2 DEF NoTxn
<1>14. SourceInv'
  BY <1>2, <1>9, <1>10, <1>12, <1>13 DEF SourceInv
<1>15. Restored.at = file.at /\ Restored' = file' /\ Good(bak, file.at)
  BY <1>1, <1>2, <1>12 DEF Restored
<1>16. \A b \in BackupObj : bak[b].active /\ ~isFatalError(bak[b].rc) =>
          \A q \in Copied(bak[b]) \ P : file'.at[q] # Hole => bak[b].image[q] = file'.at[q]
  <2> SUFFICES ASSUME NEW b \in BackupObj, bak[b].active, ~isFatalError(bak[b].rc),
                      NEW q \in Copied(bak[b]) \ P, file'.at[q] # Hole
               PROVE  bak[b].image[q] = file'.at[q]
    OBVIOUS
  <2>1. q \in Page /\ q \in Copied(bak[b])
    BY DEF Copied
  <2>2. file'.at[q] = file.at[q]
    BY <2>1, <1>5, <1>7
  <2> QED BY <2>1, <2>2, <1>15 DEF Good
<1>17. \A q \in P : file'.at[q] # Hole => txn.image.at[q] = file'.at[q]
  BY <1>4, <1>7, <1>8
<1>18. Sound(bak') /\ Good(bak', file'.at)
  BY <1>1, <1>3, <1>4, <1>16, <1>17, UpdateSound, UpdateGood
<1> QED BY <1>11, <1>14, <1>15, <1>18, Parts

LEMMA RollbackInv == IInv /\ Rollback => IInv'
<1> SUFFICES ASSUME IInv, Rollback PROVE IInv'
  OBVIOUS
<1>1. SourceType /\ SourceInv /\ Sound(bak) /\ (known = counter => Good(bak, Restored.at))
  BY Parts
<1>2. /\ txn.open /\ file' = txn.orig /\ txn' = NoTxn
      /\ UNCHANGED <<counter, hot, isRead, known, dest>>
  BY DEF Rollback
<1>3. PICK bad \in SUBSET BackupObj : bak' = RolledBack(bad)
  BY DEF Rollback
<1>4. txn.orig \in Db /\ txn.orig.at \in Pages /\ txn.orig.n \in 0 .. N /\ ~txn'.open /\ txn'.dirty = {}
  BY <1>1, <1>2 DEF SourceType, Db, NoTxn
<1>5. SourceType'
  BY <1>1, <1>2, <1>4, Constants DEF SourceType, NoTxn
<1>6. isRead /\ known = counter /\ ~hot.exists /\ Whole(txn.orig)
  BY <1>1, <1>2 DEF SourceInv
<1>7. SourceInv'
  BY <1>1, <1>2, <1>4, <1>6 DEF SourceInv
<1>8. Restored.at = file.at /\ Restored' = txn.orig /\ Good(bak, file.at)
  BY <1>1, <1>2, <1>6 DEF Restored
<1>9. Sound(bak') /\ Good(bak', txn.orig.at)
  <2>1. CASE ~txn.written
    BY <2>1, <1>1, <1>2, <1>3, <1>8 DEF RolledBack, SourceInv
  <2>2. CASE txn.written
    <3> DEFINE P == txn.touched \cap (1 .. txn.orig.n)
    <3>1. bak' = BackupUpdate(bak, P, txn.orig.at, bad)
      BY <2>2, <1>3 DEF RolledBack
    <3>2. P \in SUBSET Page
      BY <1>1 DEF SourceType
    <3>3. \A b \in BackupObj : bak[b].active /\ ~isFatalError(bak[b].rc) =>
             \A q \in Copied(bak[b]) \ P : txn.orig.at[q] # Hole => bak[b].image[q] = txn.orig.at[q]
      <4> SUFFICES ASSUME NEW b \in BackupObj, bak[b].active, ~isFatalError(bak[b].rc),
                          NEW q \in Copied(bak[b]) \ P, txn.orig.at[q] # Hole
                   PROVE  bak[b].image[q] = txn.orig.at[q]
        OBVIOUS
      <4>1. q \in Page /\ q \in Copied(bak[b])
        BY DEF Copied
      <4>2. q <= txn.orig.n
        BY <4>1, <1>6 DEF Whole
      <4>3. q \notin txn.touched
        BY <4>1, <4>2, <1>4, BackupAssumption DEF Page
      <4>4. file.at[q] = txn.orig.at[q]
        BY <4>1, <4>3, <1>1, <1>2 DEF SourceInv
      <4> QED BY <4>1, <4>4, <1>8 DEF Good
    <3> HIDE DEF P
    <3> QED BY <3>1, <3>2, <3>3, <1>1, <1>4, UpdateSound, UpdateGood
  <2> QED BY <2>1, <2>2
<1> QED BY <1>5, <1>7, <1>8, <1>9, Parts

LEMMA RollbackFailsInv == IInv /\ RollbackFails => IInv'
<1> SUFFICES ASSUME IInv, RollbackFails PROVE IInv'
  OBVIOUS
<1>1. SourceType /\ SourceInv /\ Sound(bak)
  BY Parts
<1>2. /\ txn.open /\ bak' = BackupRestart(bak) /\ isRead' = FALSE /\ txn' = NoTxn
      /\ hot' = [exists |-> TRUE, orig |-> txn.orig, pages |-> txn.touched \cap (1 .. txn.orig.n)]
      /\ UNCHANGED <<file, counter, known, dest>>
  BY DEF RollbackFails
<1>3. /\ hot' \in [exists : BOOLEAN, orig : Db, pages : SUBSET Page]
      /\ hot'.exists /\ hot'.orig = txn.orig /\ ~txn'.open /\ txn'.dirty = {}
  BY <1>1, <1>2 DEF SourceType, NoTxn
<1>4. SourceType'
  BY <1>1, <1>2, <1>3, Constants DEF SourceType, NoTxn
<1>5. SourceInv'
  BY <1>1, <1>2, <1>3 DEF SourceInv
<1>6. Sound(bak') /\ Good(bak', Restored'.at)
  BY <1>1, <1>2, RestartSound
<1> QED BY <1>4, <1>5, <1>6, Parts

-----------------------------------------------------------------------------
(* The steps of other processes. *)

LEMMA OtherCommitsInv ==
    \A k \in Page, P \in SUBSET Page, v \in Val : IInv /\ OtherCommits(k, P, v) => IInv'
<1> SUFFICES ASSUME NEW k \in Page, NEW P \in SUBSET Page, NEW v \in Val, IInv, OtherCommits(k, P, v)
             PROVE  IInv'
  OBVIOUS
<1>1. SourceType /\ SourceInv /\ Sound(bak)
  BY Parts
<1> DEFINE at == Put(file.at, P, All(v))
<1>2. /\ ~isRead /\ ~hot.exists /\ counter < MaxChange
      /\ \A p \in file.n + 1 .. k : p \in P
      /\ file' = Cut(at, k) /\ counter' = counter + 1
      /\ UNCHANGED <<hot, isRead, known, txn, bak, dest>>
  BY DEF OtherCommits
<1>3. v \in Data /\ v # Hole /\ file.at \in Pages /\ file.n \in 0 .. N /\ k \in 0 .. N
  BY <1>1, Constants DEF SourceType, Db, Page
<1>4. All(v) \in Pages /\ \A q \in Page : All(v)[q] = v
  BY <1>3, AllPages
<1>5. at \in Pages /\ \A q \in Page : at[q] = IF q \in P THEN v ELSE file.at[q]
  BY <1>3, <1>4, PutPages
<1> HIDE DEF at
<1>6. /\ file' \in Db /\ file'.n = k
      /\ \A q \in Page : file'.at[q] = IF q <= k THEN at[q] ELSE Hole
  BY <1>2, <1>3, <1>5, CutDb
<1>7. ~txn.open
  BY <1>1, <1>2 DEF SourceInv
<1>8. Whole(file')
  <2> SUFFICES ASSUME NEW q \in Page PROVE file'.at[q] # Hole <=> q <= file'.n
    BY DEF Whole
  <2>1. file.at[q] # Hole <=> q <= file.n
    BY <1>1, <1>2, <1>7 DEF SourceInv, Whole
  <2>2. q <= k /\ ~(q <= file.n) => q \in P
    BY <1>2, <1>3, BackupAssumption DEF Page
  <2> QED BY <2>1, <2>2, <1>3, <1>5, <1>6
<1>9. counter + 1 \in 0 .. MaxChange /\ known <= counter + 1 /\ known # counter + 1
  BY <1>1, <1>2, BackupAssumption DEF SourceInv, SourceType
<1>10. SourceType'
  BY <1>1, <1>2, <1>6, <1>9 DEF SourceType
<1>11. SourceInv'
  BY <1>1, <1>2, <1>7, <1>8, <1>9 DEF SourceInv
<1> QED BY <1>1, <1>2, <1>9, <1>10, <1>11, Parts

LEMMA OtherDiesInv ==
    \A P \in SUBSET Page, v \in Val : IInv /\ OtherDies(P, v) => IInv'
<1> SUFFICES ASSUME NEW P \in SUBSET Page, NEW v \in Val, IInv, OtherDies(P, v)
             PROVE  IInv'
  OBVIOUS
<1>1. SourceType /\ SourceInv /\ Sound(bak) /\ (known = counter => Good(bak, Restored.at))
  BY Parts
<1>2. /\ ~isRead /\ ~hot.exists
      /\ hot' = [exists |-> TRUE, orig |-> file, pages |-> P \cap (1 .. file.n)]
      /\ file' = [file EXCEPT !.at = Put(file.at, P, All(v))]
      /\ UNCHANGED <<counter, isRead, known, txn, bak, dest>>
  BY DEF OtherDies
<1>3. Put(file.at, P, All(v)) \in Pages
  BY <1>1, Constants, AllPages, PutPages DEF SourceType, Db
<1>4. file' \in Db
  BY <1>1, <1>2, <1>3 DEF SourceType, Db
<1>5. /\ hot' \in [exists : BOOLEAN, orig : Db, pages : SUBSET Page]
      /\ hot'.exists /\ hot'.orig = file
  BY <1>1, <1>2 DEF SourceType
<1>6. ~txn.open /\ Whole(file)
  BY <1>1, <1>2 DEF SourceInv
<1>7. SourceType'
  BY <1>1, <1>2, <1>4, <1>5 DEF SourceType
<1>8. SourceInv'
  BY <1>1, <1>2, <1>5, <1>6 DEF SourceInv
<1>9. Restored' = Restored
  BY <1>2, <1>5 DEF Restored
<1> QED BY <1>1, <1>2, <1>7, <1>8, <1>9, Parts

LEMMA OtherRecoversInv == IInv /\ OtherRecovers => IInv'
<1> SUFFICES ASSUME IInv, OtherRecovers PROVE IInv'
  OBVIOUS
<1>1. SourceType /\ SourceInv /\ Sound(bak) /\ (known = counter => Good(bak, Restored.at))
  BY Parts
<1>2. /\ ~isRead /\ hot.exists /\ file' = hot.orig /\ hot' = NoJournal
      /\ UNCHANGED <<counter, isRead, known, txn, bak, dest>>
  BY DEF OtherRecovers
<1>3. NoJournal \in [exists : BOOLEAN, orig : Db, pages : SUBSET Page] /\ ~NoJournal.exists
  BY Constants DEF NoJournal
<1>4. SourceType'
  BY <1>1, <1>2, <1>3 DEF SourceType
<1>5. SourceInv'
  BY <1>1, <1>2, <1>3 DEF SourceInv
<1>6. Restored' = Restored
  BY <1>2, <1>3 DEF Restored
<1> QED BY <1>1, <1>2, <1>4, <1>5, <1>6, Parts

-----------------------------------------------------------------------------
(* The steps of the backups. *)

LEMMA LockedRecord ==
    ASSUME NEW r \in Record, NEW b \in BackupObj, dest \in [BackupObj -> Db]
    PROVE  /\ Locked(r, b) \in Record /\ Locked(r, b).bDestLocked
           /\ Locked(r, b).active = r.active /\ Locked(r, b).iNext = r.iNext
           /\ Locked(r, b).isAttached = r.isAttached /\ Locked(r, b).rc = r.rc
           /\ r.bDestLocked => Locked(r, b) = r
<1>1. dest[b].at \in Pages
  BY DEF Db
<1> QED BY <1>1 DEF Locked, Record

LEMMA LockedGood ==
    ASSUME NEW r \in Record, NEW b \in BackupObj, dest \in [BackupObj -> Db], NEW at,
           GoodOne(r, at), r.isAttached => r.bDestLocked, ~r.isAttached => r.iNext = 1
    PROVE  GoodOne(Locked(r, b), at)
<1>1. CASE r.bDestLocked
  BY <1>1, LockedRecord
<1>2. CASE ~r.bDestLocked
  <2>1. Locked(r, b).iNext = 1
    BY <1>2, LockedRecord
  <2> QED BY <2>1 DEF GoodOne, Copied, Page
<1> QED BY <1>1, <1>2

LEMMA BackupInitInv == \A b \in BackupObj : IInv /\ BackupInit(b) => IInv'
<1> SUFFICES ASSUME NEW b \in BackupObj, IInv, BackupInit(b) PROVE IInv'
  OBVIOUS
<1>1. SourceType /\ SourceInv /\ Sound(bak) /\ (known = counter => Good(bak, Restored.at))
  BY Parts
<1> DEFINE r == [Idle EXCEPT !.active = TRUE]
<1>2. /\ bak' = [bak EXCEPT ![b] = r]
      /\ UNCHANGED <<file, counter, hot, isRead, known, txn, dest>>
  BY DEF BackupInit, srcVars
<1>3. r \in Record /\ ~r.isAttached /\ r.iNext = 1
  BY Constants, AllPages DEF Idle, Record
<1>4. \A at : GoodOne(r, at)
  BY <1>3 DEF GoodOne, Copied, Page
<1> HIDE DEF r
<1>5. SourceType' /\ SourceInv'
  BY <1>1, <1>2 DEF SourceType, SourceInv, Whole
<1>6. Sound(bak')
  BY <1>1, <1>2, <1>3, OneSound
<1>7. known' = counter' => Good(bak', Restored'.at)
  BY <1>1, <1>2, <1>4, OneGood DEF Restored
<1> QED BY <1>5, <1>6, <1>7, Parts

LEMMA FinishInv == \A b \in BackupObj : IInv /\ Finish(b) => IInv'
<1> SUFFICES ASSUME NEW b \in BackupObj, IInv, Finish(b) PROVE IInv'
  OBVIOUS
<1>1. SourceType /\ SourceInv /\ Sound(bak) /\ (known = counter => Good(bak, Restored.at))
  BY Parts
<1>2. /\ bak' = [bak EXCEPT ![b] = Idle]
      /\ UNCHANGED <<file, counter, hot, isRead, known, txn, dest>>
  BY DEF Finish, Detached, srcVars
<1>3. Idle \in Record /\ ~Idle.isAttached /\ Idle.iNext = 1 /\ ~Idle.active
  BY Constants, AllPages DEF Idle, Record
<1>4. SourceType' /\ SourceInv'
  BY <1>1, <1>2 DEF SourceType, SourceInv, Whole
<1>5. Sound(bak')
  BY <1>1, <1>2, <1>3, OneSound
<1>6. known' = counter' => Good(bak', Restored'.at)
  BY <1>1, <1>2, <1>3, OneGood DEF Restored
<1> QED BY <1>4, <1>5, <1>6, Parts

LEMMA StepRefusedInv == \A b \in BackupObj : IInv /\ StepRefused(b) => IInv'
<1> SUFFICES ASSUME NEW b \in BackupObj, IInv, StepRefused(b) PROVE IInv'
  OBVIOUS
<1>1. SourceType /\ SourceInv /\ Sound(bak) /\ (known = counter => Good(bak, Restored.at))
  BY Parts
<1>2. PICK r \in {bak[b], Locked(bak[b], b)}, rc \in {"BUSY", "ERROR"} :
          bak' = [bak EXCEPT ![b] = [r EXCEPT !.rc = rc]]
  BY DEF StepRefused, Refusals
<1>3. /\ bak[b].active /\ ~isFatalError(bak[b].rc)
      /\ UNCHANGED <<file, counter, hot, isRead, known, txn, dest>>
  BY DEF StepRefused, MayStep, srcVars
<1>4. /\ bak[b] \in Record /\ (bak[b].isAttached => bak[b].active /\ bak[b].bDestLocked)
      /\ (~bak[b].isAttached => bak[b].iNext = 1) /\ dest \in [BackupObj -> Db]
  BY <1>1, <1>3 DEF Sound, SourceType
<1>5. /\ r \in Record /\ r.active /\ r.isAttached = bak[b].isAttached /\ r.iNext = bak[b].iNext
      /\ bak[b].bDestLocked => r.bDestLocked
      /\ \A at : GoodOne(bak[b], at) => GoodOne(r, at)
  <2>1. CASE r = bak[b]
    BY <2>1, <1>3, <1>4
  <2>2. CASE r = Locked(bak[b], b)
    BY <2>2, <1>3, <1>4, LockedRecord, LockedGood
  <2> QED BY <2>1, <2>2
<1> DEFINE s == [r EXCEPT !.rc = rc]
<1>6. /\ s \in Record /\ s.active = r.active /\ s.isAttached = r.isAttached /\ s.iNext = r.iNext
      /\ s.bDestLocked = r.bDestLocked /\ s.image = r.image
  BY <1>5 DEF Record
<1>7. \A at : GoodOne(bak[b], at) => GoodOne(s, at)
  BY <1>5, <1>6 DEF GoodOne, Copied
<1> HIDE DEF s
<1>8. SourceType' /\ SourceInv'
  BY <1>1, <1>3 DEF SourceType, SourceInv, Whole
<1>9. bak' = [bak EXCEPT ![b] = s]
  BY <1>2 DEF s
<1>10. Sound(bak')
  BY <1>1, <1>4, <1>5, <1>6, <1>9, OneSound
<1>11. known' = counter' => Good(bak', Restored'.at)
  <2> SUFFICES ASSUME known' = counter' PROVE Good(bak', Restored'.at)
    OBVIOUS
  <2>1. Restored' = Restored /\ known = counter
    BY <1>3 DEF Restored
  <2>2. Good(bak, Restored.at)
    BY <2>1, <1>1
  <2>3. GoodOne(bak[b], Restored.at)
    BY <2>2, <1>3 DEF Good, GoodOne
  <2>4. GoodOne(s, Restored.at)
    BY <2>3, <1>7
  <2> QED BY <2>1, <2>2, <2>4, <1>1, <1>9, OneGood
<1> QED BY <1>8, <1>10, <1>11, Parts

LEMMA StepFailsInv == \A b \in BackupObj : IInv /\ StepFails(b) => IInv'
<1> SUFFICES ASSUME NEW b \in BackupObj, IInv, StepFails(b) PROVE IInv'
  OBVIOUS
<1>1. SourceType /\ SourceInv /\ Sound(bak)
  BY Parts
<1>2. PICK bad \in SUBSET BackupObj :
          bak' = [Source(bad) EXCEPT ![b] = [Locked(Source(bad)[b], b) EXCEPT !.rc = "ERROR"]]
  BY DEF StepFails
<1>3. /\ bak[b].active /\ ~isFatalError(bak[b].rc) /\ ~txn.open /\ SharedLock
      /\ UNCHANGED <<counter, isRead, txn, dest>>
  BY DEF StepFails, MayStep
<1> DEFINE B == Source(bad)
           r == Locked(B[b], b)
           s == [r EXCEPT !.rc = "ERROR"]
<1>4. Sound(B) /\ Good(B, file'.at) /\ dest \in [BackupObj -> Db]
  BY <1>1, <1>3, SourceGood, Lock DEF SourceType
<1> HIDE DEF B
<1>5. B[b] \in Record /\ (B[b].isAttached => B[b].active /\ B[b].bDestLocked)
  BY <1>4 DEF Sound
<1>6. r \in Record /\ (r.isAttached => r.active /\ r.bDestLocked)
  BY <1>4, <1>5, LockedRecord
<1> HIDE DEF r
<1>7. s \in Record /\ (s.isAttached => s.active /\ s.bDestLocked) /\ isFatalError(s.rc)
  BY <1>6 DEF Record, isFatalError
<1>8. bak' = [B EXCEPT ![b] = s]
  BY <1>2 DEF B, r
<1> HIDE DEF s
<1>9. SourceType'
  BY <1>1, <1>3, Lock DEF SourceType
<1>10. SourceInv'
  BY <1>1, <1>3, Lock DEF SourceInv, SourceType
<1>11. Sound(bak') /\ Good(bak', file'.at)
  BY <1>4, <1>7, <1>8, OneSound, OneGood
<1> QED BY <1>3, <1>9, <1>10, <1>11, Lock, Parts

(* What a step of a backup leaves: the pages it passed are those of the file. *)
LEMMA AdvancedGood ==
    ASSUME NEW r \in Record, NEW k \in Page, NEW d \in Db, GoodOne(r, d.at)
    PROVE  /\ Advanced(r, k, d) \in Record
           /\ Advanced(r, k, d).active = r.active /\ Advanced(r, k, d).isAttached = r.isAttached
           /\ Advanced(r, k, d).bDestLocked = r.bDestLocked
           /\ GoodOne(Advanced(r, k, d), d.at)
<1> DEFINE next == IF r.iNext > d.n THEN r.iNext
                   ELSE IF r.iNext + k > d.n THEN d.n + 1 ELSE r.iNext + k
           Q == r.iNext .. next - 1
           im == Put(r.image, Q, d.at)
           a == Advanced(r, k, d)
<1>1. r.iNext \in 1 .. N + 1 /\ d.n \in 0 .. N /\ d.at \in Pages /\ r.image \in Pages
  BY DEF Record, Db
<1>2. next \in 1 .. N + 1
  BY <1>1, BackupAssumption DEF Page
<1> HIDE DEF next
<1> HIDE DEF Q
<1>3. im \in Pages /\ \A q \in Page : im[q] = IF q \in Q THEN d.at[q] ELSE r.image[q]
  BY <1>1, PutPages
<1>4. a = [r EXCEPT !.image = im, !.iNext = next]
  BY DEF Advanced, next, Q
<1> HIDE DEF im, a
<1>5. /\ a \in Record /\ a.image = im /\ a.iNext = next
      /\ a.active = r.active /\ a.isAttached = r.isAttached /\ a.bDestLocked = r.bDestLocked
  BY <1>2, <1>3, <1>4 DEF Record
<1>6. GoodOne(a, d.at)
  <2> SUFFICES ASSUME NEW q \in Copied(a), d.at[q] # Hole PROVE a.image[q] = d.at[q]
    BY DEF GoodOne
  <2>1. q \in Page /\ q < next
    BY <1>5 DEF Copied
  <2>2. CASE q < r.iNext
    <3>1. q \in Copied(r) /\ q \notin Q
      BY <2>1, <2>2, <1>1, <1>2, BackupAssumption DEF Copied, Page, Q
    <3> QED BY <3>1, <2>1, <1>3, <1>5 DEF GoodOne
  <2>3. CASE ~(q < r.iNext)
    <3>1. q \in Q
      BY <2>1, <2>3, <1>1, <1>2, BackupAssumption DEF Page, Q
    <3> QED BY <3>1, <2>1, <1>3, <1>5
  <2> QED BY <2>2, <2>3
<1> QED BY <1>5, <1>6 DEF a

(* What taking the lock does not do to a backup. *)
LEMMA UpdateKeeps ==
    ASSUME NEW B, Sound(B), NEW P, NEW from, NEW bad, NEW c \in BackupObj
    PROVE  LET U == BackupUpdate(B, P, from, bad) IN
           /\ U[c].active = B[c].active /\ U[c].isAttached = B[c].isAttached
           /\ U[c].iNext = B[c].iNext /\ U[c].rc \in {B[c].rc, "ERROR"}
<1> DEFINE U == BackupUpdate(B, P, from, bad)
<1>1. B[c] \in Record
  BY DEF Sound
<1>2. \/ U[c] = B[c]
      \/ U[c] = [B[c] EXCEPT !.rc = "ERROR"]
      \/ U[c] = [B[c] EXCEPT !.image = Put(@, P \cap Copied(B[c]), from)]
  BY DEF BackupUpdate
<1> HIDE DEF U
<1>3. /\ U[c].active = B[c].active /\ U[c].isAttached = B[c].isAttached
      /\ U[c].iNext = B[c].iNext /\ U[c].rc \in {B[c].rc, "ERROR"}
  BY <1>1, <1>2 DEF Record
<1> QED BY <1>3 DEF U

LEMMA RestartKeeps ==
    ASSUME NEW B, Sound(B), NEW c \in BackupObj
    PROVE  /\ BackupRestart(B)[c].active = B[c].active
           /\ BackupRestart(B)[c].isAttached = B[c].isAttached
           /\ BackupRestart(B)[c].iNext \in {B[c].iNext, 1}
           /\ BackupRestart(B)[c].rc = B[c].rc
<1>1. B[c] \in Record
  BY DEF Sound
<1>2. BackupRestart(B)[c] \in {B[c], [B[c] EXCEPT !.iNext = 1]}
  BY DEF BackupRestart
<1> QED BY <1>1, <1>2 DEF Record

LEMMA SourceKeeps ==
    ASSUME IInv, NEW bad, NEW c \in BackupObj
    PROVE  /\ Source(bad)[c].active = bak[c].active
           /\ Source(bad)[c].isAttached = bak[c].isAttached
           /\ Source(bad)[c].iNext \in {bak[c].iNext, 1}
           /\ Source(bad)[c].rc \in {bak[c].rc, "ERROR"}
<1>1. Sound(bak) /\ SourceType
  BY Parts
<1> DEFINE U == BackupUpdate(bak, hot.pages, hot.orig.at, bad)
<1>2. /\ U[c].active = bak[c].active /\ U[c].isAttached = bak[c].isAttached
      /\ U[c].iNext = bak[c].iNext /\ U[c].rc \in {bak[c].rc, "ERROR"}
  BY <1>1, UpdateKeeps
<1>3. hot.exists => Sound(U)
  BY <1>1, UpdateSound DEF SourceType, Db
<1>4. Played(bad) = (IF hot.exists THEN U ELSE bak)
  BY DEF Played
<1> HIDE DEF U
<1> DEFINE V == Played(bad)
<1>5. /\ V[c].active = bak[c].active /\ V[c].isAttached = bak[c].isAttached
      /\ V[c].iNext = bak[c].iNext /\ V[c].rc \in {bak[c].rc, "ERROR"} /\ Sound(V)
  BY <1>1, <1>2, <1>3, <1>4
<1>6. Source(bad) = (IF isRead THEN bak ELSE IF known # counter THEN BackupRestart(V) ELSE V)
  BY DEF Source, Validated
<1> HIDE DEF V
<1>7. /\ BackupRestart(V)[c].active = V[c].active
      /\ BackupRestart(V)[c].isAttached = V[c].isAttached
      /\ BackupRestart(V)[c].iNext \in {V[c].iNext, 1}
      /\ BackupRestart(V)[c].rc = V[c].rc
  BY <1>5, RestartKeeps
<1> QED BY <1>5, <1>6, <1>7

LEMMA WholeCut ==
    ASSUME NEW d \in Db, Whole(d), NEW at \in Pages,
           \A p \in Page : p <= d.n => at[p] = d.at[p]
    PROVE  Cut(at, d.n) = d
<1>1. d = [n |-> d.n, at |-> d.at] /\ d.n \in 0 .. N /\ d.at \in Pages
  BY DEF Db
<1> DEFINE f == [p \in Page |-> IF p <= d.n THEN at[p] ELSE Hole]
<1>2. f = d.at
  <2>1. \A p \in Page : f[p] = d.at[p]
    BY DEF Whole
  <2>2. d.at = [p \in Page |-> d.at[p]]
    BY <1>1 DEF Pages
  <2> QED BY <2>1, <2>2
<1>3. Cut(at, d.n) = [n |-> d.n, at |-> f]
  BY DEF Cut
<1> QED BY <1>1, <1>2, <1>3

(* A step of a backup: the file is what it was or what a journal restores; a
   backup that is done has copied all of it. *)
LEMMA StepEffect ==
    ASSUME IInv, NEW b \in BackupObj, NEW k \in Page, Step(b, k)
    PROVE  /\ Sound(bak') /\ Good(bak', file'.at) /\ dest' \in [BackupObj -> Db]
           /\ \A c \in BackupObj : dest'[c] # dest[c] => c = b /\ bak'[c].rc = "DONE"
           /\ \A c \in BackupObj : bak'[c].rc = "DONE" /\ bak[c].rc # "DONE" =>
                  c = b /\ dest'[c] = file'
<1>1. SourceType /\ SourceInv /\ Sound(bak)
  BY Parts
<1> DEFINE Result(B, r) ==
               IF r.iNext > file'.n
               THEN /\ bak' = [B EXCEPT ![b] = [r EXCEPT !.rc = "DONE"]]
                    /\ dest' = [dest EXCEPT ![b] = Finished(r, file')]
               ELSE /\ bak' = [B EXCEPT ![b] = [r EXCEPT !.rc = "OK", !.isAttached = TRUE]]
                    /\ UNCHANGED dest
<1>2. PICK bad \in SUBSET BackupObj :
          Result(Source(bad), Advanced(Locked(Source(bad)[b], b), k, file'))
  BY DEF Step
<1>3. bak[b].active /\ ~isFatalError(bak[b].rc) /\ ~txn.open /\ SharedLock
  BY DEF Step, MayStep
<1> DEFINE B == Source(bad)
           l == Locked(B[b], b)
           r == Advanced(l, k, file')
<1>4. /\ Sound(B) /\ Good(B, file'.at) /\ GoodOne(B[b], file'.at)
      /\ dest \in [BackupObj -> Db] /\ file' \in Db /\ Whole(file')
  BY <1>1, <1>3, SourceGood, SourceGoodOne, Lock DEF SourceType
<1>5. /\ B[b].active /\ (~B[b].isAttached => B[b].iNext = 1)
      /\ \A c \in BackupObj : B[c].rc = "DONE" => bak[c].rc = "DONE"
  <2>1. ~bak[b].isAttached => bak[b].iNext = 1
    BY <1>1, <1>3 DEF Sound
  <2>2. \A c \in BackupObj : B[c].rc \in {bak[c].rc, "ERROR"}
    BY SourceKeeps
  <2> QED BY <2>1, <2>2, <1>3, SourceKeeps
<1> HIDE DEF B
<1>6. B[b] \in Record /\ (B[b].isAttached => B[b].bDestLocked) /\ B \in [BackupObj -> Record]
  BY <1>4 DEF Sound
<1>7. l \in Record /\ l.bDestLocked /\ l.active /\ GoodOne(l, file'.at)
  BY <1>4, <1>5, <1>6, LockedRecord, LockedGood
<1> HIDE DEF l
<1>8. r \in Record /\ r.bDestLocked /\ r.active /\ GoodOne(r, file'.at)
  BY <1>4, <1>7, AdvancedGood
<1>9. Result(B, r)
  BY <1>2 DEF B, l
<1> HIDE DEF r
<1>10. CASE r.iNext > file'.n
  <2> DEFINE s == [r EXCEPT !.rc = "DONE"]
  <2>1. s \in Record /\ s.bDestLocked /\ s.active /\ s.rc = "DONE" /\ isFatalError(s.rc)
    BY <1>8 DEF Record, isFatalError
  <2>2. bak' = [B EXCEPT ![b] = s] /\ dest' = [dest EXCEPT ![b] = Finished(r, file')]
    BY <1>9, <1>10
  <2> HIDE DEF s, Result
  <2>3. Sound(bak') /\ Good(bak', file'.at)
    BY <2>1, <2>2, <1>4, OneSound, OneGood
  <2>4. Finished(r, file') = file'
    <3>1. \A p \in Page : p <= file'.n => r.image[p] = file'.at[p]
      <4> SUFFICES ASSUME NEW p \in Page, p <= file'.n PROVE r.image[p] = file'.at[p]
        OBVIOUS
      <4>1. p < r.iNext
        BY <1>4, <1>8, <1>10, BackupAssumption DEF Page, Record, Db
      <4>2. file'.at[p] # Hole
        BY <1>4 DEF Whole
      <4> QED BY <4>1, <4>2, <1>8 DEF GoodOne, Copied
    <3>2. r.image \in Pages
      BY <1>8 DEF Record
    <3> QED BY <3>1, <3>2, <1>4, WholeCut DEF Finished
  <2>5. dest' \in [BackupObj -> Db] /\ dest'[b] = file' /\ \A c \in BackupObj : c # b => dest'[c] = dest[c]
    BY <2>2, <2>4, <1>4
  <2>6. bak'[b].rc = "DONE" /\ \A c \in BackupObj : c # b => bak'[c] = B[c]
    BY <2>1, <2>2, <1>6
  <2> QED BY <2>3, <2>5, <2>6, <1>5
<1>11. CASE ~(r.iNext > file'.n)
  <2> DEFINE s == [r EXCEPT !.rc = "OK", !.isAttached = TRUE]
  <2>1. /\ s \in Record /\ s.bDestLocked /\ s.active /\ s.rc = "OK" /\ s.isAttached
        /\ s.iNext = r.iNext /\ s.image = r.image
    BY <1>8 DEF Record
  <2>2. bak' = [B EXCEPT ![b] = s] /\ dest' = dest
    BY <1>9, <1>11
  <2> HIDE DEF s, Result
  <2>3. GoodOne(s, file'.at)
    BY <2>1, <1>8 DEF GoodOne, Copied
  <2>4. Sound(bak') /\ Good(bak', file'.at)
    BY <2>1, <2>2, <2>3, <1>4, OneSound, OneGood
  <2>5. bak'[b].rc = "OK" /\ \A c \in BackupObj : c # b => bak'[c] = B[c]
    BY <2>1, <2>2, <1>6
  <2> QED BY <2>2, <2>4, <2>5, <1>4, <1>5
<1> QED BY <1>10, <1>11

LEMMA StepInv == \A b \in BackupObj, k \in Page : IInv /\ Step(b, k) => IInv'
<1> SUFFICES ASSUME NEW b \in BackupObj, NEW k \in Page, IInv, Step(b, k) PROVE IInv'
  OBVIOUS
<1>1. SourceType /\ SourceInv
  BY Parts
<1>2. ~txn.open /\ SharedLock /\ UNCHANGED <<counter, isRead, txn>>
  BY DEF Step
<1>3. Sound(bak') /\ Good(bak', file'.at) /\ dest' \in [BackupObj -> Db]
  BY StepEffect
<1>4. SourceType'
  BY <1>1, <1>2, <1>3, Lock DEF SourceType
<1>5. SourceInv'
  BY <1>1, <1>2, Lock DEF SourceInv, SourceType
<1> QED BY <1>2, <1>3, <1>4, <1>5, Lock, Parts

-----------------------------------------------------------------------------
LEMMA StutterInv == IInv /\ UNCHANGED vars => IInv'
<1> SUFFICES ASSUME IInv, UNCHANGED vars PROVE IInv'
  OBVIOUS
<1>1. SourceType /\ SourceInv /\ Sound(bak) /\ (known = counter => Good(bak, Restored.at))
  BY Parts
<1>2. UNCHANGED <<file, counter, hot, isRead, known, txn, bak, dest>>
  BY DEF vars, srcVars
<1>3. SourceType' /\ SourceInv' /\ Restored' = Restored
  BY <1>1, <1>2 DEF SourceType, SourceInv, Whole, Restored
<1> QED BY <1>1, <1>2, <1>3, Parts

LEMMA NextInv == IInv /\ [Next]_vars => IInv'
<1> SUFFICES ASSUME IInv, [Next]_vars PROVE IInv'
  OBVIOUS
<1>1. CASE OpenRead \/ CloseRead \/ Begin \/ Shrink \/ Commit \/ Rollback \/ RollbackFails
           \/ OtherRecovers
  BY <1>1, OpenReadInv, CloseReadInv, BeginInv, ShrinkInv, CommitInv, RollbackInv,
     RollbackFailsInv, OtherRecoversInv
<1>2. CASE \E p \in Page : Spill(p) \/ \E v \in Val : Change(p, v)
  BY <1>2, SpillInv, ChangeInv
<1>3. CASE \E P \in SUBSET Page, v \in Val :
              OtherDies(P, v) \/ \E k \in Page : OtherCommits(k, P, v)
  BY <1>3, OtherDiesInv, OtherCommitsInv
<1>4. CASE \E b \in BackupObj :
              \/ BackupInit(b) \/ StepRefused(b) \/ StepFails(b) \/ Finish(b)
              \/ \E k \in Page : Step(b, k)
  BY <1>4, BackupInitInv, StepRefusedInv, StepFailsInv, FinishInv, StepInv
<1>5. CASE UNCHANGED vars
  BY <1>5, StutterInv
<1> QED BY <1>1, <1>2, <1>3, <1>4, <1>5 DEF Next

LEMMA Invariance == Spec => []IInv
BY InitInv, NextInv, PTL DEF Spec

(* Every variable keeps its shape, for any number of pages and of backups. *)
THEOREM TypeCorrect == Spec => []TypeOK
<1>1. IInv => TypeOK
  BY DEF IInv
<1> QED BY <1>1, Invariance, PTL

(* sqlite3BackupUpdate() and sqlite3BackupRestart() miss no page that a backup
   has passed, however writers, rollbacks and recoveries interleave with it. *)
THEOREM PrefixAlwaysCopied == Spec => []PrefixCopied
<1>1. IInv => PrefixCopied
  BY DEF IInv
<1> QED BY <1>1, Invariance, PTL

(* What the other actions do to the destinations and to the state of a backup. *)
LEMMA OthersKeep ==
    ASSUME IInv, NEW c \in BackupObj,
           \/ OpenRead \/ CloseRead \/ Begin \/ Shrink \/ Commit \/ Rollback \/ RollbackFails
           \/ OtherRecovers
           \/ \E p \in Page : Spill(p) \/ \E v \in Val : Change(p, v)
           \/ \E P \in SUBSET Page, v \in Val : OtherDies(P, v) \/ \E k \in Page : OtherCommits(k, P, v)
           \/ \E b \in BackupObj : BackupInit(b) \/ StepRefused(b) \/ StepFails(b) \/ Finish(b)
           \/ UNCHANGED vars
    PROVE  dest' = dest /\ (bak'[c].rc = "DONE" => bak[c].rc = "DONE")
<1>1. Sound(bak)
  BY Parts
<1>2. bak[c] \in Record /\ bak \in [BackupObj -> Record]
  BY <1>1 DEF Sound
<1>3. \A P, from, bad : BackupUpdate(bak, P, from, bad)[c].rc \in {bak[c].rc, "ERROR"}
  BY <1>1, UpdateKeeps
<1>4. \A bad : Source(bad)[c].rc \in {bak[c].rc, "ERROR"}
  BY SourceKeeps
<1>5. CASE CloseRead \/ Begin \/ Shrink \/ OtherRecovers \/ UNCHANGED vars
  BY <1>5 DEF CloseRead, Begin, Shrink, OtherRecovers, vars
<1>6. CASE OpenRead
  BY <1>4, <1>6 DEF OpenRead
<1>7. CASE Commit \/ Rollback
  BY <1>3, <1>7 DEF Commit, Rollback, RolledBack
<1>8. CASE RollbackFails
  BY <1>1, <1>8, RestartKeeps DEF RollbackFails
<1>9. CASE \E p \in Page : Spill(p) \/ \E v \in Val : Change(p, v)
  <2>1. CASE \E p \in Page, v \in Val : Change(p, v)
    BY <2>1 DEF Change
  <2>2. CASE \E p \in Page : Spill(p)
    <3>1. dest' = dest /\ \E P, from, bad : bak' = BackupUpdate(bak, P, from, bad)
      BY <2>2 DEF Spill
    <3> QED BY <3>1, <1>3
  <2> QED BY <1>9, <2>1, <2>2
<1>10. CASE \E P \in SUBSET Page, v \in Val :
               OtherDies(P, v) \/ \E k \in Page : OtherCommits(k, P, v)
  BY <1>10 DEF OtherDies, OtherCommits
<1>11. ASSUME NEW b \in BackupObj, BackupInit(b) \/ StepRefused(b) \/ StepFails(b) \/ Finish(b)
       PROVE  dest' = dest /\ (bak'[c].rc = "DONE" => bak[c].rc = "DONE")
  <2>1. CASE BackupInit(b) \/ Finish(b)
    <3>1. PICK r \in {[Idle EXCEPT !.active = TRUE], Idle} : bak' = [bak EXCEPT ![b] = r]
      BY <2>1 DEF BackupInit, Finish, Detached
    <3>2. r.rc = "OK"
      BY DEF Idle
    <3> QED BY <3>1, <3>2, <2>1, <1>2 DEF BackupInit, Finish
  <2>2. CASE StepRefused(b)
    <3>1. PICK r \in {bak[b], Locked(bak[b], b)}, rc \in {"BUSY", "ERROR"} :
              bak' = [bak EXCEPT ![b] = [r EXCEPT !.rc = rc]]
      BY <2>2 DEF StepRefused, Refusals
    <3>2. r \in Record
      BY <1>2, LockedRecord, Parts DEF SourceType
    <3>3. [r EXCEPT !.rc = rc].rc = rc
      BY <3>2 DEF Record
    <3> QED BY <3>1, <3>3, <2>2, <1>2 DEF StepRefused
  <2>3. CASE StepFails(b)
    <3>1. PICK bad \in SUBSET BackupObj :
              bak' = [Source(bad) EXCEPT ![b] = [Locked(Source(bad)[b], b) EXCEPT !.rc = "ERROR"]]
      BY <2>3 DEF StepFails
    <3>2. Source(bad) \in [BackupObj -> Record]
      BY SourceGood DEF Sound
    <3>3. Locked(Source(bad)[b], b) \in Record
      BY <3>2, LockedRecord, Parts DEF SourceType
    <3>4. [Locked(Source(bad)[b], b) EXCEPT !.rc = "ERROR"].rc = "ERROR"
      BY <3>3 DEF Record
    <3> QED BY <3>1, <3>2, <3>4, <2>3, <1>4 DEF StepFails
  <2> QED BY <1>11, <2>1, <2>2, <2>3
<1> QED BY <1>5, <1>6, <1>7, <1>8, <1>9, <1>10, <1>11

(* A finished backup is the source database as of one commit, for any number of
   pages and of backups. *)
THEOREM CopiesAreSnapshots == Spec => CopyIsSnapshot
<1> DEFINE Snap == \A b \in BackupObj :
               /\ dest'[b] # dest[b] => bak'[b].rc = "DONE"
               /\ bak'[b].rc = "DONE" /\ bak[b].rc # "DONE" => dest'[b] = Committed'
<1>1. IInv /\ [Next]_vars => [Snap]_vars
  <2> SUFFICES ASSUME IInv, [Next]_vars PROVE Snap
    OBVIOUS
  <2>1. CASE \E b \in BackupObj, k \in Page : Step(b, k)
    <3>1. PICK b \in BackupObj, k \in Page : Step(b, k)
      BY <2>1
    <3>2. Committed' = file'
      <4>1. ~txn.open /\ txn' = txn /\ SharedLock
        BY <3>1 DEF Step
      <4> QED BY <4>1, Lock DEF Committed
    <3> QED BY <3>1, <3>2, StepEffect
  <2>2. CASE \/ OpenRead \/ CloseRead \/ Begin \/ Shrink \/ Commit \/ Rollback \/ RollbackFails
             \/ OtherRecovers
             \/ \E p \in Page : Spill(p) \/ \E v \in Val : Change(p, v)
             \/ \E P \in SUBSET Page, v \in Val : OtherDies(P, v) \/ \E k \in Page : OtherCommits(k, P, v)
             \/ \E b \in BackupObj : BackupInit(b) \/ StepRefused(b) \/ StepFails(b) \/ Finish(b)
             \/ UNCHANGED vars
    BY <2>2, OthersKeep
  <2> QED BY <2>1, <2>2 DEF Next
<1> QED BY <1>1, Invariance, PTL DEF Spec, CopyIsSnapshot
=============================================================================
