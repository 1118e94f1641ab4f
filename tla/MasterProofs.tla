---------------------------- MODULE MasterProofs ----------------------------
(***************************************************************************)
(* Atomic commit over several files, for any number of files, records and  *)
(* transactions: module MasterJournal, without losses of power, implements *)
(* module AtomicCommit, as long as hot journals are recovered by           *)
(* connections in delete mode.  The README says what happens otherwise.    *)
(***************************************************************************)
EXTENDS MasterJournal, TLAPS, FiniteSetTheorems, WellFoundedInduction

(* The files of the transaction that the committing process still holds. *)
Mine == IF pc \in {"finalise", "rollback"} THEN todo ELSE inTrans

(* Who has a lock on a file: the committing process on the files of its
   transaction, and nobody plays back a file without one.  A recoverer whose file is
   restored keeps a shared one while it looks for the master journal, and a writer
   beside it goes no further than its RESERVED lock. *)
TurnInv ==
    /\ \A f \in File : lock[f] \in {"writer", "joined"} <=> f \in Mine
    /\ \A f \in File : lock[f] = "joined" =>
          pb[f].at \in {"open", "child"} /\ pc \in {"write", "rollback"}
    /\ \A f \in File : pb[f] # Idle => \/ lock[f] = "recoverer" /\ pb[f].at \notin {"open", "child"}
                                       \/ lock[f] = "writer" /\ pc = "rollback"
                                       \/ lock[f] \in {"reader", "joined"} /\ pb[f].at \in {"open", "child"}

(* What state the journal of a locked file is in. *)
LockInv == \A f \in File : lock[f] \in {"reader", "joined"} => ~Hot(jrnl[f])

(* The names of master journals are fresh, and known to who is listed. *)
NameInv ==
    /\ inTrans # {} => txn # 0
    /\ master \in {None, txn}
    /\ pc \in {"write", "create"} => master = None
    /\ pc \in {"syncMaster", "ptr", "cut", "unlink", "dirSync"} => master = txn
    /\ inTrans = {} => pc = "write"
    /\ master # None => list[txn] = inTrans
    /\ masters \subseteq 1 .. txn
    /\ (inTrans # {} /\ txn \in masters) => master = txn
    /\ \A f \in File : jrnl[f].ptr <= txn
    /\ \A f \in File : (inTrans # {} /\ jrnl[f].ptr = txn) =>
          master = txn /\ f \in inTrans /\ pc # "syncMaster"
    /\ \A f \in File : jrnl[f].ptr # None => f \in list[jrnl[f].ptr]
    /\ \A f \in File : ~jrnl[f].there => jrnl[f] = NoJrnl

(* Journals that would be rolled back: until the master journal is gone they
   restore what the file had, and no commit that may be lost is theirs. *)
Committed == pc = "dirSync" \/ (pc = "finalise" /\ master # None)
Pending(f) == f \in inTrans /\ ~Committed /\ pc # "rollback"
RedoInv ==
    /\ \A f \in File : ~Hot(jrnl[f]) => Redo(jrnl[f])
    /\ \A f \in File : Pending(f) => Redo(jrnl[f])
    /\ \A f \in File : (Pending(f) /\ ~Hot(jrnl[f])) => jrnl[f].there /\ jrnl[f].orig = db[f]
    /\ \A f \in File : (Pending(f) /\ Hot(jrnl[f])) => \A u \in unsettled : f \notin DOMAIN u
    /\ \A f \in File : Content(f) \in Txn

(* How far vdbeCommit() has come. *)
Ready(f) == Hot(jrnl[f]) /\ db[f] = txn /\ (master # None => Tail(jrnl[f]) = master)
CommitInv ==
    /\ (pc \in {"syncMaster", "ptr", "cut", "sync", "writeDb", "syncDb", "unlink"} /\ master # None)
          => master \in masters
    /\ (pc \in {"sync", "writeDb", "syncDb", "finalise"} /\ master = None) => inTrans = {This}
    /\ pc \in {"ptr", "cut", "sync", "writeDb", "syncDb"} => \A f \in inTrans \ todo : Ready(f)
    /\ pc = "cut" => jrnl[This].ptr = master /\ jrnl[This].there /\ jrnl[This].at > 0
    /\ (pc \in {"sync", "writeDb", "syncDb"} /\ master # None) => Tail(jrnl[This]) = master
    /\ pc \in {"writeDb", "syncDb"} => Hot(jrnl[This])
    /\ pc = "syncDb" => db[This] = txn
    /\ pc \in {"unlink", "dirSync", "finalise"} => \A f \in todo : Ready(f)
    /\ pc \in {"create", "syncMaster", "unlink", "dirSync"} => todo = inTrans
    /\ Committed => master \notin masters

(* How far a rollback has come, and that nobody deletes a master journal that
   a journal still names. *)
PlayOK(f) ==
    /\ pb[f].at \in {"restore", "syncDb", "end"} => pb[f].ptr = Tail(jrnl[f])
    /\ pb[f].at \in {"restore", "syncDb"} => Hot(jrnl[f]) /\ Redo(jrnl[f]) /\ pb[f].redo
    /\ pb[f].at = "syncDb" => db[f] = jrnl[f].orig
    /\ pb[f].at = "end" => /\ pb[f].redo <=> Redo(jrnl[f])
                           /\ (pb[f].redo /\ Hot(jrnl[f])) => db[f] = jrnl[f].orig
    /\ pb[f].at \in {"open", "child"} => pb[f].ptr # None
    /\ pb[f].ptr <= txn
    /\ (inTrans # {} /\ pb[f].ptr = txn) => pc \in {"finalise", "rollback"}
    /\ pb[f].at = "child" => \A g \in File : Tail(jrnl[g]) = pb[f].ptr => g \in pb[f].left
PlayInv == \A f \in File : PlayOK(f)

(* The inductive invariant: of runs without a loss of power. *)
Safe == LockInv /\ NameInv /\ RedoInv /\ CommitInv /\ PlayInv /\ kind = "fault"
IInv == TypeOK /\ TurnInv /\ Safe

(* A non-empty set of files has a first one. *)
LEMMA FirstFile == ASSUME NEW S \in SUBSET File, S # {} PROVE Min(S) \in S
<1>1. S \in SUBSET Nat BY MasterAssumption DEF File
<1>2. PICK x \in S : \A y \in S : ~(<<y, x>> \in OpToRel(<, Nat))
  BY <1>1, NatLessThanWellFounded, WFMin
<1>3. \A y \in S : ~(y < x) BY <1>1, <1>2 DEF OpToRel
<1>4. \A y \in S : x <= y BY <1>1, <1>3
<1> QED BY <1>2, <1>4, Zenon DEF Min

(* The loops of a commit or a rollback stand on a file of the transaction. *)
LEMMA ThisFile == ASSUME TypeOK, todo # {} PROVE This \in todo /\ This \in inTrans /\ This \in File
<1>1. todo \in SUBSET File BY DEF TypeOK
<1>2. This \in todo BY <1>1, FirstFile DEF This
<1> QED BY <1>2 DEF TypeOK

(* Numbers are numbers, and a transaction's files are files. *)
LEMMA Shapes ==
  ASSUME TypeOK
  PROVE  /\ MaxTxn \in Nat /\ MaxRec \in Nat /\ MaxEvents \in Nat
         /\ txn \in Nat /\ master \in Nat /\ txn \in Txn
         /\ todo \subseteq inTrans /\ inTrans \subseteq File
         /\ \A f \in File : /\ jrnl[f] \in Journals /\ jrnl[f].ptr \in Nat /\ jrnl[f].at \in Nat
                            /\ jrnl[f].len \in Nat /\ jrnl[f].at <= jrnl[f].len
                            /\ jrnl[f].orig \in Txn
                            /\ size[f] \in Nat /\ size[f] <= MaxRec /\ pb[f].ptr \in Nat
         /\ DOMAIN db = File /\ DOMAIN jrnl = File /\ DOMAIN pb = File /\ DOMAIN lock = File
<1>1. MaxTxn \in Nat /\ MaxRec \in Nat /\ MaxEvents \in Nat BY MasterAssumption
<1>2. \A f \in File : pb[f].ptr \in Nat BY <1>1 DEF TypeOK, Txn
<1> QED BY <1>1, <1>2 DEF TypeOK, Txn, Journals

(* A transaction on one file works on that file. *)
LEMMA OneFile ==
  ASSUME NEW S \in SUBSET File, S # {}, Cardinality(S) <= 1
  PROVE  S = {Min(S)}
<1>1. IsFiniteSet(S)
  <2>1. IsFiniteSet(File) BY MasterAssumption, FS_Interval DEF File
  <2> QED BY <2>1, FS_Subset
<1>2. Min(S) \in S BY FirstFile
<1>3. IsFiniteSet(S \ {Min(S)}) /\ Cardinality(S \ {Min(S)}) = Cardinality(S) - 1
  BY <1>1, <1>2, FS_RemoveElement
<1>4. Cardinality(S) \in Nat /\ Cardinality(S \ {Min(S)}) \in Nat BY <1>1, <1>3, FS_CardinalityType
<1>5. Cardinality(S \ {Min(S)}) = 0 BY <1>3, <1>4
<1>6. S \ {Min(S)} = {} BY <1>3, <1>5, FS_EmptySet
<1> QED BY <1>2, <1>6

(* What finalising a journal leaves of it. *)
LEMMA FinalisedShape ==
  ASSUME NEW j \in Journals, j.at <= j.len, NEW mode \in AllModes, NEW hm \in BOOLEAN
  PROVE  LET k == Finalised(j, mode, hm) IN
         /\ k \in Journals /\ k.at <= k.len /\ k.at \in Nat /\ k.len \in Nat
         /\ ~Hot(k) /\ ~k.hot
         /\ k.ptr \in {None, j.ptr}
         /\ Tail(k) = None \/ (~hm /\ Tail(k) = Tail(j))
         /\ k.there => j.there
         /\ ~k.there => k = NoJrnl \/ ~j.there
<1>1. MaxRec \in Nat /\ MaxTxn \in Nat BY MasterAssumption
<1>2. CASE mode = "delete"
  BY <1>1, <1>2 DEF Finalised, NoJrnl, Journals, Hot, Tail, None, Txn
<1>3. CASE mode = "truncate" \/ (mode = "persist" /\ hm)
  <2>1. Finalised(j, mode, hm) = [there |-> j.there, hot |-> FALSE, orig |-> j.orig,
                                  len |-> 0, ptr |-> None, at |-> 0]
    BY <1>3 DEF Finalised, Emptied, Journals
  <2> QED BY <1>1, <2>1 DEF Journals, Hot, Tail, None, Txn
<1>4. CASE mode = "persist" /\ ~hm
  <2>1. Finalised(j, mode, hm) = [there |-> j.there, hot |-> FALSE, orig |-> j.orig,
                                  len |-> j.len, ptr |-> j.ptr, at |-> j.at]
    BY <1>4 DEF Finalised, Journals
  <2>2. Tail(Finalised(j, mode, hm)) = Tail(j) BY <2>1 DEF Tail
  <2>3. /\ j.there \in BOOLEAN /\ j.orig \in Txn /\ j.len \in 0 .. MaxRec + 1 /\ j.ptr \in Txn
        /\ j.at \in 0 .. MaxRec + 1
    BY DEF Journals
  <2>4. Finalised(j, mode, hm) \in Journals BY <1>1, <2>1, <2>3 DEF Journals
  <2> QED BY <1>1, <1>4, <2>1, <2>2, <2>3, <2>4 DEF Hot
<1> QED BY <1>2, <1>3, <1>4 DEF AllModes

(* The same, said of the name of a master journal. *)
LEMMA FinalisedView ==
  ASSUME NEW j \in Journals, j.at <= j.len, NEW mode \in AllModes, NEW m \in Nat
  PROVE  LET k == Finalised(j, mode, m # None) IN
         /\ k \in Journals /\ k.at <= k.len /\ ~Hot(k)
         /\ k.ptr \in {None, j.ptr}
         /\ Tail(k) = None \/ (m = None /\ Tail(k) = Tail(j))
         /\ ~k.there => k = NoJrnl \/ ~j.there
<1> DEFINE hm == m # None
           k == Finalised(j, mode, hm)
<1>1. hm \in BOOLEAN OBVIOUS
<1>2. m = None <=> ~hm OBVIOUS
<1> HIDE DEF hm
<1>3. /\ k \in Journals /\ k.at <= k.len /\ ~Hot(k)
      /\ k.ptr \in {None, j.ptr}
      /\ Tail(k) = None \/ (~hm /\ Tail(k) = Tail(j))
      /\ ~k.there => k = NoJrnl \/ ~j.there
  BY <1>1, FinalisedShape
<1> QED BY <1>2, <1>3 DEF hm

(* What a new transaction finds of the journal of an older one. *)
LEMMA OpenedView ==
  ASSUME NEW j \in Journals, j.at <= j.len, NEW n \in 1 .. MaxRec, NEW v \in Txn
  PROVE  LET k == Opened(j, n, v) IN
         /\ k \in Journals /\ k.at <= k.len /\ k.at \in Nat /\ k.len \in Nat
         /\ k.there /\ ~k.hot /\ ~Hot(k) /\ k.orig = v
         /\ k.ptr \in {None, j.ptr}
         /\ j.there => Tail(k) \in {None, Tail(j)}
<1>1. MaxRec \in Nat /\ MaxTxn \in Nat BY MasterAssumption
<1> QED BY <1>1 DEF Opened, Journals, Hot, Tail, None, Txn

(* Where a file's turn in a loop ends. *)
LEMMA ReturnedView ==
  ASSUME TypeOK, NEW f \in File, NEW to, Returned(f, to)
  PROVE  /\ pb'[f] = Idle /\ \A g \in File \ {f} : pb'[g] = pb[g] /\ lock'[g] = lock[g]
         /\ \/ /\ lock[f] = "writer" /\ lock'[f] = "free" /\ todo' = todo \ {f}
               /\ \/ todo = {f} /\ pc' = "write" /\ inTrans' = {} /\ master' = None
                  \/ todo # {f} /\ pc' = pc /\ inTrans' = inTrans /\ master' = master
            \/ /\ lock[f] # "writer" /\ lock'[f] = IF lock[f] = "joined" THEN "writer" ELSE to
               /\ pc' = pc /\ inTrans' = inTrans /\ todo' = todo /\ master' = master
BY DEF TypeOK, Returned, FileDone, Live

-----------------------------------------------------------------------------
(* The steps of the abstract commit. *)
AbsStep == [Abstract!Next]_<<[f \in File |-> Content(f)], inTrans, unsettled>>

(* Nothing seen from outside changes. *)
LEMMA Stutters ==
  ASSUME \A g \in File : Content(g)' = Content(g), inTrans' = inTrans, unsettled' = unsettled
  PROVE  AbsStep
BY DEF AbsStep

(* The transaction takes in one more file. *)
LEMMA Joins ==
  ASSUME \A g \in File : Content(g)' = Content(g), NEW f \in File, inTrans' = inTrans \cup {f},
         unsettled' = unsettled
  PROVE  AbsStep
BY DEF AbsStep, Abstract!Next, Abstract!Join

(* The transaction is over, with no change or without one still to come. *)
LEMMA Ends ==
  ASSUME \A g \in File : Content(g)' = Content(g), inTrans' \in {inTrans, {}},
         unsettled' = unsettled
  PROVE  AbsStep
BY DEF AbsStep, Abstract!Next, Abstract!End

(* Commits get settled. *)
LEMMA Settles ==
  ASSUME \A g \in File : Content(g)' = Content(g), inTrans' = inTrans,
         unsettled' \subseteq unsettled
  PROVE  AbsStep
<1>1. unsettled' = unsettled \ (unsettled \ unsettled') OBVIOUS
<1> QED BY <1>1 DEF AbsStep, Abstract!Next, Abstract!Settle

(* All files of the transaction change at once. *)
LEMMA Commits ==
  ASSUME NEW v \in Txn,
         \A g \in File : Content(g)' = IF g \in inTrans THEN v ELSE Content(g),
         inTrans' \in {inTrans, {}}, inTrans \subseteq File,
         \/ unsettled' = unsettled
         \/ /\ \A u \in unsettled : DOMAIN u \cap inTrans = {}
            /\ unsettled' = unsettled \cup {[f \in inTrans |-> Content(f)]}
  PROVE  AbsStep
<1>1. [g \in File |-> Content(g)]' = [g \in File |-> IF g \in inTrans THEN v
                                        ELSE [h \in File |-> Content(h)][g]]
  OBVIOUS
<1>2. [f \in inTrans |-> Content(f)] = [f \in inTrans |-> [h \in File |-> Content(h)][f]]
  OBVIOUS
<1>3. Abstract!Commit BY <1>1, <1>2 DEF Abstract!Commit
<1> QED BY <1>3 DEF AbsStep, Abstract!Next

USE DEF files, olds, own, rest

(* The whole transaction is rolled back: the loop over its files starts. *)
LEMMA RollbackKeeps ==
  ASSUME IInv, TypeOK', TurnInv', Rollback
  PROVE  Safe' /\ AbsStep
<1>0. /\ TypeOK /\ TurnInv /\ LockInv /\ NameInv /\ RedoInv /\ CommitInv /\ PlayInv /\ kind = "fault"
      /\ DOMAIN jrnl = File /\ DOMAIN db = File /\ DOMAIN pb = File /\ DOMAIN lock = File
  BY Shapes DEF IInv, Safe
<1>1. /\ txn \in Nat /\ master \in Nat /\ todo \subseteq inTrans /\ inTrans \subseteq File
      /\ \A g \in File : /\ jrnl[g].ptr \in Nat /\ jrnl[g].at \in Nat /\ jrnl[g].len \in Nat
                         /\ jrnl[g].at <= jrnl[g].len /\ jrnl[g].orig \in Txn
                         /\ pb[g].ptr \in Nat /\ size[g] \in Nat
  BY <1>0, Shapes
<1>2. /\ pc = "write" /\ inTrans # {} /\ pc' = "rollback" /\ todo' = inTrans
      /\ db' = db /\ jrnl' = jrnl /\ masters' = masters /\ list' = list /\ lock' = lock /\ inTrans' = inTrans
      /\ master' = master /\ pb' = pb /\ unsettled' = unsettled /\ txn' = txn /\ kind' = kind
  BY  DEF Rollback
<1>3. LockInv'
  BY <1>0, <1>1, <1>2 DEF LockInv, TurnInv, Mine, Hot
<1>4. NameInv'
  BY <1>0, <1>1, <1>2 DEF NameInv, LockInv, TurnInv, CommitInv, Mine, None, NoJrnl
<1>5. RedoInv'
  BY <1>0, <1>1, <1>2 DEF RedoInv, Pending, Committed, Content, Hot, Redo, Named, Tail,
    NameInv, CommitInv, LockInv, TurnInv, Mine, Ready, PlayInv, PlayOK, None
<1>6. CommitInv'
  BY <1>0, <1>1, <1>2 DEF CommitInv, Committed, Ready, Hot, Tail, NameInv, LockInv, TurnInv,
    Mine, None, PlayInv, PlayOK
<1>7. PlayInv'
  BY <1>0, <1>1, <1>2 DEF PlayInv, PlayOK, Hot, Redo, Named, Tail, NameInv, LockInv,
    TurnInv, Mine, None
<1>8. \A g \in File : Content(g)' = Content(g)
  BY <1>0, <1>1, <1>2 DEF Content, Hot, Redo, Named, Tail, RedoInv, Pending, Committed,
    NameInv, CommitInv, LockInv, TurnInv, Mine, Ready, PlayInv, PlayOK, None
<1>9. AbsStep BY <1>1, <1>8, <1>2, Stutters
<1> QED BY <1>0, <1>2, <1>8, <1>3, <1>4, <1>5, <1>6, <1>7, <1>9 DEF Safe

(* The commit starts: with one file there will be no master journal. *)
LEMMA CommitKeeps ==
  ASSUME IInv, TypeOK', TurnInv', Commit
  PROVE  Safe' /\ AbsStep
<1>0. /\ TypeOK /\ TurnInv /\ LockInv /\ NameInv /\ RedoInv /\ CommitInv /\ PlayInv /\ kind = "fault"
      /\ DOMAIN jrnl = File /\ DOMAIN db = File /\ DOMAIN pb = File /\ DOMAIN lock = File
  BY Shapes DEF IInv, Safe
<1>1. /\ txn \in Nat /\ master \in Nat /\ todo \subseteq inTrans /\ inTrans \subseteq File
      /\ \A g \in File : /\ jrnl[g].ptr \in Nat /\ jrnl[g].at \in Nat /\ jrnl[g].len \in Nat
                         /\ jrnl[g].at <= jrnl[g].len /\ jrnl[g].orig \in Txn
                         /\ pb[g].ptr \in Nat /\ size[g] \in Nat
  BY <1>0, Shapes
<1>2. /\ pc = "write" /\ inTrans # {} /\ todo' = inTrans
      /\ pc' = "sync" \/ pc' = "create"
      /\ pc' = "sync" => inTrans = {This'}
      /\ db' = db /\ jrnl' = jrnl /\ masters' = masters /\ list' = list /\ lock' = lock /\ inTrans' = inTrans
      /\ master' = master /\ pb' = pb /\ unsettled' = unsettled /\ txn' = txn /\ kind' = kind
  BY <1>1, OneFile DEF Commit, This
<1>3. LockInv'
  BY <1>0, <1>1, <1>2 DEF LockInv, TurnInv, Mine, Hot
<1>4. NameInv'
  BY <1>0, <1>1, <1>2 DEF NameInv, LockInv, TurnInv, CommitInv, Mine, None, NoJrnl
<1>5. RedoInv'
  BY <1>0, <1>1, <1>2 DEF RedoInv, Pending, Committed, Content, Hot, Redo, Named, Tail,
    NameInv, CommitInv, LockInv, TurnInv, Mine, Ready, PlayInv, PlayOK, None
<1>6. CommitInv'
  BY <1>0, <1>1, <1>2 DEF CommitInv, Committed, Ready, Hot, Tail, NameInv, LockInv, TurnInv,
    Mine, None, PlayInv, PlayOK
<1>7. PlayInv'
  BY <1>0, <1>1, <1>2 DEF PlayInv, PlayOK, Hot, Redo, Named, Tail, NameInv, LockInv,
    TurnInv, Mine, None
<1>8. \A g \in File : Content(g)' = Content(g)
  BY <1>0, <1>1, <1>2 DEF Content, Hot, Redo, Named, Tail, RedoInv, Pending, Committed,
    NameInv, CommitInv, LockInv, TurnInv, Mine, Ready, PlayInv, PlayOK, None
<1>9. AbsStep BY <1>1, <1>8, <1>2, Stutters
<1> QED BY <1>0, <1>2, <1>8, <1>3, <1>4, <1>5, <1>6, <1>7, <1>9 DEF Safe

(* The master journal is new: nobody names it yet. *)
LEMMA CreateMasterKeeps ==
  ASSUME IInv, TypeOK', TurnInv', CreateMaster
  PROVE  Safe' /\ AbsStep
<1>0. /\ TypeOK /\ TurnInv /\ LockInv /\ NameInv /\ RedoInv /\ CommitInv /\ PlayInv /\ kind = "fault"
      /\ DOMAIN jrnl = File /\ DOMAIN db = File /\ DOMAIN pb = File /\ DOMAIN lock = File
  BY Shapes DEF IInv, Safe
<1>1. /\ txn \in Nat /\ master \in Nat /\ todo \subseteq inTrans /\ inTrans \subseteq File
      /\ \A g \in File : /\ jrnl[g].ptr \in Nat /\ jrnl[g].at \in Nat /\ jrnl[g].len \in Nat
                         /\ jrnl[g].at <= jrnl[g].len /\ jrnl[g].orig \in Txn
                         /\ pb[g].ptr \in Nat /\ size[g] \in Nat
  BY <1>0, Shapes
<1>2. /\ pc = "create" /\ pc' = "syncMaster" /\ master' = txn /\ masters' = masters \cup {txn}
      /\ list' = [list EXCEPT ![txn] = inTrans] /\ DOMAIN list = Txn
      /\ db' = db /\ jrnl' = jrnl /\ lock' = lock /\ inTrans' = inTrans /\ todo' = todo
      /\ pb' = pb /\ unsettled' = unsettled /\ txn' = txn /\ kind' = kind
  BY <1>0 DEF CreateMaster, TypeOK
<1>3. \A g \in File : jrnl[g].ptr # txn /\ jrnl[g].ptr \in Txn /\ Tail(jrnl[g]) # txn
  BY <1>0, <1>1, <1>2 DEF NameInv, TypeOK, Tail, None, Journals
<1>4. /\ \A t \in Txn : list'[t] = IF t = txn THEN inTrans ELSE list[t]
      /\ txn \in Txn /\ todo = inTrans /\ inTrans # {}
  BY <1>0, <1>1, <1>2 DEF TypeOK, CommitInv, NameInv
<1>5. LockInv'
  BY <1>0, <1>1, <1>2, <1>3, <1>4 DEF LockInv, TurnInv, Mine, Hot
<1>6. NameInv'
  BY <1>0, <1>1, <1>2, <1>3, <1>4 DEF NameInv, LockInv, TurnInv, CommitInv, Mine, None,
    NoJrnl
<1>7. RedoInv'
  BY <1>0, <1>1, <1>2, <1>3, <1>4 DEF RedoInv, Pending, Committed, Content, Hot, Redo,
    Named, Tail, NameInv, CommitInv, LockInv, TurnInv, Mine, Ready, PlayInv, PlayOK, None
<1>8. CommitInv'
  BY <1>0, <1>1, <1>2, <1>3, <1>4 DEF CommitInv, Committed, Ready, Hot, Tail, NameInv,
    LockInv, TurnInv, Mine, None, PlayInv, PlayOK
<1>9. PlayInv'
  BY <1>0, <1>1, <1>2, <1>3, <1>4 DEF PlayInv, PlayOK, Hot, Redo, Named, Tail, NameInv,
    LockInv, TurnInv, Mine, None
<1>10. \A g \in File : Content(g)' = Content(g)
  BY <1>0, <1>1, <1>2, <1>3, <1>4 DEF Content, Hot, Redo, Named, Tail, RedoInv, Pending,
    Committed, NameInv, CommitInv, LockInv, TurnInv, Mine, Ready, PlayInv, PlayOK, None
<1>11. AbsStep BY <1>1, <1>10, <1>2, <1>3, <1>4, Stutters
<1> QED BY <1>0, <1>2, <1>3, <1>5, <1>6, <1>7, <1>8, <1>9, <1>11 DEF Safe

(* The master journal is on the disk before any journal names it. *)
LEMMA SyncMasterKeeps ==
  ASSUME IInv, TypeOK', TurnInv', SyncMaster
  PROVE  Safe' /\ AbsStep
<1>0. /\ TypeOK /\ TurnInv /\ LockInv /\ NameInv /\ RedoInv /\ CommitInv /\ PlayInv /\ kind = "fault"
      /\ DOMAIN jrnl = File /\ DOMAIN db = File /\ DOMAIN pb = File /\ DOMAIN lock = File
  BY Shapes DEF IInv, Safe
<1>1. /\ txn \in Nat /\ master \in Nat /\ todo \subseteq inTrans /\ inTrans \subseteq File
      /\ \A g \in File : /\ jrnl[g].ptr \in Nat /\ jrnl[g].at \in Nat /\ jrnl[g].len \in Nat
                         /\ jrnl[g].at <= jrnl[g].len /\ jrnl[g].orig \in Txn
                         /\ pb[g].ptr \in Nat /\ size[g] \in Nat
  BY <1>0, Shapes
<1>2. /\ pc = "syncMaster" /\ pc' = "ptr" /\ This' = This
      /\ db' = db /\ jrnl' = jrnl /\ masters' = masters /\ list' = list /\ lock' = lock /\ inTrans' = inTrans /\ todo' = todo
      /\ master' = master /\ pb' = pb /\ unsettled' = unsettled /\ txn' = txn /\ kind' = kind
  BY  DEF SyncMaster, This
<1>3. LockInv'
  BY <1>0, <1>1, <1>2 DEF LockInv, TurnInv, Mine, Hot
<1>4. NameInv'
  BY <1>0, <1>1, <1>2 DEF NameInv, LockInv, TurnInv, CommitInv, Mine, None, NoJrnl
<1>5. RedoInv'
  BY <1>0, <1>1, <1>2 DEF RedoInv, Pending, Committed, Content, Hot, Redo, Named, Tail,
    NameInv, CommitInv, LockInv, TurnInv, Mine, Ready, PlayInv, PlayOK, None
<1>6. CommitInv'
  BY <1>0, <1>1, <1>2 DEF CommitInv, Committed, Ready, Hot, Tail, NameInv, LockInv, TurnInv,
    Mine, None, PlayInv, PlayOK
<1>7. PlayInv'
  BY <1>0, <1>1, <1>2 DEF PlayInv, PlayOK, Hot, Redo, Named, Tail, NameInv, LockInv,
    TurnInv, Mine, None
<1>8. \A g \in File : Content(g)' = Content(g)
  BY <1>0, <1>1, <1>2 DEF Content, Hot, Redo, Named, Tail, RedoInv, Pending, Committed,
    NameInv, CommitInv, LockInv, TurnInv, Mine, Ready, PlayInv, PlayOK, None
<1>9. AbsStep BY <1>1, <1>8, <1>2, Stutters
<1> QED BY <1>0, <1>2, <1>8, <1>3, <1>4, <1>5, <1>6, <1>7, <1>9 DEF Safe

(* A journal is told its master journal, which is there. *)
LEMMA WritePtrKeeps ==
  ASSUME IInv, TypeOK', TurnInv', WritePtr
  PROVE  Safe' /\ AbsStep
<1>0. /\ TypeOK /\ TurnInv /\ LockInv /\ NameInv /\ RedoInv /\ CommitInv /\ PlayInv /\ kind = "fault"
      /\ DOMAIN jrnl = File /\ DOMAIN db = File /\ DOMAIN pb = File /\ DOMAIN lock = File
  BY Shapes DEF IInv, Safe
<1>1. /\ txn \in Nat /\ master \in Nat /\ todo \subseteq inTrans /\ inTrans \subseteq File
      /\ \A g \in File : /\ jrnl[g].ptr \in Nat /\ jrnl[g].at \in Nat /\ jrnl[g].len \in Nat
                         /\ jrnl[g].at <= jrnl[g].len /\ jrnl[g].orig \in Txn
                         /\ pb[g].ptr \in Nat /\ size[g] \in Nat
  BY <1>0, Shapes
<1>2. /\ pc = "ptr" /\ pc' = "cut" /\ This' = This
      /\ db' = db /\ masters' = masters /\ list' = list /\ lock' = lock /\ inTrans' = inTrans /\ todo' = todo
      /\ master' = master /\ pb' = pb /\ unsettled' = unsettled /\ txn' = txn /\ kind' = kind
  BY  DEF WritePtr, WriteJrnl, This
<1>3. This \in todo /\ This \in inTrans /\ This \in File
  BY <1>0, <1>2, ThisFile DEF TypeOK
<1>4. /\ \A g \in File \ {This} : jrnl'[g] = jrnl[g]
      /\ jrnl'[This].there = jrnl[This].there /\ jrnl'[This].hot = jrnl[This].hot
      /\ jrnl'[This].orig = jrnl[This].orig /\ jrnl'[This].ptr = master
      /\ jrnl'[This].at = size[This] + 1
  BY <1>0, <1>1, <1>3 DEF WritePtr, WriteJrnl, TypeOK, Journals
<1>5. pb[This].at = "idle" /\ pb[This].ptr = None /\ jrnl[This].there
  BY <1>0, <1>1, <1>2, <1>3 DEF LockInv, TurnInv, Mine, Idle, RedoInv, Pending, Committed,
    Hot, None
<1>6. txn # 0 /\ txn \in Nat
  BY <1>0, <1>1, <1>2, <1>3 DEF NameInv
<1>7. \A g \in File : g = This => Redo(jrnl[g]) /\ Redo(jrnl[g])'
  BY <1>0, <1>1, <1>2, <1>3, <1>4, <1>5, <1>6 DEF RedoInv, Pending, Committed, Redo, Named,
    Tail, CommitInv, NameInv, None
<1>8. \A g \in File : g = This => Content(g)' = Content(g)
  BY <1>0, <1>1, <1>2, <1>3, <1>4, <1>5, <1>6, <1>7 DEF Content, Hot, RedoInv, Pending,
    Committed, CommitInv
<1>9. \A g \in File \ {This} : /\ Content(g)' = Content(g)
                               /\ Redo(jrnl[g])' <=> Redo(jrnl[g])
  BY <1>2, <1>4 DEF Content, Hot, Redo, Named, Tail
<1>10. \A g \in File : Content(g)' = Content(g)
  BY <1>3, <1>8, <1>9
<1>11. LockInv'
  BY <1>0, <1>1, <1>2, <1>3, <1>4, <1>5, <1>6, <1>7, <1>8, <1>9, <1>10 DEF LockInv, TurnInv,
    Mine, Hot
<1>12. NameInv'
  <2>1. /\ inTrans # {} /\ (master # None => list[txn] = inTrans) /\ master \in {None, txn}
        /\ pc = "ptr" => master = txn
    BY <1>0, <1>2, <1>3 DEF NameInv
  <2>2. ASSUME NEW g \in File
        PROVE  /\ jrnl'[g].ptr <= txn'
               /\ (inTrans' # {} /\ jrnl'[g].ptr = txn') =>
                     master' = txn' /\ g \in inTrans' /\ pc' # "syncMaster"
               /\ jrnl'[g].ptr # None => g \in list'[jrnl'[g].ptr]
               /\ ~jrnl'[g].there => jrnl'[g] = NoJrnl
    <3>1. CASE g = This
      <4>1. jrnl'[g].ptr = txn /\ master = txn /\ txn # None
        BY <1>2, <1>4, <1>6, <2>1, <3>1 DEF None
      <4>2. jrnl'[g].there = TRUE BY <1>3, <1>4, <1>5, <3>1
      <4>3. list[txn] = inTrans /\ g \in inTrans BY <1>3, <2>1, <3>1, <4>1
      <4> QED BY <1>2, <1>6, <4>1, <4>2, <4>3
    <3>2. CASE g # This BY <1>0, <1>2, <1>4, <3>2 DEF NameInv
    <3> QED BY <3>1, <3>2
  <2> QED BY <1>0, <1>2, <2>2 DEF NameInv
<1>13. RedoInv'
  BY <1>0, <1>1, <1>2, <1>3, <1>4, <1>7, <1>8, <1>9 DEF RedoInv, Pending, Committed, Hot
<1>14. CommitInv'
  BY <1>0, <1>1, <1>2, <1>3, <1>4, <1>5, <1>6, <1>7, <1>8, <1>9, <1>10 DEF CommitInv,
    Committed, Ready, Hot, Tail, NameInv, LockInv, TurnInv, Mine, None, PlayInv, PlayOK
<1>15. PlayInv'
  <2>1. SUFFICES ASSUME NEW g \in File PROVE PlayOK(g)' BY DEF PlayInv
  <2>2. PlayOK(g) BY <1>0 DEF PlayInv
  <2>3. CASE g = This BY <1>0, <1>1, <1>2, <1>3, <1>4, <1>5, <1>6, <1>7, <1>8, <1>9, <1>10, <2>3
      DEF PlayOK, None
  <2>4. CASE g # This
    BY <1>0, <1>1, <1>2, <1>3, <1>4, <1>5, <1>6, <1>7, <1>8, <1>9, <1>10, <2>2, <2>4 DEF PlayOK, Hot, Redo, Named, Tail, NameInv, CommitInv, None
  <2> QED BY <2>3, <2>4
<1>16. AbsStep BY <1>1, <1>2, <1>3, <1>4, <1>5, <1>6, <1>7, <1>8, <1>9, <1>10, Stutters
<1> QED BY <1>0, <1>2, <1>3, <1>11, <1>12, <1>13, <1>14, <1>15, <1>16 DEF Safe

(* What an older transaction left at the end of the journal goes. *)
LEMMA CutJrnlKeeps ==
  ASSUME IInv, TypeOK', TurnInv', CutJrnl
  PROVE  Safe' /\ AbsStep
<1>0. /\ TypeOK /\ TurnInv /\ LockInv /\ NameInv /\ RedoInv /\ CommitInv /\ PlayInv /\ kind = "fault"
      /\ DOMAIN jrnl = File /\ DOMAIN db = File /\ DOMAIN pb = File /\ DOMAIN lock = File
  BY Shapes DEF IInv, Safe
<1>1. /\ txn \in Nat /\ master \in Nat /\ todo \subseteq inTrans /\ inTrans \subseteq File
      /\ \A g \in File : /\ jrnl[g].ptr \in Nat /\ jrnl[g].at \in Nat /\ jrnl[g].len \in Nat
                         /\ jrnl[g].at <= jrnl[g].len /\ jrnl[g].orig \in Txn
                         /\ pb[g].ptr \in Nat /\ size[g] \in Nat
  BY <1>0, Shapes
<1>2. /\ pc = "cut" /\ pc' = "sync" /\ This' = This
      /\ db' = db /\ masters' = masters /\ list' = list /\ lock' = lock /\ inTrans' = inTrans /\ todo' = todo
      /\ master' = master /\ pb' = pb /\ unsettled' = unsettled /\ txn' = txn /\ kind' = kind
  BY  DEF CutJrnl, WriteJrnl, This
<1>3. This \in todo /\ This \in inTrans /\ This \in File
  BY <1>0, <1>2, ThisFile DEF TypeOK
<1>4. /\ \A g \in File \ {This} : jrnl'[g] = jrnl[g]
      /\ jrnl'[This].there = jrnl[This].there /\ jrnl'[This].hot = jrnl[This].hot
      /\ jrnl'[This].orig = jrnl[This].orig /\ jrnl'[This].ptr = jrnl[This].ptr
      /\ jrnl'[This].at = jrnl[This].at /\ jrnl'[This].len = jrnl[This].at
  BY <1>0, <1>1, <1>3 DEF CutJrnl, WriteJrnl, TypeOK, Journals
<1>5. pb[This].at = "idle" /\ pb[This].ptr = None /\ jrnl[This].there
  BY <1>0, <1>1, <1>2, <1>3 DEF LockInv, TurnInv, Mine, Idle, RedoInv, Pending, Committed,
    Hot, None
<1>6. txn # 0 /\ txn \in Nat
  BY <1>0, <1>1, <1>2, <1>3 DEF NameInv
<1>7. \A g \in File : g = This => Redo(jrnl[g]) /\ Redo(jrnl[g])'
  BY <1>0, <1>1, <1>2, <1>3, <1>4, <1>5, <1>6 DEF RedoInv, Pending, Committed, Redo, Named,
    Tail, CommitInv, NameInv, None
<1>8. \A g \in File : g = This => Content(g)' = Content(g)
  BY <1>0, <1>1, <1>2, <1>3, <1>4, <1>5, <1>6, <1>7 DEF Content, Hot, RedoInv, Pending,
    Committed, CommitInv
<1>9. \A g \in File \ {This} : /\ Content(g)' = Content(g)
                               /\ Redo(jrnl[g])' <=> Redo(jrnl[g])
  BY <1>2, <1>4 DEF Content, Hot, Redo, Named, Tail
<1>10. \A g \in File : Content(g)' = Content(g)
  BY <1>3, <1>8, <1>9
<1>11. LockInv'
  BY <1>0, <1>1, <1>2, <1>3, <1>4, <1>5, <1>6, <1>7, <1>8, <1>9, <1>10 DEF LockInv, TurnInv,
    Mine, Hot
<1>12. NameInv'
  <2>1. /\ inTrans # {} /\ (master # None => list[txn] = inTrans) /\ master \in {None, txn}
        /\ pc = "ptr" => master = txn
    BY <1>0, <1>2, <1>3 DEF NameInv
  <2>2. ASSUME NEW g \in File
        PROVE  /\ jrnl'[g].ptr <= txn'
               /\ (inTrans' # {} /\ jrnl'[g].ptr = txn') =>
                     master' = txn' /\ g \in inTrans' /\ pc' # "syncMaster"
               /\ jrnl'[g].ptr # None => g \in list'[jrnl'[g].ptr]
               /\ ~jrnl'[g].there => jrnl'[g] = NoJrnl
    BY <1>0, <1>1, <1>2, <1>3, <1>4, <1>5, <1>6, <2>1 DEF NameInv
  <2> QED BY <1>0, <1>2, <2>2 DEF NameInv
<1>13. RedoInv'
  BY <1>0, <1>1, <1>2, <1>3, <1>4, <1>7, <1>8, <1>9 DEF RedoInv, Pending, Committed, Hot
<1>14. CommitInv'
  BY <1>0, <1>1, <1>2, <1>3, <1>4, <1>5, <1>6, <1>7, <1>8, <1>9, <1>10 DEF CommitInv,
    Committed, Ready, Hot, Tail, NameInv, LockInv, TurnInv, Mine, None, PlayInv, PlayOK
<1>15. PlayInv'
  <2>1. SUFFICES ASSUME NEW g \in File PROVE PlayOK(g)' BY DEF PlayInv
  <2>2. PlayOK(g) BY <1>0 DEF PlayInv
  <2>3. CASE g = This BY <1>0, <1>1, <1>2, <1>3, <1>4, <1>5, <1>6, <1>7, <1>8, <1>9, <1>10, <2>3
      DEF PlayOK, None
  <2>4. CASE g # This
    BY <1>0, <1>1, <1>2, <1>3, <1>4, <1>5, <1>6, <1>7, <1>8, <1>9, <1>10, <2>2, <2>4 DEF PlayOK, Hot, Redo, Named, Tail, NameInv, CommitInv, None
  <2> QED BY <2>3, <2>4
<1>16. AbsStep BY <1>1, <1>2, <1>3, <1>4, <1>5, <1>6, <1>7, <1>8, <1>9, <1>10, Stutters
<1> QED BY <1>0, <1>2, <1>3, <1>11, <1>12, <1>13, <1>14, <1>15, <1>16 DEF Safe

(* The journal gets its header: from here on a rollback restores the file. *)
LEMMA SyncJrnlKeeps ==
  ASSUME IInv, TypeOK', TurnInv', SyncJrnl
  PROVE  Safe' /\ AbsStep
<1>0. /\ TypeOK /\ TurnInv /\ LockInv /\ NameInv /\ RedoInv /\ CommitInv /\ PlayInv /\ kind = "fault"
      /\ DOMAIN jrnl = File /\ DOMAIN db = File /\ DOMAIN pb = File /\ DOMAIN lock = File
  BY Shapes DEF IInv, Safe
<1>1. /\ txn \in Nat /\ master \in Nat /\ todo \subseteq inTrans /\ inTrans \subseteq File
      /\ \A g \in File : /\ jrnl[g].ptr \in Nat /\ jrnl[g].at \in Nat /\ jrnl[g].len \in Nat
                         /\ jrnl[g].at <= jrnl[g].len /\ jrnl[g].orig \in Txn
                         /\ pb[g].ptr \in Nat /\ size[g] \in Nat
  BY <1>0, Shapes
<1>2. /\ pc = "sync" /\ pc' = "writeDb" /\ This' = This
      /\ unsettled' = {u \in unsettled : This \notin DOMAIN u}
      /\ db' = db /\ masters' = masters /\ list' = list /\ lock' = lock /\ inTrans' = inTrans /\ todo' = todo
      /\ master' = master /\ pb' = pb /\ txn' = txn /\ kind' = kind
  BY  DEF SyncJrnl, SyncedJrnl, SettledBy, This
<1>3. This \in todo /\ This \in inTrans /\ This \in File
  BY <1>0, <1>2, ThisFile DEF TypeOK
<1>4. /\ \A g \in File \ {This} : jrnl'[g] = jrnl[g]
      /\ jrnl'[This].hot = TRUE
      /\ jrnl'[This].there = jrnl[This].there
      /\ jrnl'[This].orig = jrnl[This].orig /\ jrnl'[This].ptr = jrnl[This].ptr
      /\ jrnl'[This].at = jrnl[This].at /\ jrnl'[This].len = jrnl[This].len
  BY <1>0, <1>1, <1>3 DEF SyncJrnl, SyncedJrnl, TypeOK, Journals
<1>5. pb[This].at = "idle" /\ pb[This].ptr = None /\ jrnl[This].there
  BY <1>0, <1>1, <1>2, <1>3 DEF LockInv, TurnInv, Mine, Idle, RedoInv, Pending, Committed,
    Hot, None
<1>6. txn # 0 /\ txn \in Nat
  BY <1>0, <1>1, <1>2, <1>3 DEF NameInv
<1>7. \A g \in File : g = This => Redo(jrnl[g]) /\ Redo(jrnl[g])'
  BY <1>0, <1>1, <1>2, <1>3, <1>4, <1>5, <1>6 DEF RedoInv, Pending, Committed, Redo, Named,
    Tail, CommitInv, NameInv, None
<1>8. \A g \in File : g = This => Content(g)' = Content(g)
  BY <1>0, <1>1, <1>2, <1>3, <1>4, <1>5, <1>6, <1>7 DEF Content, Hot, RedoInv, Pending,
    Committed, CommitInv
<1>9. \A g \in File \ {This} : /\ Content(g)' = Content(g)
                               /\ Redo(jrnl[g])' <=> Redo(jrnl[g])
  BY <1>2, <1>4 DEF Content, Hot, Redo, Named, Tail
<1>10. \A g \in File : Content(g)' = Content(g)
  BY <1>3, <1>8, <1>9
<1>11. LockInv'
  BY <1>0, <1>1, <1>2, <1>3, <1>4, <1>5, <1>6, <1>7, <1>8, <1>9, <1>10 DEF LockInv, TurnInv,
    Mine, Hot
<1>12. NameInv'
  <2>1. /\ inTrans # {} /\ (master # None => list[txn] = inTrans) /\ master \in {None, txn}
        /\ pc = "ptr" => master = txn
    BY <1>0, <1>2, <1>3 DEF NameInv
  <2>2. ASSUME NEW g \in File
        PROVE  /\ jrnl'[g].ptr <= txn'
               /\ (inTrans' # {} /\ jrnl'[g].ptr = txn') =>
                     master' = txn' /\ g \in inTrans' /\ pc' # "syncMaster"
               /\ jrnl'[g].ptr # None => g \in list'[jrnl'[g].ptr]
               /\ ~jrnl'[g].there => jrnl'[g] = NoJrnl
    BY <1>0, <1>1, <1>2, <1>3, <1>4, <1>5, <1>6, <2>1 DEF NameInv
  <2> QED BY <1>0, <1>2, <2>2 DEF NameInv
<1>13. RedoInv'
  BY <1>0, <1>1, <1>2, <1>3, <1>4, <1>7, <1>8, <1>9 DEF RedoInv, Pending, Committed, Hot
<1>14. CommitInv'
  BY <1>0, <1>1, <1>2, <1>3, <1>4, <1>5, <1>6, <1>7, <1>8, <1>9, <1>10 DEF CommitInv,
    Committed, Ready, Hot, Tail, NameInv, LockInv, TurnInv, Mine, None, PlayInv, PlayOK
<1>15. PlayInv'
  <2>1. SUFFICES ASSUME NEW g \in File PROVE PlayOK(g)' BY DEF PlayInv
  <2>2. PlayOK(g) BY <1>0 DEF PlayInv
  <2>3. CASE g = This BY <1>0, <1>1, <1>2, <1>3, <1>4, <1>5, <1>6, <1>7, <1>8, <1>9, <1>10, <2>3
      DEF PlayOK, None
  <2>4. CASE g # This
    BY <1>0, <1>1, <1>2, <1>3, <1>4, <1>5, <1>6, <1>7, <1>8, <1>9, <1>10, <2>2, <2>4 DEF PlayOK, Hot, Redo, Named, Tail, NameInv, CommitInv, None
  <2> QED BY <2>3, <2>4
<1>16. AbsStep BY <1>1, <1>2, <1>3, <1>4, <1>5, <1>6, <1>7, <1>8, <1>9, <1>10, Settles
<1> QED BY <1>0, <1>2, <1>3, <1>11, <1>12, <1>13, <1>14, <1>15, <1>16 DEF Safe

(* The file is written, which its journal hides from everybody. *)
LEMMA WritePagesKeeps ==
  ASSUME IInv, TypeOK', TurnInv', WritePages
  PROVE  Safe' /\ AbsStep
<1>0. /\ TypeOK /\ TurnInv /\ LockInv /\ NameInv /\ RedoInv /\ CommitInv /\ PlayInv /\ kind = "fault"
      /\ DOMAIN jrnl = File /\ DOMAIN db = File /\ DOMAIN pb = File /\ DOMAIN lock = File
  BY Shapes DEF IInv, Safe
<1>1. /\ txn \in Nat /\ master \in Nat /\ todo \subseteq inTrans /\ inTrans \subseteq File
      /\ \A g \in File : /\ jrnl[g].ptr \in Nat /\ jrnl[g].at \in Nat /\ jrnl[g].len \in Nat
                         /\ jrnl[g].at <= jrnl[g].len /\ jrnl[g].orig \in Txn
                         /\ pb[g].ptr \in Nat /\ size[g] \in Nat
  BY <1>0, Shapes
<1>2. /\ pc = "writeDb" /\ This' = This
      /\ jrnl' = jrnl /\ masters' = masters /\ list' = list /\ lock' = lock /\ inTrans' = inTrans /\ todo' = todo
      /\ master' = master /\ pb' = pb /\ unsettled' = unsettled /\ txn' = txn /\ kind' = kind
  BY  DEF WritePages, WriteDb, This
<1>3. This \in todo /\ This \in inTrans /\ This \in File
  BY <1>0, <1>2, ThisFile DEF TypeOK
<1>4. /\ \A g \in File \ {This} : db'[g] = db[g]
      /\ pc' = "writeDb" \/ (pc' = "syncDb" /\ db'[This] = txn)
  BY <1>0, <1>1, <1>2, <1>3 DEF WritePages, WriteDb, TypeOK
<1>5. pb[This].at = "idle" /\ pb[This].ptr = None /\ jrnl[This].there
  BY <1>0, <1>1, <1>2, <1>3 DEF LockInv, TurnInv, Mine, Idle, RedoInv, Pending, Committed,
    Hot, None
<1>6. txn # 0 /\ txn \in Nat
  BY <1>0, <1>1, <1>2, <1>3 DEF NameInv
<1>7. \A g \in File : g = This => Redo(jrnl[g]) /\ Redo(jrnl[g])'
  BY <1>0, <1>1, <1>2, <1>3, <1>4, <1>5, <1>6 DEF RedoInv, Pending, Committed, Redo, Named,
    Tail, CommitInv, NameInv, None
<1>8. \A g \in File : g = This => Content(g)' = Content(g)
  BY <1>0, <1>1, <1>2, <1>3, <1>4, <1>5, <1>6, <1>7 DEF Content, Hot, RedoInv, Pending,
    Committed, CommitInv
<1>9. \A g \in File \ {This} : /\ Content(g)' = Content(g)
                               /\ Redo(jrnl[g])' <=> Redo(jrnl[g])
  BY <1>2, <1>4 DEF Content, Hot, Redo, Named, Tail
<1>10. \A g \in File : Content(g)' = Content(g)
  BY <1>3, <1>8, <1>9
<1>11. LockInv'
  BY <1>0, <1>1, <1>2, <1>3, <1>4, <1>5, <1>6, <1>7, <1>8, <1>9, <1>10 DEF LockInv, TurnInv,
    Mine, Hot
<1>12. NameInv'
  BY <1>0, <1>1, <1>2, <1>3, <1>4 DEF NameInv
<1>13. RedoInv'
  BY <1>0, <1>2, <1>3, <1>4, <1>7, <1>10 DEF RedoInv, Pending, Committed, Hot, Redo, Named, Tail, CommitInv
<1>14. CommitInv'
  BY <1>0, <1>1, <1>2, <1>3, <1>4, <1>5, <1>6, <1>7, <1>8, <1>9, <1>10 DEF CommitInv,
    Committed, Ready, Hot, Tail, NameInv, LockInv, TurnInv, Mine, None, PlayInv, PlayOK
<1>15. PlayInv'
  <2>1. SUFFICES ASSUME NEW g \in File PROVE PlayOK(g)' BY DEF PlayInv
  <2>2. PlayOK(g) BY <1>0 DEF PlayInv
  <2>3. CASE g = This BY <1>0, <1>1, <1>2, <1>3, <1>4, <1>5, <1>6, <1>7, <1>8, <1>9, <1>10, <2>3
      DEF PlayOK, None
  <2>4. CASE g # This
    BY <1>0, <1>1, <1>2, <1>3, <1>4, <1>5, <1>6, <1>7, <1>8, <1>9, <1>10, <2>2, <2>4 DEF PlayOK, Hot, Redo, Named, Tail, NameInv, CommitInv, None
  <2> QED BY <2>3, <2>4
<1>16. AbsStep BY <1>1, <1>2, <1>3, <1>4, <1>5, <1>6, <1>7, <1>8, <1>9, <1>10, Stutters
<1> QED BY <1>0, <1>2, <1>3, <1>11, <1>12, <1>13, <1>14, <1>15, <1>16 DEF Safe

(* One more file is ready; when all are, nothing but the master journal is in the way. *)
LEMMA SyncDbKeeps ==
  ASSUME IInv, TypeOK', TurnInv', SyncDb
  PROVE  Safe' /\ AbsStep
<1>0. /\ TypeOK /\ TurnInv /\ LockInv /\ NameInv /\ RedoInv /\ CommitInv /\ PlayInv /\ kind = "fault"
      /\ DOMAIN jrnl = File /\ DOMAIN db = File /\ DOMAIN pb = File /\ DOMAIN lock = File
  BY Shapes DEF IInv, Safe
<1>1. /\ txn \in Nat /\ master \in Nat /\ todo \subseteq inTrans /\ inTrans \subseteq File
      /\ \A g \in File : /\ jrnl[g].ptr \in Nat /\ jrnl[g].at \in Nat /\ jrnl[g].len \in Nat
                         /\ jrnl[g].at <= jrnl[g].len /\ jrnl[g].orig \in Txn
                         /\ pb[g].ptr \in Nat /\ size[g] \in Nat
  BY <1>0, Shapes
<1>2. /\ pc = "syncDb" /\ db' = db /\ jrnl' = jrnl /\ masters' = masters /\ list' = list /\ lock' = lock /\ inTrans' = inTrans
      /\ master' = master /\ pb' = pb /\ unsettled' = unsettled /\ txn' = txn /\ kind' = kind
  BY  DEF SyncDb
<1>3. This \in todo /\ This \in inTrans /\ This \in File
  BY <1>0, <1>2, ThisFile DEF TypeOK
<1>4. \/ /\ todo # {This} /\ todo' = todo \ {This}
         /\ pc' = IF master = None THEN "sync" ELSE "ptr"
      \/ /\ todo = {This} /\ todo' = inTrans
         /\ pc' = IF master = None THEN "finalise" ELSE "unlink"
  BY  DEF SyncDb
<1>5. master = None => inTrans = {This} /\ todo = {This} /\ This' = This
  BY <1>0, <1>1, <1>2, <1>3, <1>4, FirstFile DEF CommitInv, This, None
<1>6. LockInv'
  BY <1>0, <1>1, <1>2, <1>3, <1>4, <1>5 DEF LockInv, TurnInv, Mine, Hot
<1>7. NameInv'
  BY <1>0, <1>1, <1>2, <1>3, <1>4, <1>5 DEF NameInv, LockInv, TurnInv, CommitInv, Mine,
    None, NoJrnl
<1>8. RedoInv'
  BY <1>0, <1>1, <1>2, <1>3, <1>4, <1>5 DEF RedoInv, Pending, Committed, Content, Hot, Redo,
    Named, Tail, NameInv, CommitInv, LockInv, TurnInv, Mine, Ready, PlayInv, PlayOK, None
<1>9. CommitInv'
  BY <1>0, <1>1, <1>2, <1>3, <1>4, <1>5 DEF CommitInv, Committed, Ready, Hot, Tail, NameInv,
    LockInv, TurnInv, Mine, None, PlayInv, PlayOK
<1>10. PlayInv'
  BY <1>0, <1>1, <1>2, <1>3, <1>4, <1>5 DEF PlayInv, PlayOK, Hot, Redo, Named, Tail,
    NameInv, LockInv, TurnInv, Mine, None
<1>11. \A g \in File : Content(g)' = Content(g)
  BY <1>0, <1>1, <1>2, <1>3, <1>4, <1>5 DEF Content, Hot, Redo, Named, Tail, RedoInv,
    Pending, Committed, NameInv, CommitInv, LockInv, TurnInv, Mine, Ready, PlayInv, PlayOK,
    None
<1>12. AbsStep BY <1>1, <1>11, <1>2, <1>3, <1>4, <1>5, Stutters
<1> QED BY <1>0, <1>2, <1>3, <1>6, <1>7, <1>8, <1>9, <1>10, <1>12 DEF Safe

(* The master journal is deleted: all files change their content at once. *)
LEMMA UnlinkMasterKeeps ==
  ASSUME IInv, TypeOK', TurnInv', UnlinkMaster
  PROVE  Safe' /\ AbsStep
<1>0. /\ TypeOK /\ TurnInv /\ LockInv /\ NameInv /\ RedoInv /\ CommitInv /\ PlayInv /\ kind = "fault"
      /\ DOMAIN jrnl = File /\ DOMAIN db = File /\ DOMAIN pb = File /\ DOMAIN lock = File
  BY Shapes DEF IInv, Safe
<1>1. /\ txn \in Nat /\ master \in Nat /\ todo \subseteq inTrans /\ inTrans \subseteq File
      /\ \A g \in File : /\ jrnl[g].ptr \in Nat /\ jrnl[g].at \in Nat /\ jrnl[g].len \in Nat
                         /\ jrnl[g].at <= jrnl[g].len /\ jrnl[g].orig \in Txn
                         /\ pb[g].ptr \in Nat /\ size[g] \in Nat
  BY <1>0, Shapes
<1>2. /\ pc = "unlink" /\ pc' = "dirSync" /\ masters' = masters \ {master}
      /\ unsettled' = unsettled \cup {[f \in inTrans |-> Content(f)]}
      /\ db' = db /\ jrnl' = jrnl /\ list' = list /\ lock' = lock /\ inTrans' = inTrans /\ todo' = todo
      /\ master' = master /\ pb' = pb /\ txn' = txn /\ kind' = kind
  BY  DEF UnlinkMaster, Unlinked
<1>3. /\ master = txn /\ master # None /\ inTrans # {} /\ txn \in Txn
      /\ \A g \in File : Tail(jrnl[g]) = master <=> g \in inTrans
      /\ \A g \in inTrans : Hot(jrnl[g]) /\ db[g] = txn
  BY <1>0, <1>1, <1>2 DEF NameInv, CommitInv, Ready, TypeOK, Tail, None
<1>4. LockInv'
  BY <1>0, <1>1, <1>2, <1>3 DEF LockInv, TurnInv, Mine, Hot
<1>5. NameInv'
  BY <1>0, <1>1, <1>2, <1>3 DEF NameInv, LockInv, TurnInv, CommitInv, Mine, None, NoJrnl
<1>6. RedoInv'
  BY <1>0, <1>1, <1>2, <1>3 DEF RedoInv, Pending, Committed, Content, Hot, Redo, Named,
    Tail, NameInv, CommitInv, LockInv, TurnInv, Mine, Ready, PlayInv, PlayOK, None
<1>7. CommitInv'
  BY <1>0, <1>1, <1>2, <1>3 DEF CommitInv, Committed, Ready, Hot, Tail, NameInv, LockInv,
    TurnInv, Mine, None, PlayInv, PlayOK
<1>8. PlayInv'
  BY <1>0, <1>1, <1>2, <1>3 DEF PlayInv, PlayOK, Hot, Redo, Named, Tail, NameInv, LockInv,
    TurnInv, Mine, None
<1>9. AbsStep
  <2>1. \A g \in File : Content(g)' = IF g \in inTrans THEN txn ELSE Content(g)
    BY <1>0, <1>2, <1>3 DEF Content, Redo, Named
  <2>2. \A u \in unsettled : DOMAIN u \cap inTrans = {}
    BY <1>0, <1>1, <1>2, <1>3 DEF RedoInv, Pending, Committed
  <2> QED BY <1>1, <1>2, <1>3, <2>1, <2>2, Commits
<1> QED BY <1>0, <1>2, <1>3, <1>4, <1>5, <1>6, <1>7, <1>8, <1>9 DEF Safe

(* The commit will be settled when the directory is on the disk. *)
LEMMA SyncDirKeeps ==
  ASSUME IInv, TypeOK', TurnInv', SyncDir
  PROVE  Safe' /\ AbsStep
<1>0. /\ TypeOK /\ TurnInv /\ LockInv /\ NameInv /\ RedoInv /\ CommitInv /\ PlayInv /\ kind = "fault"
      /\ DOMAIN jrnl = File /\ DOMAIN db = File /\ DOMAIN pb = File /\ DOMAIN lock = File
  BY Shapes DEF IInv, Safe
<1>1. /\ txn \in Nat /\ master \in Nat /\ todo \subseteq inTrans /\ inTrans \subseteq File
      /\ \A g \in File : /\ jrnl[g].ptr \in Nat /\ jrnl[g].at \in Nat /\ jrnl[g].len \in Nat
                         /\ jrnl[g].at <= jrnl[g].len /\ jrnl[g].orig \in Txn
                         /\ pb[g].ptr \in Nat /\ size[g] \in Nat
  BY <1>0, Shapes
<1>2. /\ pc = "dirSync" /\ pc' = "finalise"
      /\ unsettled' \subseteq unsettled /\ This' = This
      /\ db' = db /\ jrnl' = jrnl /\ masters' = masters /\ list' = list /\ lock' = lock /\ inTrans' = inTrans /\ todo' = todo
      /\ master' = master /\ pb' = pb /\ txn' = txn /\ kind' = kind
  BY  DEF SyncDir, This
<1>3. LockInv'
  BY <1>0, <1>1, <1>2 DEF LockInv, TurnInv, Mine, Hot, CommitInv
<1>4. NameInv'
  BY <1>0, <1>1, <1>2 DEF NameInv, LockInv, TurnInv, CommitInv, Mine, None, NoJrnl
<1>5. RedoInv'
  BY <1>0, <1>1, <1>2 DEF RedoInv, Pending, Committed, Content, Hot, Redo, Named, Tail,
    NameInv, CommitInv, LockInv, TurnInv, Mine, Ready, PlayInv, PlayOK, None
<1>6. CommitInv'
  BY <1>0, <1>1, <1>2 DEF CommitInv, Committed, Ready, Hot, Tail, NameInv, LockInv, TurnInv,
    Mine, None, PlayInv, PlayOK
<1>7. PlayInv'
  BY <1>0, <1>1, <1>2 DEF PlayInv, PlayOK, Hot, Redo, Named, Tail, NameInv, LockInv,
    TurnInv, Mine, None
<1>8. \A g \in File : Content(g)' = Content(g)
  BY <1>0, <1>1, <1>2 DEF Content, Hot, Redo, Named, Tail, RedoInv, Pending, Committed,
    NameInv, CommitInv, LockInv, TurnInv, Mine, Ready, PlayInv, PlayOK, None
<1>9. AbsStep BY <1>1, <1>8, <1>2, Settles
<1> QED BY <1>0, <1>2, <1>8, <1>3, <1>4, <1>5, <1>6, <1>7, <1>9 DEF Safe

(* The committing process dies and leaves its files as they are. *)
LEMMA DeathKeeps ==
  ASSUME IInv, TypeOK', TurnInv', Death
  PROVE  Safe' /\ AbsStep
<1>0. /\ TypeOK /\ TurnInv /\ LockInv /\ NameInv /\ RedoInv /\ CommitInv /\ PlayInv /\ kind = "fault"
      /\ DOMAIN jrnl = File /\ DOMAIN db = File /\ DOMAIN pb = File /\ DOMAIN lock = File
  BY Shapes DEF IInv, Safe
<1>1. /\ txn \in Nat /\ master \in Nat /\ todo \subseteq inTrans /\ inTrans \subseteq File
      /\ \A g \in File : /\ jrnl[g].ptr \in Nat /\ jrnl[g].at \in Nat /\ jrnl[g].len \in Nat
                         /\ jrnl[g].at <= jrnl[g].len /\ jrnl[g].orig \in Txn
                         /\ pb[g].ptr \in Nat /\ size[g] \in Nat
  BY <1>0, Shapes
<1>2. /\ pc' = "write" /\ inTrans' = {} /\ todo' = {} /\ master' = None
      /\ \A g \in File : lock'[g] = IF lock[g] = "writer" THEN "free"
                                     ELSE IF lock[g] = "joined" THEN "reader" ELSE lock[g]
      /\ \A g \in File : pb'[g] = IF lock[g] = "writer" THEN Idle ELSE pb[g]
      /\ db' = db /\ jrnl' = jrnl /\ masters' = masters /\ list' = list
      /\ unsettled' = unsettled /\ txn' = txn /\ kind' = kind
  BY  DEF Death, Live, Bad
<1>3. LockInv'
  BY <1>0, <1>1, <1>2 DEF LockInv, TurnInv, Mine, Hot, Idle
<1>4. NameInv'
  BY <1>0, <1>1, <1>2 DEF NameInv, LockInv, TurnInv, CommitInv, Mine, None, NoJrnl
<1>5. RedoInv'
  BY <1>0, <1>1, <1>2 DEF RedoInv, Pending, Committed, Content, Hot, Redo, Named, Tail,
    NameInv, CommitInv, LockInv, TurnInv, Mine, Ready, PlayInv, PlayOK, None
<1>6. CommitInv'
  BY <1>0, <1>1, <1>2 DEF CommitInv, Committed, Ready, Hot, Tail, NameInv, LockInv, TurnInv,
    Mine, None, PlayInv, PlayOK
<1>7. PlayInv'
  BY <1>0, <1>1, <1>2 DEF PlayInv, PlayOK, Hot, Redo, Named, Tail, NameInv, LockInv,
    TurnInv, Mine, None, Idle
<1>8. \A g \in File : Content(g)' = Content(g)
  BY <1>0, <1>1, <1>2 DEF Content, Hot, Redo, Named, Tail, RedoInv, Pending, Committed,
    NameInv, CommitInv, LockInv, TurnInv, Mine, Ready, PlayInv, PlayOK, None
<1>9. AbsStep BY <1>1, <1>8, <1>2, Ends
<1> QED BY <1>0, <1>2, <1>8, <1>3, <1>4, <1>5, <1>6, <1>7, <1>9 DEF Safe

(* Whoever plays back a file is not in the middle of committing it, though another may
   have begun a transaction on it. *)
LEMMA Aside ==
  ASSUME TypeOK, TurnInv, CommitInv, NEW f \in File, pb[f] # Idle
  PROVE  /\ Pending(f) => pb[f].at \in {"open", "child"}
         /\ (pc \notin {"write", "rollback"}) => f \notin Mine /\ f \notin todo
         /\ (pc \notin {"write", "rollback", "finalise"}) => f \notin inTrans
         /\ lock[f] = "writer" => f \in todo /\ pc = "rollback"
         /\ lock[f] # "writer" => lock[f] = "recoverer" \/ pb[f].at \in {"open", "child"}
<1>1. \/ lock[f] = "recoverer" /\ pb[f].at \notin {"open", "child"}
      \/ lock[f] = "writer" /\ pc = "rollback"
      \/ lock[f] \in {"reader", "joined"} /\ pb[f].at \in {"open", "child"}
  BY DEF TurnInv
<1>2. /\ lock[f] \in {"writer", "joined"} <=> f \in Mine
      /\ lock[f] = "joined" => pc \in {"write", "rollback"}
  BY DEF TurnInv
<1>3. pc \in {"finalise", "rollback"} => Mine = todo BY DEF Mine
<1>4. pc \notin {"finalise", "rollback"} => Mine = inTrans BY DEF Mine
<1>5. todo \subseteq inTrans /\ (pc # "write" => todo # {}) BY DEF TypeOK
<1>6. ASSUME pc \notin {"write", "rollback"} PROVE f \notin Mine /\ f \notin todo
  BY <1>1, <1>2, <1>3, <1>4, <1>5, <1>6
<1>7. ASSUME Pending(f) PROVE pb[f].at \in {"open", "child"}
  <2>1. f \in inTrans /\ ~Committed /\ pc # "rollback" BY <1>7 DEF Pending
  <2>2. CASE pc = "finalise"
    <3>1. master = None BY <2>1, <2>2 DEF Committed
    <3>2. inTrans = {This} BY <2>2, <3>1 DEF CommitInv
    <3>3. This \in todo BY <1>5, <2>2, ThisFile
    <3> QED BY <1>6, <2>1, <2>2, <3>2, <3>3
  <2>3. CASE pc # "finalise"
    <3>1. f \in Mine BY <1>4, <2>1, <2>3
    <3> QED BY <1>1, <1>2, <2>1, <3>1
  <2> QED BY <2>2, <2>3
<1>8. lock[f] = "writer" => f \in todo /\ pc = "rollback" BY <1>1, <1>2, <1>3
<1>9. (pc \notin {"write", "rollback", "finalise"}) => f \notin inTrans BY <1>4, <1>6
<1> QED BY <1>1, <1>6, <1>7, <1>8, <1>9

(* What a step on a file that is played back leaves as it was for the others. *)
Beside(f) ==
  /\ \A g \in File \ {f} : jrnl'[g] = jrnl[g] /\ db'[g] = db[g]
  /\ \A g \in File \ {f} : Redo(jrnl[g])' <=> Redo(jrnl[g])
  /\ \A g \in File : Content(g)' = Content(g)
  /\ masters' = masters \/ (masters' = masters \ {pb[f].ptr} /\ pb[f].at = "child")
  /\ list' = list /\ unsettled' = unsettled /\ txn' = txn /\ kind' = kind
  /\ jrnl'[f].ptr \in {None, jrnl[f].ptr}
  /\ jrnl'[f].there \/ jrnl'[f] = NoJrnl
  /\ Tail(jrnl'[f]) \in {None, Tail(jrnl[f])}
  /\ ~Hot(jrnl'[f]) => Redo(jrnl[f])'
  /\ pb[f].at \in {"open", "child"} =>
        jrnl'[f] = jrnl[f] /\ db'[f] = db[f] /\ (Redo(jrnl[f])' <=> Redo(jrnl[f]))

(* Of the commit in progress, such a step disturbs nothing, nor of the names. *)
LEMMA BesideKeeps ==
  ASSUME IInv, NEW f \in File, pb[f] # Idle, Beside(f),
         pc' = pc, inTrans' = inTrans, todo' = todo, master' = master
  PROVE  NameInv' /\ RedoInv' /\ CommitInv'
<1>0. /\ TypeOK /\ TurnInv /\ LockInv /\ NameInv /\ RedoInv /\ CommitInv /\ PlayInv
  BY DEF IInv, Safe
<1>1. /\ txn \in Nat /\ master \in Nat /\ todo \subseteq inTrans /\ inTrans \subseteq File
      /\ \A g \in File : jrnl[g].ptr \in Nat /\ pb[g].ptr \in Nat
  BY <1>0, Shapes
<1>2. /\ Pending(f) => pb[f].at \in {"open", "child"}
      /\ (pc \notin {"write", "rollback"}) => f \notin Mine /\ f \notin todo
      /\ (pc \notin {"write", "rollback", "finalise"}) => f \notin inTrans
  BY <1>0, Aside
<1>3. /\ \A g \in File \ {f} : jrnl'[g] = jrnl[g] /\ db'[g] = db[g]
      /\ \A g \in File \ {f} : Redo(jrnl[g])' <=> Redo(jrnl[g])
      /\ \A g \in File : Content(g)' = Content(g)
      /\ masters' = masters \/ (masters' = masters \ {pb[f].ptr} /\ pb[f].at = "child")
      /\ list' = list /\ unsettled' = unsettled /\ txn' = txn /\ kind' = kind
      /\ jrnl'[f].ptr \in {None, jrnl[f].ptr}
      /\ jrnl'[f].there \/ jrnl'[f] = NoJrnl
      /\ Tail(jrnl'[f]) \in {None, Tail(jrnl[f])}
      /\ ~Hot(jrnl'[f]) => Redo(jrnl[f])'
      /\ pb[f].at \in {"open", "child"} =>
        jrnl'[f] = jrnl[f] /\ db'[f] = db[f] /\ (Redo(jrnl[f])' <=> Redo(jrnl[f]))
  BY DEF Beside
<1>4. This' = This BY DEF This
<1>5. (pc \notin {"finalise", "rollback"} /\ inTrans # {} /\ master # None) => (master \in masters' <=> master \in masters)
  BY <1>0, <1>3 DEF NameInv, PlayInv, PlayOK
<1>6. masters' \subseteq masters BY <1>3
<1>7. NameInv'
  <2>1. \A g \in File : jrnl'[g].ptr \in {None, jrnl[g].ptr} /\ (jrnl'[g].there \/ jrnl'[g] = NoJrnl)
    BY <1>0, <1>3 DEF NameInv
  <2>2. inTrans # {} => txn # None BY <1>0 DEF NameInv, None
  <2> QED BY <1>0, <1>1, <1>3, <1>6, <2>1, <2>2 DEF NameInv, None
<1>8. RedoInv'
  <2>1. \A g \in File : Pending(g)' <=> Pending(g) BY DEF Pending, Committed
  <2> QED BY <1>0, <1>2, <1>3, <2>1 DEF RedoInv, Hot
<1>9. CommitInv'
  <2>1. \A g \in File \ {f} : Ready(g)' <=> Ready(g)
    BY <1>3 DEF Ready, Hot, Tail
  <2>2. pc \in {"ptr", "cut", "sync", "writeDb", "syncDb"} =>
            This \in File \ {f} /\ f \notin inTrans
    BY <1>0, <1>2, ThisFile DEF TypeOK
  <2>3. pc \in {"unlink", "dirSync", "finalise"} => f \notin todo BY <1>2
  <2>4. inTrans = {} => pc = "write" BY <1>0 DEF NameInv
  <2>5. /\ (pc \in {"syncMaster", "ptr", "cut", "sync", "writeDb", "syncDb", "unlink"} /\ master # None)
             => master \in masters'
        /\ (pc \in {"sync", "writeDb", "syncDb", "finalise"} /\ master = None) => inTrans = {This}
        /\ pc \in {"create", "syncMaster", "unlink", "dirSync"} => todo = inTrans
        /\ Committed => master \notin masters'
    BY <1>0, <1>5, <1>6, <2>4 DEF CommitInv
  <2>6. /\ pc \in {"ptr", "cut", "sync", "writeDb", "syncDb"} => \A g \in inTrans \ todo : Ready(g)'
        /\ pc \in {"unlink", "dirSync", "finalise"} => \A g \in todo : Ready(g)'
    BY <1>0, <1>1, <2>1, <2>2, <2>3 DEF CommitInv
  <2>7. /\ pc = "cut" => jrnl'[This].ptr = master /\ jrnl'[This].there /\ jrnl'[This].at > 0
        /\ (pc \in {"sync", "writeDb", "syncDb"} /\ master # None) => Tail(jrnl'[This]) = master
        /\ pc \in {"writeDb", "syncDb"} => Hot(jrnl'[This])
        /\ pc = "syncDb" => db'[This] = txn
    BY <1>0, <1>3, <2>2 DEF CommitInv
  <2> QED BY <1>3, <1>4, <2>5, <2>6, <2>7 DEF CommitInv, Committed, Ready, Hot, Tail
<1> QED BY <1>7, <1>8, <1>9

(* The others that play back are not disturbed. *)
LEMMA OthersPlay ==
  ASSUME IInv, NEW f \in File, Beside(f), \A g \in File \ {f} : pb'[g] = pb[g],
         inTrans' \in {inTrans, {}},
         (inTrans' # {} /\ pc \in {"finalise", "rollback"}) => pc' \in {"finalise", "rollback"}
  PROVE  \A g \in File \ {f} : PlayOK(g)'
<1> SUFFICES ASSUME NEW g \in File \ {f} PROVE PlayOK(g)' OBVIOUS
<1>1. PlayOK(g) BY DEF IInv, Safe, PlayInv
<1>2. \A h \in File : Tail(jrnl'[h]) \in {None, Tail(jrnl[h])} BY DEF Beside
<1>3. (inTrans' # {} /\ pb[g].ptr = txn) => pc' \in {"finalise", "rollback"}
  BY <1>1 DEF PlayOK
<1>4. pb'[g] = pb[g] /\ jrnl'[g] = jrnl[g] /\ db'[g] = db[g] /\ txn' = txn BY DEF Beside
<1>5. (pb[g].at = "child") => \A h \in File : Tail(jrnl'[h]) = pb[g].ptr => h \in pb[g].left
  BY <1>1, <1>2 DEF PlayOK
<1>6. Redo(jrnl[g])' <=> Redo(jrnl[g]) BY DEF Beside
<1> QED BY <1>1, <1>3, <1>4, <1>5, <1>6 DEF PlayOK, Hot, Tail

(* The turn of a file in a rollback ends, and with the last one the rollback. *)
LEMMA TurnKeeps ==
  ASSUME IInv, TurnInv', NEW f \in File, NEW to \in {"free", "reader"}, pb[f] # Idle, Beside(f),
         Returned(f, to), (to = "reader" /\ lock[f] # "writer") => ~Hot(jrnl'[f])
  PROVE  Safe' /\ AbsStep
<1>0. /\ TypeOK /\ TurnInv /\ LockInv /\ NameInv /\ RedoInv /\ CommitInv /\ PlayInv
      /\ kind = "fault"
  BY DEF IInv, Safe
<1>1. /\ txn \in Nat /\ master \in Nat /\ todo \subseteq inTrans /\ inTrans \subseteq File
      /\ \A g \in File : jrnl[g].ptr \in Nat /\ pb[g].ptr \in Nat
  BY <1>0, Shapes
<1>2. lock[f] = "writer" => f \in todo /\ pc = "rollback" BY <1>0, Aside
<1>3. /\ \A g \in File \ {f} : jrnl'[g] = jrnl[g] /\ db'[g] = db[g]
      /\ \A g \in File \ {f} : Redo(jrnl[g])' <=> Redo(jrnl[g])
      /\ \A g \in File : Content(g)' = Content(g)
      /\ masters' = masters \/ (masters' = masters \ {pb[f].ptr} /\ pb[f].at = "child")
      /\ list' = list /\ unsettled' = unsettled /\ txn' = txn /\ kind' = kind
      /\ jrnl'[f].ptr \in {None, jrnl[f].ptr}
      /\ jrnl'[f].there \/ jrnl'[f] = NoJrnl
      /\ Tail(jrnl'[f]) \in {None, Tail(jrnl[f])}
      /\ ~Hot(jrnl'[f]) => Redo(jrnl[f])'
      /\ pb[f].at \in {"open", "child"} =>
        jrnl'[f] = jrnl[f] /\ db'[f] = db[f] /\ (Redo(jrnl[f])' <=> Redo(jrnl[f]))
  BY DEF Beside
<1>4. /\ pb'[f] = Idle
      /\ \A g \in File \ {f} : pb'[g] = pb[g] /\ lock'[g] = lock[g]
      /\ \/ /\ lock[f] = "writer" /\ lock'[f] = "free" /\ todo' = todo \ {f}
            /\ \/ todo = {f} /\ pc' = "write" /\ inTrans' = {} /\ master' = None
               \/ todo # {f} /\ pc' = pc /\ inTrans' = inTrans /\ master' = master
         \/ /\ lock[f] # "writer" /\ lock'[f] = IF lock[f] = "joined" THEN "writer" ELSE to
            /\ pc' = pc /\ inTrans' = inTrans /\ todo' = todo /\ master' = master
  BY <1>0, ReturnedView
<1>5. \/ pc' = pc /\ inTrans' = inTrans /\ todo' = todo /\ master' = master
      \/ pc' = "rollback" /\ pc = "rollback" /\ inTrans' = inTrans /\ master' = master
      \/ pc' = "write" /\ inTrans' = {} /\ master' = None
  BY <1>2, <1>4
<1>6. inTrans # {} => txn # None BY <1>0 DEF NameInv, None
<1>7. NameInv' /\ RedoInv' /\ CommitInv'
  <2>1. CASE pc' = pc /\ inTrans' = inTrans /\ todo' = todo /\ master' = master
    BY <2>1, BesideKeeps
  <2>2. CASE \/ pc' = "rollback" /\ pc = "rollback" /\ inTrans' = inTrans /\ master' = master
             \/ pc' = "write" /\ inTrans' = {} /\ master' = None
    <3>1. \A g \in File : ~Pending(g)' BY <2>2 DEF Pending
    <3>2. RedoInv' BY <1>0, <1>3, <3>1 DEF RedoInv, Hot
    <3>3. CommitInv' BY <2>2 DEF CommitInv, Committed
    <3>4. \A g \in File : jrnl'[g].ptr \in {None, jrnl[g].ptr}
                          /\ (jrnl'[g].there \/ jrnl'[g] = NoJrnl)
      BY <1>0, <1>3 DEF NameInv
    <3>5. masters' \subseteq masters BY <1>3
    <3>6. NameInv' BY <1>0, <1>1, <1>3, <1>6, <2>2, <3>4, <3>5 DEF NameInv, None
    <3> QED BY <3>2, <3>3, <3>6
  <2> QED BY <1>5, <2>1, <2>2
<1>8. LockInv' BY <1>0, <1>3, <1>4 DEF LockInv, Hot, Idle
<1>9. PlayInv'
  <2>1. PlayOK(f)' BY <1>1, <1>3, <1>4, <1>5, <1>6 DEF PlayOK, Idle, None
  <2>2. (inTrans' # {} /\ pc \in {"finalise", "rollback"}) => pc' \in {"finalise", "rollback"}
    BY <1>5
  <2>3. \A g \in File \ {f} : PlayOK(g)' BY <1>4, <1>5, <2>2, OthersPlay
  <2> QED BY <2>1, <2>3 DEF PlayInv
<1>10. AbsStep BY <1>3, <1>5, Ends
<1> QED BY <1>0, <1>3, <1>7, <1>8, <1>9, <1>10 DEF Safe

(* A rollback goes on with its file. *)
LEMMA PlayKeeps ==
  ASSUME IInv, NEW f \in File, pb[f] # Idle, Beside(f),
         \A g \in File \ {f} : pb'[g] = pb[g] /\ lock'[g] = lock[g],
         pc' = pc, inTrans' = inTrans, todo' = todo, master' = master,
         PlayOK(f)', lock'[f] \in {"reader", "joined"} => ~Hot(jrnl'[f])
  PROVE  Safe' /\ AbsStep
<1>0. /\ LockInv /\ kind = "fault" BY DEF IInv, Safe
<1>2. /\ \A g \in File \ {f} : jrnl'[g] = jrnl[g]
      /\ \A g \in File : Content(g)' = Content(g)
      /\ unsettled' = unsettled /\ kind' = kind
  BY DEF Beside
<1>3. NameInv' /\ RedoInv' /\ CommitInv' BY BesideKeeps
<1>4. LockInv' BY <1>0, <1>2 DEF LockInv, Hot
<1>5. PlayInv' BY OthersPlay DEF PlayInv
<1>6. AbsStep BY <1>2, Stutters
<1> QED BY <1>0, <1>2, <1>3, <1>4, <1>5, <1>6 DEF Safe

(* A file that is being restored is locked for it. *)
LEMMA Restoring ==
  ASSUME IInv, NEW f \in File, pb[f].at \in {"restore", "syncDb", "end"}
  PROVE  lock[f] \in {"writer", "recoverer"} /\ pb[f].at \notin {"open", "child"} /\ pb[f] # Idle
<1>1. pb[f].at \notin {"open", "child"} /\ pb[f] # Idle BY DEF Idle
<1> QED BY <1>1 DEF IInv, TurnInv

-----------------------------------------------------------------------------
(* The steps of a rollback. *)

(* A page is restored, or the last one is. *)
LEMMA RestoreKeeps ==
  ASSUME IInv, TurnInv', NEW f \in File, Restore(f)
  PROVE  Safe' /\ AbsStep
<1>0. /\ TypeOK /\ TurnInv /\ LockInv /\ NameInv /\ RedoInv /\ CommitInv /\ PlayInv
      /\ kind = "fault"
  BY DEF IInv, Safe
<1>1. /\ txn \in Nat /\ master \in Nat /\ todo \subseteq inTrans /\ inTrans \subseteq File
      /\ \A g \in File : jrnl[g].ptr \in Nat /\ pb[g].ptr \in Nat
      /\ DOMAIN db = File /\ DOMAIN jrnl = File /\ DOMAIN pb = File /\ DOMAIN lock = File
  BY <1>0, Shapes
<1>2. /\ pb[f].at = "restore" /\ pb[f] # Idle
      /\ jrnl' = jrnl /\ masters' = masters /\ list' = list /\ lock' = lock /\ pc' = pc
      /\ inTrans' = inTrans /\ todo' = todo /\ master' = master
      /\ unsettled' = unsettled /\ txn' = txn /\ kind' = kind
  BY DEF Restore, At, WriteDb, Idle
<1>3. /\ \A g \in File \ {f} : db'[g] = db[g] /\ pb'[g] = pb[g]
      /\ \/ pb' = pb
         \/ /\ pb'[f].at = "syncDb" /\ pb'[f].ptr = pb[f].ptr /\ pb'[f].redo = pb[f].redo
            /\ db'[f] = jrnl[f].orig
  BY <1>0, <1>1 DEF Restore, WriteDb, Go, TypeOK
<1>4. PlayOK(f) BY <1>0 DEF PlayInv
<1>5. pb[f].ptr = Tail(jrnl[f]) /\ Hot(jrnl[f]) /\ Redo(jrnl[f]) /\ pb[f].redo
  BY <1>2, <1>4 DEF PlayOK
<1>6. lock'[f] \notin {"reader", "joined"} /\ pb[f].at \notin {"open", "child"}
  BY <1>2, Restoring
<1>7. Beside(f)
  <2>1. \A g \in File : Redo(jrnl[g])' <=> Redo(jrnl[g]) BY <1>2 DEF Redo, Named, Tail
  <2>2. \A g \in File : Hot(jrnl[g])' <=> Hot(jrnl[g]) BY <1>2 DEF Hot
  <2>3. \A g \in File : g = f => Content(g)' = Content(g)
    BY <1>2, <1>5, <2>1, <2>2 DEF Content
  <2>4. \A g \in File \ {f} : Content(g)' = Content(g) BY <1>2, <1>3, <2>1, <2>2 DEF Content
  <2>5. ~Hot(jrnl'[f]) => Redo(jrnl[f])' BY <1>2, <1>5 DEF Redo, Named, Tail
  <2>6. jrnl[f].there \/ jrnl[f] = NoJrnl BY <1>0 DEF NameInv
  <2> QED BY <1>2, <1>3, <2>1, <2>3, <2>4, <2>5, <2>6, <1>6 DEF Beside, Tail
<1>8. PlayOK(f)'
  <2>1. Redo(jrnl[f])' <=> Redo(jrnl[f]) BY <1>2 DEF Redo, Named, Tail
  <2>2. Tail(jrnl[f])' = Tail(jrnl[f]) /\ (Hot(jrnl[f])' <=> Hot(jrnl[f]))
    BY <1>2 DEF Tail, Hot
  <2> QED BY <1>2, <1>3, <1>4, <1>5, <2>1, <2>2 DEF PlayOK
<1> QED BY <1>2, <1>3, <1>7, <1>8, <1>6, PlayKeeps

(* The restored file is synced. *)
LEMMA SyncRestoredKeeps ==
  ASSUME IInv, TurnInv', NEW f \in File, SyncRestored(f)
  PROVE  Safe' /\ AbsStep
<1>0. /\ TypeOK /\ TurnInv /\ LockInv /\ NameInv /\ RedoInv /\ CommitInv /\ PlayInv
      /\ kind = "fault"
  BY DEF IInv, Safe
<1>1. /\ txn \in Nat /\ master \in Nat /\ todo \subseteq inTrans /\ inTrans \subseteq File
      /\ \A g \in File : jrnl[g].ptr \in Nat /\ pb[g].ptr \in Nat
      /\ DOMAIN db = File /\ DOMAIN jrnl = File /\ DOMAIN pb = File /\ DOMAIN lock = File
  BY <1>0, Shapes
<1>2. /\ pb[f].at = "syncDb" /\ pb[f] # Idle
      /\ db' = db /\ jrnl' = jrnl /\ masters' = masters /\ list' = list /\ lock' = lock
      /\ pc' = pc /\ inTrans' = inTrans /\ todo' = todo /\ master' = master
      /\ unsettled' = unsettled /\ txn' = txn /\ kind' = kind
  BY DEF SyncRestored, At, SyncedDb, Idle
<1>3. /\ \A g \in File \ {f} : pb'[g] = pb[g]
      /\ pb'[f].at = "end" /\ pb'[f].ptr = pb[f].ptr /\ pb'[f].redo = pb[f].redo
  BY <1>1 DEF SyncRestored, Go, TypeOK
<1>4. PlayOK(f) BY <1>0 DEF PlayInv
<1>5. Beside(f)
  BY <1>0, <1>2 DEF Beside, Content, Hot, Redo, Named, Tail, RedoInv, NameInv
<1>6. PlayOK(f)'
  <2>1. Redo(jrnl[f])' <=> Redo(jrnl[f]) BY <1>2 DEF Redo, Named, Tail
  <2> QED BY <1>2, <1>3, <1>4, <2>1 DEF PlayOK, Tail, Hot
<1>7. lock'[f] \notin {"reader", "joined"} BY <1>2, Restoring
<1> QED BY <1>2, <1>3, <1>5, <1>6, <1>7, PlayKeeps

(* What a file whose master journal is looked for has: no journal to roll back. *)
LEMMA LookedFor ==
  ASSUME IInv, NEW f \in File, pb[f].at \in {"open", "child"}, jrnl' = jrnl
  PROVE  lock[f] # "writer" => ~Hot(jrnl'[f])
<1>1. pb[f] # Idle BY DEF Idle
<1>2. lock[f] \in {"writer", "reader", "joined"} BY <1>1 DEF IInv, TurnInv
<1> QED BY <1>2 DEF IInv, Safe, LockInv

(* The master journal is opened and its list read, or it is gone already. *)
LEMMA DelOpenKeeps ==
  ASSUME IInv, TurnInv', NEW f \in File, DelOpen(f)
  PROVE  Safe' /\ AbsStep
<1>0. /\ TypeOK /\ TurnInv /\ LockInv /\ NameInv /\ RedoInv /\ CommitInv /\ PlayInv
      /\ kind = "fault"
  BY DEF IInv, Safe
<1>1. /\ txn \in Nat /\ master \in Nat /\ todo \subseteq inTrans /\ inTrans \subseteq File
      /\ \A g \in File : jrnl[g].ptr \in Nat /\ pb[g].ptr \in Nat
      /\ DOMAIN db = File /\ DOMAIN jrnl = File /\ DOMAIN pb = File /\ DOMAIN lock = File
  BY <1>0, Shapes
<1>2. /\ pb[f].at = "open" /\ pb[f] # Idle
      /\ db' = db /\ jrnl' = jrnl /\ masters' = masters /\ list' = list
      /\ unsettled' = unsettled /\ txn' = txn /\ kind' = kind
  BY DEF DelOpen, At, Idle
<1>3. Beside(f)
  BY <1>0, <1>2 DEF Beside, Content, Hot, Redo, Named, Tail, RedoInv, NameInv
<1>4. CASE pb[f].ptr \notin masters
  <2>1. Returned(f, "free") BY <1>4 DEF DelOpen
  <2> QED BY <1>2, <1>3, <2>1, TurnKeeps
<1>5. CASE pb[f].ptr \in masters
  <2>1. /\ lock' = lock /\ pc' = pc /\ inTrans' = inTrans /\ todo' = todo /\ master' = master
        /\ pb' = [pb EXCEPT ![f].at = "child", ![f].left = list[pb[f].ptr]]
    BY <1>5 DEF DelOpen
  <2>2. /\ \A g \in File \ {f} : pb'[g] = pb[g]
        /\ pb'[f].at = "child" /\ pb'[f].ptr = pb[f].ptr /\ pb'[f].left = list[pb[f].ptr]
    BY <1>0, <1>1, <2>1 DEF TypeOK
  <2>3. PlayOK(f) BY <1>0 DEF PlayInv
  <2>4. pb[f].ptr # None BY <1>2, <2>3 DEF PlayOK
  <2>5. \A g \in File : Tail(jrnl[g]) = pb[f].ptr => g \in list[pb[f].ptr]
    BY <1>0, <2>4 DEF NameInv, Tail
  <2>6. PlayOK(f)' BY <1>2, <2>1, <2>2, <2>3, <2>4, <2>5 DEF PlayOK, Tail
  <2> QED BY <1>2, <1>3, <2>1, <2>2, <2>6, LookedFor, PlayKeeps
<1> QED BY <1>4, <1>5

(* A child that still names the master journal keeps it; one that does not is
   passed over. *)
LEMMA DelChildKeeps ==
  ASSUME IInv, TurnInv', NEW f \in File, DelChild(f)
  PROVE  Safe' /\ AbsStep
<1>0. /\ TypeOK /\ TurnInv /\ LockInv /\ NameInv /\ RedoInv /\ CommitInv /\ PlayInv
      /\ kind = "fault"
  BY DEF IInv, Safe
<1>1. /\ txn \in Nat /\ master \in Nat /\ todo \subseteq inTrans /\ inTrans \subseteq File
      /\ \A g \in File : jrnl[g].ptr \in Nat /\ pb[g].ptr \in Nat
      /\ DOMAIN db = File /\ DOMAIN jrnl = File /\ DOMAIN pb = File /\ DOMAIN lock = File
  BY <1>0, Shapes
<1>2. /\ pb[f].at = "child" /\ pb[f] # Idle
      /\ db' = db /\ jrnl' = jrnl /\ masters' = masters /\ list' = list
      /\ unsettled' = unsettled /\ txn' = txn /\ kind' = kind
  BY DEF DelChild, At, Idle
<1>3. Beside(f)
  BY <1>0, <1>2 DEF Beside, Content, Hot, Redo, Named, Tail, RedoInv, NameInv
<1>4. CASE Tail(jrnl[Min(pb[f].left)]) = pb[f].ptr
  <2>1. Returned(f, "reader") BY <1>4 DEF DelChild
  <2> QED BY <1>2, <1>3, <2>1, LookedFor, TurnKeeps
<1>5. CASE Tail(jrnl[Min(pb[f].left)]) # pb[f].ptr
  <2>1. /\ lock' = lock /\ pc' = pc /\ inTrans' = inTrans /\ todo' = todo /\ master' = master
        /\ pb' = [pb EXCEPT ![f].left = @ \ {Min(pb[f].left)}]
    BY <1>5 DEF DelChild
  <2>2. /\ \A g \in File \ {f} : pb'[g] = pb[g]
        /\ pb'[f].at = pb[f].at /\ pb'[f].ptr = pb[f].ptr
        /\ pb'[f].left = pb[f].left \ {Min(pb[f].left)}
    BY <1>0, <1>1, <2>1 DEF TypeOK
  <2>3. PlayOK(f) BY <1>0 DEF PlayInv
  <2>4. \A g \in File : Tail(jrnl[g]) = pb[f].ptr => g \in pb'[f].left
    BY <1>2, <1>5, <2>2, <2>3 DEF PlayOK
  <2>5. PlayOK(f)' BY <1>2, <2>1, <2>2, <2>3, <2>4 DEF PlayOK, Tail
  <2> QED BY <1>2, <1>3, <2>1, <2>2, <2>5, LookedFor, PlayKeeps
<1> QED BY <1>4, <1>5

(* A master journal that no journal names is deleted: no rollback depends on it. *)
LEMMA DelMasterKeeps ==
  ASSUME IInv, TurnInv', NEW f \in File, DelMaster(f)
  PROVE  Safe' /\ AbsStep
<1>0. /\ TypeOK /\ TurnInv /\ LockInv /\ NameInv /\ RedoInv /\ CommitInv /\ PlayInv
      /\ kind = "fault"
  BY DEF IInv, Safe
<1>1. /\ txn \in Nat /\ master \in Nat /\ todo \subseteq inTrans /\ inTrans \subseteq File
      /\ \A g \in File : jrnl[g].ptr \in Nat /\ pb[g].ptr \in Nat
      /\ DOMAIN db = File /\ DOMAIN jrnl = File /\ DOMAIN pb = File /\ DOMAIN lock = File
  BY <1>0, Shapes
<1>2. /\ pb[f].at = "child" /\ pb[f] # Idle /\ pb[f].left = {} /\ masters' = masters \ {pb[f].ptr}
      /\ db' = db /\ jrnl' = jrnl /\ list' = list
      /\ unsettled' = unsettled /\ txn' = txn /\ kind' = kind /\ Returned(f, "reader")
  BY DEF DelMaster, At, Idle, Unlinked
<1>3. \A g \in File : Tail(jrnl[g]) # pb[f].ptr BY <1>0, <1>2 DEF PlayInv, PlayOK
<1>4. \A g \in File : Redo(jrnl[g])' <=> Redo(jrnl[g])
  BY <1>2, <1>3 DEF Redo, Named, Tail
<1>5. \A g \in File : Content(g)' = Content(g) BY <1>2, <1>4 DEF Content, Hot
<1>6. Beside(f) BY <1>0, <1>2, <1>4, <1>5 DEF Beside, RedoInv, NameInv, Hot
<1> QED BY <1>2, <1>6, LookedFor, TurnKeeps

(* The journal is finalised; its master journal, if the rollback was one, comes next. *)
LEMMA EndPlaybackKeeps ==
  ASSUME IInv, TypeOK', TurnInv', RecoverModes \subseteq {"delete"},
         NEW f \in File, NEW mode \in AllModes, EndPlayback(f, mode)
  PROVE  Safe' /\ AbsStep
<1>0. /\ TypeOK /\ TurnInv /\ LockInv /\ NameInv /\ RedoInv /\ CommitInv /\ PlayInv
      /\ kind = "fault"
  BY DEF IInv, Safe
<1>1. /\ txn \in Nat /\ master \in Nat /\ todo \subseteq inTrans /\ inTrans \subseteq File
      /\ \A g \in File : jrnl[g].ptr \in Nat /\ pb[g].ptr \in Nat
      /\ DOMAIN db = File /\ DOMAIN jrnl = File /\ DOMAIN pb = File /\ DOMAIN lock = File
  BY <1>0, Shapes
<1>2. /\ pb[f].at = "end" /\ pb[f] # Idle
      /\ db' = db /\ masters' = masters /\ list' = list
      /\ unsettled' = unsettled /\ txn' = txn /\ kind' = kind
  BY DEF EndPlayback, At, Idle
<1>3. mode \in CommitModes \/ mode = "delete"
  BY DEF EndPlayback
<1>4. lock[f] = "writer" \/ mode = "delete" BY DEF EndPlayback, Live
<1>5. /\ jrnl'[f] = Finalised(jrnl[f], mode, pb[f].ptr # None)
      /\ \A g \in File \ {f} : jrnl'[g] = jrnl[g]
  BY <1>1, <1>4 DEF EndPlayback, WriteJrnl, SyncedJrnl, Live
<1>6. /\ jrnl[f] \in Journals /\ jrnl[f].at <= jrnl[f].len BY <1>0, Shapes
<1>7. PlayOK(f) BY <1>0 DEF PlayInv
<1>8. /\ pb[f].ptr = Tail(jrnl[f]) /\ (pb[f].redo <=> Redo(jrnl[f]))
      /\ (pb[f].redo /\ Hot(jrnl[f])) => db[f] = jrnl[f].orig
  BY <1>2, <1>7 DEF PlayOK
<1>9. /\ ~Hot(jrnl'[f]) /\ jrnl'[f].ptr \in {None, jrnl[f].ptr} /\ Tail(jrnl'[f]) = None
      /\ jrnl'[f].there \/ jrnl'[f] = NoJrnl
  <2>1. LET k == Finalised(jrnl[f], mode, pb[f].ptr # None) IN
        /\ k \in Journals /\ ~Hot(k) /\ k.ptr \in {None, jrnl[f].ptr}
        /\ Tail(k) = None \/ (pb[f].ptr = None /\ Tail(k) = Tail(jrnl[f]))
        /\ ~k.there => k = NoJrnl \/ ~jrnl[f].there
    BY <1>1, <1>6, FinalisedView
  <2>2. ~jrnl[f].there => jrnl'[f] = NoJrnl
    <3>1. ~jrnl[f].there => jrnl[f] = NoJrnl BY <1>0 DEF NameInv
    <3>2. Finalised(NoJrnl, mode, pb[f].ptr # None) = NoJrnl
      BY DEF Finalised, Emptied, NoJrnl, AllModes, None
    <3> QED BY <1>5, <3>1, <3>2
  <2>3. /\ jrnl'[f] \in Journals /\ ~Hot(jrnl'[f]) /\ jrnl'[f].ptr \in {None, jrnl[f].ptr}
        /\ Tail(jrnl'[f]) = None \/ (pb[f].ptr = None /\ Tail(jrnl'[f]) = Tail(jrnl[f]))
        /\ ~jrnl'[f].there => jrnl'[f] = NoJrnl \/ ~jrnl[f].there
    BY <1>5, <2>1
  <2> QED BY <1>8, <2>2, <2>3
<1>10. Beside(f)
  <2>1. \A g \in File \ {f} : Redo(jrnl[g])' <=> Redo(jrnl[g])
    BY <1>2, <1>5 DEF Redo, Named, Tail
  <2>2. \A g \in File : g = f => Content(g)' = Content(g)
    BY <1>2, <1>8, <1>9 DEF Content, Hot
  <2>3. \A g \in File \ {f} : Content(g)' = Content(g)
    BY <1>2, <1>5, <2>1 DEF Content, Hot
  <2>4. Redo(jrnl[f])' BY <1>9 DEF Redo, Named, Tail
  <2> QED BY <1>2, <1>5, <1>9, <2>1, <2>2, <2>3, <2>4 DEF Beside
<1>11. CASE ~(pb[f].ptr # None /\ pb[f].redo)
  <2>1. Returned(f, "reader") BY <1>11 DEF EndPlayback
  <2> QED BY <1>2, <1>9, <1>10, <2>1, TurnKeeps
<1>12. CASE pb[f].ptr # None /\ pb[f].redo
  <2>1. /\ lock' = IF lock[f] = "writer" THEN lock ELSE [lock EXCEPT ![f] = "reader"]
        /\ pc' = pc /\ inTrans' = inTrans /\ todo' = todo /\ master' = master
        /\ pb' = [pb EXCEPT ![f].at = "open"]
    BY <1>12 DEF EndPlayback, Go, Live
  <2>2. /\ \A g \in File \ {f} : pb'[g] = pb[g] /\ lock'[g] = lock[g]
        /\ pb'[f].at = "open" /\ pb'[f].ptr = pb[f].ptr
    BY <1>0, <1>1, <2>1 DEF TypeOK
  <2>3. PlayOK(f)' BY <1>2, <1>7, <1>12, <2>1, <2>2 DEF PlayOK
  <2> QED BY <1>2, <1>9, <1>10, <2>1, <2>2, <2>3, PlayKeeps
<1> QED BY <1>11, <1>12

(* A rollback fails: the file is left as it is, to be recovered. *)
LEMMA PlaybackErrorKeeps ==
  ASSUME IInv, TurnInv', NEW f \in File, PlaybackError(f)
  PROVE  Safe' /\ AbsStep
<1>0. /\ TypeOK /\ TurnInv /\ LockInv /\ NameInv /\ RedoInv /\ CommitInv /\ PlayInv
      /\ kind = "fault"
  BY DEF IInv, Safe
<1>1. /\ txn \in Nat /\ master \in Nat /\ todo \subseteq inTrans /\ inTrans \subseteq File
      /\ \A g \in File : jrnl[g].ptr \in Nat /\ pb[g].ptr \in Nat
      /\ DOMAIN db = File /\ DOMAIN jrnl = File /\ DOMAIN pb = File /\ DOMAIN lock = File
  BY <1>0, Shapes
<1>2. /\ pb[f] # Idle /\ jrnl' = jrnl /\ masters' = masters /\ list' = list
      /\ unsettled' = unsettled /\ txn' = txn /\ kind' = kind /\ Returned(f, "free")
  BY DEF PlaybackError
<1>3. /\ \A g \in File \ {f} : db'[g] = db[g]
      /\ db'[f] = db[f] \/ pb[f].at = "restore"
  BY <1>1 DEF PlaybackError, At
<1>4. pb[f].at = "restore" => Hot(jrnl[f]) /\ Redo(jrnl[f]) BY <1>0 DEF PlayInv, PlayOK
<1>5. \A g \in File : Redo(jrnl[g])' <=> Redo(jrnl[g]) BY <1>2 DEF Redo, Named, Tail
<1>6. \A g \in File : Hot(jrnl[g])' <=> Hot(jrnl[g]) BY <1>2 DEF Hot
<1>7. \A g \in File : g = f => Content(g)' = Content(g)
  BY <1>2, <1>3, <1>4, <1>5, <1>6 DEF Content
<1>8. \A g \in File \ {f} : Content(g)' = Content(g) BY <1>2, <1>3, <1>5, <1>6 DEF Content
<1>9. Beside(f)
  <2>1. ~Hot(jrnl'[f]) => Redo(jrnl[f])' BY <1>0, <1>2, <1>5 DEF RedoInv
  <2>2. jrnl[f].there \/ jrnl[f] = NoJrnl BY <1>0 DEF NameInv
  <2> QED BY <1>2, <1>3, <1>5, <1>7, <1>8, <2>1, <2>2 DEF Beside, Tail
<1> QED BY <1>2, <1>9, TurnKeeps

-----------------------------------------------------------------------------
(* Phase two of a commit. *)

(* The journal of one file is dealt with, and with the last one the commit is over. *)
LEMMA FileKeeps ==
  ASSUME IInv, TypeOK', TurnInv', pc = "finalise", FileDone(This),
         \A g \in File : g # This => jrnl'[g] = jrnl[g],
         db' = db, masters' = masters, list' = list, pb' = pb, txn' = txn, kind' = kind,
         \A g \in File : g = This =>
             /\ jrnl'[g] = jrnl[g] \/ (~Hot(jrnl'[g]) /\ (master # None => Tail(jrnl'[g]) = None))
             /\ jrnl'[g].ptr \in {None, jrnl[g].ptr}
             /\ jrnl'[g].there \/ jrnl'[g] = NoJrnl
             /\ Tail(jrnl'[g]) \in {None, Tail(jrnl[g])}
  PROVE  /\ Safe'
         /\ This \in inTrans /\ db[This] = txn /\ txn \in Txn
         /\ \A g \in File : Content(g)' = IF master = None /\ g = This /\ jrnl'[g] # jrnl[g]
                                          THEN txn ELSE Content(g)
         /\ master = None => inTrans' = {} /\ inTrans = {This}
         /\ inTrans' \in {inTrans, {}} /\ inTrans \subseteq File
<1>0. /\ TypeOK /\ TurnInv /\ LockInv /\ NameInv /\ RedoInv /\ CommitInv /\ PlayInv
      /\ kind = "fault"
  BY DEF IInv, Safe
<1>1. /\ txn \in Nat /\ master \in Nat /\ todo \subseteq inTrans /\ inTrans \subseteq File
      /\ \A g \in File : jrnl[g].ptr \in Nat /\ pb[g].ptr \in Nat
      /\ DOMAIN db = File /\ DOMAIN jrnl = File /\ DOMAIN pb = File /\ DOMAIN lock = File
  BY <1>0, Shapes
<1>2. This \in todo /\ This \in inTrans /\ This \in File
  <2>1. todo # {} BY <1>0 DEF TypeOK
  <2> QED BY <1>0, <2>1, ThisFile
<1>3. /\ \A g \in File : g = This => lock'[g] = "free"
      /\ \A g \in File : g # This => lock'[g] = lock[g]
      /\ todo' = todo \ {This}
  BY <1>1 DEF FileDone
<1>4. \/ todo = {This} /\ pc' = "write" /\ inTrans' = {} /\ master' = None
      \/ todo # {This} /\ pc' = "finalise" /\ inTrans' = inTrans /\ master' = master
  BY DEF FileDone
<1>5. master = None => todo = {This} /\ inTrans = {This} BY <1>0, <1>1, <1>2 DEF CommitInv
<1>6. Ready(This) BY <1>0, <1>2 DEF CommitInv
<1>7. master \notin masters \/ master = None BY <1>0 DEF CommitInv, Committed
<1>8. txn # None /\ master \in {None, txn} /\ txn \in Txn BY <1>0, <1>2 DEF NameInv, None, TypeOK
<1>9. \A g \in File : ~Pending(g)' BY <1>4, <1>5 DEF Pending, Committed
<1>10. \A g \in File : g # This => /\ Redo(jrnl[g])' <=> Redo(jrnl[g])
                                   /\ Hot(jrnl[g])' <=> Hot(jrnl[g])
                                   /\ Content(g)' = Content(g) /\ Tail(jrnl[g])' = Tail(jrnl[g])
  BY DEF Redo, Named, Tail, Hot, Content
<1>11. \A g \in File : g = This =>
           /\ ~Hot(jrnl'[g]) => Redo(jrnl[g])'
           /\ Content(g)' = IF master = None /\ jrnl'[g] # jrnl[g] THEN txn ELSE Content(g)
  <2> SUFFICES ASSUME NEW g \in File, g = This
               PROVE  /\ ~Hot(jrnl'[g]) => Redo(jrnl[g])'
                      /\ Content(g)' = IF master = None /\ jrnl'[g] # jrnl[g] THEN txn
                                                                              ELSE Content(g)
    OBVIOUS
  <2>1. Hot(jrnl[g]) /\ db[g] = txn /\ (master # None => Tail(jrnl[g]) = master)
    BY <1>6 DEF Ready
  <2>2. master = None => Redo(jrnl[g])
    BY <1>0, <1>2 DEF RedoInv, Pending, Committed
  <2>3. master # None => ~Redo(jrnl[g]) BY <1>7, <2>1 DEF Redo, Named
  <2>4. CASE jrnl'[g] = jrnl[g]
    BY <2>1, <2>4 DEF Content, Hot, Redo, Named, Tail
  <2>5. CASE ~Hot(jrnl'[g])
    <3>1. Content(g)' = txn BY <2>1, <2>5 DEF Content, Hot
    <3>2. Tail(jrnl'[g]) \in {None, Tail(jrnl[g])} OBVIOUS
    <3>3. ~Redo(jrnl[g]) => Content(g) = txn BY <2>1 DEF Content
    <3>4. jrnl'[g] # jrnl[g] BY <2>1, <2>5
    <3>5. master = None => Redo(jrnl[g])' BY <2>2, <3>2 DEF Redo, Named
    <3>6. master # None => Redo(jrnl[g])' BY <3>4 DEF Redo, Named
    <3> QED BY <2>3, <3>1, <3>3, <3>4, <3>5, <3>6
  <2> QED BY <2>4, <2>5
<1>12. LockInv' BY <1>0, <1>3 DEF LockInv, Hot
<1>13. NameInv'
  <2>1. \A g \in File : jrnl'[g].ptr \in {None, jrnl[g].ptr} /\ (jrnl'[g].there \/ jrnl'[g] = NoJrnl)
    BY <1>0 DEF NameInv
  <2> QED BY <1>0, <1>1, <1>4, <1>8, <2>1 DEF NameInv, None
<1>14. RedoInv'
  <2>1. \A g \in File : ~Hot(jrnl[g])' => Redo(jrnl[g])'
    BY <1>0, <1>10, <1>11 DEF RedoInv, Hot
  <2>2. \A g \in File : Content(g)' \in Txn BY <1>0, <1>8, <1>10, <1>11 DEF RedoInv
  <2>3. Txn' = Txn BY DEF Txn
  <2> QED BY <1>9, <2>1, <2>2, <2>3 DEF RedoInv
<1>15. CommitInv'
  <2>1. CASE pc' = "write" BY <2>1 DEF CommitInv, Committed
  <2>2. CASE pc' = "finalise"
    <3>1. master # None /\ master' = master /\ inTrans' = inTrans BY <1>4, <1>5, <2>2
    <3>2. \A g \in todo' : Ready(g)'
      BY <1>0, <1>1, <1>3, <1>10, <3>1 DEF CommitInv, Ready
    <3> QED BY <1>7, <2>2, <3>1, <3>2 DEF CommitInv, Committed, None
  <2> QED BY <1>4, <2>1, <2>2
<1>16. PlayInv'
  <2> SUFFICES ASSUME NEW g \in File PROVE PlayOK(g)' BY DEF PlayInv
  <2>1. PlayOK(g) BY <1>0 DEF PlayInv
  <2>2. \A h \in File : Tail(jrnl'[h]) \in {None, Tail(jrnl[h])} BY <1>10
  <2>3. CASE g = This
    <3>1. lock[g] = "writer" BY <1>0, <1>2, <2>3 DEF TurnInv, Mine
    <3>2. pb'[g] = Idle BY <1>0, <3>1 DEF TurnInv
    <3> QED BY <1>4, <1>8, <1>0, <3>2, <2>1 DEF PlayOK, Idle, None
  <2>4. CASE g # This
    BY <1>4, <1>10, <2>1, <2>2, <2>4 DEF PlayOK
  <2> QED BY <2>3, <2>4
<1>17. \A g \in File : Content(g)' = IF master = None /\ g = This /\ jrnl'[g] # jrnl[g]
                                     THEN txn ELSE Content(g)
  BY <1>10, <1>11
<1> QED
  BY <1>0, <1>1, <1>2, <1>4, <1>5, <1>6, <1>8, <1>12, <1>13, <1>14, <1>15, <1>16, <1>17
  DEF Safe, Ready

(* The journal of a file that has been committed is finalised: with one file, this is
   the commit. *)
LEMMA FinaliseKeeps ==
  ASSUME IInv, TypeOK', TurnInv', NEW mode \in CommitModes, Finalise(mode)
  PROVE  Safe' /\ AbsStep
<1>0. /\ TypeOK /\ TurnInv /\ LockInv /\ NameInv /\ RedoInv /\ CommitInv /\ PlayInv
      /\ kind = "fault"
  BY DEF IInv, Safe
<1>1. /\ txn \in Nat /\ master \in Nat /\ todo \subseteq inTrans /\ inTrans \subseteq File
      /\ \A g \in File : jrnl[g].ptr \in Nat /\ pb[g].ptr \in Nat
      /\ DOMAIN db = File /\ DOMAIN jrnl = File /\ DOMAIN pb = File /\ DOMAIN lock = File
  BY <1>0, Shapes
<1>2. /\ pc = "finalise" /\ FileDone(This) /\ db' = db /\ masters' = masters /\ list' = list
      /\ pb' = pb /\ txn' = txn /\ kind' = kind
  BY DEF Finalise
<1>3. This \in todo /\ This \in inTrans /\ This \in File BY <1>0, <1>2, ThisFile DEF TypeOK
<1>4. /\ \A g \in File : g # This => jrnl'[g] = jrnl[g]
      /\ \A g \in File : g = This => jrnl'[g] = Finalised(jrnl[g], mode, master # None)
  BY <1>1, <1>3 DEF Finalise, WriteJrnl, SyncedJrnl
<1>5. \A g \in File : g = This =>
          /\ ~Hot(jrnl'[g]) /\ (master # None => Tail(jrnl'[g]) = None)
          /\ jrnl'[g].ptr \in {None, jrnl[g].ptr}
          /\ jrnl'[g].there \/ jrnl'[g] = NoJrnl
          /\ Tail(jrnl'[g]) \in {None, Tail(jrnl[g])}
          /\ Hot(jrnl[g])
  <2> SUFFICES ASSUME NEW g \in File, g = This
               PROVE  /\ ~Hot(jrnl'[g]) /\ (master # None => Tail(jrnl'[g]) = None)
                      /\ jrnl'[g].ptr \in {None, jrnl[g].ptr}
                      /\ jrnl'[g].there \/ jrnl'[g] = NoJrnl
                      /\ Tail(jrnl'[g]) \in {None, Tail(jrnl[g])}
                      /\ Hot(jrnl[g])
    OBVIOUS
  <2>1. jrnl[g] \in Journals /\ jrnl[g].at <= jrnl[g].len BY <1>0, Shapes
  <2>2. mode \in AllModes BY MasterAssumption
  <2>4. LET k == Finalised(jrnl[g], mode, master # None) IN
        /\ ~Hot(k) /\ k.ptr \in {None, jrnl[g].ptr}
        /\ Tail(k) = None \/ (master = None /\ Tail(k) = Tail(jrnl[g]))
        /\ ~k.there => k = NoJrnl \/ ~jrnl[g].there
    BY <1>1, <2>1, <2>2, FinalisedView
  <2>5. Hot(jrnl[g]) BY <1>0, <1>2, <1>3 DEF CommitInv, Ready
  <2> QED BY <1>4, <2>4, <2>5 DEF Hot
<1>6. /\ Safe'
      /\ db[This] = txn /\ txn \in Txn
      /\ \A g \in File : Content(g)' = IF master = None /\ g = This /\ jrnl'[g] # jrnl[g]
                                        THEN txn ELSE Content(g)
      /\ master = None => inTrans' = {} /\ inTrans = {This}
      /\ inTrans' \in {inTrans, {}} /\ inTrans \subseteq File
  BY <1>2, <1>4, <1>5, FileKeeps
<1>7. \A g \in File : g = This => jrnl'[g] # jrnl[g] BY <1>5
<1>8. CASE master # None
  <2>1. unsettled' = unsettled BY <1>8 DEF Finalise
  <2> QED BY <1>6, <1>8, <2>1, Ends
<1>9. CASE master = None
  <2>1. \A g \in File : Content(g)' = IF g \in inTrans THEN txn ELSE Content(g)
    BY <1>6, <1>7, <1>9
  <2>2. \/ unsettled' = unsettled
        \/ unsettled' = unsettled \cup {[g \in inTrans |-> Content(g)]}
    BY <1>9 DEF Finalise
  <2>3. \A u \in unsettled : DOMAIN u \cap inTrans = {}
    BY <1>0, <1>2, <1>3, <1>5, <1>6, <1>9 DEF RedoInv, Pending, Committed
  <2> QED BY <1>6, <2>1, <2>2, <2>3, Commits
<1> QED BY <1>6, <1>8, <1>9

(* A journal that cannot be finalised stays behind, and a recovery settles the file. *)
LEMMA FinaliseErrorKeeps ==
  ASSUME IInv, TypeOK', TurnInv', FinaliseError
  PROVE  Safe' /\ AbsStep
<1>0. /\ TypeOK /\ TurnInv /\ LockInv /\ NameInv /\ RedoInv /\ CommitInv /\ PlayInv
      /\ kind = "fault"
  BY DEF IInv, Safe
<1>1. /\ txn \in Nat /\ master \in Nat /\ todo \subseteq inTrans /\ inTrans \subseteq File
      /\ \A g \in File : jrnl[g].ptr \in Nat /\ pb[g].ptr \in Nat
      /\ DOMAIN db = File /\ DOMAIN jrnl = File /\ DOMAIN pb = File /\ DOMAIN lock = File
  BY <1>0, Shapes
<1>2. /\ pc = "finalise" /\ FileDone(This) /\ db' = db /\ jrnl' = jrnl /\ masters' = masters
      /\ list' = list /\ pb' = pb /\ txn' = txn /\ kind' = kind /\ unsettled' = unsettled
  BY DEF FinaliseError
<1>3. \A g \in File : jrnl[g].there \/ jrnl[g] = NoJrnl BY <1>0 DEF NameInv
<1>4. /\ Safe'
      /\ \A g \in File : Content(g)' = IF master = None /\ g = This /\ jrnl'[g] # jrnl[g]
                                        THEN txn ELSE Content(g)
      /\ inTrans' \in {inTrans, {}}
  BY <1>2, <1>3, FileKeeps
<1>5. \A g \in File : Content(g)' = Content(g) BY <1>2, <1>4
<1> QED BY <1>2, <1>4, <1>5, Ends

-----------------------------------------------------------------------------
(* A transaction takes in files. *)

(* A file joins the transaction: it has no hot journal, and gets a new one that calls
   for no rollback. *)
LEMMA OpenKeeps ==
  ASSUME IInv, TypeOK', TurnInv', NEW f \in File, NEW n \in 1 .. MaxRec, Open(f, n)
  PROVE  Safe' /\ AbsStep
<1>0. /\ TypeOK /\ TurnInv /\ LockInv /\ NameInv /\ RedoInv /\ CommitInv /\ PlayInv
      /\ kind = "fault"
  BY DEF IInv, Safe
<1>1. /\ txn \in Nat /\ master \in Nat /\ todo \subseteq inTrans /\ inTrans \subseteq File
      /\ \A g \in File : jrnl[g].ptr \in Nat /\ pb[g].ptr \in Nat
      /\ DOMAIN db = File /\ DOMAIN jrnl = File /\ DOMAIN pb = File /\ DOMAIN lock = File
  BY <1>0, Shapes
<1>2. /\ pc = "write" /\ f \notin inTrans
      /\ lock[f] = "reader" \/ (lock[f] = "free" /\ ~Hot(jrnl[f]))
      /\ txn' = IF inTrans = {} THEN txn + 1 ELSE txn
      /\ inTrans' = inTrans \cup {f}
      /\ db' = db /\ masters' = masters /\ list' = list /\ pc' = pc /\ todo' = todo
      /\ master' = master /\ pb' = pb /\ unsettled' = unsettled /\ kind' = kind
  BY DEF Open, WriteJrnl
<1>3. /\ \A g \in File \ {f} : jrnl'[g] = jrnl[g] /\ lock'[g] = lock[g]
      /\ jrnl'[f] = Opened(jrnl[f], n, db[f])
  BY <1>1 DEF Open, WriteJrnl
<1>4. ~Hot(jrnl[f]) BY <1>0, <1>2 DEF LockInv
<1>5. Content(f) = db[f] /\ db[f] \in Txn
  <2>1. Content(f) = db[f] BY <1>4 DEF Content
  <2> QED BY <1>0, <2>1 DEF RedoInv
<1>6. /\ jrnl'[f].there = TRUE /\ ~Hot(jrnl'[f]) /\ jrnl'[f].orig = db[f]
      /\ jrnl'[f].ptr \in {None, jrnl[f].ptr} /\ Tail(jrnl'[f]) \in {None, Tail(jrnl[f])}
  <2>1. jrnl[f] \in Journals /\ jrnl[f].at <= jrnl[f].len BY <1>0, Shapes
  <2>2. LET k == Opened(jrnl[f], n, db[f]) IN
        /\ k.there = TRUE /\ ~Hot(k) /\ k.orig = db[f]
        /\ k.ptr \in {None, jrnl[f].ptr}
        /\ jrnl[f].there => Tail(k) \in {None, Tail(jrnl[f])}
    BY <1>5, <2>1, OpenedView DEF Opened
  <2>3. ~jrnl[f].there => Tail(Opened(jrnl[f], n, db[f])) = None
    <3>1. ~jrnl[f].there => jrnl[f] = NoJrnl BY <1>0 DEF NameInv
    <3>2. MaxRec \in Nat BY MasterAssumption
    <3>3. Tail(Opened(NoJrnl, n, db[f])) = None BY <3>2 DEF Opened, NoJrnl, Tail, None
    <3> QED BY <3>1, <3>3
  <2> QED BY <1>3, <2>2, <2>3
<1>7. master = None /\ (inTrans # {} => txn # None) BY <1>0, <1>2 DEF NameInv, None
<1>8. \A g \in File \ {f} : /\ Redo(jrnl[g])' <=> Redo(jrnl[g])
                            /\ Content(g)' = Content(g)
  BY <1>2, <1>3 DEF Redo, Named, Tail, Content, Hot
<1>9. \A g \in File : g = f => Redo(jrnl[g])' /\ Content(g)' = Content(g)
  <2>1. Redo(jrnl[f]) BY <1>0, <1>4 DEF RedoInv
  <2>2. \A g \in File : g = f => Redo(jrnl[g])' BY <1>2, <1>6, <2>1 DEF Redo, Named
  <2>3. \A g \in File : g = f => Content(g)' = Content(g)
    BY <1>2, <1>5, <1>6 DEF Content, Hot
  <2> QED BY <2>2, <2>3
<1>10. LockInv' BY <1>0, <1>2, <1>3, <1>6 DEF LockInv, Hot
<1>11. NameInv'
  <2>1. \A g \in File : jrnl'[g].ptr \in {None, jrnl[g].ptr} /\ (jrnl'[g].there \/ jrnl'[g] = NoJrnl)
    BY <1>0, <1>3, <1>6 DEF NameInv
  <2>2. CASE inTrans = {}
    <3>1. txn' = txn + 1 BY <1>2, <2>2
    <3>2. masters \subseteq 1 .. txn + 1 /\ txn + 1 \notin masters /\ txn + 1 # 0
      BY <1>0, <1>1 DEF NameInv
    <3>3. \A g \in File : jrnl'[g].ptr <= txn /\ jrnl'[g].ptr # txn + 1
      BY <1>0, <1>1, <2>1 DEF NameInv, None
    <3>4. \A g \in File : jrnl'[g].ptr <= txn + 1 BY <1>1, <2>1, <3>3 DEF None
    <3>5. \A g \in File : jrnl'[g].ptr # None => g \in list[jrnl'[g].ptr]
      BY <1>0, <2>1 DEF NameInv
    <3> QED BY <1>2, <1>7, <2>1, <3>1, <3>2, <3>3, <3>4, <3>5 DEF NameInv, None
  <2>3. CASE inTrans # {}
    <3>1. txn' = txn BY <1>2, <2>3
    <3>2. txn \notin masters /\ \A g \in File : jrnl[g].ptr # txn
      BY <1>0, <1>7, <2>3 DEF NameInv, None
    <3> QED BY <1>0, <1>1, <1>2, <1>7, <2>1, <2>3, <3>1, <3>2 DEF NameInv, None
  <2> QED BY <2>2, <2>3
<1>12. RedoInv'
  <2>1. \A g \in File \ {f} : Pending(g)' <=> Pending(g)
    BY <1>2 DEF Pending, Committed
  <2>2. \A g \in File \ {f} : Hot(jrnl[g])' <=> Hot(jrnl[g]) BY <1>3 DEF Hot
  <2>3. \A g \in File : ~Hot(jrnl[g])' => Redo(jrnl[g])'
    BY <1>0, <1>8, <1>9, <2>2 DEF RedoInv
  <2>4. \A g \in File : Pending(g)' => Redo(jrnl[g])'
    BY <1>0, <1>8, <1>9, <2>1 DEF RedoInv
  <2>5. \A g \in File : (Pending(g)' /\ ~Hot(jrnl[g])') => jrnl'[g].there /\ jrnl'[g].orig = db'[g]
    BY <1>0, <1>2, <1>3, <1>6, <2>1, <2>2 DEF RedoInv
  <2>6. \A g \in File : (Pending(g)' /\ Hot(jrnl[g])') => \A u \in unsettled' : g \notin DOMAIN u
    BY <1>0, <1>2, <1>6, <2>1, <2>2 DEF RedoInv, Hot
  <2>7. \A g \in File : Content(g)' \in Txn BY <1>0, <1>8, <1>9 DEF RedoInv
  <2> QED BY <2>3, <2>4, <2>5, <2>6, <2>7 DEF RedoInv, Txn
<1>13. CommitInv' BY <1>2 DEF CommitInv, Committed
<1>14. PlayInv'
  <2> SUFFICES ASSUME NEW g \in File PROVE PlayOK(g)' BY DEF PlayInv
  <2>1. PlayOK(g) BY <1>0 DEF PlayInv
  <2>2. pb'[g] = pb[g] BY <1>2
  <2>3. pb[g].ptr <= txn' /\ pb[g].ptr # txn'
    <3>1. CASE inTrans = {} BY <1>1, <1>2, <2>1, <3>1 DEF PlayOK
    <3>2. CASE inTrans # {} BY <1>1, <1>2, <2>1, <3>2 DEF PlayOK
    <3> QED BY <3>1, <3>2
  <2>4. \A h \in File : Tail(jrnl'[h]) \in {None, Tail(jrnl[h])} BY <1>3, <1>6
  <2>5. pb[g].at = "child" => \A h \in File : Tail(jrnl'[h]) = pb[g].ptr => h \in pb[g].left
    BY <2>1, <2>4 DEF PlayOK
  <2>6. CASE g = f
    <3>1. pb[f] = Idle \/ pb[f].at \in {"open", "child"} BY <1>0, <1>2 DEF TurnInv
    <3>2. pb[f].at \notin {"restore", "syncDb", "end"} BY <3>1 DEF Idle
    <3> QED BY <2>1, <2>2, <2>3, <2>5, <2>6, <3>2 DEF PlayOK
  <2>7. CASE g # f
    <3>1. jrnl'[g] = jrnl[g] /\ (Redo(jrnl[g])' <=> Redo(jrnl[g])) BY <1>3, <1>8, <2>7
    <3> QED BY <1>2, <2>1, <2>2, <2>3, <2>5, <3>1 DEF PlayOK, Hot, Tail
  <2> QED BY <2>6, <2>7
<1>15. AbsStep BY <1>2, <1>8, <1>9, Joins
<1> QED BY <1>0, <1>2, <1>10, <1>11, <1>12, <1>13, <1>14, <1>15 DEF Safe

(* Pages are written to the file before the commit; the journal is synced first. *)
LEMMA SpillKeeps ==
  ASSUME IInv, TypeOK', TurnInv', NEW f \in File, Spill(f)
  PROVE  Safe' /\ AbsStep
<1>0. /\ TypeOK /\ TurnInv /\ LockInv /\ NameInv /\ RedoInv /\ CommitInv /\ PlayInv
      /\ kind = "fault"
  BY DEF IInv, Safe
<1>1. /\ txn \in Nat /\ master \in Nat /\ todo \subseteq inTrans /\ inTrans \subseteq File
      /\ \A g \in File : jrnl[g].ptr \in Nat /\ pb[g].ptr \in Nat
      /\ DOMAIN db = File /\ DOMAIN jrnl = File /\ DOMAIN pb = File /\ DOMAIN lock = File
  BY <1>0, Shapes
<1>2. /\ pc = "write" /\ f \in inTrans /\ ~jrnl[f].hot
      /\ unsettled' = {u \in unsettled : f \notin DOMAIN u}
      /\ masters' = masters /\ list' = list /\ lock' = lock /\ pc' = pc /\ inTrans' = inTrans
      /\ todo' = todo /\ master' = master /\ pb' = pb /\ txn' = txn /\ kind' = kind
  BY DEF Spill, SyncedJrnl, SettledBy, WriteDb
<1>3. \A g \in File \ {f} : jrnl'[g] = jrnl[g] /\ db'[g] = db[g]
  BY <1>1 DEF Spill, SyncedJrnl, WriteDb
<1>4. /\ jrnl'[f].hot = TRUE /\ jrnl'[f].there = jrnl[f].there
      /\ jrnl'[f].orig = jrnl[f].orig /\ jrnl'[f].ptr = jrnl[f].ptr
      /\ jrnl'[f].at = jrnl[f].at /\ jrnl'[f].len = jrnl[f].len
  BY <1>0, <1>1 DEF Spill, SyncedJrnl, TypeOK, Journals
<1>5. Pending(f) BY <1>2 DEF Pending, Committed
<1>6. jrnl[f].there /\ jrnl[f].orig = db[f] /\ Redo(jrnl[f])
  BY <1>0, <1>2, <1>5 DEF RedoInv, Hot
<1>7. \A g \in File : /\ Redo(jrnl[g])' <=> Redo(jrnl[g])
                      /\ Tail(jrnl[g])' = Tail(jrnl[g])
  <2>1. \A g \in File : g = f => /\ Redo(jrnl[g])' <=> Redo(jrnl[g])
                                 /\ Tail(jrnl[g])' = Tail(jrnl[g])
    BY <1>2, <1>4 DEF Redo, Named, Tail
  <2>2. \A g \in File \ {f} : /\ Redo(jrnl[g])' <=> Redo(jrnl[g])
                              /\ Tail(jrnl[g])' = Tail(jrnl[g])
    BY <1>2, <1>3 DEF Redo, Named, Tail
  <2> QED BY <2>1, <2>2
<1>8. \A g \in File : g = f => Content(g)' = Content(g) /\ Hot(jrnl[g])'
  BY <1>2, <1>4, <1>6, <1>7 DEF Content, Hot
<1>9. \A g \in File \ {f} : Content(g)' = Content(g) /\ (Hot(jrnl[g])' <=> Hot(jrnl[g]))
  BY <1>3, <1>7 DEF Content, Hot
<1>10. lock[f] = "writer" /\ pb[f] = Idle
  BY <1>0, <1>2 DEF TurnInv, Spill
<1>11. LockInv' BY <1>0, <1>2, <1>9, <1>10 DEF LockInv
<1>12. NameInv'
  <2>1. \A g \in File : jrnl'[g].ptr = jrnl[g].ptr /\ (jrnl'[g].there \/ jrnl'[g] = NoJrnl)
    BY <1>0, <1>3, <1>4, <1>6 DEF NameInv
  <2> QED BY <1>0, <1>2, <2>1 DEF NameInv
<1>13. RedoInv'
  <2>1. \A g \in File : Pending(g)' <=> Pending(g) BY <1>2 DEF Pending, Committed
  <2>2. Txn' = Txn BY DEF Txn
  <2> QED BY <1>0, <1>2, <1>3, <1>7, <1>8, <1>9, <2>1, <2>2 DEF RedoInv
<1>14. CommitInv' BY <1>2 DEF CommitInv, Committed
<1>15. PlayInv'
  <2> SUFFICES ASSUME NEW g \in File PROVE PlayOK(g)' BY DEF PlayInv
  <2>1. PlayOK(g) BY <1>0 DEF PlayInv
  <2>2. (inTrans # {} /\ pb[g].ptr = txn) => FALSE BY <1>2, <2>1 DEF PlayOK
  <2>3. CASE g = f BY <1>1, <1>2, <1>10, <2>1, <2>2, <2>3 DEF PlayOK, Idle
  <2>4. CASE g # f BY <1>2, <1>3, <1>7, <1>9, <2>1, <2>4 DEF PlayOK
  <2> QED BY <2>3, <2>4
<1>16. AbsStep BY <1>2, <1>8, <1>9, Settles
<1> QED BY <1>0, <1>2, <1>11, <1>12, <1>13, <1>14, <1>15, <1>16 DEF Safe

(* A rollback of a file starts, by its writer or by whoever finds its journal hot. *)
LEMMA PlaybackKeeps ==
  ASSUME IInv, TypeOK', TurnInv', NEW f \in File, Playback(f)
  PROVE  Safe' /\ AbsStep
<1>0. /\ TypeOK /\ TurnInv /\ LockInv /\ NameInv /\ RedoInv /\ CommitInv /\ PlayInv
      /\ kind = "fault"
  BY DEF IInv, Safe
<1>1. /\ txn \in Nat /\ master \in Nat /\ todo \subseteq inTrans /\ inTrans \subseteq File
      /\ \A g \in File : jrnl[g].ptr \in Nat /\ pb[g].ptr \in Nat
      /\ DOMAIN db = File /\ DOMAIN jrnl = File /\ DOMAIN pb = File /\ DOMAIN lock = File
  BY <1>0, Shapes
<1>2. /\ pb[f] = Idle
      /\ \/ pc = "rollback" /\ lock' = lock
         \/ lock[f] = "free" /\ lock' = [lock EXCEPT ![f] = "recoverer"]
      /\ db' = db /\ jrnl' = jrnl /\ masters' = masters /\ list' = list /\ pc' = pc
      /\ inTrans' = inTrans /\ todo' = todo /\ master' = master
      /\ unsettled' = unsettled /\ txn' = txn /\ kind' = kind
  BY DEF Playback
<1>3. /\ \A g \in File \ {f} : pb'[g] = pb[g] /\ lock'[g] = lock[g]
      /\ pb'[f].at = IF Redo(jrnl[f]) /\ Hot(jrnl[f]) THEN "restore" ELSE "end"
      /\ pb'[f].redo <=> Redo(jrnl[f])
      /\ pb'[f].ptr = Tail(jrnl[f])
  BY <1>1, <1>2 DEF Playback, Idle
<1>4. \A g \in File : /\ Redo(jrnl[g])' <=> Redo(jrnl[g])
                      /\ Hot(jrnl[g])' <=> Hot(jrnl[g])
                      /\ Tail(jrnl[g])' = Tail(jrnl[g]) /\ Content(g)' = Content(g)
  BY <1>2 DEF Redo, Named, Tail, Hot, Content
<1>5. LockInv'
  <2>1. \A g \in File : lock'[g] \in {"reader", "joined"} => lock'[g] = lock[g]
    BY <1>1, <1>2, <1>3
  <2> QED BY <1>0, <1>4, <2>1 DEF LockInv
<1>6. NameInv' BY <1>0, <1>2 DEF NameInv
<1>7. RedoInv'
  <2>1. \A g \in File : Pending(g)' <=> Pending(g) BY <1>2 DEF Pending, Committed
  <2>2. Txn' = Txn BY DEF Txn
  <2> QED BY <1>0, <1>2, <1>4, <2>1, <2>2 DEF RedoInv
<1>8. CommitInv'
  BY <1>0, <1>2 DEF CommitInv, Committed, Ready, Hot, Tail, This
<1>9. PlayInv'
  <2> SUFFICES ASSUME NEW g \in File PROVE PlayOK(g)' BY DEF PlayInv
  <2>1. PlayOK(g) BY <1>0 DEF PlayInv
  <2>2. CASE g = f
    <3>1. Tail(jrnl[f]) \in {None, jrnl[f].ptr} BY DEF Tail
    <3>2. Tail(jrnl[f]) <= txn BY <1>0, <1>1, <3>1 DEF NameInv, None
    <3>3. ASSUME inTrans # {}, Tail(jrnl[f]) = txn PROVE pc \in {"finalise", "rollback"}
      <4>1. txn # None BY <1>0, <3>3 DEF NameInv, None
      <4>2. f \in inTrans BY <1>0, <3>1, <3>3, <4>1 DEF NameInv
      <4>3. f \in Mine => lock[f] \in {"writer", "joined"} BY <1>0 DEF TurnInv
      <4> QED BY <1>2, <4>2, <4>3 DEF Mine
    <3> QED BY <1>2, <1>3, <1>4, <2>2, <3>2, <3>3 DEF PlayOK
  <2>3. CASE g # f BY <1>2, <1>3, <1>4, <2>1, <2>3 DEF PlayOK
  <2> QED BY <2>2, <2>3
<1>10. AbsStep BY <1>2, <1>4, Stutters
<1> QED BY <1>0, <1>2, <1>5, <1>6, <1>7, <1>8, <1>9, <1>10 DEF Safe

(* A lock that no transaction needs is let go, by its holder's will or by its death. *)
LEMMA LetsGo ==
  ASSUME IInv, TurnInv', NEW f \in File, NEW to \in {"free", "writer"},
         lock' = [lock EXCEPT ![f] = to], pb' = pb \/ pb' = [pb EXCEPT ![f] = Idle],
         db' = db, jrnl' = jrnl, masters' = masters, list' = list, pc' = pc,
         inTrans' = inTrans, todo' = todo, master' = master,
         unsettled' = unsettled, txn' = txn, kind' = kind
  PROVE  Safe' /\ AbsStep
<1>0. /\ TypeOK /\ TurnInv /\ LockInv /\ NameInv /\ RedoInv /\ CommitInv /\ PlayInv
      /\ kind = "fault"
  BY DEF IInv, Safe
<1>1. /\ txn \in Nat /\ master \in Nat /\ todo \subseteq inTrans /\ inTrans \subseteq File
      /\ \A g \in File : jrnl[g].ptr \in Nat /\ pb[g].ptr \in Nat
      /\ DOMAIN db = File /\ DOMAIN jrnl = File /\ DOMAIN pb = File /\ DOMAIN lock = File
  BY <1>0, Shapes
<1>3. /\ \A g \in File \ {f} : pb'[g] = pb[g] /\ lock'[g] = lock[g]
      /\ pb'[f] = pb[f] \/ pb'[f] = Idle
      /\ lock'[f] = to
  BY <1>1
<1>5. \A g \in File : /\ Redo(jrnl[g])' <=> Redo(jrnl[g])
                      /\ Hot(jrnl[g])' <=> Hot(jrnl[g])
                      /\ Tail(jrnl[g])' = Tail(jrnl[g]) /\ Content(g)' = Content(g)
  BY DEF Redo, Named, Tail, Hot, Content
<1>6. LockInv' BY <1>0, <1>3, <1>5 DEF LockInv
<1>7. NameInv' BY <1>0 DEF NameInv
<1>8. RedoInv'
  <2>1. \A g \in File : Pending(g)' <=> Pending(g) BY DEF Pending, Committed
  <2>2. Txn' = Txn BY DEF Txn
  <2> QED BY <1>0, <1>5, <2>1, <2>2 DEF RedoInv
<1>9. CommitInv'
  BY <1>0 DEF CommitInv, Committed, Ready, Hot, Tail, This
<1>10. PlayInv'
  <2> SUFFICES ASSUME NEW g \in File PROVE PlayOK(g)' BY DEF PlayInv
  <2>1. PlayOK(g) BY <1>0 DEF PlayInv
  <2>2. CASE pb'[g] = pb[g] BY <1>5, <2>1, <2>2 DEF PlayOK
  <2>3. CASE pb'[g] = Idle
    <3>1. inTrans # {} => txn # None BY <1>0 DEF NameInv, None
    <3> QED BY <1>1, <2>3, <3>1 DEF PlayOK, Idle, None
  <2> QED BY <1>3, <2>2, <2>3
<1>11. AbsStep BY <1>5, Stutters
<1> QED BY <1>0, <1>6, <1>7, <1>8, <1>9, <1>10, <1>11 DEF Safe

(* A reader is done. *)
LEMMA EndReadKeeps ==
  ASSUME IInv, TurnInv', NEW f \in File, EndRead(f) PROVE Safe' /\ AbsStep
BY LetsGo DEF EndRead

(* Who recovers or reads a file dies. *)
LEMMA RecovererDiesKeeps ==
  ASSUME IInv, TurnInv', NEW f \in File, RecovererDies(f) PROVE Safe' /\ AbsStep
<1>1. (IF lock[f] = "joined" THEN "writer" ELSE "free") \in {"free", "writer"} OBVIOUS
<1>2. lock' = [lock EXCEPT ![f] = IF lock[f] = "joined" THEN "writer" ELSE "free"]
  BY DEF RecovererDies
<1> QED BY <1>1, <1>2, LetsGo DEF RecovererDies

(* A commit fails half-way: its journals restore every file, as long as the master
   journal is there or no journal names it. *)
LEMMA CommitErrorKeeps ==
  ASSUME IInv, TypeOK', TurnInv', CommitError
  PROVE  Safe' /\ AbsStep
<1>0. /\ TypeOK /\ TurnInv /\ LockInv /\ NameInv /\ RedoInv /\ CommitInv /\ PlayInv
      /\ kind = "fault"
  BY DEF IInv, Safe
<1>1. /\ txn \in Nat /\ master \in Nat /\ todo \subseteq inTrans /\ inTrans \subseteq File
      /\ \A g \in File : jrnl[g].ptr \in Nat /\ pb[g].ptr \in Nat
      /\ DOMAIN db = File /\ DOMAIN jrnl = File /\ DOMAIN pb = File /\ DOMAIN lock = File
  BY <1>0, Shapes
<1>2. /\ pc \in CommitSteps \cup {"create", "syncMaster"} /\ pc' = "rollback"
      /\ todo' = inTrans /\ inTrans' = inTrans /\ master' = master
      /\ list' = list /\ lock' = lock /\ pb' = pb
      /\ unsettled' = unsettled /\ txn' = txn /\ kind' = kind
      /\ masters' = IF pc = "syncMaster" THEN masters \ {master} ELSE masters
  BY DEF CommitError
<1>3. This \in todo /\ This \in inTrans /\ This \in File
  <2>1. todo # {} BY <1>0, <1>2 DEF TypeOK, CommitSteps
  <2> QED BY <1>0, <2>1, ThisFile
<1>4. /\ \A g \in File : g # This => db'[g] = db[g] /\ jrnl'[g] = jrnl[g]
      /\ \A g \in File : g = This =>
           /\ jrnl'[g].there = jrnl[g].there /\ jrnl'[g].hot = jrnl[g].hot
           /\ jrnl'[g].orig = jrnl[g].orig
           /\ \/ jrnl'[g] = jrnl[g]
              \/ pc = "ptr" /\ jrnl'[g].ptr = None /\ db'[g] = db[g]
           /\ db'[g] = db[g] \/ (pc = "writeDb" /\ jrnl'[g] = jrnl[g])
  BY <1>0, <1>1, <1>3 DEF CommitError, TypeOK, Journals
<1>5. \A g \in File : Hot(jrnl[g])' <=> Hot(jrnl[g]) BY <1>4 DEF Hot
<1>6. txn # None /\ master \in {None, txn} /\ (pc = "syncMaster" => master = txn)
  BY <1>0, <1>3 DEF NameInv, None
<1>7. \A g \in File : Tail(jrnl'[g]) = Tail(jrnl[g]) \/ (g = This /\ pc = "ptr" /\ Tail(jrnl'[g]) = None)
  BY <1>4 DEF Tail
<1>8. \A g \in File : pc = "syncMaster" => Tail(jrnl[g]) # master
  BY <1>0, <1>3, <1>6 DEF NameInv, Tail
<1>9. \A g \in File : g = This /\ pc \in {"ptr", "writeDb"} => Redo(jrnl[g])
  BY <1>0, <1>3 DEF RedoInv, Pending, Committed
<1>10. \A g \in File : Redo(jrnl[g])' <=> Redo(jrnl[g])
  BY <1>2, <1>7, <1>8, <1>9 DEF Redo, Named
<1>11. \A g \in File : Content(g)' = Content(g)
  <2>1. \A g \in File : g # This => Content(g)' = Content(g)
    BY <1>4, <1>5, <1>10 DEF Content
  <2>2. \A g \in File : g = This => Content(g)' = Content(g)
    <3> SUFFICES ASSUME NEW g \in File, g = This PROVE Content(g)' = Content(g) OBVIOUS
    <3>1. CASE db'[g] = db[g] BY <1>4, <1>5, <1>10, <3>1 DEF Content
    <3>2. CASE pc = "writeDb" /\ jrnl'[g] = jrnl[g]
      <4>1. Hot(jrnl[g]) BY <1>0, <3>2 DEF CommitInv
      <4> QED BY <1>5, <1>9, <1>10, <3>2, <4>1 DEF Content
    <3> QED BY <1>4, <3>1, <3>2
  <2> QED BY <2>1, <2>2
<1>12. LockInv' BY <1>0, <1>2, <1>5 DEF LockInv
<1>13. NameInv'
  <2>1. \A g \in File : jrnl'[g].ptr \in {None, jrnl[g].ptr} /\ (jrnl'[g].there \/ jrnl'[g] = NoJrnl)
    <3>1. \A g \in File : g = This /\ pc = "ptr" => jrnl[g].there
      BY <1>0, <1>3 DEF RedoInv, Pending, Committed, Hot
    <3> QED BY <1>0, <1>4, <3>1 DEF NameInv
  <2>2. inTrans # {} BY <1>3
  <2> QED BY <1>0, <1>1, <1>2, <1>6, <2>1, <2>2 DEF NameInv, None
<1>14. RedoInv'
  <2>1. \A g \in File : ~Pending(g)' BY <1>2 DEF Pending
  <2>2. Txn' = Txn BY DEF Txn
  <2> QED BY <1>0, <1>5, <1>10, <1>11, <2>1, <2>2 DEF RedoInv
<1>15. CommitInv' BY <1>2 DEF CommitInv, Committed
<1>16. PlayInv'
  <2> SUFFICES ASSUME NEW g \in File PROVE PlayOK(g)' BY DEF PlayInv
  <2>1. PlayOK(g) BY <1>0 DEF PlayInv
  <2>2. CASE g = This
    <3>1. g \in Mine BY <1>2, <1>3, <2>2 DEF Mine, CommitSteps
    <3>2. pb[g] = Idle BY <1>0, <1>2, <3>1 DEF TurnInv, CommitSteps
    <3> QED BY <1>1, <1>2, <1>6, <3>2, <2>1 DEF PlayOK, Idle, None
  <2>3. CASE g # This
    <3>1. pb[g].at = "child" => \A h \in File : Tail(jrnl'[h]) = pb[g].ptr => h \in pb[g].left
      BY <1>7, <2>1 DEF PlayOK
    <3>2. jrnl'[g] = jrnl[g] /\ db'[g] = db[g] BY <1>4, <2>3
    <3> QED BY <1>2, <1>10, <2>1, <3>1, <3>2 DEF PlayOK, Hot, Tail
  <2> QED BY <2>2, <2>3
<1>17. AbsStep BY <1>2, <1>11, Stutters
<1> QED BY <1>0, <1>2, <1>12, <1>13, <1>14, <1>15, <1>16, <1>17 DEF Safe

-----------------------------------------------------------------------------
(* Types, whatever goes wrong: losses of power are steps like the others here. *)
FilesTyped == /\ db \in [File -> Txn \cup {Half}]
              /\ dbOld \in [File -> SUBSET (Txn \cup {Half})]
JrnlTyped == /\ jrnl \in [File -> Journals] /\ \A f \in File : jrnl[f].at <= jrnl[f].len
             /\ jrnlOld \in [File -> SUBSET Journals]
MasterTyped == masters \subseteq Txn /\ list \in [Txn -> SUBSET File] /\ masterOld \subseteq Txn
OwnTyped == /\ pc \in CommitSteps \cup {"write", "create", "syncMaster", "finalise", "rollback"}
            /\ inTrans \subseteq File /\ todo \subseteq inTrans
            /\ pc # "write" => todo # {}
            /\ master \in Txn /\ size \in [File -> 0 .. MaxRec]
PlayTyped == /\ lock \in [File -> {"free", "writer", "recoverer", "reader", "joined"}]
             /\ pb \in [File -> [at : {"idle", "restore", "syncDb", "end", "open", "child"},
                                 redo : BOOLEAN, ptr : Txn, left : SUBSET File]]
CountTyped == txn \in Txn /\ kind \in Kinds /\ nBad \in 0 .. MaxEvents

(* The types are inductive together with who holds which lock: a file that is played
   back is not the one whose commit is being finished. *)
TInv == /\ FilesTyped /\ JrnlTyped /\ MasterTyped /\ OwnTyped /\ PlayTyped /\ CountTyped
        /\ TurnInv

(* The parts are all of TypeOK. *)
LEMMA TypeParts == TInv => TypeOK
BY DEF TInv, FilesTyped, JrnlTyped, MasterTyped, OwnTyped, PlayTyped, CountTyped, TurnInv, TypeOK

(* Zero is a name, a number of records, and the set of nothing is of any type. *)
LEMMA ZeroTyped == 0 \in Txn /\ 0 \in 0 .. MaxRec /\ 0 \in Txn \cup {Half}
BY MasterAssumption DEF Txn

(* Nobody plays back at first, nor once it is over. *)
LEMMA IdleTyped ==
  Idle \in [at : {"idle", "restore", "syncDb", "end", "open", "child"}, redo : BOOLEAN,
            ptr : Txn, left : SUBSET File]
BY ZeroTyped DEF Idle, None

(* A file of the loop is a file. *)
LEMMA NextFile ==
  ASSUME OwnTyped, pc # "write" \/ todo # {}
  PROVE  This \in todo /\ This \in inTrans /\ This \in File
<1>1. todo \in SUBSET File /\ todo # {} BY DEF OwnTyped
<1>2. This \in todo BY <1>1, FirstFile DEF This
<1> QED BY <1>1, <1>2 DEF OwnTyped

(* A file is written or synced. *)
LEMMA DbSet ==
  ASSUME FilesTyped, NEW f \in File, NEW v \in Txn \cup {Half},
         WriteDb(f, v) \/ (SyncedDb(f) /\ db' = db)
  PROVE  FilesTyped'
<1>1. \A f1 \in File : db[f1] \in Txn \cup {Half} /\ dbOld[f1] \subseteq Txn \cup {Half}
  BY DEF FilesTyped
<1>2. CASE SyncedDb(f) /\ db' = db BY <1>1, <1>2 DEF FilesTyped, SyncedDb, Txn
<1>3. CASE WriteDb(f, v)
  <2>1. db' \in [File -> Txn \cup {Half}] BY <1>3 DEF FilesTyped, WriteDb
  <2>2. dbOld' = [dbOld EXCEPT ![f] = Kept(dbOld[f], {db[f], Half})] BY <1>3 DEF WriteDb
  <2>3. Kept(dbOld[f], {db[f], Half}) \subseteq Txn \cup {Half} BY <1>1 DEF Kept
  <2>4. dbOld' \in [File -> SUBSET (Txn \cup {Half})] BY <2>2, <2>3 DEF FilesTyped
  <2> QED BY <2>1, <2>4 DEF FilesTyped, Txn
<1> QED BY <1>2, <1>3

(* A journal is written or synced. *)
LEMMA JrnlSet ==
  ASSUME JrnlTyped, NEW f \in File, NEW j \in Journals, j.at <= j.len,
         NEW torn \in SUBSET Journals, WriteJrnl(f, j, torn) \/ SyncedJrnl(f, j)
  PROVE  JrnlTyped'
<1>1. \A g \in File : jrnl[g] \in Journals /\ jrnlOld[g] \subseteq Journals BY DEF JrnlTyped
<1>2. jrnl' = [jrnl EXCEPT ![f] = j] BY DEF WriteJrnl, SyncedJrnl
<1>3. jrnl' \in [File -> Journals] BY <1>2 DEF JrnlTyped
<1>4. \A g \in File : jrnl'[g].at <= jrnl'[g].len BY <1>2 DEF JrnlTyped
<1>5. jrnlOld' \in [File -> SUBSET Journals]
  <2>1. CASE SyncedJrnl(f, j) BY <2>1 DEF SyncedJrnl, JrnlTyped
  <2>2. CASE WriteJrnl(f, j, torn)
    <3>1. jrnlOld' = [jrnlOld EXCEPT ![f] = Kept(jrnlOld[f], {jrnl[f]} \cup torn)]
      BY <2>2 DEF WriteJrnl
    <3>2. Kept(jrnlOld[f], {jrnl[f]} \cup torn) \subseteq Journals BY <1>1 DEF Kept
    <3> QED BY <3>1, <3>2 DEF JrnlTyped
  <2> QED BY <2>1, <2>2
<1> QED BY <1>3, <1>4, <1>5 DEF JrnlTyped, Journals, Txn

(* A change of its header, of its length or of the name at its end leaves a journal a
   journal. *)
LEMMA JrnlParts ==
  ASSUME NEW j \in Journals, NEW m \in Txn, NEW n \in 0 .. MaxRec + 1,
         NEW long \in 0 .. MaxRec + 1
  PROVE  /\ [j EXCEPT !.hot = TRUE] \in Journals
         /\ [j EXCEPT !.len = n] \in Journals
         /\ [j EXCEPT !.ptr = m, !.at = n] \in Journals
         /\ [j EXCEPT !.ptr = m, !.at = n, !.len = long] \in Journals
<1>1. MaxRec \in Nat BY MasterAssumption
<1>2. [j EXCEPT !.hot = TRUE] \in Journals BY <1>1 DEF Journals
<1>3. [j EXCEPT !.len = n] \in Journals BY <1>1 DEF Journals
<1>4. [j EXCEPT !.ptr = m, !.at = n] \in Journals BY <1>1 DEF Journals
<1>5. [j EXCEPT !.ptr = m, !.at = n, !.len = long] \in Journals BY <1>1 DEF Journals
<1> QED BY <1>2, <1>3, <1>4, <1>5

(* A file of a loop is done. *)
LEMMA DoneTyped ==
  ASSUME TInv, pc \in {"finalise", "rollback"}, NEW f \in todo, FileDone(f),
         size' = size, pb' = pb \/ pb' = [pb EXCEPT ![f] = Idle], pc = "finalise" \/ pb'[f] = Idle
  PROVE  OwnTyped' /\ PlayTyped' /\ TurnInv'
<1>1. OwnTyped /\ PlayTyped /\ TurnInv BY DEF TInv
<1>2. MaxTxn \in Nat /\ f \in File /\ f \in inTrans BY <1>1, MasterAssumption DEF OwnTyped
<1>3. /\ lock' = [lock EXCEPT ![f] = "free"] /\ todo' = todo \ {f}
      /\ \/ todo = {f} /\ pc' = "write" /\ inTrans' = {} /\ master' = None
         \/ todo # {f} /\ pc' = pc /\ inTrans' = inTrans /\ master' = master
  BY DEF FileDone
<1>4. Idle \in [at : {"idle", "restore", "syncDb", "end", "open", "child"}, redo : BOOLEAN,
                ptr : Txn, left : SUBSET File]
  BY <1>2 DEF Idle, Txn, None
<1>5. PlayTyped' BY <1>1, <1>2, <1>3, <1>4 DEF PlayTyped, Txn
<1>6. None \in Txn BY <1>2 DEF None, Txn
<1>7. OwnTyped' BY <1>1, <1>2, <1>3, <1>6 DEF OwnTyped, Txn
<1>8. DOMAIN lock = File /\ DOMAIN pb = File BY <1>1 DEF PlayTyped
<1>9. /\ \A g \in File \ {f} : lock'[g] = lock[g] /\ pb'[g] = pb[g]
      /\ lock'[f] = "free" /\ (pb' = pb \/ pb'[f] = Idle)
  BY <1>2, <1>3, <1>8
<1>10. f \in Mine /\ (pc = "finalise" => lock[f] = "writer") BY <1>1, <1>2 DEF TurnInv, Mine
<1>11. pb'[f] = Idle BY <1>1, <1>2, <1>9, <1>10 DEF TurnInv
<1>12. \A g \in File : lock'[g] \in {"writer", "joined"} <=> g \in Mine'
  <2>1. \A g \in File : lock[g] \in {"writer", "joined"} <=> g \in todo
    BY <1>1 DEF TurnInv, Mine
  <2>2. Mine' = todo \ {f} BY <1>3 DEF Mine
  <2> QED BY <1>9, <2>1, <2>2
<1>13. \A g \in File \ {f} : lock[g] = "writer" => pc' = pc
  BY <1>1, <1>3, <1>9, <1>12 DEF TurnInv, Mine
<1>14. \A g \in File \ {f} : lock[g] = "joined" => pc' \in {"write", "rollback"}
  BY <1>1, <1>3 DEF TurnInv
<1>15. TurnInv' BY <1>1, <1>9, <1>11, <1>12, <1>13, <1>14 DEF TurnInv, Idle
<1> QED BY <1>5, <1>7, <1>15

(* The rollback of a file returns. *)
LEMMA ReturnTyped ==
  ASSUME TInv, NEW f \in File, pb[f] # Idle, NEW to \in {"free", "reader"}, Returned(f, to),
         size' = size
  PROVE  OwnTyped' /\ PlayTyped' /\ TurnInv'
<1>1. OwnTyped /\ PlayTyped /\ TurnInv BY DEF TInv
<1>2. pb' = [pb EXCEPT ![f] = Idle] BY DEF Returned
<1>3. DOMAIN lock = File /\ DOMAIN pb = File BY <1>1 DEF PlayTyped
<1>4. CASE lock[f] = "writer"
  <2>1. pc = "rollback" /\ f \in todo BY <1>1, <1>4 DEF TurnInv, Mine
  <2>2. FileDone(f) BY <1>4 DEF Returned, Live
  <2>3. pb'[f] = Idle BY <1>2, <1>3
  <2> QED BY <1>2, <2>1, <2>2, <2>3, DoneTyped
<1>5. CASE lock[f] # "writer"
  <2> DEFINE left == IF lock[f] = "joined" THEN "writer" ELSE to
  <2>1. /\ lock' = [lock EXCEPT ![f] = left] /\ pc' = pc /\ inTrans' = inTrans
        /\ todo' = todo /\ master' = master
    BY <1>5 DEF Returned, Live
  <2>2. MaxTxn \in Nat BY MasterAssumption
  <2>3. Idle \in [at : {"idle", "restore", "syncDb", "end", "open", "child"}, redo : BOOLEAN,
                  ptr : Txn, left : SUBSET File]
    BY <2>2 DEF Idle, Txn, None
  <2>4. PlayTyped' BY <1>1, <1>2, <2>1, <2>3 DEF PlayTyped, Txn
  <2>5. OwnTyped' BY <1>1, <2>1 DEF OwnTyped, Txn
  <2>6. /\ \A g \in File \ {f} : lock'[g] = lock[g] /\ pb'[g] = pb[g]
        /\ lock'[f] = left /\ pb'[f] = Idle
    BY <1>2, <1>3, <2>1
  <2>7. Mine' = Mine BY <2>1 DEF Mine
  <2>8. TurnInv' BY <1>1, <1>5, <2>1, <2>6, <2>7 DEF TurnInv, Idle
  <2> QED BY <2>4, <2>5, <2>8
<1> QED BY <1>4, <1>5

(* A rollback starts with all files of the transaction. *)
LEMMA RollbackTyped ==
  ASSUME TInv, Rollback
  PROVE  TInv'
<1>1. /\ FilesTyped /\ JrnlTyped /\ MasterTyped /\ OwnTyped /\ PlayTyped /\ CountTyped
      /\ TurnInv /\ MaxTxn \in Nat /\ MaxRec \in Nat /\ MaxEvents \in Nat
  BY MasterAssumption DEF TInv
<1>2. FilesTyped' /\ JrnlTyped' /\ MasterTyped' /\ PlayTyped' /\ CountTyped'
  BY <1>1 DEF Rollback, FilesTyped, JrnlTyped, MasterTyped, PlayTyped, CountTyped, Txn,
    Journals
<1>3. OwnTyped'
  BY <1>1 DEF Rollback, OwnTyped, CommitSteps, Txn
<1>4. TurnInv'
  BY <1>1 DEF Rollback, TurnInv, Mine, Idle, Go, Live
<1> QED BY <1>2, <1>3, <1>4 DEF TInv

(* A commit starts with all files of the transaction. *)
LEMMA CommitTyped ==
  ASSUME TInv, Commit
  PROVE  TInv'
<1>1. /\ FilesTyped /\ JrnlTyped /\ MasterTyped /\ OwnTyped /\ PlayTyped /\ CountTyped
      /\ TurnInv /\ MaxTxn \in Nat /\ MaxRec \in Nat /\ MaxEvents \in Nat
  BY MasterAssumption DEF TInv
<1>2. FilesTyped' /\ JrnlTyped' /\ MasterTyped' /\ PlayTyped' /\ CountTyped'
  BY <1>1 DEF Commit, FilesTyped, JrnlTyped, MasterTyped, PlayTyped, CountTyped, Txn,
    Journals
<1>3. OwnTyped'
  BY <1>1 DEF Commit, OwnTyped, CommitSteps, Txn
<1>4. TurnInv'
  BY <1>1 DEF Commit, TurnInv, Mine, Idle, Go, Live
<1> QED BY <1>2, <1>3, <1>4 DEF TInv

(* A master journal is made. *)
LEMMA CreateMasterTyped ==
  ASSUME TInv, CreateMaster
  PROVE  TInv'
<1>1. /\ FilesTyped /\ JrnlTyped /\ MasterTyped /\ OwnTyped /\ PlayTyped /\ CountTyped
      /\ TurnInv /\ MaxTxn \in Nat /\ MaxRec \in Nat /\ MaxEvents \in Nat
  BY MasterAssumption DEF TInv
<1>2. FilesTyped' /\ JrnlTyped' /\ PlayTyped' /\ CountTyped'
  BY <1>1 DEF CreateMaster, FilesTyped, JrnlTyped, PlayTyped, CountTyped, Txn, Journals
<1>3. MasterTyped'
  <2>1. /\ masters' = masters \cup {txn} /\ list' = [list EXCEPT ![txn] = inTrans]
        /\ masterOld' = Kept(masterOld, {txn})
    BY DEF CreateMaster
  <2>2. txn \in Txn /\ inTrans \in SUBSET File BY <1>1 DEF OwnTyped, CountTyped
  <2> QED BY <1>1, <2>1, <2>2 DEF MasterTyped, Kept, Txn
<1>4. OwnTyped'
  <2>1. txn \in Txn BY <1>1 DEF CountTyped
  <2> QED BY <1>1, <2>1 DEF CreateMaster, OwnTyped, CommitSteps, Txn
<1>5. TurnInv'
  BY <1>1 DEF CreateMaster, TurnInv, Mine, Idle, Go, Live
<1> QED BY <1>2, <1>3, <1>4, <1>5 DEF TInv

(* It is synced. *)
LEMMA SyncMasterTyped ==
  ASSUME TInv, SyncMaster
  PROVE  TInv'
<1>1. /\ FilesTyped /\ JrnlTyped /\ MasterTyped /\ OwnTyped /\ PlayTyped /\ CountTyped
      /\ TurnInv /\ MaxTxn \in Nat /\ MaxRec \in Nat /\ MaxEvents \in Nat
  BY MasterAssumption DEF TInv
<1>2. FilesTyped' /\ JrnlTyped' /\ PlayTyped' /\ CountTyped'
  BY <1>1 DEF SyncMaster, FilesTyped, JrnlTyped, PlayTyped, CountTyped, Txn, Journals
<1>3. MasterTyped'
  BY <1>1 DEF SyncMaster, MasterTyped, Kept, Unlinked
<1>4. OwnTyped'
  BY <1>1 DEF SyncMaster, OwnTyped, CommitSteps, Txn
<1>5. TurnInv'
  BY <1>1 DEF SyncMaster, TurnInv, Mine, Idle, Go, Live
<1> QED BY <1>2, <1>3, <1>4, <1>5 DEF TInv

(* Its name goes behind the records, of which there are at most MaxRec. *)
LEMMA WritePtrTyped ==
  ASSUME TInv, WritePtr
  PROVE  TInv'
<1>1. /\ FilesTyped /\ JrnlTyped /\ MasterTyped /\ OwnTyped /\ PlayTyped /\ CountTyped
      /\ TurnInv /\ MaxTxn \in Nat /\ MaxRec \in Nat /\ MaxEvents \in Nat
  BY MasterAssumption DEF TInv
<1>2. This \in todo /\ This \in inTrans /\ This \in File
  BY <1>1, NextFile DEF WritePtr
<1>3. FilesTyped' /\ MasterTyped' /\ PlayTyped' /\ CountTyped'
  BY <1>1 DEF WritePtr, WriteJrnl, FilesTyped, MasterTyped, PlayTyped, CountTyped, Txn
<1>4. JrnlTyped'
  <2>1. jrnl[This] \in Journals /\ jrnl[This].at <= jrnl[This].len /\ size[This] \in 0 .. MaxRec
        /\ master \in Txn
    BY <1>1, <1>2 DEF JrnlTyped, OwnTyped
  <2> DEFINE end == size[This] + 1
             long == IF jrnl[This].len > end THEN jrnl[This].len ELSE end
             j == [jrnl[This] EXCEPT !.ptr = master, !.at = end, !.len = long]
             torn == {[jrnl[This] EXCEPT !.ptr = None, !.at = 0, !.len = long]}
  <2>5. end \in 0 .. MaxRec + 1 /\ long \in 0 .. MaxRec + 1 /\ end <= long
    BY <1>1, <2>1 DEF Journals
  <2> HIDE DEF end, long
  <2>6. j \in Journals /\ j.at = end /\ j.len = long BY <2>1, <2>5, JrnlParts DEF Journals
  <2>2. j \in Journals /\ j.at <= j.len /\ torn \subseteq Journals
    <3>1. 0 \in Txn /\ 0 \in 0 .. MaxRec + 1 BY <1>1, ZeroTyped
    <3>2. [jrnl[This] EXCEPT !.ptr = None, !.at = 0, !.len = long] \in Journals
      BY <2>1, <2>5, <3>1, JrnlParts DEF None
    <3> QED BY <2>5, <2>6, <3>2
  <2>3. WriteJrnl(This, j, torn) BY DEF WritePtr, j, torn, end, long
  <2> HIDE DEF j, torn
  <2> QED BY <1>1, <1>2, <2>2, <2>3, JrnlSet
<1>5. OwnTyped'
  BY <1>1, <1>2 DEF WritePtr, OwnTyped, CommitSteps, Txn
<1>6. TurnInv'
  BY <1>1, <1>2 DEF WritePtr, TurnInv, Mine, Idle, Go, Live
<1> QED BY <1>3, <1>4, <1>5, <1>6 DEF TInv

(* The journal ends with that name. *)
LEMMA CutJrnlTyped ==
  ASSUME TInv, CutJrnl
  PROVE  TInv'
<1>1. /\ FilesTyped /\ JrnlTyped /\ MasterTyped /\ OwnTyped /\ PlayTyped /\ CountTyped
      /\ TurnInv /\ MaxTxn \in Nat /\ MaxRec \in Nat /\ MaxEvents \in Nat
  BY MasterAssumption DEF TInv
<1>2. This \in todo /\ This \in inTrans /\ This \in File
  BY <1>1, NextFile DEF CutJrnl
<1>3. FilesTyped' /\ MasterTyped' /\ PlayTyped' /\ CountTyped'
  BY <1>1 DEF CutJrnl, WriteJrnl, FilesTyped, MasterTyped, PlayTyped, CountTyped, Txn
<1>4. JrnlTyped'
  <2>1. jrnl[This] \in Journals /\ jrnl[This].at <= jrnl[This].len BY <1>1, <1>2 DEF JrnlTyped
  <2> DEFINE j == [jrnl[This] EXCEPT !.len = jrnl[This].at]
  <2>4. jrnl[This].at \in 0 .. MaxRec + 1 BY <2>1 DEF Journals
  <2>5. j \in Journals BY <2>1, <2>4, ZeroTyped, JrnlParts
  <2>6. j.at <= j.len BY <2>1, <2>4 DEF Journals
  <2>2. j \in Journals /\ j.at <= j.len BY <2>5, <2>6
  <2>3. WriteJrnl(This, j, {}) BY DEF CutJrnl
  <2> HIDE DEF j
  <2> QED BY <1>1, <1>2, <2>2, <2>3, JrnlSet
<1>5. OwnTyped'
  BY <1>1, <1>2 DEF CutJrnl, OwnTyped, CommitSteps, Txn
<1>6. TurnInv'
  BY <1>1, <1>2 DEF CutJrnl, TurnInv, Mine, Idle, Go, Live
<1> QED BY <1>3, <1>4, <1>5, <1>6 DEF TInv

(* A journal gets its header. *)
LEMMA SyncJrnlTyped ==
  ASSUME TInv, SyncJrnl
  PROVE  TInv'
<1>1. /\ FilesTyped /\ JrnlTyped /\ MasterTyped /\ OwnTyped /\ PlayTyped /\ CountTyped
      /\ TurnInv /\ MaxTxn \in Nat /\ MaxRec \in Nat /\ MaxEvents \in Nat
  BY MasterAssumption DEF TInv
<1>2. This \in todo /\ This \in inTrans /\ This \in File
  BY <1>1, NextFile DEF SyncJrnl
<1>3. FilesTyped' /\ MasterTyped' /\ PlayTyped' /\ CountTyped'
  BY <1>1 DEF SyncJrnl, SyncedJrnl, SettledBy, FilesTyped, MasterTyped, PlayTyped,
    CountTyped, Txn
<1>4. JrnlTyped'
  <2>1. jrnl[This] \in Journals /\ jrnl[This].at <= jrnl[This].len BY <1>1, <1>2 DEF JrnlTyped
  <2> DEFINE j == [jrnl[This] EXCEPT !.hot = TRUE]
  <2>2. j \in Journals /\ j.at <= j.len BY <1>1, <2>1, JrnlParts, ZeroTyped DEF Journals, None
  <2>3. SyncedJrnl(This, j) BY DEF SyncJrnl
  <2> HIDE DEF j
  <2> QED BY <1>1, <1>2, <2>2, <2>3, JrnlSet
<1>5. OwnTyped'
  BY <1>1, <1>2 DEF SyncJrnl, OwnTyped, CommitSteps, Txn
<1>6. TurnInv'
  BY <1>1, <1>2 DEF SyncJrnl, TurnInv, Mine, Idle, Go, Live
<1> QED BY <1>3, <1>4, <1>5, <1>6 DEF TInv

(* A database file is written. *)
LEMMA WritePagesTyped ==
  ASSUME TInv, WritePages
  PROVE  TInv'
<1>1. /\ FilesTyped /\ JrnlTyped /\ MasterTyped /\ OwnTyped /\ PlayTyped /\ CountTyped
      /\ TurnInv /\ MaxTxn \in Nat /\ MaxRec \in Nat /\ MaxEvents \in Nat
  BY MasterAssumption DEF TInv
<1>2. This \in todo /\ This \in inTrans /\ This \in File
  BY <1>1, NextFile DEF WritePages
<1>3. JrnlTyped' /\ MasterTyped' /\ PlayTyped' /\ CountTyped'
  BY <1>1 DEF WritePages, WriteDb, JrnlTyped, MasterTyped, PlayTyped, CountTyped, Txn,
    Journals
<1>4. FilesTyped'
  <2>1. txn \in Txn BY <1>1 DEF CountTyped
  <2> QED BY <1>1, <1>2, <2>1, DbSet DEF WritePages
<1>5. OwnTyped'
  BY <1>1, <1>2 DEF WritePages, OwnTyped, CommitSteps, Txn
<1>6. TurnInv'
  BY <1>1, <1>2 DEF WritePages, TurnInv, Mine, Idle, Go, Live
<1> QED BY <1>3, <1>4, <1>5, <1>6 DEF TInv

(* A database file is synced, and the loop goes on or ends. *)
LEMMA SyncDbTyped ==
  ASSUME TInv, SyncDb
  PROVE  TInv'
<1>1. /\ FilesTyped /\ JrnlTyped /\ MasterTyped /\ OwnTyped /\ PlayTyped /\ CountTyped
      /\ TurnInv /\ MaxTxn \in Nat /\ MaxRec \in Nat /\ MaxEvents \in Nat
  BY MasterAssumption DEF TInv
<1>2. This \in todo /\ This \in inTrans /\ This \in File
  BY <1>1, NextFile DEF SyncDb
<1>3. JrnlTyped' /\ MasterTyped' /\ PlayTyped' /\ CountTyped'
  BY <1>1 DEF SyncDb, SyncedDb, JrnlTyped, MasterTyped, PlayTyped, CountTyped, Txn, Journals
<1>4. FilesTyped'
  <2>1. SyncedDb(This) /\ db' = db BY DEF SyncDb
  <2> QED BY <1>1, <1>2, <2>1, ZeroTyped, DbSet
<1>5. OwnTyped'
  BY <1>1, <1>2 DEF SyncDb, OwnTyped, CommitSteps, Txn
<1>6. TurnInv'
  BY <1>1, <1>2 DEF SyncDb, TurnInv, Mine, Idle, Go, Live
<1> QED BY <1>3, <1>4, <1>5, <1>6 DEF TInv

(* The master journal is deleted. *)
LEMMA UnlinkMasterTyped ==
  ASSUME TInv, UnlinkMaster
  PROVE  TInv'
<1>1. /\ FilesTyped /\ JrnlTyped /\ MasterTyped /\ OwnTyped /\ PlayTyped /\ CountTyped
      /\ TurnInv /\ MaxTxn \in Nat /\ MaxRec \in Nat /\ MaxEvents \in Nat
  BY MasterAssumption DEF TInv
<1>2. FilesTyped' /\ JrnlTyped' /\ PlayTyped' /\ CountTyped'
  BY <1>1 DEF UnlinkMaster, Unlinked, FilesTyped, JrnlTyped, PlayTyped, CountTyped, Txn,
    Journals
<1>3. MasterTyped'
  <2>1. /\ masters' = masters \ {master} /\ list' = list /\ masterOld' = Kept(masterOld, {master})
    BY DEF UnlinkMaster, Unlinked
  <2>2. master \in Txn BY <1>1 DEF OwnTyped
  <2> QED BY <1>1, <2>1, <2>2 DEF MasterTyped, Kept, Txn
<1>4. OwnTyped'
  BY <1>1 DEF UnlinkMaster, OwnTyped, CommitSteps, Txn
<1>5. TurnInv'
  BY <1>1 DEF UnlinkMaster, TurnInv, Mine, Idle, Go, Live
<1> QED BY <1>2, <1>3, <1>4, <1>5 DEF TInv

(* The loop of phase two starts with all files. *)
LEMMA SyncDirTyped ==
  ASSUME TInv, CommitInv, SyncDir
  PROVE  TInv'
<1>1. /\ FilesTyped /\ JrnlTyped /\ MasterTyped /\ OwnTyped /\ PlayTyped /\ CountTyped
      /\ TurnInv /\ MaxTxn \in Nat /\ MaxRec \in Nat /\ MaxEvents \in Nat
  BY MasterAssumption DEF TInv
<1>2. FilesTyped' /\ JrnlTyped' /\ PlayTyped' /\ CountTyped'
  BY <1>1 DEF SyncDir, FilesTyped, JrnlTyped, PlayTyped, CountTyped, Txn, Journals
<1>3. MasterTyped'
  BY <1>1 DEF SyncDir, MasterTyped, Kept, Unlinked
<1>4. OwnTyped'
  BY <1>1 DEF SyncDir, OwnTyped, CommitSteps, Txn
<1>5. TurnInv'
  <2>1. /\ pc = "dirSync" /\ pc' = "finalise" /\ todo' = todo /\ inTrans' = inTrans
        /\ lock' = lock /\ pb' = pb
    BY DEF SyncDir
  <2>2. todo = inTrans BY <2>1 DEF CommitInv
  <2>3. Mine = inTrans /\ Mine' = inTrans BY <2>1, <2>2 DEF Mine
  <2>4. \A g \in File : pb[g] # Idle => lock[g] # "writer" BY <1>1, <2>1 DEF TurnInv
  <2> QED BY <1>1, <2>1, <2>3, <2>4 DEF TurnInv, Idle
<1> QED BY <1>2, <1>3, <1>4, <1>5 DEF TInv

(* Phase two ends for a file. *)
LEMMA FinaliseTyped ==
  ASSUME TInv, NEW mode \in CommitModes, Finalise(mode)
  PROVE  TInv'
<1>1. /\ FilesTyped /\ JrnlTyped /\ MasterTyped /\ OwnTyped /\ PlayTyped /\ CountTyped
      /\ TurnInv /\ MaxTxn \in Nat /\ MaxRec \in Nat /\ MaxEvents \in Nat
  BY MasterAssumption DEF TInv
<1>2. This \in todo /\ This \in inTrans /\ This \in File
  BY <1>1, NextFile DEF Finalise
<1>3. FilesTyped' /\ MasterTyped' /\ CountTyped'
  BY <1>1 DEF Finalise, SyncedJrnl, WriteJrnl, FilesTyped, MasterTyped, CountTyped, Txn
<1>4. OwnTyped' /\ PlayTyped' /\ TurnInv'
  <2>1. /\ pc = "finalise" /\ FileDone(This) /\ size' = size /\ pb' = pb BY DEF Finalise
  <2> QED BY <1>2, <2>1, DoneTyped
<1>5. JrnlTyped'
  <2>1. jrnl[This] \in Journals /\ jrnl[This].at <= jrnl[This].len /\ master \in Nat
        /\ mode \in AllModes
    BY <1>1, <1>2, MasterAssumption DEF JrnlTyped, OwnTyped, Txn
  <2> DEFINE j == Finalised(jrnl[This], mode, master # None)
  <2>2. j \in Journals /\ j.at <= j.len BY <2>1, FinalisedView
  <2>3. WriteJrnl(This, j, {}) \/ SyncedJrnl(This, j) BY DEF Finalise
  <2> HIDE DEF j
  <2> QED BY <1>1, <1>2, <2>2, <2>3, JrnlSet
<1> QED BY <1>3, <1>4, <1>5 DEF TInv

(* A file whose content is a transaction joins. *)
LEMMA OpenTyped ==
  ASSUME TInv, NEW f \in File, NEW n \in 1 .. MaxRec, db[f] \in Txn, Open(f, n)
  PROVE  TInv'
<1>1. /\ FilesTyped /\ JrnlTyped /\ MasterTyped /\ OwnTyped /\ PlayTyped /\ CountTyped
      /\ TurnInv /\ MaxTxn \in Nat /\ MaxRec \in Nat /\ MaxEvents \in Nat
  BY MasterAssumption DEF TInv
<1>2. FilesTyped' /\ MasterTyped'
  BY <1>1 DEF Open, WriteJrnl, FilesTyped, MasterTyped, Txn
<1>3. JrnlTyped'
  <2>1. jrnl[f] \in Journals /\ jrnl[f].at <= jrnl[f].len BY <1>1 DEF JrnlTyped
  <2> DEFINE j == Opened(jrnl[f], n, db[f])
  <2>3. j \in Journals /\ j.at <= j.len BY <2>1, OpenedView
  <2>4. WriteJrnl(f, j, {}) BY DEF Open
  <2> HIDE DEF j
  <2> QED BY <1>1, <2>3, <2>4, JrnlSet
<1>4. OwnTyped'
  BY <1>1 DEF Open, OwnTyped, CommitSteps, Txn
<1>5. PlayTyped'
  BY <1>1 DEF Open, PlayTyped, Idle, Go, Txn
<1>6. CountTyped'
  BY <1>1 DEF Open, CountTyped, Bad, Txn
<1>7. TurnInv'
  <2>1. /\ pc = "write" /\ pc' = pc /\ inTrans' = inTrans \cup {f} /\ pb' = pb
        /\ lock[f] \in {"free", "reader"}
        /\ lock' = [lock EXCEPT ![f] = IF pb[f] = Idle THEN "writer" ELSE "joined"]
    BY DEF Open
  <2>2. \A g \in File \ {f} : lock'[g] = lock[g] BY <1>1, <2>1 DEF PlayTyped
  <2>3. lock'[f] = IF pb[f] = Idle THEN "writer" ELSE "joined" BY <1>1, <2>1 DEF PlayTyped
  <2>4. Mine = inTrans /\ Mine' = inTrans \cup {f} BY <2>1 DEF Mine
  <2>5. \A g \in File : lock'[g] \in {"writer", "joined"} <=> g \in Mine'
    BY <1>1, <2>1, <2>2, <2>3, <2>4 DEF TurnInv
  <2>6. \A g \in File : lock'[g] = "joined" =>
            pb'[g].at \in {"open", "child"} /\ pc' \in {"write", "rollback"}
    BY <1>1, <2>1, <2>2, <2>3, <2>4 DEF TurnInv, Idle
  <2>7. \A g \in File : pb'[g] # Idle =>
            \/ lock'[g] = "recoverer" /\ pb'[g].at \notin {"open", "child"}
            \/ lock'[g] = "writer" /\ pc' = "rollback"
            \/ lock'[g] \in {"reader", "joined"} /\ pb'[g].at \in {"open", "child"}
    BY <1>1, <2>1, <2>2, <2>3, <2>4 DEF TurnInv, Idle
  <2> QED BY <2>5, <2>6, <2>7 DEF TurnInv, Idle
<1> QED BY <1>2, <1>3, <1>4, <1>5, <1>6, <1>7 DEF TInv

(* Pages go to the file early. *)
LEMMA SpillTyped ==
  ASSUME TInv, NEW f \in File, Spill(f)
  PROVE  TInv'
<1>1. /\ FilesTyped /\ JrnlTyped /\ MasterTyped /\ OwnTyped /\ PlayTyped /\ CountTyped
      /\ TurnInv /\ MaxTxn \in Nat /\ MaxRec \in Nat /\ MaxEvents \in Nat
  BY MasterAssumption DEF TInv
<1>2. MasterTyped' /\ OwnTyped' /\ PlayTyped' /\ CountTyped' /\ TurnInv'
  BY <1>1 DEF Spill, SyncedJrnl, SettledBy, WriteDb, MasterTyped, OwnTyped, PlayTyped,
    CountTyped, TurnInv, Txn, Mine
<1>3. FilesTyped'
  BY <1>1, DbSet DEF Spill, Half
<1>4. JrnlTyped'
  <2>1. jrnl[f] \in Journals /\ jrnl[f].at <= jrnl[f].len BY <1>1 DEF JrnlTyped
  <2> DEFINE j == [jrnl[f] EXCEPT !.hot = TRUE]
  <2>2. j \in Journals /\ j.at <= j.len BY <1>1, <2>1, JrnlParts, ZeroTyped DEF Journals, None
  <2>3. SyncedJrnl(f, j) BY DEF Spill
  <2> HIDE DEF j
  <2> QED BY <1>1, <2>2, <2>3, JrnlSet
<1> QED BY <1>2, <1>3, <1>4 DEF TInv

(* A rollback starts under a lock. *)
LEMMA PlaybackTyped ==
  ASSUME TInv, NEW f \in File, Playback(f)
  PROVE  TInv'
<1>1. /\ FilesTyped /\ JrnlTyped /\ MasterTyped /\ OwnTyped /\ PlayTyped /\ CountTyped
      /\ TurnInv /\ MaxTxn \in Nat /\ MaxRec \in Nat /\ MaxEvents \in Nat
  BY MasterAssumption DEF TInv
<1>2. FilesTyped' /\ MasterTyped' /\ OwnTyped' /\ CountTyped'
  BY <1>1 DEF Playback, FilesTyped, MasterTyped, OwnTyped, CountTyped, Txn
<1>3. JrnlTyped'
  <2>1. jrnl' = jrnl /\ (jrnlOld' = jrnlOld \/ jrnlOld' = [jrnlOld EXCEPT ![f] = {}])
    BY DEF Playback
  <2> QED BY <1>1, <2>1 DEF JrnlTyped, Journals, Txn
<1>4. PlayTyped'
  <2>1. Tail(jrnl[f]) \in Txn BY <1>1, ZeroTyped DEF JrnlTyped, Journals, Tail, None
  <2>2. [Idle EXCEPT !.at = IF Redo(jrnl[f]) /\ Hot(jrnl[f]) THEN "restore" ELSE "end",
                     !.redo = Redo(jrnl[f]), !.ptr = Tail(jrnl[f])]
          \in [at : {"idle", "restore", "syncDb", "end", "open", "child"}, redo : BOOLEAN,
              ptr : Txn, left : SUBSET File]
    BY <2>1 DEF Idle, Redo
  <2>3. lock' = lock \/ lock' = [lock EXCEPT ![f] = "recoverer"] BY DEF Playback
  <2>4. pb' = [pb EXCEPT ![f] =
           [Idle EXCEPT !.at = IF Redo(jrnl[f]) /\ Hot(jrnl[f]) THEN "restore" ELSE "end",
                        !.redo = Redo(jrnl[f]), !.ptr = Tail(jrnl[f])]]
    BY DEF Playback
  <2> QED BY <1>1, <2>2, <2>3, <2>4 DEF PlayTyped, Txn
<1>5. TurnInv'
  <2>1. \/ pc = "rollback" /\ f \in todo /\ lock' = lock
        \/ lock[f] = "free" /\ lock' = [lock EXCEPT ![f] = "recoverer"]
    BY <1>1, NextFile DEF Playback
  <2>2. pc' = pc /\ inTrans' = inTrans /\ todo' = todo BY DEF Playback
  <2>3. \A g \in File \ {f} : pb'[g] = pb[g] BY <1>1 DEF Playback, PlayTyped
  <2>4. \A g \in File : lock'[g] \in {"writer", "joined"} <=> lock[g] \in {"writer", "joined"}
    BY <1>1, <2>1 DEF PlayTyped
  <2>5. \A g \in File \ {f} : lock'[g] = lock[g] BY <1>1, <2>1 DEF PlayTyped
  <2>6. pb[f] = Idle /\ lock[f] # "joined" BY <1>1 DEF Playback, TurnInv, Idle
  <2>7. /\ lock'[f] \in {"writer", "recoverer"} /\ (lock'[f] = "writer" => pc' = "rollback")
    BY <1>1, <2>1, <2>2, <2>6 DEF PlayTyped, TurnInv, Mine
  <2>8. pb'[f].at \in {"restore", "end"} BY <1>1 DEF Playback, PlayTyped, Idle
  <2>9. Mine' = Mine BY <2>2 DEF Mine
  <2> QED BY <1>1, <2>2, <2>3, <2>4, <2>5, <2>7, <2>8, <2>9 DEF TurnInv, Idle
<1> QED BY <1>2, <1>3, <1>4, <1>5 DEF TInv

(* Pages are restored. *)
LEMMA RestoreTyped ==
  ASSUME TInv, NEW f \in File, Restore(f)
  PROVE  TInv'
<1>1. /\ FilesTyped /\ JrnlTyped /\ MasterTyped /\ OwnTyped /\ PlayTyped /\ CountTyped
      /\ TurnInv /\ MaxTxn \in Nat /\ MaxRec \in Nat /\ MaxEvents \in Nat
  BY MasterAssumption DEF TInv
<1>2. JrnlTyped' /\ MasterTyped' /\ OwnTyped' /\ CountTyped'
  BY <1>1 DEF Restore, WriteDb, JrnlTyped, MasterTyped, OwnTyped, CountTyped, Txn, Journals
<1>3. FilesTyped'
  <2>1. jrnl[f].orig \in Txn BY <1>1 DEF JrnlTyped, Journals
  <2> QED BY <1>1, <2>1, DbSet DEF Restore
<1>4. PlayTyped'
  <2>1. lock' = lock /\ (pb' = pb \/ pb' = [pb EXCEPT ![f].at = "syncDb"]) BY DEF Restore, Go
  <2> QED BY <1>1, <2>1 DEF PlayTyped, Txn
<1>5. TurnInv'
  <2>1. lock' = lock /\ (pb' = pb \/ pb' = [pb EXCEPT ![f].at = "syncDb"]) /\ pb[f] # Idle
        /\ pc' = pc /\ inTrans' = inTrans /\ todo' = todo
    BY DEF Restore, Go, At, Idle
  <2>2. \A g \in File : pb'[g] # Idle => pb[g] # Idle BY <1>1, <2>1 DEF PlayTyped
  <2>3. \A g \in File : pb'[g].at \in {"open", "child"} <=> pb[g].at \in {"open", "child"}
    BY <1>1, <2>1 DEF PlayTyped, Restore, At
  <2>4. Mine' = Mine BY <2>1 DEF Mine
  <2> QED BY <1>1, <2>1, <2>2, <2>3, <2>4 DEF TurnInv, Idle
<1> QED BY <1>2, <1>3, <1>4, <1>5 DEF TInv

(* The restored file is synced. *)
LEMMA SyncRestoredTyped ==
  ASSUME TInv, NEW f \in File, SyncRestored(f)
  PROVE  TInv'
<1>1. /\ FilesTyped /\ JrnlTyped /\ MasterTyped /\ OwnTyped /\ PlayTyped /\ CountTyped
      /\ TurnInv /\ MaxTxn \in Nat /\ MaxRec \in Nat /\ MaxEvents \in Nat
  BY MasterAssumption DEF TInv
<1>2. JrnlTyped' /\ MasterTyped' /\ OwnTyped' /\ CountTyped'
  BY <1>1 DEF SyncRestored, SyncedDb, JrnlTyped, MasterTyped, OwnTyped, CountTyped, Txn,
    Journals
<1>3. FilesTyped'
  <2>1. SyncedDb(f) /\ db' = db BY DEF SyncRestored
  <2> QED BY <1>1, <2>1, ZeroTyped, DbSet
<1>4. PlayTyped'
  <2>1. lock' = lock /\ (pb' = pb \/ pb' = [pb EXCEPT ![f].at = "end"]) BY DEF SyncRestored, Go
  <2> QED BY <1>1, <2>1 DEF PlayTyped, Txn
<1>5. TurnInv'
  <2>1. lock' = lock /\ (pb' = pb \/ pb' = [pb EXCEPT ![f].at = "end"]) /\ pb[f] # Idle
        /\ pc' = pc /\ inTrans' = inTrans /\ todo' = todo
    BY DEF SyncRestored, Go, At, Idle
  <2>2. \A g \in File : pb'[g] # Idle => pb[g] # Idle BY <1>1, <2>1 DEF PlayTyped
  <2>3. \A g \in File : pb'[g].at \in {"open", "child"} <=> pb[g].at \in {"open", "child"}
    BY <1>1, <2>1 DEF PlayTyped, SyncRestored, At
  <2>4. Mine' = Mine BY <2>1 DEF Mine
  <2> QED BY <1>1, <2>1, <2>2, <2>3, <2>4 DEF TurnInv, Idle
<1> QED BY <1>2, <1>3, <1>4, <1>5 DEF TInv

(* The journal of a rollback is finalised. *)
LEMMA EndPlaybackTyped ==
  ASSUME TInv, NEW f \in File, NEW mode \in AllModes, EndPlayback(f, mode)
  PROVE  TInv'
<1>1. /\ FilesTyped /\ JrnlTyped /\ MasterTyped /\ OwnTyped /\ PlayTyped /\ CountTyped
      /\ TurnInv /\ MaxTxn \in Nat /\ MaxRec \in Nat /\ MaxEvents \in Nat
  BY MasterAssumption DEF TInv
<1>2. FilesTyped' /\ MasterTyped' /\ CountTyped'
  BY <1>1 DEF EndPlayback, SyncedJrnl, WriteJrnl, FilesTyped, MasterTyped, CountTyped, Txn
<1>3. OwnTyped' /\ PlayTyped' /\ TurnInv'
  <2>1. pb[f] # Idle /\ size' = size BY DEF EndPlayback, At, Idle
  <2>2. CASE Returned(f, "reader") \/ Returned(f, "free")
    BY <2>1, <2>2, ReturnTyped
  <2>3. CASE /\ lock' = IF lock[f] = "writer" THEN lock ELSE [lock EXCEPT ![f] = "reader"]
             /\ pc' = pc /\ inTrans' = inTrans /\ todo' = todo /\ master' = master
             /\ pb' = [pb EXCEPT ![f].at = "open"]
    <3>1. pb[f] \in [at : {"idle", "restore", "syncDb", "end", "open", "child"}, redo : BOOLEAN,
                    ptr : Txn, left : SUBSET File]
      BY <1>1 DEF PlayTyped
    <3>2. PlayTyped' BY <1>1, <2>3, <3>1 DEF PlayTyped, Txn
    <3>3. OwnTyped' BY <1>1, <2>1, <2>3 DEF OwnTyped, Txn
    <3>4. /\ \A g \in File \ {f} : pb'[g] = pb[g] /\ lock'[g] = lock[g]
          /\ pb'[f].at = "open"
          /\ lock'[f] = IF lock[f] = "writer" THEN "writer" ELSE "reader"
      BY <1>1, <2>3 DEF PlayTyped
    <3>5. pb[f].at = "end" BY DEF EndPlayback, At
    <3>6. \/ lock[f] = "recoverer"
          \/ lock[f] = "writer" /\ pc = "rollback"
      BY <1>1, <2>1, <3>5 DEF TurnInv
    <3>7. Mine' = Mine BY <2>3 DEF Mine
    <3>8. \A g \in File : lock'[g] \in {"writer", "joined"} <=> g \in Mine'
      BY <1>1, <2>3, <3>4, <3>6, <3>7 DEF TurnInv
    <3>9. \A g \in File : lock'[g] = "joined" =>
              pb'[g].at \in {"open", "child"} /\ pc' \in {"write", "rollback"}
      BY <1>1, <2>3, <3>4, <3>6, <3>7 DEF TurnInv, Idle
    <3>10. \A g \in File : pb'[g] # Idle =>
              \/ lock'[g] = "recoverer" /\ pb'[g].at \notin {"open", "child"}
              \/ lock'[g] = "writer" /\ pc' = "rollback"
              \/ lock'[g] \in {"reader", "joined"} /\ pb'[g].at \in {"open", "child"}
      BY <1>1, <2>3, <3>4, <3>6, <3>7 DEF TurnInv, Idle
    <3>11. TurnInv' BY <3>8, <3>9, <3>10 DEF TurnInv, Idle
    <3> QED BY <3>2, <3>3, <3>11
  <2>4. \/ Returned(f, "reader") \/ Returned(f, "free")
        \/ /\ lock' = IF lock[f] = "writer" THEN lock ELSE [lock EXCEPT ![f] = "reader"]
           /\ pc' = pc /\ inTrans' = inTrans /\ todo' = todo /\ master' = master
           /\ pb' = [pb EXCEPT ![f].at = "open"]
    BY DEF EndPlayback, Go, Live
  <2> QED BY <2>2, <2>3, <2>4
<1>4. JrnlTyped'
  <2>1. jrnl[f] \in Journals /\ jrnl[f].at <= jrnl[f].len /\ pb[f].ptr \in Nat
    BY <1>1 DEF JrnlTyped, PlayTyped, Txn
  <2>2. /\ Finalised(jrnl[f], mode, pb[f].ptr # None) \in Journals
        /\ Finalised(jrnl[f], mode, pb[f].ptr # None).at
              <= Finalised(jrnl[f], mode, pb[f].ptr # None).len
    BY <2>1, FinalisedView
  <2> DEFINE j == IF Live(f) \/ pb[f].redo \/ mode = "delete"
                  THEN Finalised(jrnl[f], mode, pb[f].ptr # None) ELSE jrnl[f]
  <2>3. j \in Journals /\ j.at <= j.len BY <2>1, <2>2
  <2>4. WriteJrnl(f, j, {}) \/ SyncedJrnl(f, j) BY DEF EndPlayback
  <2> HIDE DEF j
  <2> QED BY <1>1, <2>3, <2>4, JrnlSet
<1> QED BY <1>2, <1>3, <1>4 DEF TInv

(* The list of the master journal is read. *)
LEMMA DelOpenTyped ==
  ASSUME TInv, NEW f \in File, DelOpen(f)
  PROVE  TInv'
<1>1. /\ FilesTyped /\ JrnlTyped /\ MasterTyped /\ OwnTyped /\ PlayTyped /\ CountTyped
      /\ TurnInv /\ MaxTxn \in Nat /\ MaxRec \in Nat /\ MaxEvents \in Nat
  BY MasterAssumption DEF TInv
<1>2. FilesTyped' /\ JrnlTyped' /\ MasterTyped' /\ CountTyped'
  BY <1>1 DEF DelOpen, FilesTyped, JrnlTyped, MasterTyped, CountTyped, Txn, Journals
<1>3. OwnTyped' /\ PlayTyped' /\ TurnInv'
  <2>1. pb[f] # Idle /\ size' = size BY DEF DelOpen, At, Idle
  <2>5. list[pb[f].ptr] \in SUBSET File BY <1>1 DEF PlayTyped, MasterTyped
  <2>2. CASE Returned(f, "reader") \/ Returned(f, "free")
    BY <2>1, <2>2, ReturnTyped
  <2>3. CASE lock' = lock /\ pc' = pc /\ inTrans' = inTrans /\ todo' = todo /\ master' = master
             /\ pb' = [pb EXCEPT ![f].at = "child", ![f].left = list[pb[f].ptr]]
    <3>1. pb[f] \in [at : {"idle", "restore", "syncDb", "end", "open", "child"}, redo : BOOLEAN,
                    ptr : Txn, left : SUBSET File]
      BY <1>1 DEF PlayTyped
    <3>2. PlayTyped' BY <1>1, <2>3, <3>1, <2>5 DEF PlayTyped, Txn
    <3>3. OwnTyped' BY <1>1, <2>1, <2>3 DEF OwnTyped, Txn
    <3>4. \A g \in File : pb'[g] # Idle => pb[g] # Idle
      BY <1>1, <2>1, <2>3 DEF PlayTyped
    <3>5. \A g \in File : pb'[g].at \in {"open", "child"} <=> pb[g].at \in {"open", "child"}
      BY <1>1, <2>3 DEF PlayTyped, DelOpen, At
    <3>6. Mine' = Mine BY <2>3 DEF Mine
    <3>7. TurnInv' BY <1>1, <2>3, <3>4, <3>5, <3>6 DEF TurnInv, Idle
    <3> QED BY <3>2, <3>3, <3>7
  <2>4. \/ Returned(f, "reader") \/ Returned(f, "free")
        \/ lock' = lock /\ pc' = pc /\ inTrans' = inTrans /\ todo' = todo /\ master' = master
           /\ pb' = [pb EXCEPT ![f].at = "child", ![f].left = list[pb[f].ptr]]
    BY DEF DelOpen, Go
  <2> QED BY <2>2, <2>3, <2>4
<1> QED BY <1>2, <1>3 DEF TInv

(* One of its children is looked at. *)
LEMMA DelChildTyped ==
  ASSUME TInv, NEW f \in File, DelChild(f)
  PROVE  TInv'
<1>1. /\ FilesTyped /\ JrnlTyped /\ MasterTyped /\ OwnTyped /\ PlayTyped /\ CountTyped
      /\ TurnInv /\ MaxTxn \in Nat /\ MaxRec \in Nat /\ MaxEvents \in Nat
  BY MasterAssumption DEF TInv
<1>2. FilesTyped' /\ JrnlTyped' /\ MasterTyped' /\ CountTyped'
  BY <1>1 DEF DelChild, FilesTyped, JrnlTyped, MasterTyped, CountTyped, Txn, Journals
<1>3. OwnTyped' /\ PlayTyped' /\ TurnInv'
  <2>1. pb[f] # Idle /\ size' = size BY DEF DelChild, At, Idle
  <2>2. CASE Returned(f, "reader") \/ Returned(f, "free")
    BY <2>1, <2>2, ReturnTyped
  <2>3. CASE lock' = lock /\ pc' = pc /\ inTrans' = inTrans /\ todo' = todo /\ master' = master
             /\ pb' = [pb EXCEPT ![f].left = @ \ {Min(pb[f].left)}]
    <3>1. pb[f] \in [at : {"idle", "restore", "syncDb", "end", "open", "child"}, redo : BOOLEAN,
                    ptr : Txn, left : SUBSET File]
      BY <1>1 DEF PlayTyped
    <3>2. PlayTyped' BY <1>1, <2>3, <3>1 DEF PlayTyped, Txn
    <3>3. OwnTyped' BY <1>1, <2>1, <2>3 DEF OwnTyped, Txn
    <3>4. \A g \in File : pb'[g] # Idle => pb[g] # Idle
      BY <1>1, <2>1, <2>3 DEF PlayTyped
    <3>5. \A g \in File : pb'[g].at \in {"open", "child"} <=> pb[g].at \in {"open", "child"}
      BY <1>1, <2>3 DEF PlayTyped, DelChild, At
    <3>6. Mine' = Mine BY <2>3 DEF Mine
    <3>7. TurnInv' BY <1>1, <2>3, <3>4, <3>5, <3>6 DEF TurnInv, Idle
    <3> QED BY <3>2, <3>3, <3>7
  <2>4. \/ Returned(f, "reader") \/ Returned(f, "free")
        \/ lock' = lock /\ pc' = pc /\ inTrans' = inTrans /\ todo' = todo /\ master' = master
           /\ pb' = [pb EXCEPT ![f].left = @ \ {Min(pb[f].left)}]
    BY DEF DelChild, Go
  <2> QED BY <2>2, <2>3, <2>4
<1> QED BY <1>2, <1>3 DEF TInv

(* The master journal is deleted after a rollback. *)
LEMMA DelMasterTyped ==
  ASSUME TInv, NEW f \in File, DelMaster(f)
  PROVE  TInv'
<1>1. /\ FilesTyped /\ JrnlTyped /\ MasterTyped /\ OwnTyped /\ PlayTyped /\ CountTyped
      /\ TurnInv /\ MaxTxn \in Nat /\ MaxRec \in Nat /\ MaxEvents \in Nat
  BY MasterAssumption DEF TInv
<1>2. FilesTyped' /\ JrnlTyped' /\ CountTyped'
  BY <1>1 DEF DelMaster, Unlinked, FilesTyped, JrnlTyped, CountTyped, Txn, Journals
<1>3. OwnTyped' /\ PlayTyped' /\ TurnInv'
  <2>1. pb[f] # Idle /\ size' = size /\ Returned(f, "reader") BY DEF DelMaster, At, Idle
  <2> QED BY <2>1, ReturnTyped
<1>4. MasterTyped'
  <2>1. /\ masters' = masters \ {pb[f].ptr} /\ list' = list
        /\ masterOld' = Kept(masterOld, {pb[f].ptr})
    BY DEF DelMaster, Unlinked
  <2>2. pb[f].ptr \in Txn BY <1>1 DEF PlayTyped
  <2> QED BY <1>1, <2>1, <2>2 DEF MasterTyped, Kept, Txn
<1> QED BY <1>2, <1>3, <1>4 DEF TInv

(* A reader lets go. *)
LEMMA EndReadTyped ==
  ASSUME TInv, NEW f \in File, EndRead(f)
  PROVE  TInv'
<1>1. /\ FilesTyped /\ JrnlTyped /\ MasterTyped /\ OwnTyped /\ PlayTyped /\ CountTyped
      /\ TurnInv /\ MaxTxn \in Nat /\ MaxRec \in Nat /\ MaxEvents \in Nat
  BY MasterAssumption DEF TInv
<1>2. FilesTyped' /\ JrnlTyped' /\ MasterTyped' /\ OwnTyped' /\ CountTyped'
  BY <1>1 DEF EndRead, FilesTyped, JrnlTyped, MasterTyped, OwnTyped, CountTyped, Txn,
    Journals
<1>3. PlayTyped'
  BY <1>1 DEF EndRead, PlayTyped, Idle, Go, Txn
<1>4. TurnInv'
  <2>1. /\ lock[f] = "reader" /\ lock' = [lock EXCEPT ![f] = "free"]
        /\ pb' = pb /\ pc' = pc /\ inTrans' = inTrans /\ todo' = todo
    BY DEF EndRead
  <2>2. \A g \in File \ {f} : lock'[g] = lock[g] BY <1>1, <2>1 DEF PlayTyped
  <2>3. lock'[f] = "free" BY <1>1, <2>1 DEF PlayTyped
  <2>4. pb[f] = Idle BY DEF EndRead
  <2>5. Mine' = Mine BY <2>1 DEF Mine
  <2> QED BY <1>1, <2>1, <2>2, <2>3, <2>4, <2>5 DEF TurnInv, Idle
<1> QED BY <1>2, <1>3, <1>4 DEF TInv

(* A commit fails. *)
LEMMA CommitErrorTyped ==
  ASSUME TInv, CommitError
  PROVE  TInv'
<1>1. /\ FilesTyped /\ JrnlTyped /\ MasterTyped /\ OwnTyped /\ PlayTyped /\ CountTyped
      /\ TurnInv /\ MaxTxn \in Nat /\ MaxRec \in Nat /\ MaxEvents \in Nat
  BY MasterAssumption DEF TInv
<1>2. This \in todo /\ This \in inTrans /\ This \in File
  BY <1>1, NextFile DEF CommitError, CommitSteps
<1>3. PlayTyped'
  BY <1>1 DEF CommitError, Bad, PlayTyped, Txn
<1>4. FilesTyped'
  BY <1>1, <1>2 DEF CommitError, FilesTyped, Txn, Half
<1>5. JrnlTyped'
  <2>1. jrnl[This] \in Journals /\ jrnl[This].at <= jrnl[This].len BY <1>1, <1>2 DEF JrnlTyped
  <2> DEFINE j == [jrnl[This] EXCEPT !.ptr = None, !.at = 0]
  <2>5. 0 \in Txn /\ 0 \in 0 .. MaxRec + 1 BY <1>1, ZeroTyped
  <2>6. j \in Journals BY <2>1, <2>5, JrnlParts DEF None
  <2>7. j.at <= j.len BY <1>1, <2>1 DEF Journals
  <2>2. j \in Journals /\ j.at <= j.len BY <2>6, <2>7
  <2>3. jrnl' = jrnl \/ jrnl' = [jrnl EXCEPT ![This] = j] BY <1>1, <1>2 DEF CommitError, JrnlTyped
  <2>4. jrnlOld' = jrnlOld BY DEF CommitError
  <2> HIDE DEF j
  <2> QED BY <1>1, <1>2, <2>2, <2>3, <2>4 DEF JrnlTyped, Journals, Txn
<1>6. MasterTyped'
  BY <1>1, <1>2 DEF CommitError, MasterTyped, Kept, Unlinked
<1>7. OwnTyped'
  BY <1>1, <1>2 DEF CommitError, OwnTyped, CommitSteps, Txn
<1>8. CountTyped'
  BY <1>1, <1>2 DEF CommitError, CountTyped, Bad, Txn
<1>9. TurnInv'
  <2>1. /\ pc \notin {"finalise", "rollback"} /\ pc' = "rollback" /\ todo' = inTrans
        /\ inTrans' = inTrans /\ lock' = lock /\ pb' = pb
    BY DEF CommitError, CommitSteps
  <2>2. Mine' = Mine BY <2>1 DEF Mine
  <2> QED BY <1>1, <2>1, <2>2 DEF TurnInv, Idle
<1> QED BY <1>3, <1>4, <1>5, <1>6, <1>7, <1>8, <1>9 DEF TInv

(* Phase two fails for a file. *)
LEMMA FinaliseErrorTyped ==
  ASSUME TInv, FinaliseError
  PROVE  TInv'
<1>1. /\ FilesTyped /\ JrnlTyped /\ MasterTyped /\ OwnTyped /\ PlayTyped /\ CountTyped
      /\ TurnInv /\ MaxTxn \in Nat /\ MaxRec \in Nat /\ MaxEvents \in Nat
  BY MasterAssumption DEF TInv
<1>2. This \in todo /\ This \in inTrans /\ This \in File
  BY <1>1, NextFile DEF FinaliseError
<1>3. FilesTyped' /\ JrnlTyped' /\ MasterTyped'
  BY <1>1 DEF FinaliseError, Bad, FilesTyped, JrnlTyped, MasterTyped, Txn, Journals
<1>4. OwnTyped' /\ PlayTyped' /\ TurnInv'
  <2>1. /\ pc = "finalise" /\ FileDone(This) /\ size' = size /\ pb' = pb BY DEF FinaliseError
  <2> QED BY <1>2, <2>1, DoneTyped
<1>5. CountTyped'
  BY <1>1, <1>2 DEF FinaliseError, CountTyped, Bad, Txn
<1> QED BY <1>3, <1>4, <1>5 DEF TInv

(* A rollback fails. *)
LEMMA PlaybackErrorTyped ==
  ASSUME TInv, NEW f \in File, PlaybackError(f)
  PROVE  TInv'
<1>1. /\ FilesTyped /\ JrnlTyped /\ MasterTyped /\ OwnTyped /\ PlayTyped /\ CountTyped
      /\ TurnInv /\ MaxTxn \in Nat /\ MaxRec \in Nat /\ MaxEvents \in Nat
  BY MasterAssumption DEF TInv
<1>2. JrnlTyped' /\ MasterTyped'
  BY <1>1 DEF PlaybackError, Bad, JrnlTyped, MasterTyped, Txn, Journals
<1>3. OwnTyped' /\ PlayTyped' /\ TurnInv'
  <2>1. pb[f] # Idle /\ size' = size /\ Returned(f, "free") BY DEF PlaybackError, At, Idle
  <2> QED BY <2>1, ReturnTyped
<1>4. FilesTyped'
  BY <1>1 DEF PlaybackError, FilesTyped, Txn, Half
<1>5. CountTyped'
  BY <1>1 DEF PlaybackError, CountTyped, Bad, Txn
<1> QED BY <1>2, <1>3, <1>4, <1>5 DEF TInv

(* The committing process dies. *)
LEMMA DeathTyped ==
  ASSUME TInv, Death
  PROVE  TInv'
<1>1. /\ FilesTyped /\ JrnlTyped /\ MasterTyped /\ OwnTyped /\ PlayTyped /\ CountTyped
      /\ TurnInv /\ MaxTxn \in Nat /\ MaxRec \in Nat /\ MaxEvents \in Nat
  BY MasterAssumption DEF TInv
<1>2. FilesTyped' /\ JrnlTyped' /\ MasterTyped'
  BY <1>1 DEF Death, Bad, FilesTyped, JrnlTyped, MasterTyped, Txn, Journals
<1>3. OwnTyped'
  BY <1>1, ZeroTyped DEF Death, OwnTyped, CommitSteps, Txn, None
<1>4. PlayTyped'
  <2>1. /\ lock' = [g \in File |-> CASE lock[g] = "writer" -> "free"
                                      [] lock[g] = "joined" -> "reader"
                                      [] OTHER -> lock[g]]
        /\ pb' = [g \in File |-> IF lock[g] = "writer" THEN Idle ELSE pb[g]]
    BY DEF Death, Live
  <2>2. lock' \in [File -> {"free", "writer", "recoverer", "reader", "joined"}]
    BY <1>1, <2>1 DEF PlayTyped
  <2>3. pb' \in [File -> [at : {"idle", "restore", "syncDb", "end", "open", "child"},
                          redo : BOOLEAN, ptr : Txn, left : SUBSET File]]
    BY <1>1, <2>1, IdleTyped DEF PlayTyped
  <2> QED BY <2>2, <2>3 DEF PlayTyped, Txn
<1>5. TurnInv'
  <2>1. /\ \A g \in File : lock'[g] = IF lock[g] = "writer" THEN "free"
                                      ELSE IF lock[g] = "joined" THEN "reader" ELSE lock[g]
        /\ \A g \in File : pb'[g] = IF lock[g] = "writer" THEN Idle ELSE pb[g]
        /\ pc' = "write" /\ inTrans' = {}
    BY DEF Death, Live
  <2>2. Mine' = {} BY <2>1 DEF Mine
  <2> QED BY <1>1, <2>1, <2>2 DEF TurnInv, Idle
<1>6. CountTyped'
  BY <1>1 DEF Death, CountTyped, Bad, Txn
<1> QED BY <1>2, <1>3, <1>4, <1>5, <1>6 DEF TInv

(* Another process dies. *)
LEMMA RecovererDiesTyped ==
  ASSUME TInv, NEW f \in File, RecovererDies(f)
  PROVE  TInv'
<1>1. /\ FilesTyped /\ JrnlTyped /\ MasterTyped /\ OwnTyped /\ PlayTyped /\ CountTyped
      /\ TurnInv /\ MaxTxn \in Nat /\ MaxRec \in Nat /\ MaxEvents \in Nat
  BY MasterAssumption DEF TInv
<1>2. FilesTyped' /\ JrnlTyped' /\ MasterTyped' /\ OwnTyped'
  BY <1>1 DEF RecovererDies, Bad, FilesTyped, JrnlTyped, MasterTyped, OwnTyped, Txn,
    Journals
<1>3. PlayTyped'
  <2>1. /\ lock' = [lock EXCEPT ![f] = IF lock[f] = "joined" THEN "writer" ELSE "free"]
        /\ pb' = [pb EXCEPT ![f] = Idle]
    BY DEF RecovererDies
  <2> QED BY <1>1, <2>1, IdleTyped DEF PlayTyped, Txn
<1>4. TurnInv'
  <2>1. /\ lock[f] \in {"recoverer", "reader", "joined"}
        /\ lock' = [lock EXCEPT ![f] = IF lock[f] = "joined" THEN "writer" ELSE "free"]
        /\ pb' = [pb EXCEPT ![f] = Idle] /\ pc' = pc /\ inTrans' = inTrans /\ todo' = todo
    BY DEF RecovererDies
  <2>2. /\ \A g \in File \ {f} : lock'[g] = lock[g] /\ pb'[g] = pb[g]
        /\ lock'[f] = (IF lock[f] = "joined" THEN "writer" ELSE "free") /\ pb'[f] = Idle
    BY <1>1, <2>1 DEF PlayTyped
  <2>3. Mine' = Mine BY <2>1 DEF Mine
  <2>4. \A g \in File : lock'[g] \in {"writer", "joined"} <=> g \in Mine'
    BY <1>1, <2>1, <2>2, <2>3 DEF TurnInv
  <2>5. \A g \in File : lock'[g] = "joined" =>
            pb'[g].at \in {"open", "child"} /\ pc' \in {"write", "rollback"}
    BY <1>1, <2>1, <2>2, <2>3 DEF TurnInv, Idle
  <2>6. \A g \in File : pb'[g] # Idle =>
            \/ lock'[g] = "recoverer" /\ pb'[g].at \notin {"open", "child"}
            \/ lock'[g] = "writer" /\ pc' = "rollback"
            \/ lock'[g] \in {"reader", "joined"} /\ pb'[g].at \in {"open", "child"}
    BY <1>1, <2>1, <2>2, <2>3 DEF TurnInv, Idle
  <2> QED BY <2>4, <2>5, <2>6 DEF TurnInv, Idle
<1>5. CountTyped'
  BY <1>1 DEF RecovererDies, CountTyped, Bad, Txn
<1> QED BY <1>2, <1>3, <1>4, <1>5 DEF TInv

-----------------------------------------------------------------------------
(* The theorems. *)

(* A file whose journal is not hot holds what some transaction wrote, none of
   them half-way: that is what a new journal will say it was. *)
LEMMA Written ==
  ASSUME Safe, NEW f \in File, NEW n \in 1 .. MaxRec, Open(f, n)
  PROVE  db[f] \in Txn
<1>1. ~Hot(jrnl[f]) BY DEF Open, Safe, LockInv
<1>2. Content(f) = db[f] BY <1>1 DEF Content
<1> QED BY <1>2 DEF Safe, RedoInv

(* At first no file has a journal, and no transaction is under way. *)
LEMMA AtFirst == ASSUME Init, kind = "fault" PROVE TInv /\ Safe
<1>1. MaxTxn \in Nat /\ MaxRec \in Nat /\ MaxEvents \in Nat /\ Kinds \subseteq {"fault", "power"}
  BY MasterAssumption
<1>2. /\ \A f \in File : /\ jrnl[f] = NoJrnl /\ db[f] = 0 /\ pb[f] = Idle /\ lock[f] = "free"
      /\ DOMAIN db = File /\ DOMAIN jrnl = File /\ DOMAIN pb = File /\ DOMAIN lock = File
      /\ pc = "write" /\ inTrans = {} /\ todo = {} /\ master = None /\ masters = {}
      /\ unsettled = {} /\ txn = 0
  BY DEF Init
<1>3. /\ NoJrnl \in Journals /\ NoJrnl.at <= NoJrnl.len /\ ~Hot(NoJrnl) /\ Tail(NoJrnl) = None
      /\ Redo(NoJrnl) /\ NoJrnl.ptr = None
  BY <1>1 DEF NoJrnl, Journals, Hot, Tail, Redo, Named, None, Txn
<1>4. FilesTyped BY <1>1, ZeroTyped DEF Init, FilesTyped
<1>5. JrnlTyped BY <1>2, <1>3 DEF Init, JrnlTyped
<1>6. MasterTyped /\ CountTyped BY <1>1, ZeroTyped DEF Init, MasterTyped, CountTyped
<1>7. OwnTyped BY <1>1, ZeroTyped DEF Init, OwnTyped, None
<1>8. PlayTyped BY IdleTyped DEF Init, PlayTyped
<1>9. TurnInv /\ LockInv BY <1>2, <1>3 DEF TurnInv, LockInv, Mine
<1>10. NameInv BY <1>2, <1>3 DEF NameInv, None
<1>11. RedoInv BY <1>2, <1>3, ZeroTyped DEF RedoInv, Pending, Content
<1>12. CommitInv BY <1>2 DEF CommitInv, Committed
<1>13. PlayInv
  <2> SUFFICES ASSUME NEW f \in File PROVE PlayOK(f) BY DEF PlayInv
  <2>1. pb[f].at = "idle" /\ pb[f].ptr = 0 BY <1>2 DEF Idle, None
  <2> QED BY <1>2, <2>1 DEF PlayOK
<1> QED
  BY <1>4, <1>5, <1>6, <1>7, <1>8, <1>9, <1>10, <1>11, <1>12, <1>13 DEF TInv, Safe

(* Every step keeps the types. *)
LEMMA TypedStep == ASSUME TInv, Safe, Next PROVE TInv'
<1>1. CASE Rollback BY <1>1, RollbackTyped
<1>2. CASE Commit BY <1>2, CommitTyped
<1>3. CASE CreateMaster BY <1>3, CreateMasterTyped
<1>4. CASE SyncMaster BY <1>4, SyncMasterTyped
<1>5. CASE WritePtr BY <1>5, WritePtrTyped
<1>6. CASE CutJrnl BY <1>6, CutJrnlTyped
<1>7. CASE SyncJrnl BY <1>7, SyncJrnlTyped
<1>8. CASE WritePages BY <1>8, WritePagesTyped
<1>9. CASE SyncDb BY <1>9, SyncDbTyped
<1>10. CASE UnlinkMaster BY <1>10, UnlinkMasterTyped
<1>11. CASE SyncDir BY <1>11, SyncDirTyped DEF Safe
<1>12. ASSUME NEW mode \in CommitModes, Finalise(mode) PROVE TInv'
  BY <1>12, FinaliseTyped
<1>13. ASSUME NEW f \in File, NEW n \in 1 .. MaxRec, Open(f, n) PROVE TInv'
  BY <1>13, OpenTyped, Written
<1>14. ASSUME NEW f \in File, Spill(f) PROVE TInv'
  BY <1>14, SpillTyped
<1>15. ASSUME NEW f \in File, Playback(f) PROVE TInv'
  BY <1>15, PlaybackTyped
<1>16. ASSUME NEW f \in File, Restore(f) PROVE TInv'
  BY <1>16, RestoreTyped
<1>17. ASSUME NEW f \in File, SyncRestored(f) PROVE TInv'
  BY <1>17, SyncRestoredTyped
<1>18. ASSUME NEW f \in File, NEW mode \in AllModes, EndPlayback(f, mode) PROVE TInv'
  BY <1>18, EndPlaybackTyped
<1>19. ASSUME NEW f \in File, DelOpen(f) PROVE TInv'
  BY <1>19, DelOpenTyped
<1>20. ASSUME NEW f \in File, DelChild(f) PROVE TInv'
  BY <1>20, DelChildTyped
<1>21. ASSUME NEW f \in File, DelMaster(f) PROVE TInv'
  BY <1>21, DelMasterTyped
<1>22. ASSUME NEW f \in File, EndRead(f) PROVE TInv'
  BY <1>22, EndReadTyped
<1>23. CASE CommitError BY <1>23, CommitErrorTyped
<1>24. CASE FinaliseError BY <1>24, FinaliseErrorTyped
<1>25. ASSUME NEW f \in File, PlaybackError(f) PROVE TInv'
  BY <1>25, PlaybackErrorTyped
<1>26. CASE Death BY <1>26, DeathTyped
<1>27. ASSUME NEW f \in File, RecovererDies(f) PROVE TInv'
  BY <1>27, RecovererDiesTyped
<1>28. ~PowerFail BY DEF PowerFail, Bad, Safe
<1> QED
  BY <1>1, <1>2, <1>3, <1>4, <1>5, <1>6, <1>7, <1>8, <1>9, <1>10, <1>11, <1>12, <1>13,
  <1>14, <1>15, <1>16, <1>17, <1>18, <1>19, <1>20, <1>21, <1>22, <1>23, <1>24, <1>25, <1>26,
  <1>27, <1>28 DEF Next

(* The same of the next state. *)
LEMMA NextTypeParts == TInv' => TypeOK'
BY DEF TInv, FilesTyped, JrnlTyped, MasterTyped, OwnTyped, PlayTyped, CountTyped, TurnInv, TypeOK

(* Every step keeps the invariant, and is one of the abstract commit or none. *)
LEMMA SafeStep ==
  ASSUME TInv, Safe, Next, RecoverModes \subseteq {"delete"}
  PROVE  TInv' /\ Safe' /\ AbsStep
<1>0. IInv /\ TInv' /\ TypeOK' /\ TurnInv'
  <2>1. TInv' BY TypedStep
  <2>2. TypeOK /\ TurnInv BY TypeParts DEF TInv
  <2>3. TypeOK' /\ TurnInv' BY <2>1, NextTypeParts DEF TInv
  <2> QED BY <2>1, <2>2, <2>3 DEF IInv
<1>1. CASE Rollback BY <1>1, <1>0, RollbackKeeps
<1>2. CASE Commit BY <1>2, <1>0, CommitKeeps
<1>3. CASE CreateMaster BY <1>3, <1>0, CreateMasterKeeps
<1>4. CASE SyncMaster BY <1>4, <1>0, SyncMasterKeeps
<1>5. CASE WritePtr BY <1>5, <1>0, WritePtrKeeps
<1>6. CASE CutJrnl BY <1>6, <1>0, CutJrnlKeeps
<1>7. CASE SyncJrnl BY <1>7, <1>0, SyncJrnlKeeps
<1>8. CASE WritePages BY <1>8, <1>0, WritePagesKeeps
<1>9. CASE SyncDb BY <1>9, <1>0, SyncDbKeeps
<1>10. CASE UnlinkMaster BY <1>10, <1>0, UnlinkMasterKeeps
<1>11. CASE SyncDir BY <1>11, <1>0, SyncDirKeeps
<1>12. ASSUME NEW mode \in CommitModes, Finalise(mode) PROVE Safe' /\ AbsStep
  BY <1>12, <1>0, FinaliseKeeps
<1>13. ASSUME NEW f \in File, NEW n \in 1 .. MaxRec, Open(f, n) PROVE Safe' /\ AbsStep
  BY <1>13, <1>0, OpenKeeps
<1>14. ASSUME NEW f \in File, Spill(f) PROVE Safe' /\ AbsStep
  BY <1>14, <1>0, SpillKeeps
<1>15. ASSUME NEW f \in File, Playback(f) PROVE Safe' /\ AbsStep
  BY <1>15, <1>0, PlaybackKeeps
<1>16. ASSUME NEW f \in File, Restore(f) PROVE Safe' /\ AbsStep
  BY <1>16, <1>0, RestoreKeeps
<1>17. ASSUME NEW f \in File, SyncRestored(f) PROVE Safe' /\ AbsStep
  BY <1>17, <1>0, SyncRestoredKeeps
<1>18. ASSUME NEW f \in File, NEW mode \in AllModes, EndPlayback(f, mode) PROVE Safe' /\ AbsStep
  BY <1>18, <1>0, EndPlaybackKeeps
<1>19. ASSUME NEW f \in File, DelOpen(f) PROVE Safe' /\ AbsStep
  BY <1>19, <1>0, DelOpenKeeps
<1>20. ASSUME NEW f \in File, DelChild(f) PROVE Safe' /\ AbsStep
  BY <1>20, <1>0, DelChildKeeps
<1>21. ASSUME NEW f \in File, DelMaster(f) PROVE Safe' /\ AbsStep
  BY <1>21, <1>0, DelMasterKeeps
<1>22. ASSUME NEW f \in File, EndRead(f) PROVE Safe' /\ AbsStep
  BY <1>22, <1>0, EndReadKeeps
<1>23. CASE CommitError BY <1>23, <1>0, CommitErrorKeeps
<1>24. CASE FinaliseError BY <1>24, <1>0, FinaliseErrorKeeps
<1>25. ASSUME NEW f \in File, PlaybackError(f) PROVE Safe' /\ AbsStep
  BY <1>25, <1>0, PlaybackErrorKeeps
<1>26. CASE Death BY <1>26, <1>0, DeathKeeps
<1>27. ASSUME NEW f \in File, RecovererDies(f) PROVE Safe' /\ AbsStep
  BY <1>27, <1>0, RecovererDiesKeeps
<1>28. ~PowerFail BY DEF PowerFail, Bad, Safe
<1> QED
  BY <1>0, <1>1, <1>2, <1>3, <1>4, <1>5, <1>6, <1>7, <1>8, <1>9, <1>10, <1>11, <1>12, <1>13,
  <1>14, <1>15, <1>16, <1>17, <1>18, <1>19, <1>20, <1>21, <1>22, <1>23, <1>24, <1>25, <1>26,
  <1>27, <1>28 DEF Next

(* Nothing changes when nothing happens. *)
LEMMA StaysSame == ASSUME TInv, Safe, UNCHANGED vars PROVE TInv' /\ Safe'
<1>1. TInv'
  BY DEF vars, TInv, FilesTyped, JrnlTyped, MasterTyped, OwnTyped, PlayTyped, CountTyped,
    TurnInv, Mine
<1>2. LockInv' /\ NameInv' BY DEF vars, Safe, LockInv, NameInv, Hot
<1>3. RedoInv'
  BY DEF vars, Safe, RedoInv, Pending, Committed, Content, Hot, Redo, Named, Tail
<1>4. CommitInv' BY DEF vars, Safe, CommitInv, Committed, Ready, Hot, Tail, This
<1>5. PlayInv' BY DEF vars, Safe, PlayInv, PlayOK, Hot, Redo, Named, Tail
<1>6. kind' = "fault" BY DEF vars, Safe
<1> QED BY <1>1, <1>2, <1>3, <1>4, <1>5, <1>6 DEF Safe

(* All the types, and the inductive invariant, of runs without a loss of power. *)
LEMMA Invariants ==
  ASSUME RecoverModes \subseteq {"delete"}
  PROVE  (Spec /\ kind = "fault") => [](TInv /\ Safe)
<1>1. Init /\ kind = "fault" => TInv /\ Safe BY AtFirst
<1>2. TInv /\ Safe /\ [Next]_vars => (TInv /\ Safe)'
  <2> SUFFICES ASSUME TInv, Safe, [Next]_vars PROVE TInv' /\ Safe' OBVIOUS
  <2>1. CASE Next BY <2>1, SafeStep
  <2>2. CASE UNCHANGED vars BY <2>2, StaysSame
  <2> QED BY <2>1, <2>2
<1> QED BY <1>1, <1>2, PTL DEF Spec

(* Every variable has its type, however often processes die and I/O fails: the name of a
   master journal lies inside the journal, no journal was ever opened on a file between
   two transactions, a file is played back under a lock only. *)
THEOREM TypeCorrect ==
  ASSUME RecoverModes \subseteq {"delete"}
  PROVE  (Spec /\ kind = "fault") => []TypeOK
<1>1. TInv /\ Safe => TypeOK BY TypeParts
<1> QED BY <1>1, Invariants, PTL

(* The files of a transaction change together, or not at all (vdbeaux.c 2010-2012): not
   when the commit fails half-way, not when the process dies with the journals of some
   files synced, named or deleted, not while others recover the files one by one and
   tidy up the master journal. *)
THEOREM Atomic ==
  ASSUME RecoverModes \subseteq {"delete"}
  PROVE  (Spec /\ kind = "fault") => CommitsAtomically
<1>1. Init => Abstract!Init
  <2> SUFFICES ASSUME Init PROVE Abstract!Init OBVIOUS
  <2>1. \A f \in File : Content(f) = 0
    BY DEF Init, Content, Hot, NoJrnl
  <2> QED BY <2>1, ZeroTyped DEF Init, Abstract!Init
<1>2. TInv /\ Safe /\ [Next]_vars => AbsStep
  <2> SUFFICES ASSUME TInv, Safe, [Next]_vars PROVE AbsStep OBVIOUS
  <2>1. CASE Next BY <2>1, SafeStep
  <2>2. CASE UNCHANGED vars
    <3>1. \A g \in File : Content(g)' = Content(g)
      BY <2>2 DEF vars, Content, Hot, Redo, Named, Tail
    <3>2. inTrans' = inTrans /\ unsettled' = unsettled BY <2>2 DEF vars
    <3> QED BY <3>1, <3>2, Stutters
  <2> QED BY <2>1, <2>2
<1>3. AbsStep => [Abstract!Next]_<<[f \in File |-> Content(f)], inTrans, unsettled>>
  BY DEF AbsStep
<1> QED
  BY <1>1, <1>2, <1>3, Invariants, PTL DEF Spec, CommitsAtomically, Abstract!Spec
=============================================================================
