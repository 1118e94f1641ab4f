---------------------------- MODULE NotifyProofs ----------------------------
(***************************************************************************)
(* What holds of Notify for any number of connections and tables.          *)
(*                                                                         *)
(* CacheInv is inductive for the operations of SharedCache alone; the      *)
(* invariants of the threads and of the list of blocked connections rest   *)
(* on it.                                                                  *)
(***************************************************************************)
EXTENDS Notify, FiniteSetTheorems, TLAPS

-----------------------------------------------------------------------------
(* The shared cache. *)

InTx == {c \in Conn : inTrans[c] # NONE}

CacheShape ==
    /\ inTrans \in [Conn -> NONE .. WRITE]
    /\ eLock \in [Conn -> [Table -> NONE .. WRITE]]
    /\ pWriter \in Conn \cup {NoConn}
    /\ btsFlags \subseteq {"EXCLUSIVE", "PENDING"}
    /\ inTransaction \in NONE .. WRITE
    /\ nTransaction = Cardinality(InTx)

(* Locks belong to transactions, write locks to the writer. *)
LocksHeld ==
    /\ \A c \in Conn, t \in Table : eLock[c][t] # NONE => inTrans[c] # NONE
    /\ \A c \in Conn, t \in Table : eLock[c][t] = WRITE => pWriter = c

(* There is one writer, and the flags and inTransaction tell of it. *)
OneWriter ==
    /\ \A c \in Conn : inTrans[c] = WRITE <=> pWriter = c
    /\ inTransaction = WRITE <=> pWriter \in Conn
    /\ btsFlags # {} => pWriter \in Conn

CacheInv == CacheShape /\ LocksHeld /\ OneWriter /\ TablesIsolated /\ PendingForReaders

(* The number of transactions when one begins and when one ends. *)
LEMMA Counted ==
    ASSUME NEW S \in SUBSET Conn, NEW c \in Conn
    PROVE  /\ IsFiniteSet(S) /\ Cardinality(S) \in Nat
           /\ c \notin S => Cardinality(S \cup {c}) = Cardinality(S) + 1
           /\ c \in S => Cardinality(S \ {c}) = Cardinality(S) - 1
           /\ c \in S /\ Cardinality(S) = 1 => S = {c}
           /\ \A w \in S : c \in S /\ w # c /\ Cardinality(S) # 2 => \E d \in S : d \notin {c, w}
<1>1. IsFiniteSet(S) /\ Cardinality(S) \in Nat
  BY ConnAssumption, FS_Subset, FS_CardinalityType
<1>2. c \notin S => Cardinality(S \cup {c}) = Cardinality(S) + 1
  BY <1>1, FS_AddElement
<1>3. c \in S => Cardinality(S \ {c}) = Cardinality(S) - 1
  BY <1>1, FS_RemoveElement
<1>4. c \in S /\ Cardinality(S) = 1 => S = {c}
  <2>1. SUFFICES ASSUME c \in S, Cardinality(S) = 1 PROVE S = {c}
    OBVIOUS
  <2>2. Cardinality(S \ {c}) = 0 /\ IsFiniteSet(S \ {c})
    BY <2>1, <1>1, <1>3, FS_Subset
  <2>3. S \ {c} = {}
    BY <2>2, FS_EmptySet
  <2> QED BY <2>1, <2>3
<1>5. ASSUME NEW w \in S, c \in S, w # c, Cardinality(S) # 2
      PROVE  \E d \in S : d \notin {c, w}
  <2>1. SUFFICES ASSUME S = {c, w} PROVE FALSE
    BY <1>5
  <2>2. S \ {c} = {w}
    BY <2>1, <1>5
  <2>3. Cardinality({w}) = 1
    BY FS_Singleton
  <2> QED BY <2>2, <2>3, <1>1, <1>3, <1>5
<1> QED BY <1>1, <1>2, <1>3, <1>4, <1>5

(* A transaction begins or becomes a write transaction. *)
LEMMA BeginKeeps ==
    ASSUME CacheInv, NEW c \in Conn, NEW wr \in 0 .. 2, BeginTrans(c, wr)
    PROVE  CacheInv'
<1> USE DEF NONE, READ, WRITE
<1> DEFINE mode == IF wr > 0 THEN WRITE ELSE READ
<1>1. /\ CanBegin(c, wr) /\ inTrans' = [inTrans EXCEPT ![c] = mode]
      /\ inTransaction' = IF mode > inTransaction THEN mode ELSE inTransaction
      /\ mode \in {READ, WRITE} /\ mode \in NONE .. WRITE
  BY DEF BeginTrans
<1>2. /\ ~(wr > 0 /\ inTransaction = WRITE) /\ "PENDING" \notin btsFlags
      /\ wr > 1 => Others(c) = {}
      /\ Holders(c, Master, READ) = {}
  BY DEF BeginTrans, BeginHolders
<1>3. /\ pWriter # c => "EXCLUSIVE" \notin btsFlags
      /\ \A d \in Conn \ {c} : eLock[d][Master] \in {NONE, READ}
  BY <1>2 DEF Holders, Conflicts
<1>4. inTrans[c] \in {NONE, READ} /\ pWriter # c
  BY <1>1 DEF CanBegin, CacheInv, CacheShape, OneWriter
<1>5. /\ Starts(c) => nTransaction' = nTransaction + 1 /\ eLock' = [eLock EXCEPT ![c][Master] = READ]
      /\ ~Starts(c) => nTransaction' = nTransaction /\ eLock' = eLock
  BY DEF BeginTrans
<1>6. CacheInv
  OBVIOUS
<1>7. \A d \in Conn : inTrans'[d] = IF d = c THEN mode ELSE inTrans[d]
  BY <1>1, <1>6 DEF CacheInv, CacheShape
<1>8. \A d \in Conn, t \in Table :
        eLock'[d][t] = IF d = c /\ t = Master /\ Starts(c) THEN READ ELSE eLock[d][t]
  BY <1>5, <1>6, TableAssumption DEF CacheInv, CacheShape
<1>9. CacheShape'
  <2>1. /\ inTrans' \in [Conn -> NONE .. WRITE] /\ inTransaction' \in NONE .. WRITE
        /\ eLock' \in [Conn -> [Table -> NONE .. WRITE]]
    BY <1>1, <1>5, <1>6, TableAssumption DEF CacheInv, CacheShape
  <2>2. pWriter' \in Conn \cup {NoConn} /\ btsFlags' \subseteq {"EXCLUSIVE", "PENDING"}
    BY <1>6 DEF BeginTrans, CacheInv, CacheShape
  <2>3. nTransaction' = Cardinality(InTx')
    <3>1. InTx' = InTx \cup {c} /\ InTx \subseteq Conn /\ (c \notin InTx <=> Starts(c))
      BY <1>7, <1>1 DEF InTx, Starts
    <3>2. nTransaction = Cardinality(InTx)
      BY <1>6 DEF CacheInv, CacheShape
    <3>3. c \notin InTx => Cardinality(InTx \cup {c}) = Cardinality(InTx) + 1
      BY <3>1, Counted
    <3>4. c \in InTx => InTx \cup {c} = InTx
      OBVIOUS
    <3> QED BY <3>1, <3>2, <3>3, <3>4, <1>5
  <2> QED BY <2>1, <2>2, <2>3 DEF CacheShape
<1>10. LocksHeld /\ OneWriter /\ TablesIsolated /\ PendingForReaders /\ CacheShape
  BY <1>6 DEF CacheInv
<1>11. CASE wr = 0
  <2>1. mode = READ /\ pWriter' = pWriter /\ btsFlags' = btsFlags
    BY <1>11 DEF BeginTrans
  <2>2. inTransaction' = WRITE <=> inTransaction = WRITE
    BY <2>1, <1>1, <1>10 DEF CacheShape
  <2>3. LocksHeld'
    BY <2>1, <1>7, <1>8, <1>10 DEF LocksHeld
  <2>4. OneWriter'
    BY <2>1, <2>2, <1>4, <1>7, <1>10 DEF OneWriter
  <2>5. TablesIsolated'
    BY <2>1, <1>3, <1>4, <1>8, <1>10 DEF TablesIsolated
  <2>6. PendingForReaders'
    BY <2>1, <1>2 DEF PendingForReaders
  <2> QED BY <2>3, <2>4, <2>5, <2>6, <1>9 DEF CacheInv
<1>12. CASE wr > 0
  <2>1. pWriter = NoConn /\ btsFlags = {}
    BY <1>2, <1>12, <1>10 DEF CacheShape, OneWriter
  <2>2. pWriter' = c /\ mode = WRITE /\ inTransaction' = WRITE
    BY <1>12, <1>1, <1>10 DEF BeginTrans, CacheShape
  <2>3. btsFlags' = IF wr > 1 THEN {"EXCLUSIVE"} ELSE {}
    BY <2>1, <1>12 DEF BeginTrans
  <2>4. LocksHeld'
    BY <2>1, <2>2, <1>7, <1>8, <1>10, ConnAssumption DEF LocksHeld
  <2>5. OneWriter'
    BY <2>1, <2>2, <2>3, <1>7, <1>10, ConnAssumption DEF OneWriter
  <2>6. TablesIsolated'
    <3>1. SUFFICES ASSUME NEW x \in Conn, NEW y \in Conn \ {x}, NEW t \in Table, eLock'[x][t] # NONE
                   PROVE  eLock'[y][t] # WRITE /\ ~(pWriter' = y /\ "EXCLUSIVE" \in btsFlags')
      BY DEF TablesIsolated
    <3>2. eLock'[y][t] # WRITE
      BY <2>1, <1>8, <1>10, ConnAssumption DEF LocksHeld
    <3>3. ASSUME y = c, wr > 1 PROVE FALSE
      <4>1. x \in Others(c)
        BY <3>1, <3>3, <1>8 DEF Others
      <4> QED BY <4>1, <3>3, <1>2
    <3> QED BY <3>2, <3>3, <2>2, <2>3
  <2>7. PendingForReaders'
    BY <2>3 DEF PendingForReaders
  <2> QED BY <2>4, <2>5, <2>6, <2>7, <1>9 DEF CacheInv
<1> QED BY <1>11, <1>12

(* A lock on a table is granted. *)
LEMMA LockKeeps ==
    ASSUME CacheInv, NEW c \in Conn, NEW t \in Table, NEW e \in {READ, WRITE}, LockTable(c, t, e)
    PROVE  CacheInv'
<1> USE DEF NONE, READ, WRITE
<1>1. CacheShape /\ LocksHeld /\ OneWriter /\ TablesIsolated /\ PendingForReaders
  BY DEF CacheInv
<1>2. UNCHANGED <<inTrans, inTransaction, nTransaction, pWriter, btsFlags>>
  BY DEF LockTable
<1>3. \A d \in Conn, u \in Table :
        eLock'[d][u] = IF d = c /\ u = t /\ e > eLock[c][t] THEN e ELSE eLock[d][u]
  BY <1>1 DEF LockTable, CacheShape
<1>4. /\ inTrans[c] # NONE /\ (e = WRITE => pWriter = c)
      /\ pWriter # c => "EXCLUSIVE" \notin btsFlags
      /\ \A d \in Conn \ {c} : eLock[d][t] \in {NONE, e}
  BY <1>1 DEF LockTable, MayAsk, Holders, Conflicts, OneWriter
<1>5. CacheShape'
  <2>1. eLock' \in [Conn -> [Table -> NONE .. WRITE]]
    BY <1>1 DEF LockTable, CacheShape
  <2> QED BY <2>1, <1>1, <1>2 DEF CacheShape, InTx
<1>6. LocksHeld'
  BY <1>1, <1>2, <1>3, <1>4 DEF LocksHeld
<1>7. OneWriter' /\ PendingForReaders'
  BY <1>1, <1>2 DEF OneWriter, PendingForReaders
<1>8. TablesIsolated'
  <2>1. SUFFICES ASSUME NEW x \in Conn, NEW y \in Conn \ {x}, NEW u \in Table, eLock'[x][u] # NONE
                 PROVE  eLock'[y][u] # WRITE /\ ~(pWriter' = y /\ "EXCLUSIVE" \in btsFlags')
    BY DEF TablesIsolated
  <2>2. CASE x = c
    <3>1. eLock'[y][u] = eLock[y][u]
      BY <2>2, <1>3
    <3>2. ~(pWriter' = y /\ "EXCLUSIVE" \in btsFlags')
      BY <2>2, <1>2, <1>4
    <3>3. CASE u = t
      BY <3>1, <3>2, <3>3, <2>2, <1>1, <1>4 DEF LocksHeld
    <3>4. CASE u # t
      <4>1. eLock[x][u] # NONE
        BY <2>1, <3>4, <1>3
      <4> QED BY <4>1, <3>1, <3>2, <1>1 DEF TablesIsolated
    <3> QED BY <3>3, <3>4
  <2>3. CASE x # c
    <3>1. eLock[x][u] # NONE
      BY <2>1, <2>3, <1>3
    <3>2. eLock[y][u] # WRITE /\ ~(pWriter = y /\ "EXCLUSIVE" \in btsFlags)
      BY <3>1, <1>1 DEF TablesIsolated
    <3>3. ASSUME y = c, u = t PROVE eLock'[y][u] # WRITE
      BY <3>3, <3>1, <3>2, <2>3, <1>1, <1>3, <1>4 DEF LocksHeld
    <3> QED BY <3>2, <3>3, <1>2, <1>3
  <2> QED BY <2>2, <2>3
<1> QED BY <1>5, <1>6, <1>7, <1>8 DEF CacheInv

(* New transactions are kept out on behalf of a writer that met a reader. *)
LEMMA PendingKeeps ==
    ASSUME CacheInv, NEW c \in Conn, NEW d \in Conn \ {c}, pWriter = c, inTrans[d] # NONE, SetPending
    PROVE  CacheInv'
<1>1. btsFlags' = btsFlags \cup {"PENDING"}
      /\ UNCHANGED <<inTrans, eLock, inTransaction, nTransaction, pWriter>>
  BY DEF SetPending
<1> QED
  BY <1>1 DEF CacheInv, CacheShape, LocksHeld, OneWriter, TablesIsolated, PendingForReaders, InTx

(* A transaction ends, or goes on as a read transaction. *)
LEMMA EndKeeps ==
    ASSUME CacheInv, NEW c \in Conn, NEW active \in BOOLEAN, EndTrans(c, active)
    PROVE  CacheInv'
<1> USE DEF NONE, READ, WRITE
<1>1. CacheShape /\ LocksHeld /\ OneWriter /\ TablesIsolated /\ PendingForReaders
  BY DEF CacheInv
<1>2. CASE inTrans[c] = NONE
  <2>1. UNCHANGED <<inTrans, eLock, inTransaction, nTransaction, pWriter, btsFlags>>
    BY <1>2 DEF EndTrans, cacheVars
  <2> QED
    BY <2>1, <1>1 DEF CacheInv, CacheShape, InTx, LocksHeld, OneWriter, TablesIsolated, PendingForReaders
<1>3. ASSUME inTrans[c] # NONE PROVE CacheInv'
  <2>1. pWriter' = IF pWriter = c THEN NoConn ELSE pWriter
    BY <1>3 DEF EndTrans
  <2>2. /\ \A d \in Conn, t \in Table : eLock'[d][t] # NONE => eLock[d][t] # NONE
        /\ \A d \in Conn, t \in Table : eLock'[d][t] = WRITE => eLock[d][t] = WRITE /\ d # c
        /\ ~active => \A t \in Table : eLock'[c][t] = NONE
        /\ eLock' \in [Conn -> [Table -> NONE .. WRITE]]
    <3>1. CASE active /\ pWriter = c
      <4>1. \A d \in Conn, t \in Table : eLock'[d][t] = Downgraded(eLock[d][t])
        BY <3>1, <1>3 DEF EndTrans
      <4>2. \A d \in Conn, t \in Table : eLock[d][t] \in NONE .. WRITE
        BY <1>1 DEF CacheShape
      <4>3. eLock' \in [Conn -> [Table -> NONE .. WRITE]]
        BY <3>1, <1>3, <4>2 DEF EndTrans, Downgraded
      <4> QED BY <4>1, <4>2, <4>3, <3>1 DEF Downgraded
    <3>2. CASE active /\ pWriter # c
      BY <3>2, <1>1, <1>3 DEF EndTrans, CacheShape, LocksHeld
    <3>3. CASE ~active
      <4>1. eLock' = [eLock EXCEPT ![c] = [t \in Table |-> NONE]]
        BY <3>3, <1>3 DEF EndTrans
      <4> QED BY <4>1, <3>3, <1>1 DEF CacheShape
    <3> QED BY <3>1, <3>2, <3>3
  <2>3. \A d \in Conn : inTrans'[d] = IF d # c THEN inTrans[d] ELSE IF active THEN READ ELSE NONE
    BY <1>1, <1>3 DEF EndTrans, CacheShape
  <2>4. /\ InTx \subseteq Conn /\ c \in InTx
        /\ InTx' = IF active THEN InTx ELSE InTx \ {c}
    BY <1>3, <2>3 DEF InTx
  <2>5. nTransaction = Cardinality(InTx)
    BY <1>1 DEF CacheShape
  <2>6. nTransaction' = Cardinality(InTx')
    <3>1. Cardinality(InTx \ {c}) = Cardinality(InTx) - 1
      BY <2>4, Counted
    <3> QED BY <3>1, <2>4, <2>5, <1>3 DEF EndTrans
  <2>7. btsFlags' \subseteq btsFlags /\ (pWriter = c => btsFlags' = {})
    BY <1>3 DEF EndTrans, ClearedFlags
  <2>8. CacheShape'
    <3>1. inTrans' \in [Conn -> NONE .. WRITE]
      BY <1>1, <1>3 DEF EndTrans, CacheShape
    <3>2. inTransaction' \in NONE .. WRITE
      BY <1>1, <1>3 DEF EndTrans, CacheShape
    <3> QED BY <3>1, <3>2, <2>1, <2>2, <2>6, <2>7, <1>1 DEF CacheShape
  <2>9. LocksHeld'
    BY <2>1, <2>2, <2>3, <1>1 DEF LocksHeld
  <2>10. inTransaction' = WRITE <=> pWriter' \in Conn
    <3>1. CASE inTrans[c] = WRITE
      BY <3>1, <2>1, <1>1, <1>3, ConnAssumption DEF EndTrans, OneWriter
    <3>2. CASE inTrans[c] # WRITE /\ pWriter \in Conn
      <4>1. pWriter \in InTx /\ pWriter # c
        BY <3>2, <1>1 DEF InTx, OneWriter
      <4>2. nTransaction # 1
        <5>1. c \in InTx /\ Cardinality(InTx) = 1 => InTx = {c}
          BY <2>4, Counted
        <5> QED BY <5>1, <4>1, <2>4, <2>5
      <4> QED BY <4>1, <4>2, <3>2, <2>1, <1>1, <1>3 DEF EndTrans, OneWriter
    <3>3. CASE inTrans[c] # WRITE /\ pWriter \notin Conn
      BY <3>3, <2>1, <1>1, <1>3 DEF EndTrans, OneWriter
    <3> QED BY <3>1, <3>2, <3>3
  <2>11. OneWriter'
    BY <2>1, <2>3, <2>7, <2>10, <1>1, ConnAssumption DEF OneWriter
  <2>12. TablesIsolated'
    <3>1. SUFFICES ASSUME NEW x \in Conn, NEW y \in Conn \ {x}, NEW t \in Table, eLock'[x][t] # NONE
                   PROVE  eLock'[y][t] # WRITE /\ ~(pWriter' = y /\ "EXCLUSIVE" \in btsFlags')
      BY DEF TablesIsolated
    <3>2. eLock[x][t] # NONE
      BY <3>1, <2>2
    <3>3. eLock[y][t] # WRITE /\ ~(pWriter = y /\ "EXCLUSIVE" \in btsFlags)
      BY <3>2, <1>1 DEF TablesIsolated
    <3> QED BY <3>3, <2>1, <2>2, <2>7, ConnAssumption
  <2>13. PendingForReaders'
    <3>1. SUFFICES ASSUME "PENDING" \in btsFlags'
                   PROVE  \E d \in Conn \ {pWriter'} : pWriter' \in Conn /\ inTrans'[d] # NONE
      BY DEF PendingForReaders
    <3>2. "PENDING" \in btsFlags /\ pWriter # c /\ pWriter' = pWriter
      BY <3>1, <2>1, <2>7
    <3>3. PICK d \in Conn \ {pWriter} : pWriter \in Conn /\ inTrans[d] # NONE
      BY <3>2, <1>1 DEF PendingForReaders
    <3>4. CASE active
      BY <3>2, <3>3, <3>4, <2>3
    <3>5. CASE ~active
      <4>1. nTransaction # 2
        BY <3>1, <3>2, <3>5, <1>3 DEF EndTrans, ClearedFlags, LastReader
      <4>2. pWriter \in InTx
        BY <3>3, <1>1 DEF InTx, OneWriter
      <4>3. PICK x \in InTx : x \notin {c, pWriter}
        <5>1. \A w \in InTx : c \in InTx /\ w # c /\ Cardinality(InTx) # 2 => \E x \in InTx : x \notin {c, w}
          BY <2>4, Counted
        <5> QED BY <5>1, <4>1, <4>2, <3>2, <2>4, <2>5
      <4> QED BY <4>3, <3>2, <3>3, <2>3 DEF InTx
    <3> QED BY <3>4, <3>5
  <2> QED BY <2>8, <2>9, <2>11, <2>12, <2>13 DEF CacheInv
<1> QED BY <1>2, <1>3

-----------------------------------------------------------------------------
(* The threads. *)

Places == {"app", "unlocking", "closing", "closed", "gone"}

ThreadShape ==
    /\ pBlocking \in [Conn -> Conn \cup {NoConn}]
    /\ pUnlock \in [Conn -> Conn \cup {NoConn}]
    /\ pc \in [Conn -> Places]
    /\ refused \in [db : Conn \cup {NoConn}, by : Conn \cup {NoConn}, pend : BOOLEAN]
    /\ blocked \subseteq Conn /\ waiting \subseteq Conn

(* A connection is about to be refused because of another's transaction; only
   the writer asks for new transactions to be kept out. *)
RefusedBy ==
    refused # Free =>
        /\ refused.db \in Conn /\ refused.by \in Conn \ {refused.db}
        /\ pc[refused.db] = "app" /\ inTrans[refused.by] # NONE
        /\ refused.pend => pWriter = refused.db

(* A connection that closes has rolled back. *)
ClosedEmpty == \A c \in Conn : pc[c] \in {"closing", "closed", "gone"} => inTrans[c] = NONE

BaseInv == CacheInv /\ ThreadShape /\ RefusedBy /\ ClosedEmpty

(* Whoever is refused is refused because of another connection's transaction. *)
LEMMA HoldersEnd ==
    ASSUME CacheInv, NEW c \in Conn
    PROVE  /\ \A t \in Table, e \in {READ, WRITE} : \A d \in Holders(c, t, e) :
                 d \in Conn \ {c} /\ inTrans[d] # NONE
           /\ \A wr \in 0 .. 2 : CanBegin(c, wr) => \A d \in BeginHolders(c, wr) :
                 d \in Conn \ {c} /\ inTrans[d] # NONE
<1> USE DEF NONE, READ, WRITE
<1>1. CacheShape /\ LocksHeld /\ OneWriter
  BY DEF CacheInv
<1>2. ASSUME NEW t \in Table, NEW e \in {READ, WRITE}, NEW d \in Holders(c, t, e)
      PROVE  d \in Conn \ {c} /\ inTrans[d] # NONE
  <2>1. CASE pWriter # c /\ "EXCLUSIVE" \in btsFlags
    <3>1. d = pWriter /\ pWriter \in Conn
      BY <2>1, <1>1, <1>2 DEF Holders, OneWriter
    <3> QED BY <3>1, <2>1, <1>1 DEF OneWriter
  <2>2. CASE ~(pWriter # c /\ "EXCLUSIVE" \in btsFlags)
    BY <2>2, <1>1, <1>2 DEF Holders, Conflicts, LocksHeld
  <2> QED BY <2>1, <2>2
<1>3. ASSUME NEW wr \in 0 .. 2, CanBegin(c, wr), NEW d \in BeginHolders(c, wr)
      PROVE  d \in Conn \ {c} /\ inTrans[d] # NONE
  <2>1. CASE (wr > 0 /\ inTransaction = WRITE) \/ "PENDING" \in btsFlags
    <3>1. d = pWriter /\ pWriter \in Conn
      BY <2>1, <1>1, <1>3 DEF BeginHolders, OneWriter
    <3>2. inTrans[c] # WRITE
      BY <1>3 DEF CanBegin
    <3> QED BY <3>1, <3>2, <1>1 DEF OneWriter
  <2>2. CASE ~((wr > 0 /\ inTransaction = WRITE) \/ "PENDING" \in btsFlags) /\ wr > 1 /\ Others(c) # {}
    BY <2>2, <1>1, <1>3 DEF BeginHolders, Others, LocksHeld
  <2>3. CASE ~((wr > 0 /\ inTransaction = WRITE) \/ "PENDING" \in btsFlags) /\ ~(wr > 1 /\ Others(c) # {})
    <3>1. d \in Holders(c, Master, READ)
      BY <2>3, <1>3 DEF BeginHolders
    <3> QED BY <3>1, <1>2, TableAssumption
  <2> QED BY <2>1, <2>2, <2>3
<1> QED BY <1>2, <1>3

LEMMA BaseInit == Init => BaseInv
<1> SUFFICES ASSUME Init PROVE BaseInv
  OBVIOUS
<1> USE DEF Init, CacheInit, ListInit, NONE, READ, WRITE
<1>1. CacheInv
  <2>1. InTx = {}
    BY DEF InTx
  <2>2. CacheShape
    BY <2>1, FS_EmptySet DEF CacheShape
  <2> QED BY <2>2, ConnAssumption DEF CacheInv, LocksHeld, OneWriter, TablesIsolated, PendingForReaders
<1>2. ThreadShape /\ RefusedBy /\ ClosedEmpty
  BY DEF ThreadShape, RefusedBy, ClosedEmpty, Free, Places
<1> QED BY <1>1, <1>2 DEF BaseInv

(* Every invariant of the cache depends on the variables of the cache only. *)
LEMMA CacheStutters == CacheInv /\ UNCHANGED cacheVars => CacheInv'
BY DEF cacheVars, CacheInv, CacheShape, InTx, LocksHeld, OneWriter, TablesIsolated, PendingForReaders

(* What a connection does to its own transaction. *)
LEMMA BeginTx ==
    ASSUME CacheInv, NEW c \in Conn, NEW wr \in 0 .. 2, BeginTrans(c, wr)
    PROVE  \A d \in Conn : inTrans'[d] # NONE <=> d = c \/ inTrans[d] # NONE
BY DEF BeginTrans, CacheInv, CacheShape, NONE, READ, WRITE

LEMMA EndTx ==
    ASSUME CacheInv, NEW c \in Conn, NEW active \in BOOLEAN, EndTrans(c, active)
    PROVE  /\ \A d \in Conn \ {c} : inTrans'[d] = inTrans[d]
           /\ ~active => inTrans'[c] = NONE
BY DEF EndTrans, cacheVars, CacheInv, CacheShape, NONE, READ, WRITE

LEMMA BaseStep == BaseInv /\ [Next]_vars => BaseInv'
<1> SUFFICES ASSUME BaseInv, [Next]_vars PROVE BaseInv'
  OBVIOUS
<1>1. CacheInv /\ ThreadShape /\ RefusedBy /\ ClosedEmpty
  BY DEF BaseInv
<1>2. ASSUME NEW c \in Conn, NEW wr \in 0 .. 2, Begin(c, wr) PROVE BaseInv'
  <2>1. pc[c] = "app" /\ refused = Free /\ UNCHANGED <<listVars, threadVars>> /\ BeginTrans(c, wr)
    BY <1>2 DEF Begin, Enters, Calls, At
  <2>2. CacheInv'
    BY <2>1, <1>1, BeginKeeps
  <2>3. \A d \in Conn : inTrans'[d] # NONE <=> d = c \/ inTrans[d] # NONE
    BY <2>1, <1>1, BeginTx
  <2> QED
    BY <2>1, <2>2, <2>3, <1>1 DEF BaseInv, ThreadShape, RefusedBy, ClosedEmpty, listVars, threadVars
<1>3. ASSUME NEW c \in Conn, NEW t \in Table, NEW e \in {READ, WRITE}, Lock(c, t, e) PROVE BaseInv'
  <2>1. UNCHANGED <<listVars, threadVars, inTrans, pWriter>> /\ LockTable(c, t, e)
    BY <1>3 DEF Lock, LockTable
  <2>2. CacheInv'
    BY <2>1, <1>1, LockKeeps
  <2> QED
    BY <2>1, <2>2, <1>1 DEF BaseInv, ThreadShape, RefusedBy, ClosedEmpty, listVars, threadVars
<1>4. ASSUME NEW c \in Conn, NEW wr \in 0 .. 2, BeginRefused(c, wr) PROVE BaseInv'
  <2>1. /\ pc[c] = "app" /\ CanBegin(c, wr)
        /\ UNCHANGED <<cacheVars, listVars, pc, waiting>>
    BY <1>4 DEF BeginRefused, Enters, Calls, At
  <2>2. PICK d \in BeginHolders(c, wr) : refused' = [db |-> c, by |-> d, pend |-> FALSE]
    BY <1>4 DEF BeginRefused
  <2>3. d \in Conn \ {c} /\ inTrans[d] # NONE
    BY <2>1, <1>1, HoldersEnd
  <2>4. CacheInv' /\ UNCHANGED <<inTrans, pWriter>>
    BY <2>1, <1>1, CacheStutters DEF cacheVars
  <2> QED
    BY <2>1, <2>2, <2>3, <2>4, <1>1 DEF BaseInv, ThreadShape, RefusedBy, ClosedEmpty, listVars
<1>5. ASSUME NEW c \in Conn, NEW t \in Table, NEW e \in {READ, WRITE}, LockRefused(c, t, e) PROVE BaseInv'
  <2>1. /\ pc[c] = "app" /\ MayAsk(c, e)
        /\ UNCHANGED <<cacheVars, listVars, pc, waiting>>
    BY <1>5 DEF LockRefused, Enters, Calls, At
  <2>2. PICK d \in Holders(c, t, e) : refused' = [db |-> c, by |-> d, pend |-> e = WRITE]
    BY <1>5 DEF LockRefused
  <2>3. d \in Conn \ {c} /\ inTrans[d] # NONE
    BY <1>1, HoldersEnd
  <2>4. CacheInv' /\ UNCHANGED <<inTrans, pWriter>>
    BY <2>1, <1>1, CacheStutters DEF cacheVars
  <2>5. e = WRITE => pWriter = c
    BY <2>1, <1>1 DEF MayAsk, CacheInv, OneWriter
  <2>6. (e = WRITE) \in BOOLEAN
    OBVIOUS
  <2> QED
    BY <2>1, <2>2, <2>3, <2>4, <2>5, <2>6, <1>1 DEF BaseInv, ThreadShape, RefusedBy, ClosedEmpty, listVars
<1>6. ASSUME NEW c \in Conn, Refuse(c) PROVE BaseInv'
  <2>1. /\ refused.db = c /\ refused' = Free /\ UNCHANGED <<pc, waiting, pUnlock>>
        /\ blocked' \subseteq blocked \cup {c}
        /\ pBlocking' = [pBlocking EXCEPT ![c] = refused.by]
        /\ IF refused.pend THEN SetPending ELSE UNCHANGED cacheVars
    BY <1>6 DEF Refuse, ConnectionBlocked
  <2>2. refused # Free
    BY <2>1, ConnAssumption DEF Free
  <2>3. refused.by \in Conn \ {c} /\ inTrans[refused.by] # NONE /\ (refused.pend => pWriter = c)
    BY <2>1, <2>2, <1>1 DEF RefusedBy
  <2>4. CacheInv' /\ UNCHANGED inTrans
    BY <2>1, <2>3, <1>1, PendingKeeps, CacheStutters DEF SetPending, cacheVars
  <2>5. ThreadShape'
    BY <2>1, <2>3, <1>1 DEF ThreadShape, Free
  <2> QED
    BY <2>1, <2>4, <2>5, <1>1 DEF BaseInv, RefusedBy, ClosedEmpty
<1>7. ASSUME NEW c \in Conn, NEW active \in BOOLEAN, Halt(c, active) PROVE BaseInv'
  <2>1. /\ pc[c] = "app" /\ refused = Free /\ UNCHANGED <<listVars, refused, waiting>>
        /\ EndTrans(c, active) /\ pc' = [pc EXCEPT ![c] = "unlocking"]
    BY <1>7 DEF Halt, Enters, Calls, At, Go
  <2>2. CacheInv' /\ \A d \in Conn \ {c} : inTrans'[d] = inTrans[d]
    BY <2>1, <1>1, EndKeeps, EndTx
  <2> QED
    BY <2>1, <2>2, <1>1 DEF BaseInv, ThreadShape, RefusedBy, ClosedEmpty, listVars, Places
<1>8. ASSUME NEW c \in Conn, Close(c) PROVE BaseInv'
  <2>1. /\ pc[c] = "app" /\ refused = Free /\ UNCHANGED <<listVars, refused, waiting>>
        /\ EndTrans(c, FALSE) /\ pc' = [pc EXCEPT ![c] = "closing"]
    BY <1>8 DEF Close, Enters, Calls, At, Go
  <2>2. CacheInv' /\ (\A d \in Conn \ {c} : inTrans'[d] = inTrans[d]) /\ inTrans'[c] = NONE
    BY <2>1, <1>1, EndKeeps, EndTx
  <2> QED
    BY <2>1, <2>2, <1>1 DEF BaseInv, ThreadShape, RefusedBy, ClosedEmpty, listVars, Places
<1>9. ASSUME NEW c \in Conn, HaltOpen(c) \/ Unlocked(c) \/ UnlockNotify(c) \/ CancelNotify(c) \/ Leave(c)
      PROVE  BaseInv'
  <2>1. UNCHANGED <<cacheVars, refused>> /\ refused.db # c
    BY <1>9 DEF HaltOpen, Unlocked, UnlockNotify, CancelNotify, Leave, Calls, At, threadVars
  <2>2. CacheInv' /\ UNCHANGED <<inTrans, pWriter, refused>>
    BY <2>1, <1>1, CacheStutters DEF cacheVars
  <2>3. /\ pc' \in [Conn -> Places] /\ \A d \in Conn \ {c} : pc'[d] = pc[d]
        /\ pc'[c] \in {"closing", "closed", "gone"} => inTrans[c] = NONE
    <3>1. CASE HaltOpen(c)
      BY <3>1, <1>1 DEF HaltOpen, Go, ThreadShape, Places
    <3>2. CASE Unlocked(c)
      BY <3>2, <1>1 DEF Unlocked, Go, ThreadShape, ClosedEmpty, Places
    <3>3. CASE UnlockNotify(c) \/ CancelNotify(c)
      BY <3>3, <1>1 DEF UnlockNotify, CancelNotify, threadVars, ThreadShape, ClosedEmpty
    <3>4. CASE Leave(c)
      BY <3>4, <1>1 DEF Leave, At, Go, ThreadShape, ClosedEmpty, Places
    <3> QED BY <3>1, <3>2, <3>3, <3>4, <1>9
  <2>4. /\ pBlocking' \in [Conn -> Conn \cup {NoConn}] /\ pUnlock' \in [Conn -> Conn \cup {NoConn}]
        /\ blocked' \subseteq Conn /\ waiting' \subseteq Conn
    <3>1. CASE HaltOpen(c) \/ Leave(c)
      BY <3>1, <1>1 DEF HaltOpen, Leave, Forget, listVars, ThreadShape
    <3>2. CASE Unlocked(c)
      BY <3>2, <1>1 DEF Unlocked, ConnectionUnlocked, Cleared, StillBlocked, ThreadShape
    <3>3. CASE UnlockNotify(c)
      BY <3>3, <1>1 DEF UnlockNotify, NotifyNow, Deadlock, Register, listVars, ThreadShape
    <3>4. CASE CancelNotify(c)
      BY <3>4, <1>1 DEF CancelNotify, Cancel, threadVars, ThreadShape
    <3> QED BY <3>1, <3>2, <3>3, <3>4, <1>9
  <2>5. ThreadShape'
    BY <2>2, <2>3, <2>4, <1>1 DEF ThreadShape
  <2>6. RefusedBy' /\ ClosedEmpty'
    BY <2>1, <2>2, <2>3, <1>1 DEF RefusedBy, ClosedEmpty
  <2> QED BY <2>2, <2>5, <2>6 DEF BaseInv
<1>10. CASE UNCHANGED vars
  <2>1. CacheInv'
    BY <1>10, <1>1, CacheStutters DEF vars
  <2> QED
    BY <2>1, <1>10, <1>1 DEF BaseInv, ThreadShape, RefusedBy, ClosedEmpty, vars, cacheVars, listVars, threadVars
<1> QED
  BY <1>2, <1>3, <1>4, <1>5, <1>6, <1>7, <1>8, <1>9, <1>10, ZenonT(60) DEF Next

LEMMA BaseHolds == Spec => []BaseInv
BY BaseInit, BaseStep, PTL DEF Spec

(* Every variable keeps its shape, and the counter of transactions is exact:
   btreeEndTransaction() and clearAllSharedCacheTableLocks() decide by it. *)
THEOREM TypeCorrect == Spec => []TypeOK
<1>1. BaseInv => TypeOK
  BY DEF BaseInv, CacheInv, CacheShape, ThreadShape, TypeOK, InTx, Places
<1> QED BY <1>1, BaseHolds, PTL

(* No connection has any lock on a table another one writes to, nor beside an
   exclusive transaction: what the assertions of querySharedCacheTableLock()
   and clearAllSharedCacheTableLocks() say. *)
THEOREM TablesAlwaysIsolated == Spec => []TablesIsolated
<1>1. BaseInv => TablesIsolated
  BY DEF BaseInv, CacheInv
<1> QED BY <1>1, BaseHolds, PTL

(* BTS_PENDING, which keeps every new transaction out, is only set while the
   writer has another transaction to wait for (btreeInt.h). *)
THEOREM PendingOnlyForReaders == Spec => []PendingForReaders
<1>1. BaseInv => PendingForReaders
  BY DEF BaseInv, CacheInv
<1> QED BY <1>1, BaseHolds, PTL

-----------------------------------------------------------------------------
(* The list: who is on it, and whom they wait for. *)

Ends(d) == inTrans[d] # NONE \/ pc[d] \in {"unlocking", "closing"}

ListInv == Listed /\ NotForgotten

(* Steps that leave the list alone and end no connection. *)
LEMMA ListStutters ==
    ASSUME ListInv, UNCHANGED listVars,
           \A d \in Conn : Ends(d) => Ends(d)',
           \A d \in Conn : pc[d] = "gone" => pc'[d] = "gone",
           ThreadShape
    PROVE  ListInv'
BY ConnAssumption DEF ListInv, Listed, NotForgotten, NewEntry, Ends, listVars, ThreadShape

LEMMA ListStep == BaseInv /\ ListInv /\ [Next]_vars => ListInv'
<1> SUFFICES ASSUME BaseInv, ListInv, [Next]_vars PROVE ListInv'
  OBVIOUS
<1>1. CacheInv /\ ThreadShape /\ RefusedBy /\ ClosedEmpty
  BY DEF BaseInv
<1>2. ASSUME NEW c \in Conn, NEW wr \in 0 .. 2, Begin(c, wr) PROVE ListInv'
  <2>1. UNCHANGED <<listVars, pc>> /\ BeginTrans(c, wr)
    BY <1>2 DEF Begin, threadVars
  <2>2. \A d \in Conn : Ends(d) => Ends(d)'
    BY <2>1, <1>1, BeginTx DEF Ends
  <2> QED BY <2>1, <2>2, <1>1, ListStutters
<1>3. ASSUME NEW c \in Conn, NEW t \in Table, NEW e \in {READ, WRITE}, Lock(c, t, e) PROVE ListInv'
  <2>1. UNCHANGED <<listVars, pc, inTrans>>
    BY <1>3 DEF Lock, LockTable, threadVars
  <2>2. \A d \in Conn : Ends(d) => Ends(d)'
    BY <2>1 DEF Ends
  <2> QED BY <2>1, <2>2, <1>1, ListStutters
<1>4. ASSUME NEW c \in Conn, \/ \E wr \in 0 .. 2 : BeginRefused(c, wr)
                             \/ \E t \in Table, e \in {READ, WRITE} : LockRefused(c, t, e)
                             \/ HaltOpen(c)
      PROVE  ListInv'
  <2>1. UNCHANGED <<listVars, inTrans>>
    BY <1>4 DEF BeginRefused, LockRefused, HaltOpen, cacheVars
  <2>2. UNCHANGED pc \/ (pc[c] = "app" /\ pc' = [pc EXCEPT ![c] = "unlocking"])
    BY <1>4 DEF BeginRefused, LockRefused, HaltOpen, Calls, At, Go
  <2>3. \A d \in Conn : (Ends(d) => Ends(d)') /\ (pc[d] = "gone" => pc'[d] = "gone")
    BY <2>1, <2>2, <1>1 DEF Ends, ThreadShape
  <2> QED BY <2>1, <2>3, <1>1, ListStutters
<1>5. ASSUME NEW c \in Conn, NEW active \in BOOLEAN, NEW place \in {"unlocking", "closing"},
             pc[c] = "app", EndTrans(c, active), UNCHANGED listVars, pc' = [pc EXCEPT ![c] = place]
      PROVE  ListInv'
  <2>1. \A d \in Conn : (Ends(d) => Ends(d)') /\ (pc[d] = "gone" => pc'[d] = "gone")
    BY <1>5, <1>1, EndTx DEF Ends, ThreadShape
  <2> QED BY <2>1, <1>5, <1>1, ListStutters
<1>6. ASSUME NEW c \in Conn, NEW active \in BOOLEAN, Halt(c, active) PROVE ListInv'
  BY <1>5, <1>6 DEF Halt, Enters, Calls, At, Go
<1>7. ASSUME NEW c \in Conn, Close(c) PROVE ListInv'
  BY <1>5, <1>7 DEF Close, Enters, Calls, At, Go
<1>8. ASSUME NEW c \in Conn, Refuse(c) PROVE ListInv'
  <2>1. refused.db = c /\ UNCHANGED <<inTrans, pc, pUnlock>>
    BY <1>8 DEF Refuse, ConnectionBlocked, SetPending, cacheVars
  <2>2. refused.by \in Conn /\ inTrans[refused.by] # NONE /\ pc[c] = "app"
    BY <2>1, <1>1, ConnAssumption DEF RefusedBy, Free
  <2>3. /\ pBlocking' = [pBlocking EXCEPT ![c] = refused.by]
        /\ blocked' = IF NewEntry(c) THEN blocked \cup {c} ELSE blocked
    BY <1>8 DEF Refuse, ConnectionBlocked
  <2>4. c \in blocked'
    BY <2>2, <2>3 DEF ListInv, Listed
  <2>5. Listed'
    BY <2>1, <2>2, <2>3, <2>4, <1>1, ConnAssumption DEF ListInv, Listed, NewEntry, ThreadShape
  <2>6. NotForgotten'
    <3>1. SUFFICES ASSUME NEW p \in blocked', NEW d \in {pBlocking'[p], pUnlock'[p]} \ {NoConn}
                   PROVE  inTrans'[d] # NONE \/ pc'[d] \in {"unlocking", "closing"}
      BY DEF NotForgotten
    <3>2. CASE d = refused.by
      BY <3>2, <2>1, <2>2
    <3>3. CASE d # refused.by
      <4>1. p \in Conn
        BY <2>3, <1>1 DEF ThreadShape
      <4>2. d \in {pBlocking[p], pUnlock[p]} \ {NoConn}
        BY <3>3, <4>1, <2>1, <2>3, <1>1 DEF ThreadShape
      <4>3. p \in blocked
        BY <4>1, <4>2, <2>2, <2>3 DEF NewEntry
      <4> QED BY <4>2, <4>3, <2>1 DEF ListInv, NotForgotten
    <3> QED BY <3>2, <3>3
  <2> QED BY <2>5, <2>6 DEF ListInv
<1>9. ASSUME NEW c \in Conn, Unlocked(c) PROVE ListInv'
  <2>1. /\ UNCHANGED inTrans /\ ConnectionUnlocked(c)
        /\ pc[c] \in {"unlocking", "closing"}
        /\ pc' = [pc EXCEPT ![c] = IF pc[c] = "closing" THEN "closed" ELSE "app"]
    BY <1>9 DEF Unlocked, At, Go, cacheVars
  <2>2. \A p \in Conn :
          /\ pBlocking'[p] = IF p \in blocked /\ pBlocking[p] = c THEN NoConn ELSE pBlocking[p]
          /\ pUnlock'[p] = IF p \in blocked /\ pUnlock[p] = c THEN NoConn ELSE pUnlock[p]
    BY <2>1 DEF ConnectionUnlocked, Cleared
  <2>3. \A p \in Conn : p \in blocked' <=> p \in blocked /\ (pBlocking'[p] # NoConn \/ pUnlock'[p] # NoConn)
    BY <2>1 DEF ConnectionUnlocked, StillBlocked
  <2>4. \A d \in Conn : pc'[d] = "gone" <=> pc[d] = "gone"
    BY <2>1, <1>1 DEF ThreadShape
  <2>5. Listed'
    BY <2>2, <2>3, <2>4 DEF ListInv, Listed, NewEntry
  <2>6. NotForgotten'
    <3>1. SUFFICES ASSUME NEW p \in blocked', NEW d \in {pBlocking'[p], pUnlock'[p]} \ {NoConn}
                   PROVE  inTrans'[d] # NONE \/ pc'[d] \in {"unlocking", "closing"}
      BY DEF NotForgotten
    <3>2. p \in Conn /\ p \in blocked
      BY <2>1, <1>1 DEF ConnectionUnlocked, StillBlocked, ThreadShape
    <3>3. d \in {pBlocking[p], pUnlock[p]} \ {NoConn} /\ d # c
      BY <3>1, <3>2, <2>2
    <3>4. d \in Conn
      BY <3>2, <3>3, <1>1 DEF ThreadShape
    <3> QED BY <3>2, <3>3, <3>4, <2>1, <1>1 DEF ListInv, NotForgotten, ThreadShape
  <2> QED BY <2>5, <2>6 DEF ListInv
<1>10. ASSUME NEW c \in Conn, UnlockNotify(c) PROVE ListInv'
  <2>1. pc[c] = "app" /\ UNCHANGED <<inTrans, pc>>
    BY <1>10 DEF UnlockNotify, Calls, At, cacheVars
  <2>2. CASE UNCHANGED listVars
    BY <2>1, <2>2, <1>1, ListStutters DEF Ends
  <2>3. CASE Register(c)
    <3>1. /\ pBlocking[c] # NoConn /\ pUnlock' = [pUnlock EXCEPT ![c] = pBlocking[c]]
          /\ blocked' = blocked \cup {c} /\ UNCHANGED pBlocking
      BY <2>3 DEF Register
    <3>2. c \in blocked
      BY <3>1, <2>1 DEF ListInv, Listed, NewEntry
    <3> QED
      BY <3>1, <3>2, <2>1, <1>1 DEF ListInv, Listed, NotForgotten, NewEntry, ThreadShape
  <2> QED BY <2>2, <2>3, <1>10 DEF UnlockNotify, NotifyNow, Deadlock
<1>11. ASSUME NEW c \in Conn, CancelNotify(c) PROVE ListInv'
  <2>1. /\ UNCHANGED <<inTrans, pc>> /\ blocked' = blocked \ {c}
        /\ pBlocking' = [pBlocking EXCEPT ![c] = NoConn] /\ pUnlock' = [pUnlock EXCEPT ![c] = NoConn]
    BY <1>11 DEF CancelNotify, Cancel, cacheVars, threadVars
  <2> QED
    BY <2>1, <1>1 DEF ListInv, Listed, NotForgotten, NewEntry, ThreadShape
<1>12. ASSUME NEW c \in Conn, Leave(c) PROVE ListInv'
  <2>1. /\ pc[c] = "closed" /\ pc' = [pc EXCEPT ![c] = "gone"]
        /\ UNCHANGED <<inTrans, pBlocking, pUnlock>> /\ blocked' = blocked \ {c}
    BY <1>12 DEF Leave, At, Go, Forget, cacheVars
  <2>2. Listed'
    BY <2>1, <1>1 DEF ListInv, Listed, NewEntry, ThreadShape
  <2>3. NotForgotten'
    BY <2>1, <1>1 DEF ListInv, NotForgotten, ThreadShape
  <2> QED BY <2>2, <2>3 DEF ListInv
<1>13. CASE UNCHANGED vars
  BY <1>13, <1>1, ListStutters DEF vars, cacheVars, threadVars, Ends
<1> QED
  BY <1>2, <1>3, <1>4, <1>6, <1>7, <1>8, <1>9, <1>10, <1>11, <1>12, <1>13, ZenonT(60) DEF Next

LEMMA ListHolds == Spec => []ListInv
<1>1. Init => ListInv
  BY DEF Init, ListInit, ListInv, Listed, NotForgotten, NewEntry
<1> QED BY <1>1, ListStep, BaseHolds, PTL DEF Spec

(* sqlite3BlockedList holds exactly the connections that have a pointer set,
   so addToBlockedList() never meets one that is on it already. *)
THEOREM AlwaysListed == Spec => []Listed
<1>1. ListInv => Listed
  BY DEF ListInv
<1> QED BY <1>1, ListHolds, PTL

(* Whoever a connection on the list waits for still has to call
   sqlite3ConnectionUnlocked(): no wake-up was missed between the two mutexes. *)
THEOREM NeverForgotten == Spec => []NotForgotten
<1>1. ListInv => NotForgotten
  BY DEF ListInv
<1> QED BY <1>1, ListHolds, PTL

-----------------------------------------------------------------------------
(* No circle of waiting connections is ever closed. *)

(* Without pointers there is less to follow. *)
LEMMA FewerPointers ==
    ASSUME NoCycle, \A p \in Conn : pUnlock'[p] \in {pUnlock[p], NoConn}
    PROVE  NoCycle'
<1>1. SUFFICES ASSUME NEW c \in Conn, pUnlock'[c] # NoConn PROVE ~Reaches(pUnlock[c], c)'
                      /\ pUnlock'[c] = pUnlock[c]
  BY DEF NoCycle, Reaches, Closed
<1>2. pUnlock'[c] = pUnlock[c] /\ pUnlock[c] # NoConn
  BY <1>1
<1>3. PICK S \in SUBSET Conn : pUnlock[c] \in S /\ Closed(S) /\ c \notin S
  BY <1>2 DEF NoCycle, Reaches
<1>4. Closed(S)'
  BY <1>3 DEF Closed
<1> QED BY <1>2, <1>3, <1>4 DEF Reaches

(* A pointer from c to d closes no circle if c is not on the way from d. *)
LEMMA OnePointerMore ==
    ASSUME NoCycle, NEW c \in Conn, NEW d \in Conn, ~Reaches(d, c),
           pUnlock \in [Conn -> Conn \cup {NoConn}], pUnlock' = [pUnlock EXCEPT ![c] = d]
    PROVE  NoCycle'
<1>1. PICK S \in SUBSET Conn : d \in S /\ Closed(S) /\ c \notin S
  BY DEF Reaches
<1>2. \A p \in Conn : pUnlock'[p] = IF p = c THEN d ELSE pUnlock[p]
  OBVIOUS
<1>3. Closed(S)'
  BY <1>1, <1>2 DEF Closed
<1>4. ASSUME NEW e \in Conn, pUnlock'[e] # NoConn
      PROVE  \E T \in SUBSET Conn : pUnlock'[e] \in T /\ Closed(T)' /\ e \notin T
  <2>1. CASE e = c
    BY <2>1, <1>1, <1>2, <1>3
  <2>2. CASE e # c
    <3>1. PICK T \in SUBSET Conn : pUnlock[e] \in T /\ Closed(T) /\ e \notin T
      BY <2>2, <1>2, <1>4 DEF NoCycle, Reaches
    <3>2. CASE c \notin T
      <4>1. Closed(T)'
        BY <3>1, <3>2, <1>2 DEF Closed
      <4> QED BY <4>1, <3>1, <2>2, <1>2
    <3>3. CASE c \in T /\ e \notin S
      <4>1. Closed(S \cup T)'
        BY <3>1, <1>1, <1>2 DEF Closed
      <4> QED BY <4>1, <3>1, <3>3, <2>2, <1>1, <1>2
    <3>4. CASE e \in S
      <4>1. pUnlock[e] \in S
        BY <3>4, <2>2, <1>1, <1>2, <1>4 DEF Closed
      <4>2. Closed(S \cap T)'
        BY <3>1, <1>1, <1>2 DEF Closed
      <4> QED BY <4>1, <4>2, <3>1, <2>2, <1>2
    <3> QED BY <3>2, <3>3, <3>4
  <2> QED BY <2>1, <2>2
<1> QED BY <1>4 DEF NoCycle, Reaches

LEMMA NoCycleStep == BaseInv /\ NoCycle /\ [Next]_vars => NoCycle'
<1> SUFFICES ASSUME BaseInv, NoCycle, [Next]_vars PROVE NoCycle'
  OBVIOUS
<1>1. ThreadShape
  BY DEF BaseInv
<1>2. CASE UNCHANGED pUnlock
  BY <1>2, FewerPointers
<1>3. ASSUME NEW c \in Conn, Register(c) PROVE NoCycle'
  <2>1. pBlocking[c] \in Conn
    BY <1>1, <1>3 DEF Register, ThreadShape
  <2> QED BY <2>1, <1>1, <1>3, OnePointerMore DEF Register, Circular, ThreadShape
<1>4. ASSUME NEW c \in Conn, Cancel(c) \/ ConnectionUnlocked(c) PROVE NoCycle'
  <2>1. \A p \in Conn : pUnlock'[p] \in {pUnlock[p], NoConn}
    BY <1>1, <1>4 DEF Cancel, ConnectionUnlocked, Cleared, ThreadShape
  <2> QED BY <2>1, FewerPointers
<1>5. ASSUME NEW c \in Conn, UnlockNotify(c) \/ CancelNotify(c) \/ Unlocked(c) PROVE NoCycle'
  BY <1>2, <1>3, <1>4, <1>5 DEF UnlockNotify, CancelNotify, Unlocked, NotifyNow, Deadlock, listVars
<1>6. ASSUME NEW c \in Conn,
             \/ \E wr \in 0 .. 2 : Begin(c, wr) \/ BeginRefused(c, wr)
             \/ \E t \in Table, e \in {READ, WRITE} : Lock(c, t, e) \/ LockRefused(c, t, e)
             \/ Refuse(c) \/ HaltOpen(c) \/ Close(c) \/ Leave(c)
             \/ \E active \in BOOLEAN : Halt(c, active)
      PROVE  UNCHANGED pUnlock
  BY <1>6 DEF Begin, BeginRefused, Lock, LockRefused, Refuse, ConnectionBlocked, HaltOpen, Close, Leave,
             Forget, Halt, listVars
<1>7. CASE UNCHANGED vars
  BY <1>7, <1>2 DEF vars, listVars
<1> QED BY <1>2, <1>5, <1>6, <1>7, ZenonT(60) DEF Next

(* Connections never wait for each other in a circle, however long, so that
   sqlite3_unlock_notify() reports every deadlock before it is complete and its
   walk along pUnlockConnection comes to an end. *)
THEOREM NeverCircular == Spec => []NoCycle
<1>1. Init => NoCycle
  BY DEF Init, ListInit, NoCycle
<1> QED BY <1>1, NoCycleStep, BaseHolds, PTL DEF Spec
=============================================================================
