----------------------------- MODULE SharedCache ----------------------------
(***************************************************************************)
(* The locks of connections that share one page cache (btree.c): the       *)
(* transaction of each connection, its locks on tables, the one writer and *)
(* the flags that keep others out.  Table 1 is sqlite_master; every        *)
(* transaction has a read lock on it.  Every operation runs under the      *)
(* mutex of the BtShared.                                                  *)
(***************************************************************************)
EXTENDS Naturals, Connections

CONSTANTS Table, Master

ASSUME TableAssumption == Master \in Table

VARIABLES
    inTrans,        \* Btree.inTrans of each connection
    eLock,          \* its lock on each table, 0 for none
    inTransaction,  \* BtShared.inTransaction
    nTransaction,   \* BtShared.nTransaction
    pWriter,        \* BtShared.pWriter
    btsFlags        \* the flags BTS_EXCLUSIVE and BTS_PENDING of the BtShared

cacheVars == <<inTrans, eLock, inTransaction, nTransaction, pWriter, btsFlags>>

NONE == 0  READ == 1  WRITE == 2   \* TRANS_ and _LOCK constants

CacheInit ==
    /\ inTrans = [c \in Conn |-> NONE]
    /\ eLock = [c \in Conn |-> [t \in Table |-> NONE]]
    /\ inTransaction = NONE /\ nTransaction = 0
    /\ pWriter = NoConn /\ btsFlags = {}

(* querySharedCacheTableLock(): who keeps c from a lock e on table t.  The code
   names the first one in the list of locks. *)
Conflicts(c, t, e) == {d \in Conn \ {c} : eLock[d][t] # NONE /\ eLock[d][t] # e}

(* Mutant: an exclusive transaction is only met through its table locks. *)
Holders_Tables(c, t, e) == Conflicts(c, t, e)

Holders(c, t, e) ==
    IF pWriter # c /\ "EXCLUSIVE" \in btsFlags THEN {pWriter} ELSE Conflicts(c, t, e)

(* sqlite3BtreeBeginTrans(): wr is 0 to read, 1 to write, 2 for an exclusive
   transaction.  Who keeps c from it. *)
CanBegin(c, wr) == inTrans[c] = NONE \/ (inTrans[c] = READ /\ wr > 0)
Others(c) == {d \in Conn \ {c} : \E t \in Table : eLock[d][t] # NONE}
BeginHolders(c, wr) ==
    IF (wr > 0 /\ inTransaction = WRITE) \/ "PENDING" \in btsFlags THEN {pWriter}
    ELSE IF wr > 1 /\ Others(c) # {} THEN Others(c)
    ELSE Holders(c, Master, READ)

(* Mutant: an upgrade is counted as a transaction of its own. *)
Starts_Always(c) == TRUE

Starts(c) == inTrans[c] = NONE

BeginTrans(c, wr) ==
    /\ CanBegin(c, wr) /\ BeginHolders(c, wr) = {}
    /\ LET mode == IF wr > 0 THEN WRITE ELSE READ IN
       /\ inTrans' = [inTrans EXCEPT ![c] = mode]
       /\ inTransaction' = IF mode > inTransaction THEN mode ELSE inTransaction
    /\ IF Starts(c)
       THEN /\ nTransaction' = nTransaction + 1
            /\ eLock' = [eLock EXCEPT ![c][Master] = READ]
       ELSE UNCHANGED <<nTransaction, eLock>>
    /\ IF wr > 0
       THEN /\ pWriter' = c
            /\ btsFlags' = (btsFlags \ {"EXCLUSIVE"}) \cup (IF wr > 1 THEN {"EXCLUSIVE"} ELSE {})
       ELSE UNCHANGED <<pWriter, btsFlags>>

(* sqlite3BtreeLockTable(); a lock is never made weaker.  A writer that is
   refused keeps new transactions out (SetPending). *)
MayAsk(c, e) == inTrans[c] # NONE /\ (e = WRITE => inTrans[c] = WRITE)
LockTable(c, t, e) ==
    /\ MayAsk(c, e) /\ Holders(c, t, e) = {}
    /\ eLock' = [eLock EXCEPT ![c][t] = IF e > @ THEN e ELSE @]
    /\ UNCHANGED <<inTrans, inTransaction, nTransaction, pWriter, btsFlags>>
SetPending ==
    /\ btsFlags' = btsFlags \cup {"PENDING"}
    /\ UNCHANGED <<inTrans, eLock, inTransaction, nTransaction, pWriter>>

(* downgradeAllSharedCacheTableLocks(): what the writer keeps of a lock. *)
Downgraded(e) == IF e = WRITE THEN READ ELSE e

(* Mutant: only the end of the last transaction of all clears the flag. *)
LastReader_Alone(c) == pWriter # c /\ nTransaction = 1

(* clearAllSharedCacheTableLocks(): the flags when c has no locks any more. *)
LastReader(c) == pWriter # c /\ nTransaction = 2
ClearedFlags(c) ==
    IF pWriter = c THEN {}
    ELSE IF LastReader(c) THEN btsFlags \ {"PENDING"} ELSE btsFlags

(* btreeEndTransaction() at the end of a commit or rollback: if other statements
   of c are active it keeps a read transaction. *)
EndTrans(c, active) ==
    IF inTrans[c] = NONE THEN UNCHANGED cacheVars
    ELSE /\ pWriter' = IF pWriter = c THEN NoConn ELSE pWriter
         /\ IF active
            THEN /\ inTrans' = [inTrans EXCEPT ![c] = READ]
                 /\ eLock' = IF pWriter # c THEN eLock
                             ELSE [d \in Conn |-> [t \in Table |-> Downgraded(eLock[d][t])]]
                 /\ btsFlags' = IF pWriter = c THEN {} ELSE btsFlags
                 /\ inTransaction' = IF inTrans[c] = WRITE THEN READ ELSE inTransaction
                 /\ UNCHANGED nTransaction
            ELSE /\ inTrans' = [inTrans EXCEPT ![c] = NONE]
                 /\ eLock' = [eLock EXCEPT ![c] = [t \in Table |-> NONE]]
                 /\ btsFlags' = ClearedFlags(c)
                 /\ nTransaction' = nTransaction - 1
                 /\ inTransaction' = IF nTransaction = 1 THEN NONE
                                     ELSE IF inTrans[c] = WRITE THEN READ ELSE inTransaction
=============================================================================
