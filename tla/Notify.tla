------------------------------- MODULE Notify -------------------------------
(***************************************************************************)
(* Connections with a shared cache that wait for each other through        *)
(* sqlite3_unlock_notify(): SharedCache and BlockedList with the calls     *)
(* that bring them together (btree.c, vdbeaux.c, main.c).  A connection is *)
(* a thread; it enters the mutex of the cache, then that of the list, so a *)
(* refused lock and the end of a transaction take two steps each.          *)
(***************************************************************************)
EXTENDS SharedCache, BlockedList

VARIABLES
    pc,        \* where each connection is
    refused,   \* who holds the cache's mutex after a refusal, and because of whom
    waiting    \* the connections whose application waits for its callback

threadVars == <<pc, refused, waiting>>
vars == <<cacheVars, listVars, threadVars>>

Free == [db |-> NoConn, by |-> NoConn, pend |-> FALSE]

Init ==
    /\ CacheInit /\ ListInit
    /\ pc = [c \in Conn |-> "app"]
    /\ refused = Free /\ waiting = {}

At(c, place) == pc[c] = place /\ refused.db # c
Go(c, place) == pc' = [pc EXCEPT ![c] = place]

(* The application calls the library; the cache's mutex is free. *)
Calls(c) == At(c, "app") /\ c \notin waiting
Enters(c) == Calls(c) /\ refused = Free

-----------------------------------------------------------------------------
(* OP_Transaction. *)
Begin(c, wr) ==
    /\ Enters(c) /\ BeginTrans(c, wr)
    /\ UNCHANGED <<listVars, threadVars>>

BeginRefused(c, wr) ==
    /\ Enters(c) /\ CanBegin(c, wr)
    /\ \E d \in BeginHolders(c, wr) : refused' = [db |-> c, by |-> d, pend |-> FALSE]
    /\ UNCHANGED <<cacheVars, listVars, pc, waiting>>

(* OP_TableLock. *)
Lock(c, t, e) ==
    /\ Enters(c) /\ eLock[c][t] < e /\ LockTable(c, t, e)
    /\ UNCHANGED <<listVars, threadVars>>

LockRefused(c, t, e) ==
    /\ Enters(c) /\ MayAsk(c, e)
    /\ \E d \in Holders(c, t, e) : refused' = [db |-> c, by |-> d, pend |-> e = WRITE]
    /\ UNCHANGED <<cacheVars, listVars, pc, waiting>>

(* The rest of a refusal, still under the mutex of the cache. *)
Refuse(c) ==
    /\ refused.db = c
    /\ ConnectionBlocked(c, refused.by)
    /\ IF refused.pend THEN SetPending ELSE UNCHANGED cacheVars
    /\ refused' = Free
    /\ UNCHANGED <<pc, waiting>>

-----------------------------------------------------------------------------
(* sqlite3VdbeHalt() with autoCommit set: the transaction ends, unless another
   statement of the connection is still writing, and then callbacks are due. *)
Halt(c, active) ==
    /\ Enters(c) /\ EndTrans(c, active)
    /\ Go(c, "unlocking")
    /\ UNCHANGED <<listVars, refused, waiting>>

HaltOpen(c) ==
    /\ Calls(c) /\ inTrans[c] = WRITE
    /\ Go(c, "unlocking")
    /\ UNCHANGED <<cacheVars, listVars, refused, waiting>>

(* sqlite3ConnectionUnlocked() wakes those it calls back. *)
Called(c) == {p \in blocked : pUnlock[p] = c}
Unlocked(c) ==
    /\ At(c, "unlocking") \/ At(c, "closing")
    /\ ConnectionUnlocked(c)
    /\ waiting' = waiting \ Called(c)
    /\ Go(c, IF pc[c] = "closing" THEN "closed" ELSE "app")
    /\ UNCHANGED <<cacheVars, refused>>

-----------------------------------------------------------------------------
(* sqlite3_unlock_notify(); after a registration the application may wait. *)
UnlockNotify(c) ==
    /\ Calls(c)
    /\ \/ NotifyNow(c) /\ UNCHANGED waiting
       \/ Deadlock(c) /\ UNCHANGED waiting
       \/ Register(c) /\ waiting' \in {waiting, waiting \cup {c}}
    /\ UNCHANGED <<cacheVars, pc, refused>>

CancelNotify(c) ==
    /\ Calls(c) /\ Cancel(c)
    /\ UNCHANGED <<cacheVars, threadVars>>

(* sqlite3_close(): the transaction is rolled back and the connection leaves
   the list (sqlite3BtreeClose(), sqlite3ConnectionClosed()). *)
Close(c) ==
    /\ Enters(c) /\ EndTrans(c, FALSE)
    /\ Go(c, "closing")
    /\ UNCHANGED <<listVars, refused, waiting>>

Leave(c) ==
    /\ At(c, "closed") /\ Forget(c)
    /\ Go(c, "gone")
    /\ UNCHANGED <<cacheVars, refused, waiting>>

Next ==
    \E c \in Conn :
        \/ \E wr \in 0 .. 2 : Begin(c, wr) \/ BeginRefused(c, wr)
        \/ \E t \in Table, e \in {READ, WRITE} : Lock(c, t, e) \/ LockRefused(c, t, e)
        \/ Refuse(c) \/ HaltOpen(c) \/ Unlocked(c)
        \/ \E active \in BOOLEAN : Halt(c, active)
        \/ UnlockNotify(c) \/ CancelNotify(c) \/ Close(c) \/ Leave(c)

(* A thread goes on inside the library.  An application that does not wait for
   a callback ends its transaction sooner or later. *)
EndsTransaction(c) == inTrans[c] # NONE /\ Halt(c, FALSE)
Fairness ==
    /\ WF_vars(\E c \in Conn : Refuse(c))
    /\ \A c \in Conn : WF_vars(Unlocked(c)) /\ SF_vars(EndsTransaction(c))

Spec == Init /\ [][Next]_vars /\ Fairness

-----------------------------------------------------------------------------
(* Every variable keeps its shape, the counters agree with the transactions. *)
TypeOK ==
    /\ inTrans \in [Conn -> NONE .. WRITE]
    /\ eLock \in [Conn -> [Table -> NONE .. WRITE]]
    /\ pWriter \in Conn \cup {NoConn} /\ btsFlags \subseteq {"EXCLUSIVE", "PENDING"}
    /\ inTransaction \in NONE .. WRITE
    /\ nTransaction = Cardinality({c \in Conn : inTrans[c] # NONE})
    /\ pBlocking \in [Conn -> Conn \cup {NoConn}]
    /\ pUnlock \in [Conn -> Conn \cup {NoConn}]
    /\ pc \in [Conn -> {"app", "unlocking", "closing", "closed", "gone"}]
    /\ refused \in [db : Conn \cup {NoConn}, by : Conn \cup {NoConn}, pend : BOOLEAN]
    /\ blocked \subseteq Conn /\ waiting \subseteq Conn

(* Nobody has any lock on a table another connection writes to, nor any lock at
   all beside an exclusive transaction (the assertions of btree.c 374-419 and
   583). *)
TablesIsolated ==
    \A c \in Conn : \A d \in Conn \ {c}, t \in Table :
        eLock[c][t] # NONE =>
            eLock[d][t] # WRITE /\ ~(pWriter = d /\ "EXCLUSIVE" \in btsFlags)

(* btreeInt.h 423-435: new transactions are kept out only on behalf of a writer
   that has others to wait for. *)
PendingForReaders ==
    "PENDING" \in btsFlags => \E c \in Conn \ {pWriter} : pWriter \in Conn /\ inTrans[c] # NONE

(* The list has the connections with one of the two pointers set, each once, so
   that addToBlockedList() never meets a connection that is on it. *)
Listed ==
    \A c \in Conn : pc[c] # "gone" => (c \in blocked <=> ~NewEntry(c))

(* Nobody waits for its own end, across any number of connections, and the walk
   along pUnlockConnection in sqlite3_unlock_notify() comes to an end. *)
NoCycle == \A c \in Conn : pUnlock[c] # NoConn => ~Reaches(pUnlock[c], c)

(* A connection on the list waits for one that is yet to call
   sqlite3ConnectionUnlocked(): no wake-up is lost, and no pointer leads to a
   connection that was freed. *)
NotForgotten ==
    \A c \in blocked : \A d \in {pBlocking[c], pUnlock[c]} \ {NoConn} :
        inTrans[d] # NONE \/ pc[d] \in {"unlocking", "closing"}
=============================================================================
