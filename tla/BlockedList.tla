----------------------------- MODULE BlockedList ----------------------------
(***************************************************************************)
(* notify.c: which connection was refused a lock because of which other    *)
(* one, and who asked to be told when the other is done.  Every operation  *)
(* runs under the mutex STATIC_MASTER and is one step.                     *)
(*                                                                         *)
(* The linked list of blocked connections is a set: its order decides only *)
(* in which order, and in how many batches, callbacks are invoked.         *)
(***************************************************************************)
EXTENDS Connections

VARIABLES
    pBlocking,  \* sqlite3.pBlockingConnection of each connection
    pUnlock,    \* sqlite3.pUnlockConnection: whose end its callback waits for
    blocked     \* sqlite3BlockedList

listVars == <<pBlocking, pUnlock, blocked>>

ListInit ==
    /\ pBlocking = [c \in Conn |-> NoConn]
    /\ pUnlock = [c \in Conn |-> NoConn]
    /\ blocked = {}

(* The connections on the way from d along pUnlock, d included, are the least
   set that contains d and is closed under a step; c is one of them. *)
Closed(S) == \A p \in S : pUnlock[p] # NoConn => pUnlock[p] \in S
Reaches(d, c) == \A S \in SUBSET Conn : d \in S /\ Closed(S) => c \in S

(* Mutant: looks only one connection ahead. *)
Circular_OneStep(c) == c \in {pBlocking[c], pUnlock[pBlocking[c]]}

(* What sqlite3_unlock_notify() walks for: c waits for itself if it waits. *)
Circular(c) == Reaches(pBlocking[c], c)

(* sqlite3ConnectionBlocked(): c was refused a lock because of d. *)
NewEntry(c) == pBlocking[c] = NoConn /\ pUnlock[c] = NoConn
ConnectionBlocked(c, d) ==
    /\ blocked' = IF NewEntry(c) THEN blocked \cup {c} ELSE blocked
    /\ pBlocking' = [pBlocking EXCEPT ![c] = d]
    /\ UNCHANGED pUnlock

(* Mutant: a callback is only looked for at the connection that refused last. *)
Cleared_Last(f, c) ==
    [p \in Conn |-> IF p \in blocked /\ f[p] = c /\ pBlocking[p] = c THEN NoConn ELSE f[p]]

(* What is left of a pointer when c has ended. *)
Cleared(f, c) == [p \in Conn |-> IF p \in blocked /\ f[p] = c THEN NoConn ELSE f[p]]

(* Mutant: an entry goes once the lock it was refused is free. *)
StillBlocked_Blocking(c) == {p \in blocked : Cleared(pBlocking, c)[p] # NoConn}

StillBlocked(c) ==
    {p \in blocked : Cleared(pBlocking, c)[p] # NoConn \/ Cleared(pUnlock, c)[p] # NoConn}

(* sqlite3ConnectionUnlocked(): c has released its locks.  Callbacks that wait
   for c are invoked. *)
ConnectionUnlocked(c) ==
    /\ pBlocking' = Cleared(pBlocking, c)
    /\ pUnlock' = Cleared(pUnlock, c)
    /\ blocked' = StillBlocked(c)

(* sqlite3_unlock_notify() without a callback: an earlier one is cancelled. *)
Cancel(c) ==
    /\ pBlocking' = [pBlocking EXCEPT ![c] = NoConn]
    /\ pUnlock' = [pUnlock EXCEPT ![c] = NoConn]
    /\ blocked' = blocked \ {c}

(* sqlite3_unlock_notify() with a callback: it is invoked at once if nothing
   blocks c any more; an answer SQLITE_LOCKED reports a deadlock; otherwise it
   is registered for the end of the blocking connection's transaction. *)
NotifyNow(c) == pBlocking[c] = NoConn /\ UNCHANGED listVars
Deadlock(c) ==
    pBlocking[c] # NoConn /\ Circular(c) /\ UNCHANGED listVars
Register(c) ==
    /\ pBlocking[c] # NoConn /\ ~Circular(c)
    /\ pUnlock' = [pUnlock EXCEPT ![c] = pBlocking[c]]
    /\ blocked' = blocked \cup {c}
    /\ UNCHANGED pBlocking

(* removeFromBlockedList(), the second part of sqlite3ConnectionClosed(). *)
Forget(c) == blocked' = blocked \ {c} /\ UNCHANGED <<pBlocking, pUnlock>>
=============================================================================
