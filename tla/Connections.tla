---------------------------- MODULE Connections -----------------------------
(* The database connections (sqlite3 objects) of one process that share a
   page cache, and the null pointer. *)
EXTENDS FiniteSets

CONSTANTS Conn, NoConn

ASSUME ConnAssumption == IsFiniteSet(Conn) /\ NoConn \notin Conn
=============================================================================
