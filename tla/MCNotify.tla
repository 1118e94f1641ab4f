------------------------------ MODULE MCNotify ------------------------------
(* Three connections to one cache, for TLC. *)
EXTENDS Notify

CONSTANTS a, b, c

(* An application that waits for its callback gets it, though it may be refused
   again before and by someone else.  The connections are interchangeable, so
   one of them stands for all. *)
Delivered == a \in waiting ~> a \notin waiting
=============================================================================
