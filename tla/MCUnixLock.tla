----------------------------- MODULE MCUnixLock -----------------------------
(* Two processes: the first has two handles open, the second one. *)
EXTENDS UnixLock, TLC

CONSTANTS p1, p2, f1, f2, g1

ProcOf3 == (f1 :> p1) @@ (f2 :> p1) @@ (g1 :> p2)
=============================================================================
