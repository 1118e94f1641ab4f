------------------------------ MODULE MCBackup ------------------------------
(* One backup of a small database, for TLC. *)
EXTENDS Backup, TLC

CONSTANTS x, y, b1

Contents == Permutations({x, y})
=============================================================================
