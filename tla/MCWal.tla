-------------------------------- MODULE MCWal -------------------------------
(* Values for the constants of Wal that a configuration file cannot write. *)
EXTENDS Wal

CONSTANTS w, r, k

Commit(P, n) == [pages |-> P, size |-> n, sync |-> TRUE]
Spill(P) == [pages |-> P, size |-> 0, sync |-> FALSE]

\* Commits of one or both pages.
SmallBatches == {Commit({1}, 2), Commit({1, 2}, 2)}
\* Commits of page 1 only.
FirstPage == {Commit({1}, 2)}
\* The same with spills of page 2 on the way.
SpillAndFirst == FirstPage \cup {Spill({2})}
\* Commits with synchronous NORMAL that shrink the database to one page, and
\* with FULL that let it grow again.
ResizeBatches == {[pages |-> {1}, size |-> 1, sync |-> FALSE],
                  [pages |-> {1, 2}, size |-> 2, sync |-> TRUE]}
=============================================================================
