----------------------------- MODULE MCJournal -----------------------------
(* Instances of Journal for TLC. *)
EXTENDS Journal, TLC

CONSTANTS a, b

OneEach == [c \in Conn |-> c]
Twins == Permutations({a, b})

AllThree == {"delete", "truncate", "persist"}
Alike == {[c \in Conn |-> m] : m \in AllThree}
Mixed == [Conn -> {"delete", "persist"}]

\* Two faults, so that a rollback can be interrupted, where it costs least.
TwoInDelete == [m \in AllThree |-> IF m = "delete" THEN 2 ELSE 1]
NoFault == [m \in AllThree |-> 0]
=============================================================================
