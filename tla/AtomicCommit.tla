---------------------------- MODULE AtomicCommit ----------------------------
(***************************************************************************)
(* What a commit over several database files promises: the files that one  *)
(* transaction writes change together or not at all.  A commit that is not *)
(* settled yet may be lost when power fails, but then in all its files.    *)
(***************************************************************************)
CONSTANTS File, Value

VARIABLES
    value,      \* the content a user of each file finds
    writing,    \* the files of the transaction under way
    unsettled   \* the commits that may be lost: what their files had before

Init == value \in [File -> Value] /\ writing = {} /\ unsettled = {}

Join(f) == writing' = writing \cup {f} /\ UNCHANGED <<value, unsettled>>

(* A file has one commit at a time that may be lost. *)
Commit ==
    /\ \E v \in Value : value' = [f \in File |-> IF f \in writing THEN v ELSE value[f]]
    /\ \/ UNCHANGED unsettled
       \/ /\ \A u \in unsettled : DOMAIN u \cap writing = {}
          /\ unsettled' = unsettled \cup {[f \in writing |-> value[f]]}
    /\ writing' \in {writing, {}}

End == writing' = {} /\ UNCHANGED <<value, unsettled>>

Settle(U) == unsettled' = unsettled \ U /\ UNCHANGED <<value, writing>>

(* Power fails. *)
Lose(U) ==
    /\ value' \in [File -> Value]
    /\ \A f \in File : \/ \E u \in U : f \in DOMAIN u /\ value'[f] = u[f]
                       \/ (\A u \in U : f \notin DOMAIN u) /\ value'[f] = value[f]
    /\ writing' = {} /\ unsettled' = {}

Next ==
    \/ \E f \in File : Join(f)
    \/ Commit \/ End
    \/ \E U \in SUBSET unsettled : Settle(U) \/ Lose(U)

Spec == Init /\ [][Next]_<<value, writing, unsettled>>
=============================================================================
