------------------------ MODULE TransactionLifecycle ------------------------
(***************************************************************************)
(* What transaction orchestration promises (LLD 4.4): a transaction is     *)
(* begun once and then either committed or rolled back, once, for good,    *)
(* unless the process dies first.  A death takes every open transaction    *)
(* with it: the table is not persisted.                                    *)
(***************************************************************************)
CONSTANT Txns

VARIABLE phase

Open == {t \in Txns : phase[t] = "active"}

Init == phase = [t \in Txns |-> "unused"]

Begin(t) ==
    /\ phase[t] = "unused"
    /\ phase' = [phase EXCEPT ![t] = "active"]

Commit(t) ==
    /\ t \in Open
    /\ phase' = [phase EXCEPT ![t] = "committed"]

RollBack(t) ==
    /\ t \in Open
    /\ phase' = [phase EXCEPT ![t] = "rolled_back"]

Die ==
    phase' = [t \in Txns |-> IF t \in Open THEN "lost" ELSE phase[t]]

Next == Die \/ \E t \in Txns : Begin(t) \/ Commit(t) \/ RollBack(t)

Spec == Init /\ [][Next]_phase
=============================================================================
