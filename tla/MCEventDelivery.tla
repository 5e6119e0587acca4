-------------------------- MODULE MCEventDelivery --------------------------
(* Small instances of EventDelivery for TLC. *)
EXTENDS EventDelivery, TLC

TwoEvents == 1..2
ThreeEvents == 1..3
SecondIsFutureTyped == {2}
ThirdIsFutureTyped == {3}

(* The server's handlers are interchangeable. *)
SlotSymmetry == Permutations(Slots)
=============================================================================
