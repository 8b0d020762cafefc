-------------------------- MODULE MCFwkNotification --------------------------
(* An instance of FwkNotification for TLC: two modules without elements.   *)
EXTENDS FwkNotification, TLC

CONSTANTS A, B

MCPair == {A, B}
MCPairOf == [e \in MCPair |-> e]
SlotSymmetry == Permutations(Slots)
=============================================================================
