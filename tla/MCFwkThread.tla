---------------------------- MODULE MCFwkThread ----------------------------
(* Instances of FwkThread for TLC: module A with two entities (itself and  *)
(* an element) and module B with one.                                      *)
EXTENDS FwkThread, TLC

CONSTANTS A, B, a1

MCEntities == {A, a1, B}
MCModules == {A, B}
MCModuleOf == [e \in MCEntities |-> IF e = B THEN B ELSE A]

(* One entity per module. *)
MCPair == {A, B}
MCPairOf == [e \in MCPair |-> e]

(* Event structures are interchangeable: as a symmetry, and for liveness   *)
(* by looking at one order of the table.                                   *)
SlotSymmetry == Permutations(Slots)
TableOrder == CHOOSE q \in FullPools : TRUE
MCInit == ThreadInit /\ free = TableOrder
MCFairSpec == MCInit /\ [][Next]_vars /\ WF_vars(Undisturbed /\ ThreadStep)
=============================================================================
