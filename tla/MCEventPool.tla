----------------------------- MODULE MCEventPool -----------------------------
(* The builds of the framework and of its products, for EventPool.         *)
EXTENDS EventPool

(* Multi-thread framework; single-thread framework of the two products,    *)
(* whose interrupt handlers put no event.                                  *)
MCSoundBuilds == {[maskedPop |-> TRUE, isrPuts |-> TRUE],
                  [maskedPop |-> FALSE, isrPuts |-> FALSE]}
(* Single-thread framework, with a module whose interrupt handler does.    *)
MCUnmaskedBuild == {[maskedPop |-> FALSE, isrPuts |-> TRUE]}
=============================================================================
