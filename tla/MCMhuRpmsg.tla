----------------------------- MODULE MCMhuRpmsg -----------------------------
(* Instances of MhuRpmsg for TLC: the channels of one message unit, and of *)
(* two, as the products have.                                              *)
EXTENDS MhuRpmsg

CONSTANTS H0, SE0, H1, SE1

MCEnclaveOf == [h \in Hosts |-> IF h = H0 THEN SE0 ELSE SE1]

(* Hosts that do not wait send two messages: the second may come at any    *)
(* point of the handling of the first.                                     *)
MCMaxRequests == [u \in Usages |-> IF u = "exchange" THEN 3 ELSE 2]
=============================================================================
