------------------------------ MODULE MCFwkMm ------------------------------
(* Heap sections for FwkMm, in words of six bits: unaligned ones, tiny     *)
(* ones, and one so close to the top that the alignment wraps.             *)
EXTENDS FwkMm

MCHeapBounds == {<<3, 41>>, <<8, 34>>, <<5, 17>>, <<60, 63>>, <<0, 20>>}
=============================================================================
