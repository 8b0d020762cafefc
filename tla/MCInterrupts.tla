---------------------------- MODULE MCInterrupts ----------------------------
(* An instance of FwkArch for TLC: two lines, the second of which has the  *)
(* number that irq_invalid takes the first for.                            *)
EXTENDS FwkArch, TLC

ParamSymmetry == Permutations(Params)
=============================================================================
