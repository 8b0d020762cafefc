----------------------------- MODULE MCMhuBoot -----------------------------
(* An instance of MhuBoot for TLC: the two channels of one message unit,   *)
(* with the interrupt numbers of the products, and the line of a timer.    *)
EXTENDS MhuBoot

CONSTANTS H0, SE0

MCChannels == <<H0, SE0>>
MCIrq == [c \in {H0, SE0} |-> IF c = H0 THEN 2 ELSE 6]
MCSend == [c \in {H0, SE0} |-> <<"send", c>>]
MCLines == {0, 2, 6}
MCSize == [t \in {Banner, Started, Received} |-> 2]
=============================================================================
