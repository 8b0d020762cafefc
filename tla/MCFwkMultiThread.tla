-------------------------- MODULE MCFwkMultiThread --------------------------
(* Instances of FwkMultiThread for TLC: a module of the common thread, and *)
(* a module and its element which may have threads of their own.           *)
EXTENDS FwkMultiThread

CONSTANTS T1, T2, c, e1, e2

MCThreads == {Common, T1, T2}
MCEntities == {c, e1, e2}
MCParent == [e \in MCEntities |-> IF e = e2 THEN e1 ELSE e]
MCNewThread == [e \in {e1, e2} |-> IF e = e1 THEN T1 ELSE T2]

(* T1 waits for T2, which may delay its responses; interrupts send some.   *)
MCDelays == [events |-> 4, waits |-> {<<T1, e2>>}, delays |-> {e2},
             isrAnswers |-> TRUE, flags |-> {TRUE}, owners |-> {e1, e2},
             early |-> 0]
(* T1 waits for T2, which waits for the common thread.                     *)
MCChain == [events |-> 7, waits |-> {<<T1, e2>>, <<T2, c>>}, delays |-> {},
            isrAnswers |-> FALSE, flags |-> {FALSE}, owners |-> {e1, e2},
            early |-> 0]
(* Events are put before the threads are created.                          *)
MCBoot == [MCChain EXCEPT !.waits = {<<T1, e2>>}, !.early = 2]
(* A module and its element share a thread.                                *)
MCShared == [MCChain EXCEPT !.waits = {<<T1, c>>}, !.owners = {e1}]
MCUsages == {MCDelays, MCChain, MCBoot, MCShared}

(* A chain of waits at whose end the response is delayed.                  *)
MCDelayedChain == {[MCChain EXCEPT !.delays = {c}]}
=============================================================================
