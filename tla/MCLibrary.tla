----------------------------- MODULE MCLibrary -----------------------------
(***************************************************************************)
(* The parts of the firmware that share no state with one another, for     *)
(* TLC: the libraries that the framework and the modules of the products   *)
(* stand on, the pool of event structures and the boot of the modules.  A  *)
(* behaviour exercises one of them while the others stay as they are.      *)
(***************************************************************************)
EXTENDS MCFwkMm, FwkListOps, FwkId, LogFormat, Pl011, Rpmsg, MCEventPool,
        FwkModule
LOCAL INSTANCE SequencesExt

VARIABLE library    (* the one a behaviour exercises                       *)

Libraries == {"heap", "lists", "identifiers", "format", "uart", "rpmsg",
              "pool", "modules"}

LibraryVars ==
  <<library, heapVars, listOpVars, idVars, formatVars, uartVars, rpmsgVars,
    poolVars, moduleVars>>

(* The library that a behaviour does not exercise has one initial state.   *)
LibraryInit ==
  /\ library \in Libraries
  /\ HeapInit /\ IdInit /\ UartInit /\ RpmsgInit /\ ModuleInit
  /\ ListInit /\ (library = "lists" \/ kind = [doubly |-> TRUE, debug |-> TRUE])
  /\ FormatInit /\ (library = "format" \/ (logDriver /\ logGroups = {"INFO"}))
  /\ PoolInit
  /\ library = "pool" \/ (build.maskedPop /\ links = Filled(SetToSeq(Slots)))

(* Bound: nothing is asked of the heap after a block beyond its end, which *)
(* the properties say nothing of.                                          *)
LibraryNext ==
  /\ UNCHANGED library
  /\ \/ /\ library = "heap" /\ HeapNext /\ ~Overran(Len(blocks))
        /\ UNCHANGED <<listOpVars, idVars, formatVars, uartVars, rpmsgVars,
                       poolVars, moduleVars>>
     \/ /\ library = "lists" /\ ListNext
        /\ UNCHANGED <<heapVars, idVars, formatVars, uartVars, rpmsgVars,
                       poolVars, moduleVars>>
     \/ /\ library = "identifiers" /\ IdNext
        /\ UNCHANGED <<heapVars, listOpVars, formatVars, uartVars, rpmsgVars,
                       poolVars, moduleVars>>
     \/ /\ library = "format" /\ FormatNext
        /\ UNCHANGED <<heapVars, listOpVars, idVars, uartVars, rpmsgVars,
                       poolVars, moduleVars>>
     \/ /\ library = "uart" /\ UartNext
        /\ UNCHANGED <<heapVars, listOpVars, idVars, formatVars, rpmsgVars,
                       poolVars, moduleVars>>
     \/ /\ library = "rpmsg" /\ RpmsgNext
        /\ UNCHANGED <<heapVars, listOpVars, idVars, formatVars, uartVars,
                       poolVars, moduleVars>>
     \/ /\ library = "pool" /\ PoolNext
        /\ UNCHANGED <<heapVars, listOpVars, idVars, formatVars, uartVars,
                       rpmsgVars, moduleVars>>
     \/ /\ library = "modules" /\ ModuleNext
        /\ UNCHANGED <<heapVars, listOpVars, idVars, formatVars, uartVars,
                       rpmsgVars, poolVars>>

LibrarySpec == LibraryInit /\ [][LibraryNext]_LibraryVars

(* Both kinds of list in both build modes.                                 *)
MCKinds == [doubly : BOOLEAN, debug : BOOLEAN]

(* Every format of up to four of the characters that matter together, and  *)
(* the other specifiers.                                                   *)
MCFormats ==
  UNION {[1..n -> {"%", "l", "0", "3", "d", "x"}] : n \in 0..4}
  \cup {<<"%", c>> : c \in {"e", "s", "c", "u", "i"}}
  \cup {<<"%", "0", "9", "u">>, <<"%", "l", "u">>}

(* The UARTs of the products, and others at the limits of the divisors and *)
(* of the clock.                                                           *)
MCDeviceConfigs ==
  {Corstone1000Uart, Corstone700Uart}
  \cup [reg_base : {0, 2},
        baud_rate_bps : {0, 47, 100, 115200, 5680000, 5680001},
        clock_rate_hz : {1419999, 1420000, 50000000, 104856000, 104856025,
                         536870911}]

(* A module table that mixes modules with and without elements and with    *)
(* and without optional callbacks.                                         *)
MCElementCount == <<2, 0, 1>>
=============================================================================
