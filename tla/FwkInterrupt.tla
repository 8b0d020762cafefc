---------------------------- MODULE FwkInterrupt ----------------------------
(***************************************************************************)
(* Interrupt management, framework/src/fwk_interrupt.c over the drivers of *)
(* the nested vectored interrupt controller, arch/src/armv7-m/arm_nvic.c   *)
(* and arch/src/armv6-m/arm_nvic.c, and the controller itself.             *)
(*                                                                         *)
(* An exception has an entry in the vector table.  The entry of a handler  *)
(* with a parameter is irq_global, which looks the handler up in a second  *)
(* table, indexed alike.  All interrupts have one priority, so that they   *)
(* do not preempt each other; the non-maskable interrupt and faults do.    *)
(***************************************************************************)
EXTENDS Integers, Sequences, FiniteSets

CONSTANTS
  Archs,       (* the architectures considered                             *)
  Lines,       (* the interrupt lines that are wired                       *)
  IrqCount,    (* irq_count: the lines of the controller                   *)
  Isrs,        (* interrupt service routines                               *)
  Params,      (* their parameters                                         *)
  NULL

ASSUME InterruptAssumption ==
  /\ Archs \subseteq {"armv6-m", "armv7-m"}
  /\ IrqCount \in Nat /\ Lines \subseteq 0..(IrqCount - 1)
  /\ NULL \notin Isrs \cup Params
  (* These two are static in the drivers, and the null pointer is no call. *)
  /\ {"irq_global", "irq_invalid"} \cap Isrs = {}
  /\ NULL \notin [exc : Int, func : Isrs, param : Params,
                  next : {"func", "param"}]

NMI == 2
HARDFAULT == 3
MEMMANAGE == 4
BUSFAULT == 5
USAGEFAULT == 6
EXCEPTION_NUM_COUNT == 16
Exception(l) == EXCEPTION_NUM_COUNT + l
Exceptions == (NMI..USAGEFAULT) \cup {Exception(l) : l \in Lines}

VARIABLES
  arch,        (* the architecture the firmware is built for               *)
  initialized, (* fwk_interrupt.c has a driver                             *)
  vector,      (* the vector table                                         *)
  callback,    (* the table of handlers with a parameter                   *)
  setting,     (* the call of a set_isr_*_param, between its writes        *)
  registered,  (* history: the last handler set for an exception           *)
  enabled,     (* ISER                                                     *)
  latched,     (* ISPR, as far as software has set it                      *)
  asserted,    (* external: the lines devices hold up                      *)
  masked,      (* PRIMASK                                                  *)
  running      (* the exceptions taken, the last one first, and the        *)
               (* routines their entries called                            *)

fixed == <<arch, initialized>>
tables == <<vector, callback, setting, registered>>
lineVars == <<enabled, latched, asserted>>
irqVars == <<fixed, tables, lineVars, masked, running>>

Irq_invalid == "irq_invalid"
Irq_global == "irq_global"
Exception_invalid == "exception_invalid"
Invalid(x) == IF x < EXCEPTION_NUM_COUNT THEN Exception_invalid
                                         ELSE Irq_invalid
Routine == [func : Isrs \cup {Irq_invalid, Exception_invalid, NULL},
            param : Params \cup {NULL}]
Plain(isr) == [func |-> isr, param |-> NULL]

(* At reset all entries are exception_invalid, and no line is enabled.     *)
ResetInit ==
  /\ arch \in Archs /\ initialized = FALSE
  /\ vector = [x \in Exceptions |-> Exception_invalid]
  /\ callback = [x \in Exceptions |-> Plain(NULL)]
  /\ setting = NULL
  /\ registered = [x \in Exceptions |-> Plain(Exception_invalid)]
  /\ enabled = {} /\ latched = {} /\ asserted = {}
  /\ masked = FALSE /\ running = <<>>

(* arm_nvic_init: every entry of a line is irq_invalid, the other table is *)
(* zero, all lines are disabled and not pending.  There may be no memory   *)
(* for a table, which leaves everything alone.                             *)
NvicInit ==
  /\ vector' = [x \in Exceptions |-> Invalid(x)]
  /\ callback' = [x \in Exceptions |-> Plain(NULL)]
  /\ registered' = [x \in Exceptions |-> Plain(Invalid(x))]
  /\ enabled' = {} /\ latched' = {}
  /\ UNCHANGED <<arch, setting, asserted, masked, running>>

(* fwk_interrupt_init is given a driver that is complete.                  *)
DriverInit == NvicInit /\ initialized' = TRUE

(* What a module finds: the state after the two.                           *)
InterruptInit ==
  /\ arch \in Archs /\ initialized = TRUE
  /\ vector = [x \in Exceptions |-> Invalid(x)]
  /\ callback = [x \in Exceptions |-> Plain(NULL)]
  /\ setting = NULL
  /\ registered = [x \in Exceptions |-> Plain(Invalid(x))]
  /\ enabled = {} /\ latched = {} /\ asserted = {}
  /\ masked = FALSE /\ running = <<>>

(***************************************************************************)
(* The calls of fwk_interrupt.h: from the thread, or from the handler that *)
(* runs.  Without a driver they return FWK_E_INIT, and for a line past     *)
(* irq_count FWK_E_PARAM; neither changes anything.                        *)
(***************************************************************************)
InThread == running = <<>>
Calls == initialized /\ (InThread => setting = NULL)
ThreadCalls == InThread /\ Calls

IsEnabled(l) == l \in enabled

Enable(l) ==
  /\ Calls
  /\ enabled' = enabled \cup {l}
  /\ UNCHANGED <<fixed, tables, latched, asserted, masked, running>>

Disable(l) ==
  /\ Calls
  /\ enabled' = enabled \ {l}
  /\ UNCHANGED <<fixed, tables, latched, asserted, masked, running>>

IsPending(l) == l \in latched \cup asserted

SetPending(l) ==
  /\ Calls /\ arch = "armv7-m"
  /\ latched' = latched \cup {l}
  /\ UNCHANGED <<fixed, tables, enabled, asserted, masked, running>>

(* The driver of the ARMv6-M returns FWK_SUCCESS and does nothing.         *)
SetPendingV6(l) ==
  /\ Calls /\ arch = "armv6-m"
  /\ UNCHANGED irqVars

ClearPending(l) ==
  /\ Calls
  /\ latched' = latched \ {l}
  /\ UNCHANGED <<fixed, tables, enabled, asserted, masked, running>>

GlobalDisable ==
  /\ Calls /\ ~masked /\ masked' = TRUE
  /\ UNCHANGED <<fixed, tables, lineVars, running>>

GlobalEnable ==
  /\ Calls /\ masked /\ masked' = FALSE
  /\ UNCHANGED <<fixed, tables, lineVars, running>>

(* The exception of an interrupt number, for the calls that set a handler. *)
(* The two names stand for UINT_MAX and UINT_MAX - 2.                      *)
FWK_INTERRUPT_NMI == -1
FWK_INTERRUPT_EXCEPTION == -3
Entry(i) == IF i = FWK_INTERRUPT_NMI THEN NMI ELSE Exception(i)

(* A handler is set while its interrupt cannot come: the writes of         *)
(* set_isr_irq_param are not protected against it.                         *)
Quiet(i) == i = FWK_INTERRUPT_NMI \/ masked \/ i \notin enabled

(* set_isr_irq, set_isr_nmi                                                *)
SetIsr(i, isr) ==
  /\ ThreadCalls /\ Quiet(i)
  /\ vector' = [vector EXCEPT ![Entry(i)] = isr]
  /\ registered' = [registered EXCEPT ![Entry(i)] = Plain(isr)]
  /\ UNCHANGED <<fixed, callback, setting, lineVars, masked, running>>

(* set_isr_irq_param, set_isr_nmi_param: the entry of the vector table ... *)
SetIsrParam(i, isr, param) ==
  /\ ThreadCalls
  /\ vector' = [vector EXCEPT ![Entry(i)] = Irq_global]
  /\ setting' = [exc |-> Entry(i), func |-> isr, param |-> param,
                 next |-> "func"]
  /\ UNCHANGED <<fixed, callback, registered, lineVars, masked, running>>

(* ... then the routine, ...                                               *)
WriteFunc ==
  /\ InThread /\ setting # NULL /\ setting.next = "func"
  /\ callback' = [callback EXCEPT ![setting.exc].func = setting.func]
  /\ setting' = [setting EXCEPT !.next = "param"]
  /\ UNCHANGED <<fixed, vector, registered, lineVars, masked, running>>

(* Mutant: the parameter of the handler set before stays.                  *)
WriteParamOnce ==
  /\ InThread /\ setting # NULL /\ setting.next = "param"
  /\ callback' = [callback EXCEPT ![setting.exc].param =
                    IF @ = NULL THEN setting.param ELSE @]
  /\ registered' = [registered EXCEPT ![setting.exc] =
                      [func |-> setting.func, param |-> setting.param]]
  /\ setting' = NULL
  /\ UNCHANGED <<fixed, vector, lineVars, masked, running>>

(* ... then its parameter.                                                 *)
WriteParam ==
  /\ InThread /\ setting # NULL /\ setting.next = "param"
  /\ callback' = [callback EXCEPT ![setting.exc].param = setting.param]
  /\ registered' = [registered EXCEPT ![setting.exc] =
                      [func |-> setting.func, param |-> setting.param]]
  /\ setting' = NULL
  /\ UNCHANGED <<fixed, vector, lineVars, masked, running>>

(* set_isr_fault: one routine for the faults of the architecture.          *)
Faults == IF arch = "armv7-m" THEN HARDFAULT..USAGEFAULT ELSE {HARDFAULT}

SetIsrFault(isr) ==
  /\ ThreadCalls
  /\ vector' = [x \in Exceptions |-> IF x \in Faults THEN isr ELSE vector[x]]
  /\ registered' = [x \in Exceptions |-> IF x \in Faults THEN Plain(isr)
                                                         ELSE registered[x]]
  /\ UNCHANGED <<fixed, callback, setting, lineVars, masked, running>>

(* get_current, for the exception of the handler that asks; in the thread  *)
(* it returns FWK_E_STATE.                                                 *)
GetCurrent(x) ==
  IF x = NMI THEN FWK_INTERRUPT_NMI
  ELSE IF x < EXCEPTION_NUM_COUNT THEN FWK_INTERRUPT_EXCEPTION
  ELSE x - EXCEPTION_NUM_COUNT

(***************************************************************************)
(* The controller.                                                         *)
(***************************************************************************)

(* irq_global indexes its table by the number of the exception.            *)
Called(x) == IF vector[x] = Irq_global THEN callback[x] ELSE Plain(vector[x])

Take(x) == running' = <<[exc |-> x, routine |-> Called(x)]>> \o running

TakeInterrupt(l) ==
  /\ InThread /\ ~masked /\ IsEnabled(l) /\ IsPending(l)
  /\ latched' = latched \ {l}
  /\ Take(Exception(l))
  /\ UNCHANGED <<fixed, tables, enabled, asserted, masked>>

(* Whoever raises the non-maskable interrupt does not while its handler is *)
(* being set.                                                              *)
TakeNmi ==
  /\ \A i \in DOMAIN running : running[i].exc # NMI
  /\ setting # NULL => setting.exc # NMI
  /\ Take(NMI)
  /\ UNCHANGED <<fixed, tables, lineVars, masked>>

(* A fault is a hard fault where it cannot have a handler of its own.      *)
TakeFault(x) ==
  /\ x \in Faults
  /\ \A i \in DOMAIN running : running[i].exc \notin (NMI..USAGEFAULT)
  /\ x # HARDFAULT => InThread /\ ~masked
  /\ Take(x)
  /\ UNCHANGED <<fixed, tables, lineVars, masked>>

(* A handler returns, and has served the device if it has one.             *)
HandlerReturns ==
  /\ running # <<>> /\ Head(running).routine.func \in Isrs
  /\ asserted' = {l \in asserted : Exception(l) # Head(running).exc}
  /\ running' = Tail(running)
  /\ UNCHANGED <<fixed, tables, enabled, latched, masked>>

(* Mutant: the line is disabled by a number that is off by one bit.        *)
SpuriousDisablesAnother ==
  /\ running # <<>> /\ Head(running).routine.func = Irq_invalid
  /\ enabled' = enabled \ {Head(running).exc - 14}
  /\ running' = Tail(running)
  /\ UNCHANGED <<fixed, tables, latched, asserted, masked>>

(* irq_invalid: disable(__get_IPSR()) takes the number of the exception    *)
(* for that of a line; it has no effect past irq_count.                    *)
Spurious ==
  /\ running # <<>> /\ Head(running).routine.func = Irq_invalid
  /\ enabled' = IF Head(running).exc < IrqCount
                THEN enabled \ {Head(running).exc} ELSE enabled
  /\ running' = Tail(running)
  /\ UNCHANGED <<fixed, tables, latched, asserted, masked>>

(* What a device does: it holds its line up until it is served.            *)
DeviceAsserts(l) ==
  /\ l \notin asserted
  /\ asserted' = asserted \cup {l}
  /\ UNCHANGED <<fixed, tables, enabled, latched, masked, running>>

(***************************************************************************)
(* Properties                                                              *)
(***************************************************************************)
InterruptTypeOK ==
  /\ arch \in Archs /\ initialized \in BOOLEAN
  /\ vector \in [Exceptions -> Isrs \cup {Irq_invalid, Irq_global,
                                          Exception_invalid}]
  /\ callback \in [Exceptions -> Routine]
  /\ setting \in [exc : Exceptions, func : Isrs, param : Params,
                  next : {"func", "param"}] \cup {NULL}
  /\ registered \in [Exceptions -> Routine]
  /\ enabled \subseteq Lines /\ latched \subseteq Lines
  /\ asserted \subseteq Lines
  /\ masked \in BOOLEAN
  /\ running \in Seq([exc : Exceptions, routine : Routine])

(* An interrupt runs the handler that was last set for it, with the        *)
(* parameter it was set with, even when it interrupts the setting of       *)
(* another: never a null pointer, and never the routine of one call with   *)
(* the parameter of another.  The number fwk_interrupt_get_current gives   *)
(* its handler is the one the handler was set for.                         *)
CalledAsRegistered ==
  \A i \in DOMAIN running :
    LET x == running[i].exc IN
    /\ running[i].routine = registered[x]
    /\ IF x \in Faults THEN GetCurrent(x) = FWK_INTERRUPT_EXCEPTION
                       ELSE Entry(GetCurrent(x)) = x
=============================================================================
