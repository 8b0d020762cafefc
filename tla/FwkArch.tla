------------------------------ MODULE FwkArch ------------------------------
(***************************************************************************)
(* Start-up and stop of the firmware: arm_main of arch/src/arm_main.c and  *)
(* fwk_arch_init of framework/src/fwk_arch.c, which bring up memory,       *)
(* interrupts and modules in this order, and fwk_trap of                   *)
(* framework/src/fwk_assert.c, which stops the firmware when an            *)
(* expectation or an assertion fails.                                      *)
(***************************************************************************)
EXTENDS FwkInterrupt

CONSTANTS
  Modes,       (* the build modes: "debug", "release"                      *)
  MaxSettings  (* bound: how often modules set a handler                   *)

ASSUME ArchAssumption ==
  Modes \subseteq {"debug", "release"} /\ MaxSettings \in Nat

VARIABLES
  mode,        (* the build mode                                           *)
  step,        (* how far fwk_arch_init is; "panic" is arm_panic           *)
  trapped,     (* fwk_trap loops for ever, in whoever called it: the       *)
               (* number of exceptions that were running, or NULL          *)
  settings     (* bound: the handlers modules have set                     *)

startVars == <<mode, step, trapped, settings>>
archVars == <<irqVars, startVars>>

Steps == {"mm_init", "interrupt_init", "module_init", "run", "panic"}

ArchInit ==
  /\ ResetInit
  /\ mode \in Modes /\ step = "mm_init" /\ trapped = NULL
  /\ settings = 0

(* The code that runs is in its loop or has not got the processor.         *)
Stopped == trapped = Len(running) \/ (step = "panic" /\ InThread)

(***************************************************************************)
(* fwk_arch_init: a step that fails makes arm_main panic.                  *)
(***************************************************************************)
MmInit ==
  /\ step = "mm_init" /\ InThread /\ ~Stopped
  /\ step' \in {"interrupt_init", "panic"}
  /\ UNCHANGED <<irqVars, mode, trapped, settings>>

(* interrupt_init                                                          *)
InitInterrupts ==
  /\ step = "interrupt_init" /\ InThread /\ ~Stopped
  /\ \/ DriverInit /\ step' = "module_init"
     \/ UNCHANGED irqVars /\ step' = "panic"
  /\ UNCHANGED <<mode, trapped, settings>>

(* __fwk_module_init: the callbacks of modules, then the run loop.         *)
ModuleInit ==
  /\ step = "module_init" /\ ThreadCalls /\ ~Stopped
  /\ step' \in {"run", "panic"}
  /\ UNCHANGED <<irqVars, mode, trapped, settings>>

(***************************************************************************)
(* Modules, in their callbacks and handlers.  No handler enables a line    *)
(* while the thread is in the middle of setting the handler of that line,  *)
(* nor unmasks interrupts while the thread sets one.  The non-maskable     *)
(* interrupt and faults, which come whether or not the code they stop has  *)
(* masked interrupts, do not unmask them.                                  *)
(***************************************************************************)
Numbers == Lines \cup {FWK_INTERRUPT_NMI}
BeingSet(i) == setting # NULL /\ setting.exc = Entry(i)
OfLine(x) == x >= EXCEPTION_NUM_COUNT
MayUnmask == ~InThread => OfLine(Head(running).exc) /\ setting = NULL

ModuleCall ==
  /\ ~Stopped
  /\ \/ \E l \in Lines :
          \/ ~BeingSet(l) /\ Enable(l)
          \/ Disable(l)
          \/ SetPending(l) \/ SetPendingV6(l) \/ ClearPending(l)
     \/ WriteFunc \/ WriteParam
     \/ GlobalDisable
     \/ MayUnmask /\ GlobalEnable
  /\ UNCHANGED startVars

SetHandler ==
  /\ ~Stopped /\ settings < MaxSettings /\ settings' = settings + 1
  /\ \E isr \in Isrs :
       \/ SetIsrFault(isr)
       \/ \E i \in Numbers :
            \/ SetIsr(i, isr)
            \/ \E p \in Params : Quiet(i) /\ SetIsrParam(i, isr, p)
  /\ UNCHANGED <<mode, step, trapped>>

(* A handler returns, unless it is the one that is trapped.                *)
ArchReturn ==
  /\ ~Stopped
  /\ HandlerReturns \/ Spurious
  /\ UNCHANGED startVars

(* Mutant: interrupts stay as they are.                                    *)
TrapUnmasked ==
  /\ mode = "debug" /\ ~Stopped
  /\ trapped' = Len(running)
  /\ UNCHANGED <<irqVars, mode, step, settings>>

(* fwk_trap of the debug build, wherever a check fails: it disables all    *)
(* interrupts, if there is a driver to do so.                              *)
Trap ==
  /\ mode = "debug" /\ ~Stopped
  /\ trapped' = Len(running)
  /\ masked' = (masked \/ initialized)
  /\ UNCHANGED <<fixed, tables, lineVars, running, mode, step,
                 settings>>

(* __builtin_trap of the release build is a fault.                         *)
ReleaseTrap ==
  /\ mode = "release" /\ ~Stopped
  /\ TakeFault(IF arch = "armv7-m" /\ InThread /\ ~masked THEN USAGEFAULT
                                                        ELSE HARDFAULT)
  /\ UNCHANGED startVars

(* Exceptions come whether or not the code they interrupt has stopped.     *)
Exceptional ==
  /\ \/ \E l \in Lines : TakeInterrupt(l) \/ DeviceAsserts(l)
     \/ TakeNmi
     \/ ~Stopped /\ \E x \in Exceptions : TakeFault(x)
  /\ UNCHANGED startVars

ArchNext ==
  \/ MmInit \/ InitInterrupts \/ ModuleInit
  \/ ModuleCall \/ SetHandler \/ ArchReturn
  \/ Trap \/ ReleaseTrap \/ Exceptional

ArchSpec == ArchInit /\ [][ArchNext]_archVars

(***************************************************************************)
(* Properties                                                              *)
(***************************************************************************)

(* When a check has failed in a debug build, "the program state cannot be  *)
(* disturbed by interrupt handlers": wherever the check was, in a callback *)
(* or a handler, before there is a driver or with interrupts masked, no    *)
(* handler of a line starts any more.  (That of the non-maskable interrupt *)
(* may, and it returns to where it came.)                                  *)
TrapFreezes ==
  [][trapped # NULL /\ Len(running') > Len(running)
       => Head(running').exc \in NMI..USAGEFAULT]_archVars
=============================================================================
