--------------------------- MODULE Interrupt_proofs ---------------------------
(***************************************************************************)
(* Proofs about FwkInterrupt in the two specifications that extend it,     *)
(* FwkArch and MhuBoot, for every set of lines, routines and parameters    *)
(* and both architectures.                                                 *)
(*                                                                         *)
(* First, what every call and every exception does to the tables of        *)
(* handlers.  Then FwkArch: an exception runs the handler that was last    *)
(* set for it, and no handler of a line starts once a check has failed.    *)
(* Then MhuBoot: the handler of a channel finds all it needs, and what it  *)
(* logs is neither torn nor lost, for any number of channels.              *)
(***************************************************************************)
EXTENDS FwkArch, MhuBoot, WellFoundedInduction, TLAPS

(* The exceptions a handler can be set for by number.                      *)
Settable == {NMI} \cup {Exception(l) : l \in Lines}

(* Before there is a driver no line is enabled nor is a handler being set. *)
NothingBeforeInit == ~initialized => setting = NULL /\ enabled = {}

(* While a handler is being set, its exception cannot come: it is the      *)
(* non-maskable interrupt, or its line is disabled or masked; and the      *)
(* writes so far are in the tables.                                        *)
SettingInv ==
  setting # NULL =>
    /\ setting.exc \in Settable
    /\ vector[setting.exc] = Irq_global
    /\ setting.next = "param" => callback[setting.exc].func = setting.func
    /\ \A l \in Lines :
         setting.exc = Exception(l) => masked \/ l \notin enabled

(* Every other exception would run what was last set for it, ...           *)
TablesAgree ==
  \A x \in Exceptions :
    (setting # NULL => setting.exc # x) => Called(x) = registered[x]

(* ... and those that run do.                                              *)
RunningInv ==
  \A i \in DOMAIN running :
    /\ running[i].exc \in Settable \cup Faults
    /\ running[i].routine = registered[running[i].exc]

IrqInv ==
  /\ InterruptTypeOK /\ NothingBeforeInit /\ SettingInv /\ TablesAgree
  /\ RunningInv

(***************************************************************************)
(* Numbers of exceptions                                                   *)
(***************************************************************************)

(* Lines and the non-maskable interrupt have exceptions of their own, none *)
(* of which is a fault.                                                    *)
LEMMA ExceptionNumbers ==
  /\ Lines \subseteq Nat /\ Exceptions \subseteq Nat
  /\ Settable \subseteq Exceptions /\ Settable \cap Faults = {}
  /\ Faults \subseteq HARDFAULT..USAGEFAULT /\ Faults \subseteq Exceptions
  /\ \A l \in Lines : Exception(l) \in Settable /\ Exception(l) > USAGEFAULT
  /\ \A k, l \in Lines : Exception(k) = Exception(l) => k = l
  /\ \A i \in Numbers : /\ Entry(i) \in Settable
                        /\ \A l \in Lines : Entry(i) = Exception(l) => i = l
<1>1. Lines \subseteq Nat
  BY InterruptAssumption
<1> QED
  BY <1>1 DEF Exceptions, Settable, Faults, Exception, Entry, Numbers, NMI,
              HARDFAULT, USAGEFAULT, EXCEPTION_NUM_COUNT, FWK_INTERRUPT_NMI

(* The names of the entries that call no routine of a module.              *)
LEMMA Names ==
  /\ Irq_global \notin Isrs /\ Irq_invalid # Irq_global
  /\ Exception_invalid # Irq_global
  /\ \A x : Invalid(x) \in {Irq_invalid, Exception_invalid}
BY InterruptAssumption DEF Irq_global, Irq_invalid, Exception_invalid, Invalid

(* A call that sets a handler is not the null pointer.                     *)
LEMMA SettingExists ==
  ASSUME NEW r \in [exc : Exceptions, func : Isrs, param : Params,
                    next : {"func", "param"}]
  PROVE  r # NULL
<1>1. r.exc \in Int
  <2>1. r.exc \in Exceptions
    OBVIOUS
  <2>2. \A x \in Exceptions : x \in Int
    BY ExceptionNumbers
  <2> QED BY <2>1, <2>2, Zenon
<1>2. r = [exc |-> r.exc, func |-> r.func, param |-> r.param, next |-> r.next]
  OBVIOUS
<1>3. r \in [exc : Int, func : Isrs, param : Params, next : {"func", "param"}]
  BY <1>1, <1>2
<1> QED BY <1>3, InterruptAssumption

(* The handlers a type correct table gives.                                *)
LEMMA CalledType ==
  ASSUME InterruptTypeOK, NEW x \in Exceptions
  PROVE  Called(x) \in Routine
<1>1. CASE vector[x] = Irq_global
  BY <1>1 DEF Called, InterruptTypeOK
<1>2. CASE vector[x] # Irq_global
  BY <1>2 DEF Called, InterruptTypeOK, Routine, Plain
<1> QED BY <1>1, <1>2

(* An exception that comes is one more that runs, the last.                *)
LEMMA TakeRuns ==
  ASSUME InterruptTypeOK, NEW x \in Exceptions, Take(x)
  PROVE  /\ Len(running') = Len(running) + 1 /\ Head(running').exc = x
         /\ running'[1].exc = x
         /\ \A i \in 2..(Len(running) + 1) : running'[i] = running[i - 1]
<1> DEFINE r == [exc |-> x, routine |-> Called(x)]
           R == [exc : Exceptions, routine : Routine]
<1>1. running \in Seq(R) /\ r \in R /\ running' = <<r>> \o running /\ r.exc = x
  BY CalledType DEF InterruptTypeOK, Take
<1> HIDE DEF r, R
<1> QED BY <1>1

(***************************************************************************)
(* Handlers are called as they were set                                    *)
(***************************************************************************)

(* The tables of a controller that has just started agree.                 *)
LEMMA FreshTables ==
  ASSUME NEW f \in [Exceptions -> {Irq_invalid, Exception_invalid}],
         vector' = f, registered' = [x \in Exceptions |-> Plain(f[x])]
  PROVE  TablesAgree'
<1> SUFFICES ASSUME NEW x \in Exceptions PROVE Called(x)' = registered'[x]
  BY DEF TablesAgree
<1>1. vector'[x] # Irq_global
  BY Names
<1> QED BY <1>1 DEF Called

(* Steps that leave the tables alone and make no exception come that did   *)
(* not before.                                                             *)
LEMMA SameTables ==
  ASSUME IrqInv, UNCHANGED <<fixed, tables, running>>,
         masked => masked',
         \A l \in enabled' \ enabled : initialized /\ ~BeingSet(l),
         enabled' \subseteq Lines, latched' \subseteq Lines,
         asserted' \subseteq Lines, masked' \in BOOLEAN
  PROVE  IrqInv'
<1>1. InterruptTypeOK'
  BY DEF IrqInv, InterruptTypeOK, fixed, tables
<1>2. NothingBeforeInit'
  BY DEF IrqInv, NothingBeforeInit, fixed, tables
<1>3. SettingInv'
  <2> SUFFICES ASSUME setting # NULL, NEW l \in Lines,
                      setting.exc = Exception(l), ~masked'
               PROVE  l \notin enabled'
    BY DEF IrqInv, SettingInv, tables
  <2>1. l \notin enabled
    BY DEF IrqInv, SettingInv
  <2>2. BeingSet(l)
    BY ExceptionNumbers, InterruptAssumption
       DEF BeingSet, Entry, FWK_INTERRUPT_NMI
  <2> QED BY <2>1, <2>2
<1>4. TablesAgree'
  BY DEF IrqInv, TablesAgree, Called, tables
<1>5. RunningInv'
  BY DEF IrqInv, RunningInv, Faults, fixed, tables
<1> QED BY <1>1, <1>2, <1>3, <1>4, <1>5 DEF IrqInv

(* An exception that comes calls what was set for it.                      *)
LEMMA TakesAsSet ==
  ASSUME IrqInv, NEW x \in Settable \cup Faults, Take(x),
         setting # NULL => setting.exc # x,
         UNCHANGED <<fixed, tables, enabled, asserted, masked>>,
         latched' \subseteq Lines
  PROVE  /\ IrqInv'
         /\ DOMAIN running' = 1..(Len(running) + 1) /\ running'[1].exc = x
         /\ \A i \in 2..(Len(running) + 1) :
              i - 1 \in DOMAIN running /\ running'[i] = running[i - 1]
<1> DEFINE r == [exc |-> x, routine |-> Called(x)]
<1>1. x \in Exceptions
  BY ExceptionNumbers
<1>2. /\ running \in Seq([exc : Exceptions, routine : Routine])
      /\ r \in [exc : Exceptions, routine : Routine]
      /\ running' = <<r>> \o running /\ r.exc = x /\ r.routine = Called(x)
  BY <1>1, CalledType DEF IrqInv, InterruptTypeOK, Take
<1> HIDE DEF r
<1>3. /\ running' \in Seq([exc : Exceptions, routine : Routine])
      /\ DOMAIN running' = 1..(Len(running) + 1) /\ running'[1] = r
      /\ \A i \in 2..(Len(running) + 1) :
           i - 1 \in DOMAIN running /\ running'[i] = running[i - 1]
  BY <1>2
<1>4. InterruptTypeOK'
  BY <1>3 DEF IrqInv, InterruptTypeOK, fixed, tables
<1>5. NothingBeforeInit'
  BY DEF IrqInv, NothingBeforeInit, fixed, tables
<1>6. SettingInv'
  BY DEF IrqInv, SettingInv, tables
<1>7. TablesAgree'
  BY DEF IrqInv, TablesAgree, Called, tables
<1>8. RunningInv'
  <2> SUFFICES ASSUME NEW i \in DOMAIN running'
               PROVE  /\ running'[i].exc \in Settable \cup Faults
                      /\ running'[i].routine = registered[running'[i].exc]
    BY DEF RunningInv, Faults, fixed, tables
  <2>1. CASE i = 1
    <3>1. Called(x) = registered[x]
      BY <1>1 DEF IrqInv, TablesAgree
    <3> QED BY <1>2, <1>3, <2>1, <3>1
  <2>2. CASE i # 1
    <3>1. i \in 2..(Len(running) + 1)
      BY <1>2, <1>3, <2>2
    <3> QED BY <1>3, <3>1 DEF IrqInv, RunningInv
  <2> QED BY <2>1, <2>2
<1>9. IrqInv'
  BY <1>4, <1>5, <1>6, <1>7, <1>8 DEF IrqInv
<1> QED BY <1>2, <1>3, <1>9

(* A handler that returns leaves those below it as they were.              *)
LEMMA ReturnsAsSet ==
  ASSUME IrqInv, HandlerReturns \/ Spurious
  PROVE  /\ IrqInv' /\ UNCHANGED <<fixed, tables, masked>>
         /\ enabled' \subseteq enabled
         /\ \A i \in DOMAIN running' :
              i + 1 \in DOMAIN running /\ running'[i] = running[i + 1]
<1>1. /\ running # <<>> /\ running' = Tail(running)
      /\ UNCHANGED <<fixed, tables, latched, masked>>
      /\ enabled' \subseteq enabled /\ asserted' \subseteq asserted
  BY DEF HandlerReturns, Spurious
<1>2. running \in Seq([exc : Exceptions, routine : Routine])
  BY DEF IrqInv, InterruptTypeOK
<1>3. /\ running' \in Seq([exc : Exceptions, routine : Routine])
      /\ \A i \in DOMAIN running' :
           i + 1 \in DOMAIN running /\ running'[i] = running[i + 1]
  BY <1>1, <1>2
<1>4. InterruptTypeOK'
  BY <1>1, <1>3 DEF IrqInv, InterruptTypeOK, fixed, tables
<1>5. NothingBeforeInit'
  BY <1>1 DEF IrqInv, NothingBeforeInit, fixed, tables
<1>6. SettingInv'
  BY <1>1 DEF IrqInv, SettingInv, tables
<1>7. TablesAgree'
  BY <1>1 DEF IrqInv, TablesAgree, Called, tables
<1>8. RunningInv'
  BY <1>1, <1>3 DEF IrqInv, RunningInv, Faults, fixed, tables
<1>9. IrqInv'
  BY <1>4, <1>5, <1>6, <1>7, <1>8 DEF IrqInv
<1> QED BY <1>1, <1>3, <1>9

(* Steps of the thread that write to the tables.                           *)
LEMMA Writes ==
  ASSUME IrqInv, InThread, InterruptTypeOK', SettingInv', TablesAgree',
         ~initialized' => setting' = NULL /\ enabled' = {},
         running' = running
  PROVE  IrqInv'
BY DEF IrqInv, NothingBeforeInit, RunningInv, InThread

(* Setting the handler of some exceptions, without a parameter.            *)
LEMMA SetsPlain ==
  ASSUME IrqInv, ThreadCalls, NEW isr \in Isrs, NEW S \in SUBSET Exceptions,
         vector' = [x \in Exceptions |-> IF x \in S THEN isr ELSE vector[x]],
         registered' = [x \in Exceptions |->
                          IF x \in S THEN Plain(isr) ELSE registered[x]],
         UNCHANGED <<fixed, callback, setting, lineVars, masked, running>>
  PROVE  IrqInv'
<1>1. setting = NULL /\ initialized
  BY DEF ThreadCalls, Calls
<1>2. InterruptTypeOK'
  BY DEF IrqInv, InterruptTypeOK, Routine, Plain, fixed, lineVars
<1>3. SettingInv'
  BY <1>1 DEF SettingInv
<1>4. TablesAgree'
  <2> SUFFICES ASSUME NEW x \in Exceptions PROVE Called(x)' = registered'[x]
    BY DEF TablesAgree
  <2>1. CASE x \in S
    BY <2>1, Names DEF Called
  <2>2. CASE x \notin S
    <3>1. Called(x)' = Called(x)
      BY <2>2 DEF Called
    <3> QED BY <1>1, <2>2, <3>1 DEF IrqInv, TablesAgree
  <2> QED BY <2>1, <2>2
<1> QED BY <1>1, <1>2, <1>3, <1>4, Writes DEF ThreadCalls, fixed

(***************************************************************************)
(* What each call does                                                     *)
(***************************************************************************)

(* Calls about one line; none but Enable, and none of the others' lines.   *)
LEMMA LineCalls ==
  ASSUME IrqInv, NEW l \in Lines,
         \/ ~BeingSet(l) /\ Enable(l)
         \/ Disable(l)
         \/ SetPending(l) \/ SetPendingV6(l) \/ ClearPending(l)
         \/ DeviceAsserts(l)
  PROVE  /\ IrqInv' /\ UNCHANGED <<fixed, tables, running, masked>>
         /\ enabled' \subseteq enabled \cup {l}
<1>1. /\ enabled \subseteq Lines /\ latched \subseteq Lines
      /\ asserted \subseteq Lines /\ masked \in BOOLEAN
  BY DEF IrqInv, InterruptTypeOK
<1>2. /\ UNCHANGED <<fixed, tables, running, masked>>
      /\ enabled' \subseteq enabled \cup {l} /\ latched' \subseteq Lines
      /\ asserted' \subseteq Lines
      /\ \A k \in enabled' \ enabled : initialized /\ ~BeingSet(k)
  BY <1>1 DEF Enable, Disable, SetPending, SetPendingV6, ClearPending,
              DeviceAsserts, irqVars, lineVars, Calls
<1> QED BY <1>1, <1>2, SameTables

(* Masking and unmasking leave handlers alone.                             *)
LEMMA MaskCalls ==
  ASSUME IrqInv,
         GlobalDisable \/ (GlobalEnable /\ (~InThread => setting = NULL))
  PROVE  IrqInv' /\ UNCHANGED <<fixed, tables, lineVars, running>>
<1>1. /\ enabled \subseteq Lines /\ latched \subseteq Lines
      /\ asserted \subseteq Lines
  BY DEF IrqInv, InterruptTypeOK
<1>2. UNCHANGED <<fixed, tables, lineVars, running>>
  BY DEF GlobalDisable, GlobalEnable
<1>3. CASE GlobalDisable
  BY <1>1, <1>3, SameTables DEF GlobalDisable, lineVars
<1>4. CASE GlobalEnable /\ (~InThread => setting = NULL)
  <2>1. setting = NULL /\ masked' = FALSE
    BY <1>4 DEF GlobalEnable, Calls
  <2>2. InterruptTypeOK'
    BY <1>2, <2>1 DEF IrqInv, InterruptTypeOK, fixed, tables, lineVars
  <2>3. NothingBeforeInit' /\ SettingInv' /\ TablesAgree' /\ RunningInv'
    BY <1>2, <2>1
       DEF IrqInv, NothingBeforeInit, SettingInv, TablesAgree, Called,
           RunningInv, Faults, fixed, tables, lineVars
  <2> QED BY <1>2, <2>2, <2>3 DEF IrqInv
<1> QED BY <1>2, <1>3, <1>4

(* The two writes of a set_isr_*_param after the vector table.             *)
LEMMA FuncWritten ==
  ASSUME IrqInv, WriteFunc
  PROVE  /\ IrqInv' /\ setting # NULL /\ setting' # NULL
         /\ setting'.exc = setting.exc /\ setting'.func = setting.func
         /\ setting'.param = setting.param
         /\ UNCHANGED <<fixed, registered, lineVars, masked, running>>
<1> PICK x : x = setting.exc
  OBVIOUS
<1>1. /\ InThread /\ setting # NULL /\ setting.next = "func"
      /\ callback' = [callback EXCEPT ![x].func = setting.func]
      /\ setting' = [setting EXCEPT !.next = "param"]
      /\ UNCHANGED <<fixed, vector, registered, lineVars, masked, running>>
  BY DEF WriteFunc
<1>2. /\ setting \in [exc : Exceptions, func : Isrs, param : Params,
                      next : {"func", "param"}]
      /\ callback \in [Exceptions -> Routine] /\ x \in Exceptions
  BY <1>1 DEF IrqInv, InterruptTypeOK
<1>3. /\ setting' \in [exc : Exceptions, func : Isrs, param : Params,
                       next : {"func", "param"}]
      /\ setting'.exc = x /\ setting'.func = setting.func
      /\ setting'.param = setting.param
      /\ callback' \in [Exceptions -> Routine]
      /\ callback'[x].func = setting.func
      /\ \A y \in Exceptions \ {x} : callback'[y] = callback[y]
  BY <1>1, <1>2 DEF Routine
<1>4. InterruptTypeOK'
  BY <1>1, <1>3 DEF IrqInv, InterruptTypeOK, fixed, lineVars
<1>5. SettingInv'
  BY <1>1, <1>3 DEF IrqInv, SettingInv, lineVars
<1>6. setting' # NULL
  BY <1>3, SettingExists
<1>7. TablesAgree'
  <2>1. \A y \in Exceptions \ {x} : Called(y)' = Called(y)
    BY <1>1, <1>3 DEF Called
  <2> QED BY <1>1, <1>3, <1>6, <2>1 DEF IrqInv, TablesAgree
<1>8. initialized
  BY <1>1 DEF IrqInv, NothingBeforeInit
<1>9. IrqInv'
  BY <1>1, <1>4, <1>5, <1>7, <1>8, Writes DEF fixed
<1> QED BY <1>1, <1>3, <1>6, <1>9

(* The last of the three writes: the handler is set with its parameter.    *)
LEMMA ParamWritten ==
  ASSUME IrqInv, WriteParam
  PROVE  /\ IrqInv' /\ setting # NULL /\ setting' = NULL
         /\ setting.exc \in Exceptions
         /\ registered'[setting.exc]
              = [func |-> setting.func, param |-> setting.param]
         /\ \A y \in Exceptions \ {setting.exc} :
              registered'[y] = registered[y]
         /\ UNCHANGED <<fixed, lineVars, masked, running>>
<1> PICK x : x = setting.exc
  OBVIOUS
<1> DEFINE r == [func |-> setting.func, param |-> setting.param]
<1>1. /\ InThread /\ setting # NULL /\ setting.next = "param"
      /\ callback' = [callback EXCEPT ![x].param = setting.param]
      /\ registered' = [registered EXCEPT ![x] = r]
      /\ setting' = NULL
      /\ UNCHANGED <<fixed, vector, lineVars, masked, running>>
  BY DEF WriteParam
<1>2. /\ setting \in [exc : Exceptions, func : Isrs, param : Params,
                      next : {"func", "param"}]
      /\ callback \in [Exceptions -> Routine] /\ x \in Exceptions
      /\ registered \in [Exceptions -> Routine]
      /\ vector[x] = Irq_global /\ callback[x].func = setting.func
  BY <1>1 DEF IrqInv, InterruptTypeOK, SettingInv
<1>3. r \in Routine
  BY <1>2 DEF Routine
<1>4. /\ callback' \in [Exceptions -> Routine] /\ callback'[x] = r
      /\ \A y \in Exceptions \ {x} : callback'[y] = callback[y]
  BY <1>1, <1>2 DEF Routine
<1> HIDE DEF r
<1>5. /\ registered' \in [Exceptions -> Routine] /\ registered'[x] = r
      /\ \A y \in Exceptions \ {x} : registered'[y] = registered[y]
  BY <1>1, <1>2, <1>3
<1>6. InterruptTypeOK'
  BY <1>1, <1>4, <1>5 DEF IrqInv, InterruptTypeOK, fixed, lineVars
<1>7. SettingInv'
  BY <1>1 DEF SettingInv
<1>8. TablesAgree'
  <2>1. Called(x)' = registered'[x]
    BY <1>1, <1>2, <1>4, <1>5 DEF Called
  <2>2. \A y \in Exceptions \ {x} : Called(y)' = registered'[y]
    BY <1>1, <1>4, <1>5 DEF IrqInv, TablesAgree, Called
  <2> QED BY <2>1, <2>2 DEF TablesAgree
<1>9. initialized
  BY <1>1 DEF IrqInv, NothingBeforeInit
<1>10. IrqInv'
  BY <1>1, <1>6, <1>7, <1>8, <1>9, Writes DEF fixed
<1> QED BY <1>1, <1>2, <1>5, <1>10 DEF r

(* Calls that set a handler.                                               *)
LEMMA FaultSet ==
  ASSUME IrqInv, NEW isr \in Isrs, SetIsrFault(isr)
  PROVE  IrqInv'
<1>1. Faults \in SUBSET Exceptions
  BY ExceptionNumbers
<1> QED BY <1>1, SetsPlain DEF SetIsrFault

(* Only the entry of the number changes.                                   *)
LEMMA IsrSet ==
  ASSUME IrqInv, NEW isr \in Isrs, NEW i \in Numbers, SetIsr(i, isr)
  PROVE  /\ IrqInv' /\ UNCHANGED <<fixed, setting, lineVars, masked, running>>
         /\ \A y \in Exceptions \ {Entry(i)} : registered'[y] = registered[y]
<1> DEFINE S == {Entry(i)}
<1>1. S \in SUBSET Exceptions
  BY ExceptionNumbers
<1>2. /\ vector \in [Exceptions -> Isrs \cup {Irq_invalid, Irq_global,
                                              Exception_invalid}]
      /\ registered \in [Exceptions -> Routine]
  BY DEF IrqInv, InterruptTypeOK
<1>3. /\ vector' = [x \in Exceptions |-> IF x \in S THEN isr ELSE vector[x]]
      /\ registered' = [x \in Exceptions |->
                          IF x \in S THEN Plain(isr) ELSE registered[x]]
  BY <1>1, <1>2 DEF SetIsr
<1>4. /\ ThreadCalls
      /\ UNCHANGED <<fixed, callback, setting, lineVars, masked, running>>
  BY DEF SetIsr
<1> HIDE DEF S
<1>5. IrqInv'
  BY <1>1, <1>3, <1>4, SetsPlain
<1> QED BY <1>3, <1>4, <1>5 DEF S

(* The first of the three writes.                                          *)
LEMMA IsrParamSet ==
  ASSUME IrqInv, NEW isr \in Isrs, NEW i \in Numbers, NEW p \in Params,
         Quiet(i), SetIsrParam(i, isr, p)
  PROVE  /\ IrqInv' /\ setting = NULL /\ setting' # NULL
         /\ setting'.exc = Entry(i) /\ setting'.func = isr
         /\ setting'.param = p
         /\ UNCHANGED <<fixed, registered, lineVars, masked, running>>
<1> DEFINE x == Entry(i)
           r == [exc |-> x, func |-> isr, param |-> p, next |-> "func"]
<1>1. /\ ThreadCalls /\ vector' = [vector EXCEPT ![x] = Irq_global]
      /\ setting' = r
      /\ UNCHANGED <<fixed, callback, registered, lineVars, masked, running>>
  BY DEF SetIsrParam
<1>2. /\ x \in Settable /\ x \in Exceptions
      /\ vector \in [Exceptions -> Isrs \cup {Irq_invalid, Irq_global,
                                              Exception_invalid}]
  BY ExceptionNumbers DEF IrqInv, InterruptTypeOK
<1>3. r \in [exc : Exceptions, func : Isrs, param : Params,
             next : {"func", "param"}]
      /\ r.exc = x /\ r.next = "func" /\ r.func = isr /\ r.param = p
  BY <1>2
<1>4. r # NULL
  BY <1>3, SettingExists
<1> HIDE DEF r
<1>5. setting = NULL /\ initialized
  BY <1>1 DEF ThreadCalls, Calls
<1>6. InterruptTypeOK'
  BY <1>1, <1>2, <1>3 DEF IrqInv, InterruptTypeOK, fixed, lineVars
<1>7. SettingInv'
  <2>1. vector'[x] = Irq_global
    BY <1>1, <1>2
  <2>2. ASSUME NEW l \in Lines, x = Exception(l)
        PROVE  masked \/ l \notin enabled
    <3>1. l = i
      BY <2>2, ExceptionNumbers
    <3>2. l # FWK_INTERRUPT_NMI
      BY InterruptAssumption DEF FWK_INTERRUPT_NMI
    <3> QED BY <3>1, <3>2 DEF Quiet
  <2> QED BY <1>1, <1>2, <1>3, <2>1, <2>2 DEF SettingInv, lineVars
<1>8. TablesAgree'
  <2> SUFFICES ASSUME NEW y \in Exceptions, y # x
               PROVE  Called(y)' = registered'[y]
    BY <1>1, <1>3, <1>4 DEF TablesAgree
  <2>1. vector'[y] = vector[y]
    BY <1>1, <1>2
  <2> QED BY <1>1, <1>5, <2>1 DEF IrqInv, TablesAgree, Called
<1>9. IrqInv'
  BY <1>1, <1>5, <1>6, <1>7, <1>8, Writes DEF ThreadCalls, fixed
<1> QED BY <1>1, <1>3, <1>4, <1>5, <1>9

(* A line whose handler is being set does not come.                        *)
LEMMA InterruptTaken ==
  ASSUME IrqInv, NEW l \in Lines, TakeInterrupt(l)
  PROVE  /\ IrqInv' /\ InThread /\ l \in enabled
         /\ UNCHANGED <<fixed, tables, enabled, asserted, masked>>
         /\ DOMAIN running' = {1} /\ running'[1].exc = Exception(l)
<1> DEFINE x == Exception(l)
<1>1. /\ x \in Settable /\ Take(x) /\ ~masked /\ l \in enabled
      /\ InThread /\ latched' \subseteq Lines
      /\ UNCHANGED <<fixed, tables, enabled, asserted, masked>>
  BY ExceptionNumbers DEF TakeInterrupt, IsEnabled, IrqInv, InterruptTypeOK
<1>2. setting # NULL => setting.exc # x
  BY <1>1 DEF IrqInv, SettingInv
<1> HIDE DEF x
<1>3. /\ IrqInv' /\ DOMAIN running' = 1..(Len(running) + 1)
      /\ running'[1].exc = x
  BY <1>1, <1>2, TakesAsSet
<1>4. Len(running) = 0
  BY <1>1 DEF InThread
<1> QED BY <1>1, <1>3, <1>4 DEF x

(* The state a module finds.                                               *)
LEMMA FreshController ==
  ASSUME vector = [x \in Exceptions |-> Invalid(x)],
         callback = [x \in Exceptions |-> Plain(NULL)],
         registered = [x \in Exceptions |-> Plain(Invalid(x))],
         arch \in Archs, initialized \in BOOLEAN, setting = NULL,
         enabled = {}, latched = {}, asserted = {}, masked = FALSE,
         running = <<>>
  PROVE  IrqInv
<1>1. /\ \A x \in Exceptions : /\ Plain(Invalid(x)) \in Routine
                               /\ Invalid(x) # Irq_global
                               /\ Invalid(x) \in {Irq_invalid,
                                                 Exception_invalid}
      /\ Plain(NULL) \in Routine
      /\ <<>> \in Seq([exc : Exceptions, routine : Routine])
  BY Names DEF Routine, Plain
<1>2. InterruptTypeOK
  BY <1>1 DEF InterruptTypeOK
<1>3. NothingBeforeInit /\ SettingInv /\ RunningInv
  BY DEF NothingBeforeInit, SettingInv, RunningInv
<1>4. TablesAgree
  BY <1>1 DEF TablesAgree, Called
<1> QED BY <1>2, <1>3, <1>4 DEF IrqInv

(***************************************************************************)
(* FwkArch: handlers are called as they were set                           *)
(***************************************************************************)

StepsInOrder ==
  /\ mode \in Modes /\ step \in Steps
  /\ step \in {"mm_init", "interrupt_init"} => ~initialized

CallInv == StepsInOrder /\ IrqInv

(* Every step keeps the tables such that handlers are called as set.       *)
LEMMA ArchStep ==
  ASSUME CallInv, [ArchNext]_archVars
  PROVE  CallInv'
<1>1. /\ IrqInv /\ mode \in Modes /\ step \in Steps
      /\ (step \in {"mm_init", "interrupt_init"} => ~initialized)
      /\ enabled \subseteq Lines /\ latched \subseteq Lines
      /\ asserted \subseteq Lines /\ masked \in BOOLEAN
  BY DEF CallInv, StepsInOrder, IrqInv, InterruptTypeOK
<1>2. CASE MmInit \/ ModuleInit
  <2>1. /\ UNCHANGED <<irqVars, mode>> /\ step' \in Steps
        /\ step' \in {"mm_init", "interrupt_init"} => ~initialized
    BY <1>1, <1>2 DEF MmInit, ModuleInit, Steps
  <2>2. IrqInv'
    BY <1>1, <2>1, SameTables DEF irqVars, lineVars
  <2> QED BY <1>1, <2>1, <2>2 DEF CallInv, StepsInOrder, irqVars, fixed
<1>3. CASE InitInterrupts
  <2>1. CASE DriverInit /\ step' = "module_init"
    <3> DEFINE f == [x \in Exceptions |-> Invalid(x)]
    <3>1. /\ f \in [Exceptions -> {Irq_invalid, Exception_invalid}]
          /\ vector' = f
          /\ registered' = [x \in Exceptions |-> Plain(f[x])]
          /\ callback' = [x \in Exceptions |-> Plain(NULL)]
          /\ enabled' = {} /\ latched' = {} /\ initialized' = TRUE
          /\ setting' = setting
          /\ UNCHANGED <<arch, asserted, masked, running, mode>>
      BY <1>3, <2>1, Names DEF DriverInit, NvicInit, InitInterrupts
    <3>2. setting = NULL /\ InThread
      BY <1>1, <1>3 DEF InitInterrupts, IrqInv, NothingBeforeInit
    <3> HIDE DEF f
    <3>3. InterruptTypeOK'
      <4>1. /\ registered' \in [Exceptions -> Routine]
            /\ callback' \in [Exceptions -> Routine]
        BY <3>1 DEF Routine, Plain
      <4>2. vector' \in [Exceptions -> Isrs \cup {Irq_invalid, Irq_global,
                                                  Exception_invalid}]
        BY <3>1
      <4> QED BY <1>1, <3>1, <4>1, <4>2 DEF IrqInv, InterruptTypeOK
    <3>4. SettingInv'
      BY <3>1, <3>2 DEF SettingInv
    <3>5. TablesAgree'
      BY <3>1, FreshTables
    <3>6. IrqInv'
      BY <1>1, <3>1, <3>2, <3>3, <3>4, <3>5, Writes
    <3> QED BY <1>1, <2>1, <3>1, <3>6 DEF CallInv, StepsInOrder, Steps
  <2>2. CASE UNCHANGED irqVars /\ step' = "panic"
    <3>1. mode' = mode /\ step' \in Steps
      BY <1>3, <2>2 DEF InitInterrupts, Steps
    <3>2. IrqInv'
      BY <1>1, <2>2, SameTables DEF irqVars, lineVars
    <3> QED BY <1>1, <2>2, <3>1, <3>2 DEF CallInv, StepsInOrder
  <2> QED BY <1>3, <2>1, <2>2 DEF InitInterrupts
(* All others leave the stages and the driver alone.                       *)
<1>4. ASSUME IrqInv', UNCHANGED <<mode, step, fixed>> PROVE CallInv'
  BY <1>1, <1>4 DEF CallInv, StepsInOrder, fixed
<1>5. CASE ModuleCall
  <2>1. UNCHANGED <<mode, step>>
    BY <1>5 DEF ModuleCall, startVars
  <2>2. ASSUME NEW l \in Lines,
               \/ ~BeingSet(l) /\ Enable(l)
               \/ Disable(l)
               \/ SetPending(l) \/ SetPendingV6(l) \/ ClearPending(l)
        PROVE  CallInv'
    <3>1. IrqInv' /\ UNCHANGED fixed
      BY <1>1, <2>2, LineCalls
    <3> QED BY <1>4, <2>1, <3>1
  <2>3. CASE WriteFunc
    BY <1>1, <1>4, <2>1, <2>3, FuncWritten
  <2>4. CASE WriteParam
    BY <1>1, <1>4, <2>1, <2>4, ParamWritten
  <2>5. CASE GlobalDisable \/ (MayUnmask /\ GlobalEnable)
    BY <1>1, <1>4, <2>1, <2>5, MaskCalls DEF MayUnmask
  <2> QED BY <1>5, <2>2, <2>3, <2>4, <2>5 DEF ModuleCall
<1>6. CASE SetHandler
  <2>1. UNCHANGED <<mode, step>>
    BY <1>6 DEF SetHandler
  <2> PICK isr \in Isrs :
        \/ SetIsrFault(isr)
        \/ \E i \in Numbers :
             \/ SetIsr(i, isr)
             \/ \E p \in Params : Quiet(i) /\ SetIsrParam(i, isr, p)
    BY <1>6 DEF SetHandler
  <2>2. CASE SetIsrFault(isr)
    <3>1. UNCHANGED fixed
      BY <2>2 DEF SetIsrFault
    <3> QED BY <1>1, <1>4, <2>1, <2>2, <3>1, FaultSet
  <2>3. ASSUME NEW i \in Numbers, SetIsr(i, isr) PROVE CallInv'
    BY <1>1, <1>4, <2>1, <2>3, IsrSet
  <2>4. ASSUME NEW i \in Numbers, NEW p \in Params, Quiet(i),
               SetIsrParam(i, isr, p)
        PROVE  CallInv'
    BY <1>1, <1>4, <2>1, <2>4, IsrParamSet
  <2> QED BY <2>2, <2>3, <2>4
<1>7. CASE ArchReturn
  <2>1. (HandlerReturns \/ Spurious) /\ UNCHANGED <<mode, step>>
    BY <1>7 DEF ArchReturn, startVars
  <2> QED BY <1>1, <1>4, <2>1, ReturnsAsSet
<1>8. CASE Trap
  <2>1. /\ UNCHANGED <<fixed, tables, lineVars, running, mode, step>>
        /\ masked' = (masked \/ initialized)
    BY <1>8 DEF Trap
  <2>2. initialized \in BOOLEAN
    BY <1>1 DEF IrqInv, InterruptTypeOK
  <2>3. IrqInv'
    BY <1>1, <2>1, <2>2, SameTables DEF lineVars
  <2> QED BY <1>4, <2>1, <2>3
<1>9. ASSUME NEW x, TakeFault(x), UNCHANGED startVars PROVE CallInv'
  <2>1. /\ x \in Faults /\ Take(x)
        /\ UNCHANGED <<fixed, tables, lineVars, masked, mode, step>>
    BY <1>9 DEF TakeFault, startVars
  <2>2. setting # NULL => setting.exc # x
    BY <1>1, <2>1, ExceptionNumbers DEF IrqInv, SettingInv
  <2>3. IrqInv'
    BY <1>1, <2>1, <2>2, TakesAsSet DEF lineVars
  <2> QED BY <1>4, <2>1, <2>3
<1>10. ASSUME NEW l \in Lines, TakeInterrupt(l), UNCHANGED startVars
       PROVE  CallInv'
  <2>1. IrqInv' /\ UNCHANGED <<fixed, mode, step>>
    BY <1>1, <1>10, InterruptTaken DEF startVars
  <2> QED BY <1>4, <2>1
<1>11. ASSUME NEW l \in Lines, DeviceAsserts(l), UNCHANGED startVars
       PROVE  CallInv'
  <2>1. IrqInv' /\ UNCHANGED <<fixed, mode, step>>
    BY <1>1, <1>11, LineCalls DEF startVars
  <2> QED BY <1>4, <2>1
<1>12. CASE TakeNmi /\ UNCHANGED startVars
  <2>1. /\ Take(NMI) /\ NMI \in Settable
        /\ setting # NULL => setting.exc # NMI
        /\ UNCHANGED <<fixed, tables, lineVars, masked, mode, step>>
    BY <1>12 DEF TakeNmi, Settable, startVars
  <2>2. IrqInv'
    BY <1>1, <2>1, TakesAsSet DEF lineVars
  <2> QED BY <1>4, <2>1, <2>2
<1>13. CASE UNCHANGED archVars
  <2>1. UNCHANGED <<fixed, tables, lineVars, masked, running, mode, step>>
    BY <1>13 DEF archVars, irqVars, startVars
  <2>2. IrqInv'
    BY <1>1, <2>1, SameTables DEF lineVars
  <2> QED BY <1>4, <2>1, <2>2
<1> QED BY <1>2, <1>3, <1>5, <1>6, <1>7, <1>8, <1>9, <1>10, <1>11, <1>12,
           <1>13 DEF ArchNext, ReleaseTrap, Exceptional

(* The invariant of FwkArch.                                               *)
LEMMA CallInvariant == ArchSpec => []CallInv
<1>1. ArchInit => CallInv
  <2> SUFFICES ASSUME ArchInit PROVE CallInv
    OBVIOUS
  <2>1. InterruptTypeOK
    <3>1. /\ Plain(NULL) \in Routine /\ Plain(Exception_invalid) \in Routine
          /\ <<>> \in Seq([exc : Exceptions, routine : Routine])
      BY DEF Routine, Plain
    <3> QED BY <3>1 DEF ArchInit, ResetInit, InterruptTypeOK
  <2>2. NothingBeforeInit /\ SettingInv /\ RunningInv
    BY DEF ArchInit, ResetInit, NothingBeforeInit, SettingInv, RunningInv
  <2>3. TablesAgree
    BY Names DEF ArchInit, ResetInit, TablesAgree, Called
  <2>4. StepsInOrder
    BY DEF ArchInit, ResetInit, StepsInOrder, Steps
  <2> QED BY <2>1, <2>2, <2>3, <2>4 DEF CallInv, IrqInv
<1>2. CallInv /\ [ArchNext]_archVars => CallInv'
  BY ArchStep
<1> QED BY <1>1, <1>2, PTL DEF ArchSpec

(* What an exception runs is what was last set for it.                     *)
LEMMA TablesMean == IrqInv => CalledAsRegistered
<1> SUFFICES ASSUME IrqInv, NEW i \in DOMAIN running
             PROVE  LET x == running[i].exc IN
                    /\ running[i].routine = registered[x]
                    /\ IF x \in Faults
                       THEN GetCurrent(x) = FWK_INTERRUPT_EXCEPTION
                       ELSE Entry(GetCurrent(x)) = x
  BY DEF CalledAsRegistered
<1> DEFINE x == running[i].exc
<1>1. x \in Settable \cup Faults /\ running[i].routine = registered[x]
  BY DEF IrqInv, RunningInv
<1> HIDE DEF x
<1>2. x \in Faults => GetCurrent(x) = FWK_INTERRUPT_EXCEPTION
  BY ExceptionNumbers DEF GetCurrent, NMI, HARDFAULT, USAGEFAULT,
                          EXCEPTION_NUM_COUNT
<1>3. x = NMI => Entry(GetCurrent(x)) = x
  BY DEF GetCurrent, Entry
<1>4. ASSUME NEW l \in Lines, x = Exception(l)
      PROVE  Entry(GetCurrent(x)) = x
  <2>1. l \in Nat
    BY ExceptionNumbers
  <2> QED BY <1>4, <2>1 DEF GetCurrent, Entry, Exception, NMI,
                            EXCEPTION_NUM_COUNT, FWK_INTERRUPT_NMI
<1> QED BY <1>1, <1>2, <1>3, <1>4 DEF Settable, x

(* An exception runs the handler last set for it with the parameter it was *)
(* set with, whatever was being set when it came, and the handler reads    *)
(* the number it was set for.                                              *)
THEOREM HandlersCalledAsSet == ArchSpec => []CalledAsRegistered
<1>1. CallInv => CalledAsRegistered
  BY TablesMean DEF CallInv
<1> QED BY <1>1, CallInvariant, PTL

(***************************************************************************)
(* FwkArch: a failed check stops the firmware                              *)
(***************************************************************************)

(* Where a check has failed nothing goes on: the exceptions above it       *)
(* return to it, and none is of a line, since it has masked the lines if   *)
(* any can be enabled.                                                     *)
TrapInv ==
  trapped # NULL =>
    /\ trapped \in Nat /\ trapped <= Len(running)
    /\ initialized => masked
    /\ \A i \in 1..(Len(running) - trapped) :
         running[i].exc \in NMI..USAGEFAULT

(* What a failed check leaves behind, with interrupts or without.          *)
LEMMA TrapInvariant == ArchSpec => []TrapInv
<1>1. ArchInit => TrapInv
  BY DEF ArchInit, TrapInv
<1>2. ASSUME CallInv, TrapInv, [ArchNext]_archVars PROVE TrapInv'
  <2>1. running \in Seq([exc : Exceptions, routine : Routine])
        /\ initialized \in BOOLEAN /\ masked \in BOOLEAN
    BY <1>2 DEF CallInv, IrqInv, InterruptTypeOK
  <2>2. Len(running) \in Nat
    BY <2>1
  (* Where there is a failed check, the thread does nothing, ...           *)
  <2>3. trapped # NULL /\ InThread => Stopped
    BY <1>2, <2>2 DEF TrapInv, InThread, Stopped
  (* ... a handler goes on or returns only if it is above the check, ...   *)
  <2>4. trapped # NULL /\ ~Stopped => trapped <= Len(running) - 1
    BY <1>2, <2>2 DEF TrapInv, Stopped
  (* ... and then it is not that of a line.                                *)
  <2>5. trapped # NULL /\ ~Stopped => ~OfLine(Head(running).exc)
    <3> SUFFICES ASSUME trapped # NULL, ~Stopped
                 PROVE  ~OfLine(Head(running).exc)
      OBVIOUS
    <3>1. trapped \in Nat /\ 1 \in 1..(Len(running) - trapped)
      BY <1>2, <2>2, <2>4 DEF TrapInv
    <3>2. running[1].exc \in NMI..USAGEFAULT
      BY <1>2, <3>1 DEF TrapInv
    <3>3. Head(running) = running[1]
      BY <2>1, <2>2, <3>1
    <3> QED BY <3>2, <3>3
            DEF OfLine, NMI, USAGEFAULT, EXCEPTION_NUM_COUNT
  <2>6. CASE MmInit \/ InitInterrupts \/ ModuleInit \/ SetHandler
    <3>1. trapped' = trapped /\ InThread /\ ~Stopped
      BY <2>6 DEF MmInit, InitInterrupts, ModuleInit, SetHandler, SetIsrFault,
                  SetIsr, SetIsrParam, ThreadCalls
    <3> QED BY <2>3, <3>1 DEF TrapInv
  <2>7. CASE ModuleCall
    <3>1. trapped' = trapped /\ ~Stopped /\ UNCHANGED <<running, initialized>>
      BY <2>7 DEF ModuleCall, startVars, Enable, Disable, SetPending,
                  SetPendingV6, ClearPending, WriteFunc, WriteParam,
                  GlobalDisable, GlobalEnable, irqVars, fixed
    <3>2. \/ masked' = masked \/ masked' = TRUE \/ InThread
          \/ OfLine(Head(running).exc)
      BY <2>7 DEF ModuleCall, Enable, Disable, SetPending, SetPendingV6,
                  ClearPending, WriteFunc, WriteParam, GlobalDisable,
                  GlobalEnable, MayUnmask, irqVars
    <3> QED BY <1>2, <2>3, <2>5, <3>1, <3>2 DEF TrapInv
  <2>8. CASE ArchReturn
    <3>1. /\ trapped' = trapped /\ ~Stopped /\ running # <<>>
          /\ UNCHANGED <<initialized, masked>>
          /\ running' = Tail(running)
      BY <2>8 DEF ArchReturn, startVars, HandlerReturns, Spurious, fixed
    <3>2. /\ Len(running') = Len(running) - 1
          /\ \A i \in 1..(Len(running) - 1) : running'[i] = running[i + 1]
      BY <2>1, <3>1
    <3> SUFFICES ASSUME trapped # NULL PROVE TrapInv'
      BY <3>1 DEF TrapInv
    <3>3. trapped \in Nat /\ trapped <= Len(running) - 1
      BY <1>2, <2>4, <3>1 DEF TrapInv
    <3>4. ASSUME NEW i \in 1..(Len(running') - trapped)
          PROVE  running'[i].exc \in NMI..USAGEFAULT
      <4>1. /\ i + 1 \in 1..(Len(running) - trapped)
            /\ i \in 1..(Len(running) - 1)
        BY <2>2, <3>2, <3>3, <3>4
      <4> QED BY <1>2, <3>2, <4>1 DEF TrapInv
    <3> QED BY <1>2, <3>1, <3>2, <3>3, <3>4 DEF TrapInv
  <2>9. CASE Trap
    BY <2>1, <2>2, <2>9 DEF Trap, TrapInv, fixed
  <2>10. CASE ReleaseTrap \/ Exceptional
    <3>1. trapped' = trapped /\ UNCHANGED <<initialized, masked>>
      BY <2>10 DEF ReleaseTrap, Exceptional, startVars, TakeFault, TakeNmi,
                   TakeInterrupt, DeviceAsserts, fixed
    <3> SUFFICES ASSUME trapped # NULL PROVE TrapInv'
      BY <3>1 DEF TrapInv
    <3>2. \A l \in Lines : ~TakeInterrupt(l)
      BY <1>2 DEF TakeInterrupt, IsEnabled, TrapInv, CallInv, IrqInv,
                  NothingBeforeInit
    <3>3. \/ \E x \in Exceptions : Take(x) /\ x \in NMI..USAGEFAULT
          \/ running' = running
      BY <2>10, <3>2, ExceptionNumbers
         DEF ReleaseTrap, Exceptional, TakeFault, TakeNmi, DeviceAsserts,
             Settable, NMI, HARDFAULT, USAGEFAULT
    <3>4. CASE running' = running
      BY <1>2, <3>1, <3>4 DEF TrapInv
    <3>5. ASSUME NEW x \in Exceptions, Take(x), x \in NMI..USAGEFAULT
          PROVE  TrapInv'
      <4>1. /\ Len(running') = Len(running) + 1 /\ running'[1].exc = x
            /\ \A i \in 2..(Len(running) + 1) : running'[i] = running[i - 1]
        BY <1>2, <3>5, TakeRuns DEF CallInv, IrqInv
      <4>2. trapped \in Nat /\ trapped <= Len(running)
        BY <1>2 DEF TrapInv
      <4>3. ASSUME NEW i \in 1..(Len(running') - trapped)
            PROVE  running'[i].exc \in NMI..USAGEFAULT
        <5>1. CASE i = 1
          BY <3>5, <4>1, <5>1
        <5>2. CASE i # 1
          <6>1. /\ i - 1 \in 1..(Len(running) - trapped)
                /\ i \in 2..(Len(running) + 1)
            BY <2>2, <4>1, <4>2, <5>2
          <6> QED BY <1>2, <4>1, <6>1 DEF TrapInv
        <5> QED BY <5>1, <5>2
      <4> QED BY <1>2, <2>2, <3>1, <4>1, <4>2, <4>3 DEF TrapInv
    <3> QED BY <3>3, <3>4, <3>5
  <2>11. CASE UNCHANGED archVars
    BY <1>2, <2>11 DEF TrapInv, archVars, irqVars, startVars, fixed
  <2> QED BY <1>2, <2>6, <2>7, <2>8, <2>9, <2>10, <2>11 DEF ArchNext
<1> QED BY <1>1, <1>2, CallInvariant, PTL DEF ArchSpec

(* Once a check has failed in a debug build no handler of a line starts,   *)
(* wherever it failed: the lines are masked, or none was enabled yet.      *)
THEOREM TrapStops == ArchSpec => TrapFreezes
<1>1. ASSUME CallInv, TrapInv, [ArchNext]_archVars
      PROVE  trapped # NULL /\ Len(running') > Len(running)
               => Head(running').exc \in NMI..USAGEFAULT
  <2> SUFFICES ASSUME trapped # NULL, Len(running') > Len(running)
               PROVE  Head(running').exc \in NMI..USAGEFAULT
    OBVIOUS
  <2>1. running \in Seq([exc : Exceptions, routine : Routine])
        /\ Len(running) \in Nat
    BY <1>1 DEF CallInv, IrqInv, InterruptTypeOK
  <2>2. ASSUME NEW x, Take(x) PROVE Head(running').exc = x
    BY <2>1, <2>2 DEF Take
  <2>3. ASSUME NEW x, TakeFault(x) PROVE Head(running').exc \in NMI..USAGEFAULT
    BY <2>2, <2>3, ExceptionNumbers
       DEF TakeFault, NMI, HARDFAULT, USAGEFAULT
  <2>4. CASE TakeNmi
    BY <2>2, <2>4 DEF TakeNmi, NMI, USAGEFAULT
  <2>5. \A l \in Lines : ~TakeInterrupt(l)
    BY <1>1 DEF TakeInterrupt, IsEnabled, TrapInv, CallInv,
                IrqInv, NothingBeforeInit
  <2>6. CASE UNCHANGED running
    BY <2>1, <2>6
  <2>7. CASE running # <<>> /\ running' = Tail(running)
    BY <2>1, <2>7
  <2>8. \/ \E x : TakeFault(x)
        \/ TakeNmi \/ UNCHANGED running
        \/ running # <<>> /\ running' = Tail(running)
        \/ \E l \in Lines : TakeInterrupt(l)
    BY <1>1 DEF ArchNext, MmInit, InitInterrupts, DriverInit, NvicInit,
       ModuleInit, ModuleCall, Enable, Disable, SetPending, SetPendingV6,
       ClearPending, WriteFunc, WriteParam, GlobalDisable, GlobalEnable,
       SetHandler,
       SetIsrFault, SetIsr, SetIsrParam, ArchReturn, HandlerReturns, Spurious,
       Trap, ReleaseTrap, Exceptional, DeviceAsserts, archVars, irqVars
  <2> QED BY <2>3, <2>4, <2>5, <2>6, <2>7, <2>8
<1> QED BY <1>1, CallInvariant, TrapInvariant, PTL DEF ArchSpec, TrapFreezes
(***************************************************************************)
(* MhuBoot: its invariant                                                  *)
(***************************************************************************)

(* The callbacks that have returned for the i-th channel: a stage goes     *)
(* through the channels in order.                                          *)
Done(s, later, i) == (stage = s /\ i < at) \/ stage \in later

Initialised(i) ==
  Done("elements", {"bind_log", "flush", "bind", "bind_handler", "start",
                    "runtime"}, i)
Bound(i) == Done("bind", {"bind_handler", "start", "runtime"}, i)
Serving(i) == Done("start", {"runtime"}, i)

LineOf(i) == Irq[Channels[i]]
ExceptionOf(i) == Exception(LineOf(i))
HandlerOf(i) == [func |-> Mhu2_isr, param |-> Channels[i]]
BeingServed(i) == setting # NULL /\ setting.exc = ExceptionOf(i)

BootTypeOK ==
  /\ stage \in Stages /\ at \in Nat /\ 1 <= at /\ at <= N
  /\ starting \in BOOLEAN
  /\ device.endpoints \in Seq(Endpoint)
  /\ device.used \subseteq 0..(BmpSize - 1)
  /\ ept \in [Chans -> Endpoint \cup {NULL}]
  /\ logApi \subseteq Chans \cup {Handler}

(* What each stage leaves behind.                                          *)
StagesLeave ==
  /\ stage \notin {"elements", "bind", "start"} => at = 1
  /\ starting => stage = "start"
  /\ driver <=> stage \notin {"init", "elements", "bind_log"}
  /\ stage \in {"start", "runtime"} => Handler \in logApi
  /\ \A i \in 1..N :
       /\ Initialised(i) => /\ ept[Channels[i]] # NULL
                            /\ ept[Channels[i]].dest = Send[Channels[i]]
       /\ Bound(i) => Channels[i] \in logApi

(* The interrupt of a channel is enabled after its handler has been set,   *)
(* and no one else sets the handler of that line.                          *)
Served(i) ==
  /\ LineOf(i) \in enabled => Serving(i)
  /\ BeingServed(i) => /\ starting /\ i = at
                       /\ setting.func = Mhu2_isr
                       /\ setting.param = Channels[i]
  /\ Serving(i) \/ (starting /\ i = at /\ ~BeingServed(i))
       => registered[ExceptionOf(i)] = HandlerOf(i)
  /\ \A k \in DOMAIN running : running[k].exc = ExceptionOf(i) => Serving(i)

ChannelsServed == \A i \in 1..N : Served(i)

(* The message a context puts continues the last one in the FIFO, and the  *)
(* room it has seen is still there.                                        *)
Continues(c) ==
  /\ line[c].next >= 1 /\ line[c].next <= Size[line[c].text]
  /\ line[c].next > 1 => /\ last # Nothing /\ last.text = line[c].text
                         /\ last.at = line[c].next - 1
  /\ line[c].room => fifo < FifoSize

(* A handler of a channel, when it puts a message, keeps the thread from   *)
(* doing anything.                                                         *)
IsrLine ==
  line[Isr] # Nothing =>
    /\ line[Isr].text = Received /\ Continues(Isr)
    /\ running # <<>> /\ \E i \in 1..N : running[1].exc = ExceptionOf(i)

(* The thread puts the banner alone, and is interrupted in the others.     *)
ThreadLine ==
  line[Thread] # Nothing =>
    \/ /\ line[Thread].text = Banner /\ stage = "flush" /\ Continues(Thread)
       /\ line[Thread].next = 1 => last = Nothing
    \/ line[Thread].text = Started /\ stage \in {"start", "runtime"}

(* A banner and a message of a handler that have begun go on.              *)
LastGoesOn ==
  last # Nothing =>
    /\ last.text = Banner /\ last.at < Size[Banner] =>
         /\ line[Thread] # Nothing /\ line[Thread].text = Banner
         /\ line[Thread].next = last.at + 1
    /\ last.text = Received /\ last.at < Size[Received] =>
         /\ line[Isr] # Nothing
         /\ line[Isr].next = last.at + 1

(* The banner comes first.                                                 *)
BannerFirst ==
  /\ stage \in {"init", "elements", "bind_log"} => last = Nothing
  /\ stage = "flush" /\ line[Thread] = Nothing => last # Nothing
  /\ stage \in {"bind", "bind_handler", "start", "runtime"} => last # Nothing

LogInv ==
  LogTypeOK /\ IsrLine /\ ThreadLine /\ LastGoesOn /\ BannerFirst

BootInv == IrqInv /\ BootTypeOK /\ StagesLeave /\ ChannelsServed /\ LogInv

(* Every set of natural numbers has a least element.                       *)
LEMMA LeastAddress ==
  ASSUME NEW S, S \subseteq Nat, S # {}
  PROVE  \E a \in S : \A b \in S : a <= b
<1>1. PICK R : R = OpToRel(<, Nat)
  OBVIOUS
<1>2. IsWellFoundedOn(R, Nat) /\ \A a, b \in Nat : b < a => <<b, a>> \in R
  BY <1>1, NatLessThanWellFounded DEF OpToRel
<1>3. PICK a \in S : \A b \in S : ~ (<<b, a>> \in R)
  BY <1>2, WFMin
<1>4. ASSUME NEW b \in S PROVE a <= b
  <2>1. ~(b < a)
    BY <1>2, <1>3, Zenon
  <2> QED BY <2>1
<1> QED BY <1>4

(***************************************************************************)
(* MhuBoot: channels and their lines                                       *)
(***************************************************************************)

(* Channels are numbered, and have lines and exceptions of their own.      *)
LEMMA ChannelFacts ==
  /\ N \in Nat /\ N > 0
  /\ \A i \in 1..N : /\ Channels[i] \in Chans /\ Channels[i] \in Params
                     /\ LineOf(i) \in MhuLines /\ LineOf(i) \in Lines
                     /\ LineOf(i) \in Numbers
                     /\ ExceptionOf(i) \in Exceptions
                     /\ Entry(LineOf(i)) = ExceptionOf(i)
  /\ \A i, k \in 1..N : Channels[i] = Channels[k] => i = k
  /\ \A i, k \in 1..N : LineOf(i) = LineOf(k) => i = k
  /\ \A i, k \in 1..N : ExceptionOf(i) = ExceptionOf(k) => i = k
  /\ \A c \in Chans : \E i \in 1..N : c = Channels[i]
  /\ \A l \in MhuLines : l \in Lines /\ \E i \in 1..N : l = LineOf(i)
  /\ \A i \in 1..N, l \in OtherLines :
       l \in Numbers /\ l # LineOf(i) /\ Entry(l) # ExceptionOf(i)
<1>1. /\ Channels \in Seq(Params) /\ N > 0 /\ IsInjective(Channels)
      /\ Irq \in [Chans -> Lines] /\ IsInjective(Irq)
  BY MhuBootAssumption
<1>2. N \in Nat /\ DOMAIN Channels = 1..N
  BY <1>1 DEF N
<1>3. Chans = {Channels[i] : i \in 1..N}
  BY <1>2 DEF Chans, ToSet
<1>4. \A i \in 1..N : Channels[i] \in Chans /\ Channels[i] \in Params
  BY <1>1, <1>2, <1>3
<1>5. \A i, k \in 1..N : Channels[i] = Channels[k] => i = k
  BY <1>1, <1>2 DEF IsInjective
<1>6. \A i \in 1..N : LineOf(i) \in MhuLines /\ LineOf(i) \in Lines
  BY <1>1, <1>4 DEF LineOf, MhuLines
<1>7. \A i, k \in 1..N : LineOf(i) = LineOf(k) => i = k
  BY <1>1, <1>4, <1>5 DEF LineOf, IsInjective
<1>8. /\ \A l \in Lines : /\ Entry(l) = Exception(l) /\ l \in Numbers
                          /\ Exception(l) \in Exceptions
      /\ \A k, l \in Lines : Exception(k) = Exception(l) => k = l
  BY ExceptionNumbers, InterruptAssumption
     DEF Entry, Numbers, FWK_INTERRUPT_NMI, Exceptions
<1>9. \A i, k \in 1..N : ExceptionOf(i) = ExceptionOf(k) => i = k
  BY <1>6, <1>7, <1>8 DEF ExceptionOf
<1>10. \A l \in MhuLines : l \in Lines /\ \E i \in 1..N : l = LineOf(i)
  BY <1>1, <1>3 DEF LineOf, MhuLines
<1>11. \A i \in 1..N, l \in OtherLines :
         l \in Numbers /\ l # LineOf(i) /\ Entry(l) # ExceptionOf(i)
  <2> SUFFICES ASSUME NEW i \in 1..N, NEW l \in OtherLines
               PROVE  /\ l \in Numbers /\ l # LineOf(i)
                      /\ Entry(l) # ExceptionOf(i)
    OBVIOUS
  <2>1. l \in Lines /\ l # LineOf(i)
    BY <1>6 DEF OtherLines
  <2> QED BY <2>1, <1>6, <1>8 DEF ExceptionOf
<1>12. \A i \in 1..N : /\ LineOf(i) \in Numbers
                       /\ ExceptionOf(i) \in Exceptions
                       /\ Entry(LineOf(i)) = ExceptionOf(i)
  BY <1>6, <1>8 DEF ExceptionOf
<1>13. \A c \in Chans : \E i \in 1..N : c = Channels[i]
  BY <1>3
<1> QED BY <1>1, <1>2, <1>4, <1>5, <1>6, <1>7, <1>9, <1>10, <1>11, <1>12, <1>13

(* A stage goes on to the next channel, or the next stage begins.          *)
LEMMA DoneGoesOn ==
  ASSUME BootTypeOK, NEW i \in 1..N, NEW s, NEW t,
         stage = s, NextChannel(t), s # t, NEW L, s \notin L
  PROVE  /\ Done(s, L, i)' => i <= at \/ t \in L
         /\ t \notin L /\ stage' = t => ~Done(s, L, i)'
         /\ Done(s, L, i)' /\ i # at => Done(s, L, i) \/ t \in L
<1>1. at \in Nat /\ i \in Nat /\ N \in Nat /\ i <= N
  BY ChannelFacts DEF BootTypeOK
<1>2. CASE at < N /\ at' = at + 1 /\ stage' = stage
  BY <1>1, <1>2 DEF Done
<1>3. CASE at' = 1 /\ stage' = t
  BY <1>1, <1>3 DEF Done
<1> QED BY <1>2, <1>3 DEF NextChannel

(***************************************************************************)
(* MhuBoot: steps that leave the boot alone                                *)
(***************************************************************************)

(* Whatever happens to other lines, and before the channels are started.   *)
LEMMA ServedAlike ==
  ASSUME ChannelsServed, NEW i \in 1..N,
         starting' = starting, (starting => at' = at),
         Serving(i)' <=> Serving(i),
         LineOf(i) \in enabled' => LineOf(i) \in enabled,
         BeingServed(i)' <=> BeingServed(i),
         BeingServed(i) => setting'.func = setting.func
                           /\ setting'.param = setting.param,
         registered'[ExceptionOf(i)] = registered[ExceptionOf(i)],
         \A k \in DOMAIN running' : running'[k].exc = ExceptionOf(i) =>
            Serving(i) \/ \E j \in DOMAIN running : running[j] = running'[k]
  PROVE  Served(i)'
BY Zenon DEF ChannelsServed, Served, LineOf, ExceptionOf, HandlerOf

(* A step that leaves the log and the stage alone.                         *)
LEMMA LogAlike ==
  ASSUME LogInv, UNCHANGED <<logVars, stage>>,
         line[Isr] # Nothing => running' = running
  PROVE  LogInv'
<1>1. LogTypeOK' /\ LastGoesOn' /\ BannerFirst' /\ ThreadLine'
  BY DEF LogInv, logVars, LogTypeOK, LastGoesOn, BannerFirst, ThreadLine,
         Continues
<1>2. IsrLine'
  BY DEF LogInv, logVars, IsrLine, Continues, ExceptionOf, LineOf
<1> QED BY <1>1, <1>2 DEF LogInv

(* A step of nobody who boots.                                             *)
LEMMA BootAlike ==
  ASSUME BootTypeOK, StagesLeave, UNCHANGED <<bootVars, driver>>
  PROVE  /\ BootTypeOK' /\ StagesLeave'
         /\ \A i \in 1..N : Serving(i)' <=> Serving(i)
BY DEF BootTypeOK, StagesLeave, bootVars, Serving, Initialised, Bound, Done

(* What a handler logs, it logs at run time.                               *)
LEMMA HandlersLogLate ==
  ASSUME BootInv, line[Isr] # Nothing
  PROVE  /\ running # <<>> /\ stage \in {"start", "runtime"}
         /\ running[1].routine.func = Mhu2_isr
<1> PICK i \in 1..N : running # <<>> /\ running[1].exc = ExceptionOf(i)
  BY DEF BootInv, LogInv, IsrLine
<1>1. 1 \in DOMAIN running
  <2>1. running \in Seq([exc : Exceptions, routine : Routine])
    BY DEF BootInv, IrqInv, InterruptTypeOK
  <2> QED BY <2>1
<1>2. Serving(i) /\ registered[ExceptionOf(i)] = HandlerOf(i)
  BY <1>1 DEF BootInv, ChannelsServed, Served
<1>3. running[1].routine = registered[ExceptionOf(i)]
  BY <1>1 DEF BootInv, IrqInv, RunningInv
<1> QED BY <1>2, <1>3 DEF Serving, Done, HandlerOf

(* Steps at the tables and the lines.                                      *)
LEMMA IrqStep ==
  ASSUME BootInv, IrqInv', UNCHANGED <<logVars, bootVars>>,
         \A i \in 1..N : Served(i)',
         line[Isr] # Nothing => running' = running
  PROVE  BootInv'
<1>1. BootTypeOK' /\ StagesLeave'
  BY BootAlike DEF BootInv, logVars
<1>2. LogInv'
  BY LogAlike DEF BootInv, bootVars
<1> QED BY <1>1, <1>2 DEF BootInv, ChannelsServed

(* A message only asserts its line.                                        *)
LEMMA MessageKeeps ==
  ASSUME BootInv, Message
  PROVE  BootInv'
<1> PICK l \in MhuLines : DeviceAsserts(l) /\ UNCHANGED <<logVars, bootVars>>
  BY DEF Message
<1>1. /\ IrqInv' /\ UNCHANGED <<fixed, tables, running, enabled>>
  BY ChannelFacts, LineCalls DEF BootInv, DeviceAsserts
<1>2. \A i \in 1..N : Served(i)'
  BY <1>1 DEF BootInv, ChannelsServed, Served, BeingServed, Serving, Done,
              LineOf, ExceptionOf, HandlerOf, tables, bootVars
<1> QED BY <1>1, <1>2, IrqStep

(* Whoever unmasks has no handler half set.                                *)
LEMMA UnmaskKeeps ==
  ASSUME BootInv, InThread, GlobalEnable \/ GlobalDisable,
         UNCHANGED <<logVars, bootVars>>
  PROVE  BootInv'
<1>1. IrqInv' /\ UNCHANGED <<fixed, tables, running, enabled>>
  BY MaskCalls DEF BootInv, lineVars
<1>2. \A i \in 1..N : Served(i)'
  BY <1>1 DEF BootInv, ChannelsServed, Served, BeingServed, Serving, Done,
              LineOf, ExceptionOf, HandlerOf, tables, bootVars
<1> QED BY <1>1, <1>2, IrqStep

(* A handler that is set in full is that of its channel.                   *)
LEMMA WriteKeeps ==
  ASSUME BootInv, Write
  PROVE  BootInv'
<1>1. IrqInv /\ UNCHANGED <<logVars, bootVars>>
      /\ \A i \in 1..N : Served(i) /\ (Serving(i)' <=> Serving(i))
  BY DEF BootInv, Write, bootVars, Serving, Done, ChannelsServed
<1>2. CASE WriteFunc
  <2>1. /\ IrqInv' /\ setting # NULL /\ setting' # NULL
        /\ setting'.exc = setting.exc /\ setting'.func = setting.func
        /\ setting'.param = setting.param
        /\ UNCHANGED <<fixed, registered, lineVars, masked, running>>
    BY <1>1, <1>2, FuncWritten
  <2>2. \A i \in 1..N : Served(i)'
    BY <1>1, <2>1 DEF Served, BeingServed, LineOf, ExceptionOf, HandlerOf,
                      lineVars, bootVars
  <2> QED BY <1>1, <2>1, <2>2, IrqStep
<1>3. CASE WriteParam
  <2>1. /\ IrqInv' /\ setting # NULL /\ setting' = NULL
        /\ setting.exc \in Exceptions
        /\ registered'[setting.exc]
             = [func |-> setting.func, param |-> setting.param]
        /\ \A y \in Exceptions \ {setting.exc} : registered'[y] = registered[y]
        /\ UNCHANGED <<fixed, lineVars, masked, running>>
    BY <1>1, <1>3, ParamWritten
  <2>2. \A i \in 1..N : Served(i)'
    <3> SUFFICES ASSUME NEW i \in 1..N PROVE Served(i)'
      OBVIOUS
    <3>1. ~BeingServed(i)'
      BY <2>1 DEF BeingServed
    <3>2. CASE BeingServed(i)
      <4>1. setting.func = Mhu2_isr /\ setting.param = Channels[i]
        BY <1>1, <3>2 DEF Served
      <4>2. registered'[ExceptionOf(i)] = HandlerOf(i)
        BY <2>1, <3>2, <4>1 DEF BeingServed, HandlerOf
      <4> QED BY <1>1, <2>1, <3>1, <4>2
              DEF Served, LineOf, ExceptionOf, HandlerOf, lineVars, bootVars
    <3>3. CASE ~BeingServed(i)
      <4>1. registered'[ExceptionOf(i)] = registered[ExceptionOf(i)]
        BY <2>1, <3>3, ChannelFacts DEF BeingServed
      <4> QED BY <1>1, <2>1, <3>1, <3>3, <4>1
              DEF Served, LineOf, ExceptionOf, HandlerOf, lineVars, bootVars
    <3> QED BY <3>2, <3>3
  <2> QED BY <1>1, <2>1, <2>2, IrqStep
<1> QED BY <1>2, <1>3 DEF Write

(* Other modules have lines of their own.                                  *)
LEMMA OtherModulesKeep ==
  ASSUME BootInv, OtherModules
  PROVE  BootInv'
<1>1. /\ IrqInv /\ UNCHANGED <<logVars, bootVars>>
      /\ \A i \in 1..N : Served(i) /\ (Serving(i)' <=> Serving(i))
      /\ OtherIsr \in Isrs
      /\ \A c \in Chans : c \in Params
  BY ChannelFacts, MhuBootAssumption
     DEF BootInv, OtherModules, bootVars, Serving, Done, ChannelsServed
<1>2. ASSUME NEW l \in OtherLines, SetIsr(l, OtherIsr) PROVE BootInv'
  <2>1. /\ IrqInv' /\ UNCHANGED <<fixed, setting, lineVars, masked, running>>
        /\ \A y \in Exceptions \ {Entry(l)} : registered'[y] = registered[y]
    BY <1>1, <1>2, ChannelFacts, IsrSet
  <2>2. \A i \in 1..N :
          registered'[ExceptionOf(i)] = registered[ExceptionOf(i)]
    BY <2>1, ChannelFacts
  <2>3. \A i \in 1..N : Served(i)'
    BY <1>1, <2>1, <2>2
       DEF Served, BeingServed, LineOf, ExceptionOf, HandlerOf, lineVars,
           bootVars
  <2> QED BY <1>1, <2>1, <2>3, IrqStep
<1>3. ASSUME NEW l \in OtherLines, NEW c \in Chans, Quiet(l),
             SetIsrParam(l, OtherIsr, c)
      PROVE  BootInv'
  <2>1. /\ IrqInv' /\ setting = NULL /\ setting' # NULL
        /\ setting'.exc = Entry(l)
        /\ UNCHANGED <<fixed, registered, lineVars, masked, running>>
    BY <1>1, <1>3, ChannelFacts, IsrParamSet
  <2>2. \A i \in 1..N : ~BeingServed(i) /\ ~BeingServed(i)'
    BY <2>1, ChannelFacts DEF BeingServed, ExceptionOf, LineOf
  <2>3. \A i \in 1..N : Served(i)'
    BY <1>1, <2>1, <2>2
       DEF Served, LineOf, ExceptionOf, HandlerOf, lineVars, bootVars
  <2> QED BY <1>1, <2>1, <2>3, IrqStep
<1>4. ASSUME NEW l \in OtherLines,
             \/ Enable(l) \/ Disable(l) \/ SetPending(l) \/ ClearPending(l)
      PROVE  BootInv'
  <2>1. ~BeingSet(l) \/ Disable(l) \/ SetPending(l) \/ ClearPending(l)
    <3>1. InThread
      BY DEF OtherModules
    <3> QED BY <1>4, <3>1 DEF Enable, Calls, BeingSet
  <2>2. /\ IrqInv' /\ UNCHANGED <<fixed, tables, running, masked>>
        /\ enabled' \subseteq enabled \cup {l}
    BY <1>1, <1>4, <2>1, LineCalls DEF OtherLines
  <2>3. \A i \in 1..N : LineOf(i) \in enabled' => LineOf(i) \in enabled
    BY <2>2, ChannelFacts
  <2>4. \A i \in 1..N : Served(i)'
    BY <1>1, <2>2, <2>3
       DEF Served, BeingServed, LineOf, ExceptionOf, HandlerOf, tables,
           bootVars
  <2> QED BY <1>1, <2>2, <2>4, IrqStep
<1>5. CASE GlobalDisable
  BY <1>1, <1>5, UnmaskKeeps DEF OtherModules
<1> QED BY <1>2, <1>3, <1>4, <1>5 DEF OtherModules

(***************************************************************************)
(* MhuBoot: the log                                                        *)
(***************************************************************************)

(* The assumptions about who logs what.                                    *)
LEMMA LogConstants ==
  /\ Thread \in Contexts /\ Isr \in Contexts /\ Thread # Isr
  /\ Banner \in Texts /\ Started \in Texts /\ Received \in Texts
  /\ Banner # Started /\ Banner # Received /\ Started # Received
  /\ \A t \in Texts : Size[t] \in Nat /\ Size[t] >= 1
  /\ FifoSize \in Nat
BY LogAssumption, MhuBootAssumption

(* What a context puts and what the FIFO holds exist.                      *)
LEMMA LinesExist ==
  ASSUME LogTypeOK
  PROVE  /\ \A c \in Contexts : line[c] # Nothing =>
              line[c] \in [text : Texts, next : Nat, room : BOOLEAN]
         /\ last # Nothing => last \in [text : Texts, at : Nat]
         /\ \A l \in [text : Texts, next : Nat, room : BOOLEAN] : l # Nothing
         /\ \A l \in [text : Texts, at : Nat] : l # Nothing
BY LogAssumption DEF LogTypeOK

(* A poll of the flag.                                                     *)
LEMMA SeesRoomDoes ==
  ASSUME LogTypeOK, NEW c \in Contexts, SeesRoom(c)
  PROVE  /\ LogTypeOK' /\ UNCHANGED <<driver, fifo, last>>
         /\ fifo < FifoSize
         /\ line[c] # Nothing /\ line'[c] # Nothing
         /\ line'[c].text = line[c].text /\ line'[c].next = line[c].next
         /\ \A d \in Contexts \ {c} : line'[d] = line[d]
<1> DEFINE L == [text : Texts, next : Nat, room : BOOLEAN]
<1>1. /\ line[c] # Nothing /\ fifo < FifoSize
      /\ UNCHANGED <<driver, fifo, last>>
      /\ line' = [line EXCEPT ![c].room = TRUE]
      /\ line \in [Contexts -> L \cup {Nothing}]
  BY DEF SeesRoom, Silent, LogTypeOK
<1>2. line[c] \in L
  BY <1>1
<1> PICK l : l = [line[c] EXCEPT !.room = TRUE]
  OBVIOUS
<1>3. l \in L /\ l.text = line[c].text /\ l.next = line[c].next
  BY <1>2
<1>4. line' = [line EXCEPT ![c] = l]
  BY <1>1
<1>5. l # Nothing
  BY <1>3, LinesExist
<1> HIDE DEF L
<1>6. /\ line' \in [Contexts -> L \cup {Nothing}] /\ line'[c] = l
      /\ \A d \in Contexts \ {c} : line'[d] = line[d]
  BY <1>1, <1>3, <1>4
<1>7. LogTypeOK'
  BY <1>1, <1>6 DEF LogTypeOK, L
<1> QED BY <1>1, <1>3, <1>5, <1>6, <1>7

(* A write of the data register.                                           *)
LEMMA WritesDRDoes ==
  ASSUME LogTypeOK, NEW c \in Contexts, WritesDR(c)
  PROVE  /\ LogTypeOK' /\ driver' = driver
         /\ line[c] # Nothing /\ line[c].room
         /\ \A d \in Contexts \ {c} : line'[d] = line[d]
         /\ line[c].next = Size[line[c].text] => line'[c] = Nothing
         /\ line[c].next # Size[line[c].text] =>
              /\ line'[c] # Nothing /\ line'[c].text = line[c].text
              /\ line'[c].next = line[c].next + 1 /\ ~line'[c].room
         /\ fifo < FifoSize =>
              /\ last' # Nothing
              /\ last' = [text |-> line[c].text, at |-> line[c].next]
         /\ ~(fifo < FifoSize) => last' = last
<1> DEFINE L == [text : Texts, next : Nat, room : BOOLEAN]
<1> DEFINE l == line[c]
           v == IF l.next = Size[l.text] THEN Nothing
                ELSE [l EXCEPT !.next = l.next + 1, !.room = FALSE]
<1>1. /\ l # Nothing /\ l.room /\ driver' = driver
      /\ line' = [line EXCEPT ![c] = v]
      /\ IF fifo < FifoSize
         THEN fifo' = fifo + 1 /\ last' = [text |-> l.text, at |-> l.next]
         ELSE UNCHANGED <<fifo, last>>
  BY Zenon DEF WritesDR, Silent
<1> PICK n : n = [l EXCEPT !.next = l.next + 1]
  OBVIOUS
<1> PICK m : m = [n EXCEPT !.room = FALSE]
  OBVIOUS
<1>2. line \in [Contexts -> L \cup {Nothing}] /\ l \in L
  BY <1>1 DEF LogTypeOK
<1>3. m \in L /\ m.text = l.text /\ m.next = l.next + 1 /\ m.room = FALSE
  <2>1. n \in L /\ n.text = l.text /\ n.next = l.next + 1
    BY <1>2
  <2> QED BY <2>1
<1>4. m # Nothing
  BY <1>3, LinesExist
<1> PICK k : k = [text |-> l.text, at |-> l.next]
  OBVIOUS
<1>5. k \in [text : Texts, at : Nat]
  BY <1>2
<1>6. k # Nothing
  BY <1>5, LinesExist
<1> HIDE DEF L
<1>7. /\ line' \in [Contexts -> L \cup {Nothing}]
      /\ line'[c] = IF l.next = Size[l.text] THEN Nothing ELSE m
      /\ \A d \in Contexts \ {c} : line'[d] = line[d]
  <2>1. [l EXCEPT !.next = l.next + 1, !.room = FALSE] = m
    BY Zenon
  <2>2. v = IF l.next = Size[l.text] THEN Nothing ELSE m
    BY <2>1, Zenon
  <2> HIDE DEF l, v
  <2>3. v \in L \cup {Nothing}
    BY <1>3, <2>2
  <2> QED BY <1>1, <1>2, <2>2, <2>3
<1>8. /\ fifo < FifoSize => fifo' = fifo + 1 /\ last' = k
      /\ ~(fifo < FifoSize) => fifo' = fifo /\ last' = last
  BY <1>1
<1>9. fifo' \in 0..FifoSize
  BY <1>8, LogConstants DEF LogTypeOK
<1>10. last' \in [text : Texts, at : Nat] \cup {Nothing}
  BY <1>5, <1>8 DEF LogTypeOK
<1>11. LogTypeOK'
  BY <1>1, <1>7, <1>9, <1>10 DEF LogTypeOK, L
<1> QED BY <1>1, <1>3, <1>4, <1>6, <1>7, <1>8, <1>11

(* A message begins.                                                       *)
LEMMA BeginsDoes ==
  ASSUME LogTypeOK, NEW c \in Contexts, NEW t \in Texts,
         line' = [line EXCEPT ![c] = FirstOf(t)], driver' \in BOOLEAN,
         UNCHANGED <<fifo, last>>
  PROVE  /\ LogTypeOK' /\ line'[c] # Nothing /\ line'[c].text = t
         /\ line'[c].next = 1 /\ ~line'[c].room
         /\ \A d \in Contexts \ {c} : line'[d] = line[d]
<1> DEFINE L == [text : Texts, next : Nat, room : BOOLEAN]
<1> PICK l : l = FirstOf(t)
  OBVIOUS
<1>1. l \in L /\ l.text = t /\ l.next = 1 /\ l.room = FALSE
  BY DEF FirstOf
<1>2. line \in [Contexts -> L \cup {Nothing}] /\ l # Nothing
  BY <1>1, LinesExist DEF LogTypeOK
<1> HIDE DEF L
<1>3. /\ line' \in [Contexts -> L \cup {Nothing}] /\ line'[c] = l
      /\ \A d \in Contexts \ {c} : line'[d] = line[d]
  BY <1>1, <1>2
<1>4. LogTypeOK'
  BY <1>3 DEF LogTypeOK, L
<1> QED BY <1>1, <1>2, <1>3, <1>4

(* A step that leaves interrupts alone.                                    *)
LEMMA SameIrq ==
  ASSUME IrqInv, UNCHANGED irqVars
  PROVE  IrqInv'
<1>1. /\ UNCHANGED <<fixed, tables, lineVars, masked, running>>
      /\ enabled \subseteq Lines /\ latched \subseteq Lines
      /\ asserted \subseteq Lines /\ masked \in BOOLEAN
  BY DEF irqVars, IrqInv, InterruptTypeOK
<1> QED BY <1>1, SameTables DEF lineVars

(* Steps at the log only.                                                  *)
LEMMA LogStep ==
  ASSUME BootInv, LogInv', UNCHANGED <<irqVars, bootVars, driver>>
  PROVE  BootInv'
<1>1. IrqInv'
  BY SameIrq DEF BootInv
<1>2. BootTypeOK' /\ StagesLeave'
  BY BootAlike DEF BootInv
<1>3. ChannelsServed'
  BY DEF BootInv, ChannelsServed, Served, BeingServed, Serving, Done, LineOf,
         ExceptionOf, HandlerOf, irqVars, tables, lineVars, bootVars
<1> QED BY <1>1, <1>2, <1>3 DEF BootInv

(* The UART only makes room.                                               *)
LEMMA SendsKeep ==
  ASSUME BootInv, Sends
  PROVE  BootInv'
<1>1. /\ UNCHANGED <<driver, line, last, irqVars, bootVars>>
      /\ fifo > 0 /\ fifo' = fifo - 1
  BY DEF Sends, Transmit
<1>2. LogTypeOK' /\ (fifo < FifoSize => fifo' < FifoSize)
  BY <1>1, LogConstants DEF BootInv, LogInv, LogTypeOK
<1>3. LastGoesOn' /\ BannerFirst'
  BY <1>1 DEF BootInv, LogInv, LastGoesOn, BannerFirst, bootVars
<1>4. \A c \in Contexts : Continues(c) => Continues(c)'
  BY <1>1, <1>2 DEF Continues
<1>5. ThreadLine'
  BY <1>1, <1>4, LogConstants DEF BootInv, LogInv, ThreadLine, bootVars
<1>6. IsrLine'
  BY <1>1, <1>4, LogConstants
     DEF BootInv, LogInv, IsrLine, irqVars, ExceptionOf, LineOf
<1> QED BY <1>1, <1>2, <1>3, <1>5, <1>6, LogStep DEF LogInv

(* What of the log is about the message of one context.                    *)
LEMMA SeesRoomKeeps ==
  ASSUME BootInv, NEW c \in {Thread, Isr}, SeesRoom(c),
         UNCHANGED <<irqVars, bootVars>>
  PROVE  BootInv'
<1>1. /\ LogTypeOK' /\ UNCHANGED <<driver, fifo, last>>
      /\ fifo < FifoSize
      /\ line[c] # Nothing /\ line'[c] # Nothing
      /\ line'[c].text = line[c].text /\ line'[c].next = line[c].next
      /\ \A d \in Contexts \ {c} : line'[d] = line[d]
  BY SeesRoomDoes, LogConstants DEF BootInv, LogInv
<1>2. \A d \in {Thread, Isr} :
        /\ line'[d] = Nothing <=> line[d] = Nothing
        /\ line[d] # Nothing => /\ line'[d].text = line[d].text
                                /\ line'[d].next = line[d].next
                                /\ Continues(d) => Continues(d)'
  <2>1. Continues(c) => Continues(c)'
    BY <1>1 DEF Continues
  <2>2. ASSUME NEW d \in {Thread, Isr}, d # c
        PROVE  line'[d] = line[d] /\ (Continues(d) => Continues(d)')
    <3>1. line'[d] = line[d]
      BY <1>1, <2>2, LogConstants
    <3> QED BY <1>1, <3>1 DEF Continues
  <2> QED BY <1>1, <2>1, <2>2
<1>3. LastGoesOn' /\ BannerFirst'
  BY <1>1, <1>2 DEF BootInv, LogInv, LastGoesOn, BannerFirst, bootVars
<1>4. ThreadLine'
  BY <1>1, <1>2 DEF BootInv, LogInv, ThreadLine, bootVars
<1>5. IsrLine'
  BY <1>1, <1>2 DEF BootInv, LogInv, IsrLine, irqVars, ExceptionOf, LineOf
<1> QED BY <1>1, <1>3, <1>4, <1>5, LogStep DEF LogInv

(* A handler that puts a message is alone, after the banner; the thread    *)
(* that puts one has no handler above it.                                  *)
LEMMA PutsApart ==
  ASSUME BootInv
  PROVE  /\ InThread => line[Isr] = Nothing
         /\ line[Isr] # Nothing => /\ last # Nothing
                                   /\ line[Thread] # Nothing =>
                                        line[Thread].text = Started
<1>1. InThread => line[Isr] = Nothing
  BY HandlersLogLate DEF InThread
<1>2. ASSUME line[Isr] # Nothing
      PROVE  last # Nothing /\ (line[Thread] # Nothing =>
                                  line[Thread].text = Started)
  BY <1>2, HandlersLogLate DEF BootInv, LogInv, BannerFirst, ThreadLine
<1> QED BY <1>1, <1>2

(* A character of a handler: nothing has filled the FIFO since the poll.   *)
LEMMA IsrWritesKeeps ==
  ASSUME BootInv, WritesDR(Isr), UNCHANGED <<irqVars, bootVars>>
  PROVE  BootInv'
<1> PICK l : l = line[Isr]
  OBVIOUS
<1>1. /\ LogTypeOK' /\ driver' = driver /\ l # Nothing /\ l.room
      /\ \A d \in Contexts \ {Isr} : line'[d] = line[d]
      /\ l.next = Size[l.text] => line'[Isr] = Nothing
      /\ l.next # Size[l.text] =>
           /\ line'[Isr] # Nothing /\ line'[Isr].text = l.text
           /\ line'[Isr].next = l.next + 1 /\ ~line'[Isr].room
      /\ fifo < FifoSize =>
           /\ last' # Nothing /\ last' = [text |-> l.text, at |-> l.next]
      /\ ~(fifo < FifoSize) => last' = last
  BY WritesDRDoes, LogConstants DEF BootInv, LogInv
<1>2. l.text = Received /\ Continues(Isr) /\ l.next \in Nat
  BY <1>1, LinesExist, LogConstants DEF BootInv, LogInv, IsrLine
<1>3. /\ fifo < FifoSize /\ l.next >= 1 /\ l.next <= Size[Received]
  BY <1>1, <1>2 DEF Continues
<1>4. last' # Nothing /\ last'.text = Received /\ last'.at = l.next
  BY <1>1, <1>2, <1>3
<1>5. Size[Received] \in Nat
  BY LogConstants
<1>6. /\ l.next # Size[Received] => Continues(Isr)'
      /\ l.next = Size[Received] => line'[Isr] = Nothing
  BY <1>1, <1>2, <1>3, <1>4, <1>5 DEF Continues
<1>7. line'[Thread] = line[Thread]
      /\ (line[Thread] # Nothing => line[Thread].text = Started)
  BY <1>1, PutsApart, LogConstants
<1>8. LastGoesOn'
  BY <1>1, <1>2, <1>3, <1>4, <1>5, LogConstants DEF LastGoesOn
<1>9. BannerFirst'
  BY <1>1, <1>4, HandlersLogLate DEF BannerFirst, bootVars
<1>10. ThreadLine'
  BY <1>7, LogConstants DEF BootInv, LogInv, ThreadLine, bootVars
<1>11. IsrLine'
  <2>1. running # <<>> /\ \E i \in 1..N : running[1].exc = ExceptionOf(i)
    BY <1>1 DEF BootInv, LogInv, IsrLine
  <2>2. (running # <<>>)' /\ (\E i \in 1..N : running[1].exc = ExceptionOf(i))'
    BY <2>1 DEF irqVars, ExceptionOf, LineOf
  <2> QED BY <1>1, <1>2, <1>6, <2>2 DEF IsrLine
<1> QED BY <1>1, <1>8, <1>9, <1>10, <1>11, LogStep DEF LogInv

(* A character of the thread: the banner has no company.                   *)
LEMMA ThreadWritesKeeps ==
  ASSUME BootInv, InThread, WritesDR(Thread), UNCHANGED <<irqVars, bootVars>>
  PROVE  BootInv'
<1> PICK l : l = line[Thread]
  OBVIOUS
<1>1. /\ LogTypeOK' /\ driver' = driver /\ l # Nothing /\ l.room
      /\ \A d \in Contexts \ {Thread} : line'[d] = line[d]
      /\ l.next = Size[l.text] => line'[Thread] = Nothing
      /\ l.next # Size[l.text] =>
           /\ line'[Thread] # Nothing /\ line'[Thread].text = l.text
           /\ line'[Thread].next = l.next + 1 /\ ~line'[Thread].room
      /\ fifo < FifoSize =>
           /\ last' # Nothing /\ last' = [text |-> l.text, at |-> l.next]
      /\ ~(fifo < FifoSize) => last' = last
  BY WritesDRDoes, LogConstants DEF BootInv, LogInv
<1>2. line'[Isr] = Nothing /\ line[Isr] = Nothing /\ IsrLine'
  BY <1>1, PutsApart, LogConstants DEF IsrLine
<1>3. l.next \in Nat /\ Size[Banner] \in Nat
  BY <1>1, LinesExist, LogConstants DEF BootInv, LogInv
<1>4. CASE l.text = Banner
  <2>1. stage = "flush" /\ Continues(Thread)
    BY <1>1, <1>4, LogConstants DEF BootInv, LogInv, ThreadLine
  <2>2. /\ fifo < FifoSize /\ l.next >= 1 /\ l.next <= Size[Banner]
    BY <1>1, <1>4, <2>1 DEF Continues
  <2>3. last' # Nothing /\ last'.text = Banner /\ last'.at = l.next
    BY <1>1, <1>4, <2>2
  <2>4. l.next # Size[Banner] => Continues(Thread)'
    BY <1>1, <1>3, <1>4, <2>2, <2>3 DEF Continues
  <2>5. ThreadLine'
    BY <1>1, <1>3, <1>4, <2>1, <2>2, <2>4 DEF ThreadLine, bootVars
  <2>6. LastGoesOn'
    BY <1>1, <1>3, <1>4, <2>2, <2>3, LogConstants DEF LastGoesOn
  <2>7. BannerFirst'
    BY <2>1, <2>3 DEF BannerFirst, bootVars
  <2> QED BY <1>1, <1>2, <2>5, <2>6, <2>7, LogStep DEF LogInv
<1>5. CASE l.text # Banner
  <2>1. l.text = Started /\ stage \in {"start", "runtime"} /\ last # Nothing
    BY <1>1, <1>5 DEF BootInv, LogInv, ThreadLine, BannerFirst
  <2>2. ThreadLine'
    BY <1>1, <2>1 DEF ThreadLine, bootVars
  <2>3. last' # Nothing /\ (last' = last \/ last'.text = Started)
    BY <1>1, <2>1
  <2>4. LastGoesOn'
    BY <1>2, <1>5, <2>1, <2>3, LogConstants
       DEF BootInv, LogInv, LastGoesOn
  <2>5. BannerFirst'
    BY <2>1, <2>3 DEF BannerFirst, bootVars
  <2> QED BY <1>1, <1>2, <2>2, <2>4, <2>5, LogStep DEF LogInv
<1> QED BY <1>4, <1>5

(***************************************************************************)
(* MhuBoot: interrupts                                                     *)
(***************************************************************************)

(* do_log, of a context that puts nothing.                                 *)
LEMMA LogDoes ==
  ASSUME LogTypeOK, NEW c \in Contexts, NEW t \in Texts, Log(c, t)
  PROVE  /\ LogTypeOK' /\ UNCHANGED <<driver, fifo, last>>
         /\ line[c] = Nothing
         /\ line'[c] # Nothing =>
              /\ line'[c].text = t /\ line'[c].next = 1 /\ ~line'[c].room
         /\ \A d \in Contexts \ {c} : line'[d] = line[d]
<1>1. line[c] = Nothing /\ UNCHANGED <<driver, fifo, last>>
      /\ (line' = [line EXCEPT ![c] = FirstOf(t)] \/ line' = line)
  BY DEF Log, Silent
<1>2. CASE line' = [line EXCEPT ![c] = FirstOf(t)]
  <2>1. driver' \in BOOLEAN
    BY <1>1 DEF LogTypeOK
  <2> QED BY <1>1, <1>2, <2>1, BeginsDoes
<1>3. CASE line' = line
  BY <1>1, <1>3 DEF LogTypeOK
<1> QED BY <1>1, <1>2, <1>3

(* An interrupt begins to log when the handler before it has ended.        *)
LEMMA InterruptKeeps ==
  ASSUME BootInv, NEW l \in Lines, Interrupt(l)
  PROVE  BootInv'
<1>1. /\ IrqInv' /\ InThread /\ l \in enabled
      /\ UNCHANGED <<fixed, tables, enabled, asserted, masked, bootVars>>
      /\ DOMAIN running' = {1} /\ running'[1].exc = Exception(l)
  BY InterruptTaken DEF BootInv, Interrupt
<1>2. line[Isr] = Nothing /\ (running # <<>>)'
  BY <1>1, PutsApart
<1>3. \A i \in 1..N : ExceptionOf(i) = Exception(l) => l = LineOf(i)
  BY ChannelFacts, ExceptionNumbers DEF ExceptionOf
<1>4. /\ LogTypeOK' /\ UNCHANGED <<driver, fifo, last>>
      /\ line'[Isr] # Nothing =>
           /\ line'[Isr].text = Received /\ line'[Isr].next = 1
           /\ ~line'[Isr].room /\ l \in MhuLines
      /\ line'[Thread] = line[Thread]
  <2>1. CASE l \in MhuLines
    BY <2>1, LogDoes, LogConstants DEF BootInv, LogInv, Interrupt
  <2>2. CASE l \notin MhuLines
    BY <1>2, <2>2 DEF BootInv, LogInv, Interrupt, logVars, LogTypeOK
  <2> QED BY <2>1, <2>2
<1>5. BootTypeOK' /\ StagesLeave'
  BY <1>1, <1>4, BootAlike DEF BootInv
<1>6. ChannelsServed'
  <2> SUFFICES ASSUME NEW i \in 1..N PROVE Served(i)'
    BY DEF ChannelsServed
  <2>1. Served(i) /\ (Serving(i)' <=> Serving(i))
    BY <1>1 DEF BootInv, ChannelsServed, bootVars, Serving, Done
  <2>2. \A k \in DOMAIN running' :
          running'[k].exc = ExceptionOf(i) => Serving(i)
    BY <1>1, <1>3, <2>1 DEF Served
  <2> QED BY <1>1, <2>1, <2>2 DEF Served, BeingServed, LineOf, ExceptionOf,
                                  HandlerOf, tables, bootVars
<1>7. LogInv'
  <2>1. LastGoesOn' /\ BannerFirst'
    BY <1>1, <1>2, <1>4
       DEF BootInv, LogInv, LastGoesOn, BannerFirst, bootVars
  <2>2. ThreadLine'
    BY <1>1, <1>4 DEF BootInv, LogInv, ThreadLine, Continues, bootVars
  <2>3. IsrLine'
    <3> SUFFICES ASSUME line'[Isr] # Nothing
                 PROVE  /\ line'[Isr].text = Received /\ Continues(Isr)'
                        /\ (\E i \in 1..N : running[1].exc = ExceptionOf(i))'
      BY <1>2 DEF IsrLine
    <3>1. Continues(Isr)'
      BY <1>4, LogConstants DEF Continues
    <3>2. \E i \in 1..N : l = LineOf(i)
      BY <1>4, ChannelFacts
    <3>3. (\E i \in 1..N : running[1].exc = ExceptionOf(i))'
      BY <1>1, <3>2 DEF ExceptionOf, LineOf
    <3> QED BY <1>4, <3>1, <3>3
  <2> QED BY <1>4, <2>1, <2>2, <2>3 DEF LogInv
<1> QED BY <1>1, <1>5, <1>6, <1>7 DEF BootInv

(* irq_invalid is not the routine of a handler that puts a message.        *)
LEMMA ReturnKeeps ==
  ASSUME BootInv, Return \/ Ignore
  PROVE  BootInv'
<1>1. HandlerReturns \/ Spurious
  BY DEF Return, Ignore
<1>2. /\ IrqInv' /\ UNCHANGED <<fixed, tables, masked>>
      /\ enabled' \subseteq enabled
      /\ \A i \in DOMAIN running' :
           i + 1 \in DOMAIN running /\ running'[i] = running[i + 1]
  BY <1>1, ReturnsAsSet DEF BootInv
<1>3. UNCHANGED <<logVars, bootVars>>
  BY DEF Return, Ignore
<1>4. line[Isr] = Nothing
  <2>1. CASE Return
    BY <2>1 DEF Return, Silent
  <2>2. CASE Ignore /\ line[Isr] # Nothing
    <3>1. running # <<>> /\ running[1].routine.func = Mhu2_isr
      BY <2>2, HandlersLogLate
    <3>2. Head(running).routine.func = Irq_invalid
      BY <2>2 DEF Ignore, Spurious
    <3>3. Mhu2_isr # Irq_invalid
      BY InterruptAssumption, MhuBootAssumption DEF Irq_invalid
    <3>4. Head(running) = running[1]
      BY <3>1 DEF BootInv, IrqInv, InterruptTypeOK
    <3> QED BY <3>1, <3>2, <3>3, <3>4
  <2> QED BY <2>1, <2>2
<1>5. \A i \in 1..N : Served(i)'
  <2> SUFFICES ASSUME NEW i \in 1..N PROVE Served(i)'
    OBVIOUS
  <2>1. Served(i) /\ (Serving(i)' <=> Serving(i))
    BY <1>3 DEF BootInv, ChannelsServed, bootVars, Serving, Done
  <2>2. \A k \in DOMAIN running' :
          running'[k].exc = ExceptionOf(i) => Serving(i)
    BY <1>2, <2>1 DEF Served
  <2> QED BY <1>2, <1>3, <2>1, <2>2
          DEF Served, BeingServed, LineOf, ExceptionOf, HandlerOf, tables,
              bootVars
<1> QED BY <1>2, <1>3, <1>4, <1>5, IrqStep

(***************************************************************************)
(* MhuBoot: callbacks                                                      *)
(***************************************************************************)

(* Before the channels are started no line of theirs is in use.            *)
LEMMA ServedLater ==
  ASSUME BootInv, UNCHANGED <<irqVars, starting>>,
         stage \notin {"start", "runtime"}, stage' # "runtime",
         stage' = "start" => at' = 1
  PROVE  ChannelsServed'
<1> SUFFICES ASSUME NEW i \in 1..N PROVE Served(i)'
  BY DEF ChannelsServed
<1>1. Served(i) /\ ~Serving(i) /\ ~starting
  BY DEF BootInv, ChannelsServed, Serving, Done, StagesLeave
<1>2. ~Serving(i)'
  BY ChannelFacts DEF Serving, Done
<1> QED BY <1>1, <1>2 DEF Served, BeingServed, LineOf, ExceptionOf, HandlerOf,
                          irqVars, tables, lineVars

(* The log is as it was but for a message of the thread that begins.       *)
LEMMA LogGoesOn ==
  ASSUME BootInv, UNCHANGED logVars, running' = running,
         line[Thread] = Nothing, line[Isr] = Nothing,
         stage' # "flush",
         stage' \in {"init", "elements", "bind_log"} =>
           stage \in {"init", "elements", "bind_log"},
         stage' \in {"bind", "bind_handler", "start", "runtime"} =>
           stage \in {"flush", "bind", "bind_handler", "start", "runtime"}
  PROVE  LogInv'
<1>1. LogTypeOK' /\ LastGoesOn' /\ IsrLine' /\ ThreadLine'
  BY DEF BootInv, LogInv, logVars, LogTypeOK, LastGoesOn, IsrLine, ThreadLine
<1>2. BannerFirst'
  BY DEF BootInv, LogInv, logVars, BannerFirst
<1> QED BY <1>1, <1>2 DEF LogInv

(* What a callback of the thread finds.                                    *)
LEMMA CallFinds ==
  ASSUME BootInv, CanCall
  PROVE  line[Thread] = Nothing /\ line[Isr] = Nothing /\ InThread
BY PutsApart DEF CanCall, Silent

(* The first callback.                                                     *)
LEMMA MhuInitKeeps ==
  ASSUME BootInv, MhuInit
  PROVE  BootInv'
<1>1. /\ stage = "init" /\ stage' = "elements" /\ CanCall
      /\ UNCHANGED <<irqVars, logVars, at, starting, device, ept, logApi>>
  BY DEF MhuInit
<1>2. IrqInv' /\ ChannelsServed'
  BY <1>1, SameIrq, ServedLater DEF BootInv
<1>3. LogInv'
  BY <1>1, CallFinds, LogGoesOn DEF irqVars
<1>4. BootTypeOK' /\ at = 1
  BY <1>1 DEF BootInv, BootTypeOK, StagesLeave, Stages
<1>5. StagesLeave'
  <2>1. \A i \in 1..N : ~Initialised(i)' /\ ~Bound(i)'
    BY <1>1, <1>4, ChannelFacts DEF Initialised, Bound, Done
  <2> QED BY <1>1, <1>4, <2>1 DEF BootInv, StagesLeave, logVars
<1> QED BY <1>2, <1>3, <1>4, <1>5 DEF BootInv

(* The address of a new endpoint is one of the map, or none.               *)
LEMMA EptCreated ==
  ASSUME BootTypeOK, NEW c \in Chans, CreateEpt(c)
  PROVE  \E e \in Endpoint :
           /\ e.dest = Send[c] /\ ept' = [ept EXCEPT ![c] = e]
           /\ device'.endpoints \in Seq(Endpoint)
           /\ device'.used \subseteq 0..(BmpSize - 1)
<1> DEFINE unused == (0..(BmpSize - 1)) \ device.used
           least == CHOOSE a \in unused : \A b \in unused : a <= b
           addr == IF unused = {} THEN ADDR_ANY ELSE least
           e == [chan |-> c, addr |-> addr, dest |-> Send[c]]
<1>1. /\ device' = [endpoints |-> Append(device.endpoints, e),
                    used |-> device.used \cup (unused \cap {addr})]
      /\ ept' = [ept EXCEPT ![c] = e]
  BY DEF CreateEpt
<1>2. addr \in {ADDR_ANY} \cup 0..(BmpSize - 1)
  <2>1. CASE unused = {}
    BY <2>1
  <2>2. CASE unused # {}
    <3>1. unused \subseteq Nat
      BY MhuBootAssumption
    <3>2. \E a \in unused : \A b \in unused : a <= b
      <4> HIDE DEF unused
      <4> QED BY <2>2, <3>1, LeastAddress
    <3>3. least \in unused
      BY <3>2, Zenon
    <3> QED BY <2>2, <3>3
  <2> QED BY <2>1, <2>2
<1> HIDE DEF addr, unused
<1>3. Send[c] \in Range(Send)
  BY MhuBootAssumption DEF Range
<1>4. e \in Endpoint /\ e.dest = Send[c]
  BY <1>2, <1>3 DEF Endpoint
<1> HIDE DEF e
<1>5. /\ device'.endpoints = Append(device.endpoints, e)
      /\ device'.used = device.used \cup (unused \cap {addr})
  BY <1>1
<1>6. device'.endpoints \in Seq(Endpoint)
  BY <1>4, <1>5 DEF BootTypeOK
<1>7. device'.used \subseteq 0..(BmpSize - 1)
  BY <1>5 DEF BootTypeOK, unused
<1> QED BY <1>1, <1>4, <1>6, <1>7

(* A channel gets its endpoint.                                            *)
LEMMA ElementInitKeeps ==
  ASSUME BootInv, ElementInit
  PROVE  BootInv'
<1> PICK c : c = Channels[at]
  OBVIOUS
<1>1. /\ stage = "elements" /\ CanCall /\ CreateEpt(c)
      /\ NextChannel("bind_log")
      /\ UNCHANGED <<irqVars, logVars, starting, logApi>>
  BY DEF ElementInit
<1>2. at \in 1..N /\ c \in Chans
  BY ChannelFacts DEF BootInv, BootTypeOK
<1> PICK e \in Endpoint :
      /\ e.dest = Send[c] /\ ept' = [ept EXCEPT ![c] = e]
      /\ device'.endpoints \in Seq(Endpoint)
      /\ device'.used \subseteq 0..(BmpSize - 1)
  BY <1>1, <1>2, EptCreated DEF BootInv
<1>3. /\ stage' \in {"elements", "bind_log"} /\ at' \in Nat /\ 1 <= at'
      /\ at' <= N /\ (stage' = "bind_log" => at' = 1)
  BY <1>1, ChannelFacts DEF NextChannel, BootInv, BootTypeOK
<1>4. IrqInv' /\ ChannelsServed'
  BY <1>1, <1>3, SameIrq, ServedLater DEF BootInv
<1>5. LogInv'
  BY <1>1, <1>3, CallFinds, LogGoesOn DEF irqVars
<1>6. /\ ept' \in [Chans -> Endpoint \cup {NULL}] /\ ept'[c] = e
      /\ \A d \in Chans \ {c} : ept'[d] = ept[d]
  BY <1>2 DEF BootInv, BootTypeOK
<1>7. BootTypeOK'
  BY <1>1, <1>3, <1>6 DEF BootInv, BootTypeOK, Stages
<1>8. StagesLeave'
  <2>1. ASSUME NEW i \in 1..N, Initialised(i)'
        PROVE  ept'[Channels[i]] # NULL
               /\ ept'[Channels[i]].dest = Send[Channels[i]]
    <3>1. CASE i = at
      BY <1>6, <3>1, MhuBootAssumption
    <3>2. CASE i # at
      <4>1. i < at
        BY <1>1, <1>2, <2>1, <3>2, ChannelFacts
           DEF Initialised, Done, NextChannel
      <4>2. Channels[i] \in Chans /\ Channels[i] # c
        BY <1>2, <3>2, ChannelFacts
      <4> QED BY <1>1, <1>6, <4>1, <4>2
              DEF BootInv, StagesLeave, Initialised, Done
    <3> QED BY <3>1, <3>2
  <2>2. \A i \in 1..N : ~Bound(i)'
    BY <1>3 DEF Bound, Done
  <2> QED BY <1>1, <1>3, <2>1, <2>2 DEF BootInv, StagesLeave, logVars
<1> QED BY <1>4, <1>5, <1>7, <1>8 DEF BootInv

(* The banner begins.                                                      *)
LEMMA BindLogKeeps ==
  ASSUME BootInv, BindLog
  PROVE  BootInv'
<1>1. /\ stage = "bind_log" /\ stage' = "flush" /\ CanCall
      /\ driver' = TRUE /\ UNCHANGED <<fifo, last>>
      /\ line' = [line EXCEPT ![Thread] = FirstOf(Banner)]
      /\ UNCHANGED <<irqVars, at, starting, device, ept, logApi>>
  BY DEF BindLog, BindDriver
<1>2. IrqInv' /\ ChannelsServed'
  BY <1>1, SameIrq, ServedLater DEF BootInv
<1>3. /\ LogTypeOK' /\ line'[Thread] # Nothing /\ line'[Thread].text = Banner
      /\ line'[Thread].next = 1 /\ ~line'[Thread].room
      /\ line'[Isr] = line[Isr]
  BY <1>1, BeginsDoes, LogConstants DEF BootInv, LogInv
<1>4. last' = Nothing /\ line'[Isr] = Nothing
  BY <1>1, <1>3, CallFinds DEF BootInv, LogInv, BannerFirst
<1>5. LogInv'
  <2>1. ThreadLine'
    BY <1>1, <1>3, <1>4, LogConstants DEF ThreadLine, Continues
  <2> QED BY <1>1, <1>3, <1>4, <2>1
          DEF LogInv, IsrLine, LastGoesOn, BannerFirst
<1>6. BootTypeOK'
  BY <1>1 DEF BootInv, BootTypeOK, Stages
<1>7. StagesLeave'
  BY <1>1 DEF BootInv, StagesLeave, Initialised, Bound, Done
<1> QED BY <1>2, <1>5, <1>6, <1>7 DEF BootInv

(* The banner has left the UART.                                           *)
LEMMA FlushKeeps ==
  ASSUME BootInv, FlushBanner
  PROVE  BootInv'
<1>1. /\ stage = "flush" /\ stage' = "bind" /\ CanCall
      /\ UNCHANGED <<irqVars, logVars, at, starting, device, ept, logApi>>
  BY DEF FlushBanner
<1>2. IrqInv' /\ ChannelsServed'
  BY <1>1, SameIrq, ServedLater DEF BootInv
<1>3. LogInv'
  BY <1>1, CallFinds, LogGoesOn DEF irqVars
<1>4. BootTypeOK' /\ at = 1
  BY <1>1 DEF BootInv, BootTypeOK, StagesLeave, Stages
<1>5. StagesLeave'
  <2>1. \A i \in 1..N : (Initialised(i)' => Initialised(i)) /\ ~Bound(i)'
    BY <1>1, <1>4, ChannelFacts DEF Initialised, Bound, Done
  <2> QED BY <1>1, <1>4, <2>1 DEF BootInv, StagesLeave, logVars
<1> QED BY <1>2, <1>3, <1>4, <1>5 DEF BootInv

(* A channel is bound to the log.                                          *)
LEMMA BindKeeps ==
  ASSUME BootInv, Bind
  PROVE  BootInv'
<1>1. /\ stage = "bind" /\ CanCall
      /\ logApi' = logApi \cup {Channels[at]}
      /\ NextChannel("bind_handler")
      /\ UNCHANGED <<irqVars, logVars, starting, device, ept>>
  BY DEF Bind
<1>2. at \in 1..N /\ Channels[at] \in Chans
  BY ChannelFacts DEF BootInv, BootTypeOK
<1>3. /\ stage' \in {"bind", "bind_handler"} /\ at' \in Nat /\ 1 <= at'
      /\ at' <= N /\ (stage' = "bind_handler" => at' = 1)
  BY <1>1, ChannelFacts DEF NextChannel, BootInv, BootTypeOK
<1>4. IrqInv' /\ ChannelsServed'
  BY <1>1, <1>3, SameIrq, ServedLater DEF BootInv
<1>5. LogInv'
  BY <1>1, <1>3, CallFinds, LogGoesOn DEF irqVars
<1>6. BootTypeOK'
  BY <1>1, <1>2, <1>3 DEF BootInv, BootTypeOK, Stages
<1>7. StagesLeave'
  <2>1. ASSUME NEW i \in 1..N, Bound(i)' PROVE Channels[i] \in logApi'
    <3>1. CASE i = at
      BY <1>1, <3>1
    <3>2. CASE i # at
      <4>1. i < at
        BY <1>1, <1>2, <2>1, <3>2, ChannelFacts
           DEF Bound, Done, NextChannel
      <4> QED BY <1>1, <4>1 DEF BootInv, StagesLeave, Bound, Done
    <3> QED BY <3>1, <3>2
  <2>2. \A i \in 1..N : Initialised(i)
    BY <1>1 DEF Initialised, Done
  <2> QED BY <1>1, <1>3, <2>1, <2>2 DEF BootInv, StagesLeave, logVars
<1> QED BY <1>4, <1>5, <1>6, <1>7 DEF BootInv

(* The event handler is bound to the log.                                  *)
LEMMA BindHandlerKeeps ==
  ASSUME BootInv, BindHandler
  PROVE  BootInv'
<1>1. /\ stage = "bind_handler" /\ stage' = "start" /\ CanCall
      /\ logApi' = logApi \cup {Handler}
      /\ UNCHANGED <<irqVars, logVars, at, starting, device, ept>>
  BY DEF BindHandler
<1>2. BootTypeOK' /\ at = 1
  BY <1>1 DEF BootInv, BootTypeOK, StagesLeave, Stages
<1>3. IrqInv' /\ ChannelsServed'
  BY <1>1, <1>2, SameIrq, ServedLater DEF BootInv
<1>4. LogInv'
  BY <1>1, CallFinds, LogGoesOn DEF irqVars
<1>5. StagesLeave'
  BY <1>1 DEF BootInv, StagesLeave, Initialised, Bound, Done, logVars
<1> QED BY <1>2, <1>3, <1>4, <1>5 DEF BootInv

(* The line of the channel whose handler is set has not been enabled.      *)
LEMMA StartSetsIsrKeeps ==
  ASSUME BootInv, StartSetsIsr
  PROVE  BootInv'
<1>1. /\ stage = "start" /\ ~starting /\ CanCall /\ starting' = TRUE
      /\ SetIsrParam(LineOf(at), Mhu2_isr, Channels[at])
      /\ UNCHANGED <<logVars, stage, at, device, ept, logApi>>
  BY DEF StartSetsIsr, LineOf
<1>2. at \in 1..N /\ Mhu2_isr \in Isrs
  BY ChannelFacts, MhuBootAssumption DEF BootInv, BootTypeOK
<1>3. Quiet(LineOf(at))
  <2>1. LineOf(at) \notin enabled
    BY <1>1, <1>2 DEF BootInv, ChannelsServed, Served, Serving, Done
  <2> QED BY <2>1 DEF Quiet
<1>4. /\ IrqInv' /\ setting = NULL /\ setting' # NULL
      /\ setting'.exc = ExceptionOf(at) /\ setting'.func = Mhu2_isr
      /\ setting'.param = Channels[at]
      /\ UNCHANGED <<fixed, registered, lineVars, masked, running>>
  BY <1>1, <1>2, <1>3, ChannelFacts, IsrParamSet DEF BootInv
<1>5. ChannelsServed'
  <2> SUFFICES ASSUME NEW i \in 1..N PROVE Served(i)'
    BY DEF ChannelsServed
  <2>1. Served(i) /\ (Serving(i)' <=> Serving(i))
    BY <1>1 DEF BootInv, ChannelsServed, Serving, Done
  <2>2. BeingServed(i)' <=> i = at
    BY <1>2, <1>4, ChannelFacts DEF BeingServed, ExceptionOf, LineOf
  <2> QED BY <1>1, <1>4, <2>1, <2>2
          DEF Served, LineOf, ExceptionOf, HandlerOf, lineVars
<1>6. LogInv'
  BY <1>1, <1>4, CallFinds, LogGoesOn
<1>7. BootTypeOK' /\ StagesLeave'
  BY <1>1 DEF BootInv, BootTypeOK, StagesLeave, Initialised, Bound, Done,
              logVars
<1> QED BY <1>4, <1>5, <1>6, <1>7 DEF BootInv

(* The line of a channel is enabled when its handler is set.               *)
LEMMA StartEnablesKeeps ==
  ASSUME BootInv, StartEnables
  PROVE  BootInv'
<1>1. /\ stage = "start" /\ starting /\ InThread /\ Enable(LineOf(at))
      /\ Log(Thread, Started) /\ starting' = FALSE /\ NextChannel("runtime")
      /\ UNCHANGED <<device, ept, logApi>>
  BY DEF StartEnables, LineOf
<1>2. at \in 1..N /\ at \in Nat /\ N \in Nat
  BY ChannelFacts DEF BootInv, BootTypeOK
<1>3. setting = NULL
  BY <1>1 DEF Enable, Calls
<1>4. /\ IrqInv' /\ UNCHANGED <<fixed, tables, running, masked>>
      /\ enabled' \subseteq enabled \cup {LineOf(at)}
  BY <1>1, <1>2, <1>3, ChannelFacts, LineCalls DEF BootInv, BeingSet
<1>5. /\ stage' \in {"start", "runtime"} /\ at' \in Nat /\ 1 <= at'
      /\ at' <= N /\ (stage' = "runtime" => at' = 1)
  BY <1>1, <1>2 DEF NextChannel
<1>6. \A i \in 1..N : Serving(i)' <=> (Serving(i) \/ i = at)
  BY <1>1, <1>2 DEF NextChannel, Serving, Done
<1>7. ChannelsServed'
  <2> SUFFICES ASSUME NEW i \in 1..N PROVE Served(i)'
    BY DEF ChannelsServed
  <2>1. Served(i) /\ ~BeingServed(i) /\ ~BeingServed(i)'
    BY <1>3, <1>4 DEF BootInv, ChannelsServed, BeingServed, tables
  <2>2. LineOf(i) \in enabled' => LineOf(i) \in enabled \/ i = at
    BY <1>2, <1>4, ChannelFacts
  <2> QED BY <1>1, <1>4, <1>6, <2>1, <2>2
          DEF Served, LineOf, ExceptionOf, HandlerOf, tables
<1>8. /\ LogTypeOK' /\ UNCHANGED <<driver, fifo, last>>
      /\ line[Thread] = Nothing
      /\ line'[Thread] # Nothing => line'[Thread].text = Started
      /\ line'[Isr] = line[Isr]
  BY <1>1, LogDoes, LogConstants DEF BootInv, LogInv
<1>9. LogInv'
  <2>1. line'[Isr] = Nothing
    BY <1>1, <1>8, PutsApart
  <2>2. ThreadLine' /\ IsrLine'
    BY <1>5, <1>8, <2>1 DEF ThreadLine, IsrLine
  <2>3. LastGoesOn'
    BY <1>8, <2>1 DEF BootInv, LogInv, LastGoesOn
  <2>4. BannerFirst'
    BY <1>1, <1>5, <1>8 DEF BootInv, LogInv, BannerFirst
  <2> QED BY <1>8, <2>2, <2>3, <2>4 DEF LogInv
<1>10. BootTypeOK'
  BY <1>1, <1>5 DEF BootInv, BootTypeOK, Stages
<1>11. StagesLeave'
  <2>1. \A i \in 1..N : Initialised(i) /\ Bound(i)
    BY <1>1 DEF Initialised, Bound, Done
  <2> QED BY <1>1, <1>5, <1>8, <2>1 DEF BootInv, StagesLeave
<1> QED BY <1>4, <1>7, <1>9, <1>10, <1>11 DEF BootInv

(***************************************************************************)
(* MhuBoot: theorems                                                       *)
(***************************************************************************)

(* The boot begins.                                                        *)
LEMMA BootBegins == BootInit => BootInv
<1> SUFFICES ASSUME BootInit PROVE BootInv
  OBVIOUS
<1>1. IrqInv
  BY FreshController DEF BootInit, InterruptInit
<1>2. /\ stage = "init" /\ at = 1 /\ starting = FALSE
      /\ device = [endpoints |-> <<>>, used |-> {}]
      /\ ept = [c \in Chans |-> NULL] /\ logApi = {}
      /\ driver = FALSE /\ fifo = 0 /\ last = Nothing
      /\ line = [c \in Contexts |-> Nothing]
      /\ setting = NULL /\ enabled = {} /\ running = <<>>
  BY DEF BootInit, InterruptInit, LogInit
<1>3. BootTypeOK
  <2>1. <<>> \in Seq(Endpoint)
    OBVIOUS
  <2>2. device.endpoints = <<>> /\ device.used = {}
    BY <1>2
  <2>3. ept \in [Chans -> Endpoint \cup {NULL}]
    BY <1>2
  <2>4. at \in Nat /\ 1 <= at /\ at <= N /\ starting \in BOOLEAN
        /\ stage \in Stages
    <3>1. at = 1 /\ stage = "init" /\ starting \in BOOLEAN
      BY <1>2, Zenon
    <3>2. N \in Nat /\ 1 <= N
      BY ChannelFacts
    <3> QED BY <3>1, <3>2 DEF Stages
  <2>5. logApi \subseteq Chans \cup {Handler}
    BY <1>2
  <2> QED BY <2>1, <2>2, <2>3, <2>4, <2>5 DEF BootTypeOK
<1>4. StagesLeave
  BY <1>2 DEF StagesLeave, Initialised, Bound, Done
<1>5. ChannelsServed
  BY <1>2 DEF ChannelsServed, Served, BeingServed, Serving, Done
<1>6. LogInv
  <2>1. line[Thread] = Nothing /\ line[Isr] = Nothing
    BY <1>2, LogConstants
  <2>2. LogTypeOK
    <3>1. driver \in BOOLEAN /\ fifo = 0 /\ last = Nothing
      BY <1>2, Zenon
    <3>2. line \in [Contexts -> [text : Texts, next : Nat, room : BOOLEAN]
                               \cup {Nothing}]
      BY <1>2
    <3> QED BY <3>1, <3>2, LogConstants DEF LogTypeOK
  <2>3. IsrLine /\ ThreadLine
    BY <2>1 DEF IsrLine, ThreadLine
  <2>4. LastGoesOn /\ BannerFirst
    BY <1>2 DEF LastGoesOn, BannerFirst
  <2> QED BY <2>2, <2>3, <2>4 DEF LogInv
<1> QED BY <1>1, <1>3, <1>4, <1>5, <1>6 DEF BootInv

(* Every step keeps the invariant.                                         *)
LEMMA BootStepKeeps == BootInv /\ [Next]_vars => BootInv'
<1> SUFFICES ASSUME BootInv, [Next]_vars PROVE BootInv'
  OBVIOUS
<1>1. CASE BootStep
  BY <1>1, MhuInitKeeps, ElementInitKeeps, BindLogKeeps, FlushKeeps,
     BindKeeps, BindHandlerKeeps, StartSetsIsrKeeps, StartEnablesKeeps
     DEF BootStep
<1>2. CASE Write \/ OtherModules \/ Message \/ Return \/ Ignore \/ Sends
  BY <1>2, WriteKeeps, OtherModulesKeep, MessageKeeps, ReturnKeeps, SendsKeep
<1>3. CASE Unmask
  BY <1>3, UnmaskKeeps DEF Unmask
<1>4. CASE ThreadPuts
  BY <1>4, SeesRoomKeeps, ThreadWritesKeeps DEF ThreadPuts, Puts
<1>5. CASE IsrPuts
  BY <1>5, SeesRoomKeeps, IsrWritesKeeps DEF IsrPuts, Puts
<1>6. ASSUME NEW l \in Lines, Interrupt(l) PROVE BootInv'
  BY <1>6, InterruptKeeps
<1>7. CASE UNCHANGED vars
  <2>1. UNCHANGED <<irqVars, logVars, bootVars, driver>>
    BY <1>7 DEF vars, logVars
  <2>2. LogInv'
    BY <2>1, LogAlike DEF BootInv, bootVars, irqVars
  <2> QED BY <2>1, <2>2, LogStep
<1> QED BY <1>1, <1>2, <1>3, <1>4, <1>5, <1>6, <1>7 DEF Next

(* The invariant of MhuBoot.                                               *)
LEMMA BootInvariant == Spec => []BootInv
BY BootBegins, BootStepKeeps, PTL DEF Spec

(* Whenever the interrupt of a channel comes, its handler is that of the   *)
(* message unit with this channel as parameter, the endpoint exists, the   *)
(* channel and the event handler are bound to the log and the log to its   *)
(* driver, and modules are no longer initialised: for any channels.        *)
THEOREM HandlersFindEverything == Spec => []IsrFindsEverything
<1>1. BootInv => IsrFindsEverything
  <2> SUFFICES ASSUME BootInv PROVE IsrFindsEverything
    OBVIOUS
  <2>1. TypeOK
    BY DEF BootInv, IrqInv, BootTypeOK, LogInv, TypeOK
  <2> SUFFICES ASSUME NEW c \in Chans, NEW k \in DOMAIN running,
                      running[k].exc = Exception(Irq[c])
               PROVE  /\ running[k].routine.param = c
                      /\ ept[c] # NULL /\ ept[c].dest = Send[c]
                      /\ {c, Handler} \subseteq logApi /\ driver
                      /\ stage \in {"start", "runtime"}
    BY <2>1 DEF IsrFindsEverything
  <2>2. PICK i \in 1..N : c = Channels[i]
    BY ChannelFacts
  <2>3. running[k].exc = ExceptionOf(i)
    BY <2>2 DEF ExceptionOf, LineOf
  <2>4. Serving(i) /\ registered[ExceptionOf(i)] = HandlerOf(i)
    BY <2>3 DEF BootInv, ChannelsServed, Served
  <2>5. running[k].routine = HandlerOf(i)
    BY <2>3, <2>4 DEF BootInv, IrqInv, RunningInv
  <2>6. stage \in {"start", "runtime"}
    BY <2>4 DEF Serving, Done
  <2>7. Initialised(i) /\ Bound(i)
    BY <2>6 DEF Initialised, Bound, Done
  <2>8. /\ ept[c] # NULL /\ ept[c].dest = Send[c] /\ c \in logApi
        /\ Handler \in logApi /\ driver
    BY <2>2, <2>6, <2>7 DEF BootInv, StagesLeave
  <2> QED BY <2>2, <2>5, <2>6, <2>8 DEF HandlerOf
<1> QED BY <1>1, BootInvariant, PTL

(* The handlers of the boot enter the FIFO through what a context puts.    *)
LEMMA LastMoves ==
  ASSUME BootInv, Next, last' # last
  PROVE  \E c \in {Thread, Isr} :
           /\ WritesDR(c) /\ fifo < FifoSize
           /\ c = Thread => line[Isr] = Nothing
<1>1. (InThread /\ WritesDR(Thread)) \/ WritesDR(Isr)
  <2>1. CASE ThreadPuts \/ IsrPuts
    BY <2>1 DEF ThreadPuts, IsrPuts, Puts, SeesRoom
  <2>2. CASE \E l \in Lines : Interrupt(l)
    BY <2>2 DEF Interrupt, Log, logVars
  <2>3. CASE BootStep
    BY <2>3 DEF BootStep, MhuInit, ElementInit, BindLog, FlushBanner, Bind,
                BindHandler, StartSetsIsr, StartEnables, BindDriver, Log,
                logVars
  <2>4. CASE \/ Write \/ OtherModules \/ Unmask \/ Message \/ Ignore
             \/ Sends \/ Return
    BY <2>4 DEF Write, OtherModules, Unmask, Message, Ignore, Sends, Return,
                Transmit, logVars
  <2> QED BY <2>1, <2>2, <2>3, <2>4 DEF Next
<1>2. PICK c \in {Thread, Isr} :
        WritesDR(c) /\ (c = Thread => line[Isr] = Nothing)
  BY <1>1, PutsApart, LogConstants
<1>3. fifo < FifoSize
  BY <1>2 DEF WritesDR
<1> QED BY <1>2, <1>3

(* The characters of the banner and those of what a handler logs enter the *)
(* FIFO one right after the other, from the first to the last, and the     *)
(* banner is the first message in it: for messages and a FIFO of any       *)
(* length, and any channels.                                               *)
THEOREM MessagesEnterWhole == Spec => LogsWhole
<1>1. ASSUME BootInv, [Next]_vars
      PROVE  [/\ last' # last /\ last = Nothing => last'.text = Banner
              /\ Follows({Banner, Received})]_vars
  <2> SUFFICES ASSUME last' # last
               PROVE  /\ last = Nothing => last'.text = Banner
                      /\ Follows({Banner, Received})
    BY DEF Follows
  <2>1. Next
    BY <1>1 DEF vars, logVars
  <2>2. PICK c \in {Thread, Isr} :
          /\ WritesDR(c) /\ fifo < FifoSize
          /\ c = Thread => line[Isr] = Nothing
    BY <1>1, <2>1, LastMoves
  <2>3. PICK l : l = line[c]
    OBVIOUS
  <2>4. /\ l # Nothing /\ LogTypeOK' /\ last' # Nothing
        /\ last' = [text |-> l.text, at |-> l.next]
    BY <1>1, <2>2, <2>3, WritesDRDoes, LogConstants DEF BootInv, LogInv
  <2>5. /\ l.next \in Nat /\ l.text \in Texts
        /\ last # Nothing => last \in [text : Texts, at : Nat]
    BY <1>1, <2>3, <2>4, LinesExist, LogConstants DEF BootInv, LogInv
  <2>6. /\ c = Isr => l.text = Received /\ Continues(Isr) /\ last # Nothing
        /\ c = Thread => \/ l.text = Banner /\ Continues(Thread)
                         \/ l.text = Started /\ last # Nothing
    BY <1>1, <2>2, <2>3, <2>4, PutsApart
       DEF BootInv, LogInv, IsrLine, ThreadLine, BannerFirst
  <2>7. last = Nothing => last'.text = Banner
    BY <2>2, <2>4, <2>6
  <2>8. ASSUME l.text \in {Banner, Received}, l.next > 1
        PROVE  last # Nothing /\ last.text = l.text /\ last.at = l.next - 1
    BY <2>2, <2>3, <2>6, <2>8, LogConstants DEF Continues
  <2>9. ASSUME last # Nothing, last.text \in {Banner, Received},
               last.at < Size[last.text]
        PROVE  l.text = last.text /\ l.next = last.at + 1
    <3>1. CASE last.text = Banner
      <4>1. /\ line[Thread] # Nothing /\ line[Thread].text = Banner
            /\ line[Thread].next = last.at + 1
        BY <1>1, <2>9, <3>1 DEF BootInv, LogInv, LastGoesOn
      <4>2. c = Thread
        BY <1>1, <2>2, <2>3, <2>4, <4>1, PutsApart, LogConstants
      <4> QED BY <2>3, <3>1, <4>1, <4>2
    <3>2. CASE last.text = Received
      <4>1. line[Isr] # Nothing /\ line[Isr].next = last.at + 1
        BY <1>1, <2>9, <3>2 DEF BootInv, LogInv, LastGoesOn
      <4>2. c = Isr
        BY <2>2, <4>1
      <4> QED BY <2>3, <2>6, <3>2, <4>1, <4>2
    <3> QED BY <2>9, <3>1, <3>2
  <2>10. ASSUME last # Nothing, last.text \in {Banner, Received},
                last.at < Size[last.text]
         PROVE  last' = [last EXCEPT !.at = last.at + 1]
    BY <2>4, <2>5, <2>9, <2>10
  <2>11. ASSUME last'.text \in {Banner, Received}, last'.at > 1
         PROVE  last = [last' EXCEPT !.at = last'.at - 1]
    <3>1. last'.text = l.text /\ last'.at = l.next
      BY <2>4
    <3>2. last # Nothing /\ last.text = l.text /\ last.at = l.next - 1
      BY <2>8, <2>11, <3>1
    <3> QED BY <2>4, <2>5, <3>1, <3>2
  <2> QED BY <2>7, <2>10, <2>11 DEF Follows
<1> QED BY <1>1, BootInvariant, PTL DEF Spec, LogsWhole
=============================================================================
