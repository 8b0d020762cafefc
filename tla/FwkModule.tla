------------------------------ MODULE FwkModule ------------------------------
(***************************************************************************)
(* The pre-runtime life of modules and elements,                           *)
(* framework/src/fwk_module.c: every module and element is initialised,    *)
(* then bound in two rounds, then started, one callback at a time.  While  *)
(* a callback runs, and later while the system runs, module code may ask   *)
(* for the API of another entity with fwk_module_bind.                     *)
(*                                                                         *)
(* An entity is a pair <<m, e>>: module m of the module table and its      *)
(* element e, or the module itself when e is 0.                            *)
(***************************************************************************)
EXTENDS Integers, FiniteSets

CONSTANTS
  ModuleCount,    (* entries of module_table                               *)
  ElementCount,   (* entries of the element table of each module           *)
  HasApi,         (* modules with api_count > 0                            *)
  HasPostInit, HasBind, HasStart,  (* modules that define the callback     *)
  None

Modules == 1..ModuleCount

ASSUME ModuleAssumption ==
  /\ ModuleCount \in Nat \ {0}
  /\ ElementCount \in [Modules -> Nat]
  /\ HasApi \subseteq Modules
  /\ HasPostInit \subseteq Modules
  /\ HasBind \subseteq Modules
  /\ HasStart \subseteq Modules
  (* No state is the error of a call about an entity there is not.         *)
  /\ None \notin {"uninitialized", "initialized", "bound", "started"}

VARIABLES
  state,    (* fwk_module_ctx.state and fwk_element_ctx.state              *)
  now,      (* the callback that __fwk_module_init is at                   *)
  bindId,   (* ctx.bind_id                                                 *)
  done,     (* history: the callbacks that have returned successfully      *)
  bound     (* history: the last bind request that was accepted            *)

moduleVars == <<state, now, bindId, done, bound>>

BIND_ROUND_MAX == 1
Rounds == 0..BIND_ROUND_MAX

Entities == UNION {{m} \X (0..ElementCount[m]) : m \in Modules}
States == {"uninitialized", "initialized", "bound", "started"}
InitSteps == {"init", "element_init", "post_init"}
Steps == InitSteps \cup {"bind", "start"}

(* A call of a module's callback for an entity; round is 0 but for bind.   *)
Callback == [step : Steps, for : Entities, round : Rounds]
Cb(step, m, e, round) == [step |-> step, for |-> <<m, e>>, round |-> round]
Running == [step |-> "run", for |-> None, round |-> 0]
Failed == [step |-> "error", for |-> None, round |-> 0]

(* What runs when the callback is NULL is the loop of fwk_module.c alone.  *)
IsDefined(cb) ==
  \/ cb.step \in {"init", "element_init"}
  \/ cb.step = "post_init" /\ cb.for[1] \in HasPostInit
  \/ cb.step = "bind" /\ cb.for[1] \in HasBind
  \/ cb.step = "start" /\ cb.for[1] \in HasStart

ModuleInit ==
  /\ state = [x \in Entities |-> "uninitialized"]
  /\ now = Cb("init", 1, 0, 0)
  /\ bindId = <<1, 0>>
  /\ done = {} /\ bound = None

(* The current callback returns and cb is next.  init_elements,            *)
(* init_module and the bind functions set ctx.bind_id before they call the *)
(* module.                                                                 *)
Enter(cb) ==
  /\ now' = cb
  /\ done' = done \cup {now}
  /\ bindId' = IF cb.step \in {"init", "element_init", "bind"} /\ IsDefined(cb)
               THEN cb.for ELSE bindId
  /\ bound' = bound

Becomes(x, s) == state' = [state EXCEPT ![x] = s]

(* The callback after module m is done in this step.                       *)
AfterModule(step, m, round) ==
  IF m < ModuleCount THEN Cb(step, m + 1, 0, round)
  ELSE IF step = "init" THEN Cb("bind", 1, 0, 0)
  ELSE IF step = "bind" /\ round < BIND_ROUND_MAX
       THEN Cb("bind", 1, 0, round + 1)
  ELSE IF step = "bind" THEN Cb("start", 1, 0, 0)
  ELSE Running

(* The next element of module m after element e, in steps that visit the   *)
(* module first.                                                           *)
AfterEntity(step, m, e, round) ==
  IF e < ElementCount[m] THEN Cb(step, m, e + 1, round)
                         ELSE AfterModule(step, m, round)

(***************************************************************************)
(* init_module and init_elements                                           *)
(***************************************************************************)
AfterInit(m, e) ==
  IF e < ElementCount[m] THEN Cb("element_init", m, e + 1, 0)
                         ELSE Cb("post_init", m, 0, 0)

InitReturns(m, e) ==
  /\ now = Cb("init", m, e, 0)
  /\ Enter(AfterInit(m, e))
  /\ UNCHANGED state

ElementInitReturns(m, e) ==
  /\ now = Cb("element_init", m, e, 0)
  /\ Becomes(<<m, e>>, "initialized")
  /\ Enter(AfterInit(m, e))

PostInitReturns(m, e) ==
  /\ now = Cb("post_init", m, e, 0)
  /\ Becomes(<<m, e>>, "initialized")
  /\ Enter(AfterModule("init", m, 0))

(* Mutant: the elements are bound in the last round only.                  *)
BindReturnsLate(m, e, round) ==
  /\ now = Cb("bind", m, e, round)
  /\ m \in HasBind
  /\ IF round = BIND_ROUND_MAX THEN Becomes(<<m, e>>, "bound")
                               ELSE UNCHANGED state
  /\ Enter(IF round = BIND_ROUND_MAX THEN AfterEntity("bind", m, e, round)
                                     ELSE AfterModule("bind", m, round))

(* bind_module and bind_elements *)
BindReturns(m, e, round) ==
  /\ now = Cb("bind", m, e, round)
  /\ m \in HasBind
  /\ IF round = BIND_ROUND_MAX THEN Becomes(<<m, e>>, "bound")
                               ELSE UNCHANGED state
  /\ Enter(AfterEntity("bind", m, e, round))

(* Without a bind callback the module is bound and its elements skipped.   *)
SkipBind(m, round) ==
  /\ now = Cb("bind", m, 0, round)
  /\ m \notin HasBind
  /\ Becomes(<<m, 0>>, "bound")
  /\ Enter(AfterModule("bind", m, round))

(* Mutant: a module without a start callback is passed over.               *)
StartReturnsSkipping(m, e) ==
  /\ now = Cb("start", m, e, 0)
  /\ IF m \in HasStart THEN Becomes(<<m, e>>, "started") ELSE UNCHANGED state
  /\ Enter(AfterEntity("start", m, e, 0))

(* start_module and start_elements; at the end the run loop takes over.    *)
StartReturns(m, e) ==
  /\ now = Cb("start", m, e, 0)
  /\ Becomes(<<m, e>>, "started")
  /\ Enter(AfterEntity("start", m, e, 0))

(* A callback fails, or a check or an allocation before it, that of        *)
(* __fwk_notification_init before the first start included: every caller   *)
(* up to __fwk_module_init returns the error.                              *)
Fail ==
  /\ now \in Callback
  /\ IsDefined(now) \/ now = Cb("start", 1, 0, 0)
  /\ now' = Failed
  /\ UNCHANGED <<state, bindId, done, bound>>

(***************************************************************************)
(* fwk_module_bind                                                         *)
(***************************************************************************)
Stage ==
  CASE now.step \in InitSteps -> "initialize"
    [] now.step = "bind" -> "bind"
    [] OTHER -> "start"

(* Who can call it: the callback that runs, or anyone in the running       *)
(* system, interrupt handlers included.                                    *)
Requesters ==
  IF now = Running THEN Entities
  ELSE IF now \in Callback /\ IsDefined(now) THEN {now.for} ELSE {}

(* fwk_module_is_valid_module_id, _element_id and _entity_id: what names   *)
(* an element is valid once init_module has counted those of its module.   *)
IsValidModule(x) == x[1] \in Modules /\ x[2] = 0
Counted(m) == Stage = "initialize" => m <= now.for[1]
IsValidElement(x) ==
  /\ x[1] \in Modules /\ Counted(x[1])
  /\ x[2] \in 1..ElementCount[x[1]]
IsValidEntity(x) == IsValidModule(x) \/ IsValidElement(x)

(* The API identifier of a module that init_module has not reached is      *)
(* checked through a NULL descriptor; whatever that reads, the state of    *)
(* the module refuses the request.                                         *)
IsValidApi(m) == m \in HasApi
ValidTarget(x) == IsValidEntity(x) /\ IsValidApi(x[1])

(* __fwk_module_get_state and fwk_module_check_call; no module is          *)
(* suspended by this code.                                                 *)
GetState(x) == IF IsValidEntity(x) THEN state[x] ELSE None
CheckCall(x) == GetState(x) \notin {None, "uninitialized"}

(* Mutant: the state of the target is not looked at.                       *)
BindAllowedAlways(x) == TRUE

BindAllowed(x) ==
  Stage = "initialize" => state[<<x[1], 0>>] = "initialized"

(* The request reaches process_bind_request of the target's module with    *)
(* ctx.bind_id as its source, and the module accepts it.                   *)
Bind(by, x) ==
  /\ by \in Requesters
  /\ ValidTarget(x)
  /\ BindAllowed(x)
  /\ bound' = [by |-> by, source |-> bindId, target |-> x,
               step |-> now.step, targetState |-> state[x]]
  /\ UNCHANGED <<state, now, bindId, done>>

(***************************************************************************)
Advance ==
  \/ \E x \in Entities :
       \/ InitReturns(x[1], x[2])
       \/ ElementInitReturns(x[1], x[2])
       \/ PostInitReturns(x[1], x[2])
       \/ \E round \in Rounds : BindReturns(x[1], x[2], round)
       \/ StartReturns(x[1], x[2])
  \/ \E m \in Modules, round \in Rounds : SkipBind(m, round)
  \/ Fail

ModuleNext == Advance \/ \E by, x \in Entities : Bind(by, x)

ModuleSpec == ModuleInit /\ [][ModuleNext]_moduleVars

(***************************************************************************)
(* Properties                                                              *)
(***************************************************************************)
Grant == [by : Entities, source : Entities, target : Entities,
          step : Steps \cup {"run"}, targetState : States]

ModuleTypeOK ==
  /\ state \in [Entities -> States]
  /\ now \in Callback \cup {Running, Failed}
  /\ bindId \in Entities
  /\ done \subseteq Callback
  /\ bound \in Grant \cup {None}

(* The callbacks that must have returned before cb may be called, from     *)
(* what the stages mean rather than from the loops: a module and its       *)
(* elements are initialised in table order; nobody binds before everybody  *)
(* is initialised; round 1 follows the whole of round 0; nobody starts     *)
(* before everybody is bound; a module precedes its elements.              *)
InitsOf(ms) ==
  {Cb("init", m, 0, 0) : m \in ms} \cup {Cb("post_init", m, 0, 0) : m \in ms}
    \cup {c \in Callback : /\ c.step = "element_init" /\ c.for[1] \in ms
                           /\ c.for[2] > 0 /\ c.round = 0}
BindsOf(x, round) ==
  IF x[1] \in HasBind \/ x[2] = 0 THEN {Cb("bind", x[1], x[2], round)} ELSE {}
BindsIn(rounds) == UNION {BindsOf(x, r) : x \in Entities, r \in rounds}
StartsIn(entities) == {Cb("start", x[1], x[2], 0) : x \in entities}
Preceding(y) == {x \in Entities : x[1] < y[1] \/ (x[1] = y[1] /\ x[2] < y[2])}
BindsBefore(x, round) == UNION {BindsOf(y, round) : y \in Preceding(x)}

Required(cb) ==
  LET m == cb.for[1] IN
  CASE cb.step = "init" -> InitsOf(1..(m - 1))
    [] cb.step = "element_init" ->
         InitsOf(1..(m - 1)) \cup {Cb("init", m, 0, 0)}
           \cup {Cb("element_init", m, e, 0) : e \in 1..(cb.for[2] - 1)}
    [] cb.step = "post_init" -> InitsOf(1..m) \ {cb}
    [] cb.step = "bind" ->
         InitsOf(Modules) \cup BindsIn(0..(cb.round - 1))
           \cup BindsBefore(cb.for, cb.round)
    [] cb.step = "start" ->
         InitsOf(Modules) \cup BindsIn(Rounds) \cup StartsIn(Preceding(cb.for))

(* Whatever the shape of the module table, exactly the required callbacks  *)
(* have returned when a callback is called, so none is skipped, repeated   *)
(* or called early, and the run loop is entered when all have returned.    *)
CallbackOrder ==
  /\ now \in Callback => done = Required(now)
  /\ now = Running =>
       done = InitsOf(Modules) \cup BindsIn(Rounds) \cup StartsIn(Entities)

(* fwk_module_check_call lets calls through by state alone: an entity that *)
(* can be called has been initialised by its module's own code, a started  *)
(* one belongs to a module that was bound in every round, and the running  *)
(* system has started all of them, with or without a start callback; all   *)
(* variables have their types.                                             *)
StateMeans ==
  /\ ModuleTypeOK
  /\ \A x \in Entities :
       /\ CheckCall(x) =>
            Cb(IF x[2] = 0 THEN "init" ELSE "element_init", x[1], x[2], 0)
              \in done
       /\ state[x] = "started" =>
            \A r \in Rounds : BindsOf(x, r) \subseteq done
  /\ now = Running =>
       \A x \in Entities : CheckCall(x) /\ state[x] = "started"

(* The API of an entity is never handed out before the entity is           *)
(* initialised, whoever asks and when; and in the init, element_init and   *)
(* bind callbacks the module that is asked is told the entity that asks.   *)
TargetReady ==
  bound # None =>
    /\ bound.targetState # "uninitialized"
    /\ bound.step \in {"init", "element_init", "bind"}
         => bound.source = bound.by
=============================================================================
