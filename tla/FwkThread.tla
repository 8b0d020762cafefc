------------------------------ MODULE FwkThread ------------------------------
(***************************************************************************)
(* The single-thread event runtime, framework/src/fwk_thread.c.            *)
(*                                                                         *)
(* A fixed pool of event structures circulates between four places: the    *)
(* free queue, the queue of the thread, the queue of the interrupt         *)
(* handlers, and the hands of the thread.  The thread runs module handlers *)
(* one event at a time; an interrupt handler may put events between any    *)
(* two list operations of the thread, and runs to its end before the       *)
(* thread goes on.                                                         *)
(*                                                                         *)
(* One list operation of the thread, the pop of put_event, works with      *)
(* interrupts enabled on a queue that interrupt handlers pop too.  If a    *)
(* handler puts an event in the middle of it the free queue may be torn:   *)
(* PopRaces sets torn, and nothing is said of what the program does then.  *)
(* Module EventPool takes that pop apart.                                  *)
(***************************************************************************)
EXTENDS Integers, Sequences, FiniteSets

CONSTANTS
  Slots,      (* the event structures of event_table                       *)
  Entities,   (* identifiers of the modules and elements that exist        *)
  Modules,    (* module indices                                            *)
  ModuleOf,   (* fwk_id_get_module_idx of an entity                        *)
  NoId,       (* an identifier that names nothing (FWK_ID_NONE)            *)
  None,       (* the NULL event pointer                                    *)
  IsrPuts,    (* whether interrupt handlers put events                     *)
  Outstanding,  (* modules put only while fewer events are in the system   *)
  RequestFlags, (* bound: the values callers give response_requested       *)
  MaxPosts    (* bound: modules put while fewer events were ever queued    *)

ASSUME ThreadAssumption ==
  /\ IsFiniteSet(Slots)
  /\ ModuleOf \in [Entities -> Modules]
  /\ NoId \notin Entities \cup Modules
  /\ None \notin Slots
  /\ IsrPuts \in BOOLEAN
  /\ RequestFlags \subseteq BOOLEAN
  /\ Outstanding \in Nat /\ MaxPosts \in Nat

VARIABLES
  free,      (* ctx.free_event_queue                                       *)
  queue,     (* ctx.event_queue                                            *)
  isrQueue,  (* ctx.isr_event_queue                                        *)
  moving,    (* the structure the thread has popped and not yet pushed:    *)
             (* isr_event of process_isr, free_event of put_event          *)
  current,   (* ctx.current_event, and event of process_next_event         *)
  phase,     (* where the thread is                                        *)
  slot,      (* what each event structure holds                            *)
  clock,     (* history: how many events were ever queued                  *)
  asked,     (* history: the queued events that requested a response       *)
  owed,      (* requests whose handler delayed the response                *)
  torn,      (* whether a handler's put has raced with a pop of the thread *)
  answered,  (* history: stamps of requests whose response was handled     *)
  lost       (* history: stamps of requests whose response found no slot   *)

queues == <<free, queue, isrQueue>>
history == <<asked, owed, answered, lost>>
vars == <<free, queue, isrQueue, moving, current, phase, slot, clock,
          asked, owed, answered, lost, torn>>

Ids == Entities \cup {NoId}
Contexts == {"thread", "isr"}
Phases == {"boot", "loop", "handler", "respond", "release"}

(* struct fwk_event.  stamp (the rank of the put), request (the stamp of   *)
(* the event a response answers) and context (who put it) are history.     *)
Event == [src : Ids, tgt : Ids, id : Modules \cup {NoId},
          isResponse : BOOLEAN, responseRequested : BOOLEAN,
          isNotification : BOOLEAN,
          stamp : Nat, request : Nat, context : Contexts]

(* The null pointer is no event.                                           *)
ASSUME NullAssumption == None \notin Event

(* A zeroed event structure, as fwk_mm_calloc leaves it.                   *)
Zeroed == [src |-> NoId, tgt |-> NoId, id |-> NoId,
           isResponse |-> FALSE, responseRequested |-> FALSE,
           isNotification |-> FALSE,
           stamp |-> 0, request |-> 0, context |-> "thread"]

Elems(q) == {q[i] : i \in DOMAIN q}

(***************************************************************************)
(* __fwk_thread_init: every structure of the table is pushed on the free   *)
(* queue.  The structures are alike, so any order stands for table order.  *)
(***************************************************************************)
Distinct(q) == \A i, j \in DOMAIN q : q[i] = q[j] => i = j
FullPools ==
  {q \in [1..Cardinality(Slots) -> Slots] : Distinct(q) /\ Elems(q) = Slots}

ThreadInit ==
  /\ free \in FullPools
  /\ queue = <<>> /\ isrQueue = <<>>
  /\ moving = None /\ current = None
  /\ phase = "boot" /\ torn = FALSE
  /\ slot = [s \in Slots |-> Zeroed]
  /\ clock = 0 /\ asked = {} /\ owed = {} /\ answered = {} /\ lost = {}

(***************************************************************************)
(* put_event: take a free structure and copy the event into it, then       *)
(* append it to the queue of the caller's context.  An interrupt handler   *)
(* does so in one step; the thread may be interrupted before it appends.   *)
(***************************************************************************)
PutEvent(e, context) ==
  /\ free # <<>>
  /\ free' = Tail(free)
  /\ clock' = clock + 1
  /\ slot' = [slot EXCEPT ![Head(free)] =
                [e EXCEPT !.stamp = clock + 1, !.context = context,
                          !.request = IF e.isResponse THEN e.request
                                                      ELSE clock + 1]]
  /\ queue' = queue
  /\ IF context = "isr"
     THEN isrQueue' = Append(isrQueue, Head(free)) /\ moving' = moving
     ELSE moving' = Head(free) /\ isrQueue' = isrQueue

(* Mutant: the event is linked to the wrong end of the queue.              *)
PushEventAtHead ==
  /\ phase # "loop" /\ moving # None
  /\ queue' = <<moving>> \o queue
  /\ moving' = None
  /\ UNCHANGED <<free, isrQueue, current, phase, slot, clock, history>>

(* The end of put_event in the thread.                                     *)
PushEvent ==
  /\ phase # "loop" /\ moving # None
  /\ queue' = Append(queue, moving)
  /\ moving' = None
  /\ UNCHANGED <<free, isrQueue, current, phase, slot, clock, history>>

(* The event structures in use.  The modules of a system keep to a number  *)
(* of outstanding events, for which __fwk_thread_init makes the pool.      *)
InUse ==
  Len(queue) + Len(isrQueue) + (IF moving = None THEN 0 ELSE 1)
    + (IF current = None THEN 0 ELSE 1)
WithinLimits == InUse < Outstanding

(* A thread runs module code while it boots (start callbacks) and while it *)
(* handles an event; an interrupt handler may run at any moment.           *)
MayPut(context) ==
  IF context = "isr" THEN IsrPuts
  ELSE phase \in {"boot", "handler"} /\ moving = None

(* A handler puts an event between the accesses of the pop of the free     *)
(* queue.  When that is not the same as a put before the pop or after it,  *)
(* the list no longer holds the free structures: the other variables keep  *)
(* the last values that mean anything, and nothing follows.                *)
PopRaces ==
  /\ MayPut("isr") /\ WithinLimits /\ clock < MaxPosts
  /\ MayPut("thread") \/ phase = "respond"
  /\ free # <<>>
  /\ torn' = TRUE
  /\ UNCHANGED <<queues, moving, current, phase, slot, clock, history>>

(* The source identifier of an event put by the thread is that of the      *)
(* entity whose handler runs.                                              *)
Source(src, context) ==
  IF context = "thread" /\ current # None THEN slot[current].tgt ELSE src

(* fwk_thread_put_event: the checks an event must pass.                    *)
Acceptable(e) ==
  /\ e.src \in Entities /\ e.tgt \in Entities /\ e.id \in Modules
  /\ IF e.isResponse
     THEN ModuleOf[e.src] = e.id /\ ~e.responseRequested
     ELSE ModuleOf[e.tgt] = e.id /\ ~e.isNotification

(* A module puts an event that is not a response.                          *)
PutRequest(context) ==
  \E src, tgt \in Ids, id \in Modules, req \in RequestFlags :
    LET e == [Zeroed EXCEPT !.src = Source(src, context), !.tgt = tgt,
                            !.id = id, !.responseRequested = req]
    IN /\ MayPut(context) /\ WithinLimits
       /\ clock < MaxPosts
       /\ Acceptable(e)
       /\ PutEvent(e, context)
       /\ asked' = IF req THEN asked \cup {[request |-> clock + 1,
                                            src |-> e.src, tgt |-> tgt]}
                          ELSE asked
       /\ UNCHANGED <<current, phase, owed, answered, lost>>

(* __fwk_thread_put_notification.  fwk_notification_notify has checked     *)
(* that the notification belongs to the module of its source; module       *)
(* FwkNotification composes the two.                                       *)
PutNotificationTo(context, src, tgt, req) ==
  LET from == Source(src, context)
      e == [Zeroed EXCEPT !.src = from, !.tgt = tgt,
                          !.id = ModuleOf[from], !.isNotification = TRUE,
                          !.responseRequested = req]
  IN /\ MayPut(context) /\ WithinLimits
     /\ clock < MaxPosts
     /\ PutEvent(e, context)
     /\ asked' = IF req THEN asked \cup {[request |-> clock + 1,
                                          src |-> from, tgt |-> tgt]}
                        ELSE asked
     /\ UNCHANGED <<current, phase, owed, answered, lost>>

PutNotification(context) ==
  \E src, tgt \in Entities, req \in RequestFlags :
    PutNotificationTo(context, src, tgt, req)

(* A module sends a response it has delayed: in the thread, from a handler *)
(* of the entity that owes it, or from an interrupt handler.               *)
PutDelayedResponse(context) ==
  \E o \in owed :
    LET e == [o EXCEPT !.src = Source(o.tgt, context), !.tgt = o.src,
                       !.isResponse = TRUE, !.responseRequested = FALSE]
    IN /\ MayPut(context) /\ WithinLimits
       /\ e.src = o.tgt
       /\ Acceptable(e)
       /\ PutEvent(e, context)
       /\ owed' = owed \ {o}
       /\ UNCHANGED <<current, phase, asked, answered, lost>>

(***************************************************************************)
(* The thread.  Boot ends when arm_main enters the run loop.               *)
(***************************************************************************)
EnterLoop ==
  /\ phase = "boot" /\ moving = None
  /\ phase' = "loop"
  /\ UNCHANGED <<queues, moving, current, slot, clock, history>>

(* process_next_event, up to the call of the module's handler.             *)
TakeEvent ==
  /\ phase = "loop" /\ moving = None /\ queue # <<>>
  /\ current' = Head(queue)
  /\ queue' = Tail(queue)
  /\ phase' = "handler"
  /\ answered' = LET e == slot[Head(queue)]
                 IN IF e.isResponse THEN answered \cup {e.request}
                                    ELSE answered
  /\ UNCHANGED <<free, isrQueue, moving, slot, clock, asked, owed, lost>>

(* Mutant: a delayed response is also sent at once.                        *)
HandlerAnswersTwice ==
  /\ phase = "handler" /\ moving = None
  /\ phase' = IF slot[current].responseRequested THEN "respond" ELSE "release"
  /\ \/ owed' = owed
     \/ slot[current].responseRequested /\ owed' = owed \cup {slot[current]}
  /\ UNCHANGED <<queues, moving, current, slot, clock, asked, answered, lost>>

(* Mutant: no response is sent.                                            *)
HandlerAnswersNever ==
  /\ phase = "handler" /\ moving = None
  /\ phase' = "release"
  /\ UNCHANGED <<queues, moving, current, slot, clock, history>>

(* The handler returns.  If a response was requested it is sent now,       *)
(* unless the handler set is_delayed_response.                             *)
HandlerReturns ==
  /\ phase = "handler" /\ moving = None
  /\ \/ /\ ~slot[current].responseRequested
        /\ phase' = "release" /\ owed' = owed
     \/ /\ slot[current].responseRequested
        /\ phase' = "respond" /\ owed' = owed
     \/ /\ slot[current].responseRequested
        /\ phase' = "release" /\ owed' = owed \cup {slot[current]}
  /\ UNCHANGED <<queues, moving, current, slot, clock, asked, answered, lost>>

(* Mutant: the response keeps the target of the request.                   *)
ResponseToSelf(e) ==
  [e EXCEPT !.src = e.tgt,
            !.isResponse = TRUE, !.responseRequested = FALSE]

(* The response process_next_event builds from the event.                  *)
ResponseTo(e) ==
  [e EXCEPT !.src = e.tgt, !.tgt = e.src,
            !.isResponse = TRUE, !.responseRequested = FALSE]

(* put_event(&async_response_event): its status is ignored.                *)
Respond ==
  /\ phase = "respond"
  /\ phase' = "release"
  /\ \/ /\ PutEvent(ResponseTo(slot[current]), "thread")
        /\ lost' = lost
     \/ /\ free = <<>>
        /\ lost' = lost \cup {slot[current].request}
        /\ UNCHANGED <<queues, moving, slot, clock>>
  /\ UNCHANGED <<current, asked, owed, answered>>

(* Mutant: the structure of an event that was answered is forgotten.       *)
ReleaseLeaks ==
  /\ phase = "release" /\ moving = None
  /\ phase' = "loop"
  /\ current' = None
  /\ free' = IF slot[current].responseRequested THEN free
             ELSE Append(free, current)
  /\ UNCHANGED <<queue, isrQueue, moving, slot, clock, history>>

(* Mutant: no structure ever returns.                                      *)
ReleaseNothing ==
  /\ phase = "release" /\ moving = None
  /\ phase' = "loop"
  /\ current' = None
  /\ UNCHANGED <<queues, moving, slot, clock, history>>

(* The event structure goes back to the free queue.                        *)
Release ==
  /\ phase = "release" /\ moving = None
  /\ phase' = "loop"
  /\ current' = None
  /\ free' = Append(free, current)
  /\ UNCHANGED <<queue, isrQueue, moving, slot, clock, history>>

(* Mutant: interrupt events are taken while thread events wait.            *)
PopIsrEventEagerly ==
  /\ phase = "loop" /\ moving = None /\ isrQueue # <<>>
  /\ moving' = Head(isrQueue)
  /\ isrQueue' = Tail(isrQueue)
  /\ UNCHANGED <<free, queue, current, phase, slot, clock, history>>

(* Mutant: the run loop does not wait for an interrupt event.              *)
PushIsrEventUnchecked ==
  /\ phase = "loop" /\ queue = <<>>
  /\ queue' = Append(queue, moving)
  /\ moving' = None
  /\ UNCHANGED <<free, isrQueue, current, phase, slot, clock, history>>

(* process_isr, once the event queue is empty: one event of the interrupt  *)
(* handlers moves to the event queue.  The push is outside the masked      *)
(* section, so an interrupt may come between the two.                      *)
PopIsrEvent ==
  /\ phase = "loop" /\ moving = None /\ queue = <<>> /\ isrQueue # <<>>
  /\ moving' = Head(isrQueue)
  /\ isrQueue' = Tail(isrQueue)
  /\ UNCHANGED <<free, queue, current, phase, slot, clock, history>>

PushIsrEvent ==
  /\ phase = "loop" /\ moving # None
  /\ queue' = Append(queue, moving)
  /\ moving' = None
  /\ UNCHANGED <<free, isrQueue, current, phase, slot, clock, history>>

(***************************************************************************)
ThreadStep ==
  \/ EnterLoop \/ TakeEvent \/ HandlerReturns \/ Respond \/ Release
  \/ PushEvent \/ PopIsrEvent \/ PushIsrEvent

ModuleStep(context) ==
  PutRequest(context) \/ PutNotification(context) \/ PutDelayedResponse(context)

Undisturbed == torn = FALSE /\ torn' = FALSE

Next ==
  \/ Undisturbed /\ ThreadStep
  \/ Undisturbed /\ \E context \in Contexts : ModuleStep(context)
  \/ torn = FALSE /\ PopRaces

Spec == ThreadInit /\ [][Next]_vars

(* The thread never stops: __fwk_thread_run is an endless loop and module  *)
(* handlers return.  Nothing is assumed of interrupts or of what modules   *)
(* choose to put.                                                          *)
FairSpec == Spec /\ WF_vars(Undisturbed /\ ThreadStep)

(***************************************************************************)
(* Properties                                                              *)
(***************************************************************************)
TypeOK ==
  /\ free \in Seq(Slots) /\ queue \in Seq(Slots) /\ isrQueue \in Seq(Slots)
  /\ moving \in Slots \cup {None} /\ current \in Slots \cup {None}
  /\ phase \in Phases
  /\ slot \in [Slots -> Event]
  /\ clock \in Nat
  /\ asked \subseteq [request : Nat, src : Ids, tgt : Ids]
  /\ owed \subseteq Event
  /\ answered \subseteq Nat /\ lost \subseteq Nat
  /\ torn \in BOOLEAN

InHand == {moving, current} \ {None}

(* Every event structure is in exactly one place: never leaked, never in   *)
(* two queues at once, wherever interrupts come between the list           *)
(* operations of put_event, process_next_event and process_isr.  This is   *)
(* so until a handler puts an event inside the pop of put_event, which is  *)
(* the one operation on a shared queue that is not masked: there the code  *)
(* may lose and duplicate structures (WithinEventCount in EventPool).      *)
WholePool ==
  /\ Distinct(free) /\ Distinct(queue) /\ Distinct(isrQueue)
  /\ Elems(free) \cap Elems(queue) = {}
  /\ Elems(free) \cap Elems(isrQueue) = {}
  /\ Elems(queue) \cap Elems(isrQueue) = {}
  /\ InHand \cap (Elems(free) \cup Elems(queue) \cup Elems(isrQueue)) = {}
  /\ moving # None => moving # current
  /\ Elems(free) \cup Elems(queue) \cup Elems(isrQueue) \cup InHand = Slots
SlotsConserved == ~torn => WholePool

(* Events put from one context are handled in the order they were put,     *)
(* although interrupt events change queue on their way and interrupts come *)
(* between the pop and the push of put_event.                              *)
Waiting ==
  queue \o (IF moving = None THEN <<>> ELSE <<moving>>) \o isrQueue
FifoPerContext ==
  \A i, j \in DOMAIN Waiting :
    (i < j /\ slot[Waiting[i]].context = slot[Waiting[j]].context)
      => slot[Waiting[i]].stamp < slot[Waiting[j]].stamp

(* Every queued event can be dispatched: it names an existing target, and  *)
(* the identifier belongs to the module that knows the event               *)
(* (process_next_event trusts both).  A response reaches the entity that   *)
(* put the request, in the name of the entity the request was put to, also *)
(* when it is delayed and sent from another event's handler or from an     *)
(* interrupt handler.                                                      *)
Pending == Elems(Waiting)
AnswersGoHome ==
  \A s \in Pending :
    LET e == slot[s] IN
    /\ e.src \in Entities /\ e.tgt \in Entities
    /\ IF e.isResponse = e.isNotification THEN e.id = ModuleOf[e.tgt]
                                          ELSE e.id = ModuleOf[e.src]
    /\ e.isResponse => [request |-> e.request, src |-> e.tgt, tgt |-> e.src]
                         \in asked

(* The structures that stand for the request r: its own until its handler  *)
(* is done, then that of its response until it is taken.                   *)
Serving == phase \in {"handler", "respond"} /\ ~slot[current].isResponse
Carriers(r) ==
  {s \in Pending \cup (IF Serving THEN {current} ELSE {}) :
     slot[s].request = r /\ (slot[s].responseRequested \/ slot[s].isResponse)}

(* A request that asked for a response is at exactly one stage: waiting or *)
(* handled, delayed, response waiting, answered, or its response lost for  *)
(* want of a free structure.  So no request is answered twice and none     *)
(* disappears in another way.                                              *)
OneStagePerRequest ==
  \A a \in asked :
    Cardinality(Carriers(a.request))
      + Cardinality({o \in owed : o.request = a.request})
      + Cardinality({a.request} \cap answered)
      + Cardinality({a.request} \cap lost) = 1

(* A pool with one structure more than the modules ever have outstanding   *)
(* is enough: however many events are put, and although a response takes a *)
(* structure before that of the request is released, no response is lost   *)
(* (process_next_event ignores the status of put_event).                   *)
NoAnswerLost == Cardinality(Slots) > Outstanding => lost = {}

(* The runtime implements EventService: capacity is the size of the pool,  *)
(* and the content of an event is what its structure holds while it waits  *)
(* and while it is handled.  The thread accepts an event when it appends   *)
(* it; an interrupt event on its way to the queue is still in the inbox of *)
(* the handlers.                                                           *)
Contents(q) == [i \in DOMAIN q |-> slot[q[i]]]
HandedOver == IF phase = "loop" /\ moving # None THEN <<moving>> ELSE <<>>
Service ==
  INSTANCE EventService WITH
    Capacity <- Cardinality(Slots), Nothing <- None,
    inbox <- Contents(queue),
    isrInbox <- Contents(HandedOver \o isrQueue),
    serving <- IF current = None THEN None ELSE slot[current]
ImplementsEventService == Service!Spec

(* Every event put is handled and its structure returns to the free queue, *)
(* unless a handler's put races with a pop.                                *)
EventsReturn ==
  \A s \in Slots :
    (s \in Pending \cup InHand) ~> (s \in Elems(free) \/ torn)

(* Every request for a response is answered, unless the handler delayed    *)
(* the response, no structure was free for it, or a handler's put raced    *)
(* with a pop.                                                             *)
RequestsSettle ==
  \A r \in 1..MaxPosts :
    (\E a \in asked : a.request = r)
      ~> \/ r \in answered \cup lost
         \/ \E o \in owed : o.request = r
         \/ torn
=============================================================================
