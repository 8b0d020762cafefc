--------------------------- MODULE FwkThread_proofs ---------------------------
(***************************************************************************)
(* Proofs about FwkThread, and about FwkNotification on top of it, for     *)
(* every set of event structures and entities and every bound.             *)
(*                                                                         *)
(* Event runtime: the state is well typed, event structures are conserved, *)
(* the events of a context are processed in the order it put them, a       *)
(* response goes to the entity that asked for it, a request is at one      *)
(* stage at a time, no response is lost for want of a structure, and the   *)
(* runtime implements EventService.                                        *)
(*                                                                         *)
(* Notifications only take steps of the event runtime, so that all of this *)
(* holds with them; subscription structures are conserved; what one call   *)
(* of fwk_notification_notify queues follows the subscription list.        *)
(***************************************************************************)
EXTENDS FwkNotification, FiniteSetTheorems, SequenceTheorems, TLAPS

(***************************************************************************)
(* Queues                                                                  *)
(***************************************************************************)

(* Taking the head of a queue leaves its other elements, and no second     *)
(* occurrence of the head if the elements are distinct.                    *)
LEMMA TailElems ==
  ASSUME NEW S, NEW q \in Seq(S), q # <<>>
  PROVE  /\ Head(q) \in S /\ Tail(q) \in Seq(S)
         /\ Elems(q) = {Head(q)} \cup Elems(Tail(q))
         /\ Distinct(q) => Distinct(Tail(q)) /\ Head(q) \notin Elems(Tail(q))
<1>1. /\ Head(q) = q[1] /\ Len(q) \in Nat \ {0} /\ DOMAIN q = 1..Len(q)
      /\ Head(q) \in S
  OBVIOUS
<1>2. /\ Tail(q) \in Seq(S) /\ DOMAIN Tail(q) = 1..(Len(q) - 1)
      /\ \A i \in DOMAIN Tail(q) : Tail(q)[i] = q[i + 1]
  OBVIOUS
<1>3. Distinct(q) => Distinct(Tail(q))
  BY <1>1, <1>2 DEF Distinct
<1>4. \A i \in DOMAIN Tail(q) : Tail(q)[i] \in Elems(q)
  BY <1>1, <1>2 DEF Elems
<1>5. \A i \in DOMAIN q : q[i] # q[1] => q[i] \in Elems(Tail(q))
  <2> SUFFICES ASSUME NEW i \in DOMAIN q, q[i] # q[1]
               PROVE  q[i] \in Elems(Tail(q))
    OBVIOUS
  <2>1. i - 1 \in DOMAIN Tail(q) /\ Tail(q)[i - 1] = q[i]
    BY <1>1, <1>2
  <2> QED BY <2>1 DEF Elems
<1>6. Head(q) \in Elems(q)
  BY <1>1 DEF Elems
<1>7. Elems(q) = {Head(q)} \cup Elems(Tail(q))
  BY <1>1, <1>4, <1>5, <1>6 DEF Elems
<1>8. ASSUME Distinct(q) PROVE Head(q) \notin Elems(Tail(q))
  <2> SUFFICES ASSUME NEW i \in DOMAIN Tail(q), Tail(q)[i] = q[1]
               PROVE  FALSE
    BY <1>1 DEF Elems
  <2> QED BY <1>1, <1>2, <1>8 DEF Distinct
<1> QED BY <1>1, <1>2, <1>3, <1>7, <1>8

(* Appending an element that is not in a queue adds exactly that element.  *)
LEMMA AppendElems ==
  ASSUME NEW S, NEW q \in Seq(S), NEW s \in S
  PROVE  /\ Append(q, s) \in Seq(S)
         /\ Elems(Append(q, s)) = Elems(q) \cup {s}
         /\ (Distinct(q) /\ s \notin Elems(q)) => Distinct(Append(q, s))
<1>1. /\ Append(q, s) \in Seq(S) /\ Len(q) \in Nat
      /\ DOMAIN q = 1..Len(q) /\ DOMAIN Append(q, s) = 1..(Len(q) + 1)
      /\ \A i \in 1..Len(q) : Append(q, s)[i] = q[i]
      /\ Append(q, s)[Len(q) + 1] = s
  OBVIOUS
<1>2. Elems(Append(q, s)) = Elems(q) \cup {s}
  <2>1. \A i \in DOMAIN q : q[i] \in Elems(Append(q, s))
    BY <1>1 DEF Elems
  <2>2. s \in Elems(Append(q, s))
    BY <1>1 DEF Elems
  <2>3. \A i \in DOMAIN Append(q, s) : Append(q, s)[i] \in Elems(q) \cup {s}
    BY <1>1 DEF Elems
  <2> QED BY <2>1, <2>2, <2>3 DEF Elems
<1>3. ASSUME Distinct(q), s \notin Elems(q) PROVE Distinct(Append(q, s))
  <2>1. \A i \in 1..Len(q) : q[i] # s
    BY <1>1, <1>3 DEF Elems
  <2> SUFFICES ASSUME NEW i \in 1..(Len(q) + 1), NEW j \in 1..(Len(q) + 1),
                      Append(q, s)[i] = Append(q, s)[j]
               PROVE  i = j
    BY <1>1 DEF Distinct
  <2>2. CASE i \in 1..Len(q) /\ j \in 1..Len(q)
    BY <2>2, <1>1, <1>3 DEF Distinct
  <2>3. CASE i = Len(q) + 1 \/ j = Len(q) + 1
    BY <2>3, <2>1, <1>1
  <2> QED BY <2>2, <2>3, <1>1
<1> QED BY <1>1, <1>2, <1>3

(***************************************************************************)
(* Type correctness                                                        *)
(***************************************************************************)

(* The thread holds an event exactly from its pop to its release, and it   *)
(* has pushed what it popped before it decides on a response.              *)
HandsMatchPhase ==
  /\ (phase \in {"handler", "respond", "release"}) <=> (current # None)
  /\ moving # None => phase # "respond"

(* Events that wait, are handled or are owed a response come from and go   *)
(* to entities that exist; a notification takes its identifier from there. *)
Endpoints(e) == e.src \in Entities /\ e.tgt \in Entities
EndpointsExist ==
  /\ \A s \in Elems(queue) \cup Elems(isrQueue) \cup InHand :
       Endpoints(slot[s])
  /\ \A o \in owed : Endpoints(o)

TypeInv == TypeOK /\ HandsMatchPhase /\ EndpointsExist

(* What put_event does to the queues, whatever it queues.                  *)
Queued == Elems(queue) \cup Elems(isrQueue)
Moving == {moving} \ {None}
HandFree(context) == context = "isr" \/ moving = None

LEMMA PutEventQueues ==
  ASSUME TypeOK, NEW e, NEW context, HandFree(context), PutEvent(e, context)
  PROVE  /\ Head(free) \in Slots /\ Head(free) # None
         /\ free' \in Seq(Slots) /\ queue' \in Seq(Slots)
         /\ isrQueue' \in Seq(Slots) /\ moving' \in Slots \cup {None}
         /\ Elems(free) = {Head(free)} \cup Elems(free')
         /\ Queued' \cup Moving' = {Head(free)} \cup Queued \cup Moving
<1>1. /\ Head(free) \in Slots /\ free' \in Seq(Slots)
      /\ Elems(free) = {Head(free)} \cup Elems(free')
  BY TailElems DEF TypeOK, PutEvent
<1>2. Head(free) # None
  BY <1>1, ThreadAssumption
<1>3. /\ Append(isrQueue, Head(free)) \in Seq(Slots)
      /\ Elems(Append(isrQueue, Head(free)))
           = Elems(isrQueue) \cup {Head(free)}
  BY <1>1, AppendElems DEF TypeOK
<1>4. CASE context = "isr"
  <2>1. /\ isrQueue' = Append(isrQueue, Head(free))
        /\ queue' = queue /\ moving' = moving
    BY <1>4 DEF PutEvent
  <2>2. Queued' \cup Moving' = {Head(free)} \cup Queued \cup Moving
    BY <1>3, <2>1 DEF Queued, Moving
  <2>3. queue \in Seq(Slots) /\ moving \in Slots \cup {None}
    BY DEF TypeOK
  <2> QED BY <1>1, <1>2, <1>3, <2>1, <2>2, <2>3, Zenon
<1>5. CASE context # "isr"
  <2>1. /\ isrQueue' = isrQueue /\ queue' = queue /\ moving' = Head(free)
        /\ moving = None
    BY <1>5 DEF PutEvent, HandFree
  <2>2. Queued' \cup Moving' = {Head(free)} \cup Queued \cup Moving
    BY <1>2, <2>1 DEF Queued, Moving
  <2>3. queue \in Seq(Slots) /\ isrQueue \in Seq(Slots)
    BY DEF TypeOK
  <2> QED BY <1>1, <1>2, <2>1, <2>2, <2>3, Zenon
<1> QED BY <1>4, <1>5

(* put_event keeps the invariant when what it queues is an event between   *)
(* entities and the thread keeps what it has in hand.                      *)
LEMMA PutEventType ==
  ASSUME TypeInv, NEW e \in Event, Endpoints(e),
         NEW context \in Contexts, HandFree(context), PutEvent(e, context),
         UNCHANGED current, phase' \in Phases, HandsMatchPhase',
         owed' \subseteq owed, torn' \in BOOLEAN,
         asked' \subseteq [request : Nat, src : Ids, tgt : Ids],
         answered' \subseteq Nat, lost' \subseteq Nat
  PROVE  TypeInv'
<1> DEFINE h == Head(free)
           c == [e EXCEPT !.stamp = clock + 1, !.context = context,
                          !.request = IF e.isResponse THEN e.request
                                                      ELSE clock + 1]
<1>1. /\ h \in Slots
      /\ free' \in Seq(Slots) /\ queue' \in Seq(Slots)
      /\ isrQueue' \in Seq(Slots) /\ moving' \in Slots \cup {None}
      /\ Queued' \cup Moving' = {h} \cup Queued \cup Moving
  BY PutEventQueues DEF TypeInv
<1>2. clock + 1 \in Nat /\ clock' = clock + 1
  BY DEF TypeInv, TypeOK, PutEvent
<1>3. c \in Event /\ Endpoints(c)
  BY <1>2 DEF Event, Endpoints
<1>4. slot' = [slot EXCEPT ![h] = c]
  BY DEF PutEvent
<1> HIDE DEF h, c
<1>5. slot' \in [Slots -> Event]
  BY <1>1, <1>3, <1>4 DEF TypeInv, TypeOK
<1>6. TypeOK'
  BY <1>1, <1>2, <1>5 DEF TypeInv, TypeOK
<1>8. /\ Queued' \cup InHand' = {h} \cup Queued \cup InHand
      /\ InHand' \subseteq Slots
  <2>1. InHand = Moving \cup ({current} \ {None})
    BY DEF InHand, Moving
  <2>2. InHand' = Moving' \cup ({current} \ {None})
    BY DEF InHand, Moving
  <2>3. InHand' \subseteq Slots
    BY <1>1 DEF TypeInv, TypeOK, InHand
  <2> QED BY <1>1, <2>1, <2>2, <2>3
<1>9. \A s \in Queued' \cup InHand' : Endpoints(slot'[s])
  <2> SUFFICES ASSUME NEW s \in Queued' \cup InHand'
               PROVE  Endpoints(slot'[s])
    OBVIOUS
  <2>1. s \in Slots
    BY <1>1, <1>8 DEF Queued, Elems
  <2>2. CASE s = h
    BY <2>1, <2>2, <1>3, <1>4 DEF TypeInv, TypeOK
  <2>3. CASE s # h
    BY <2>1, <2>3, <1>1, <1>4, <1>8
       DEF TypeInv, TypeOK, EndpointsExist, Queued
  <2> QED BY <2>2, <2>3
<1> QED BY <1>6, <1>9 DEF TypeInv, EndpointsExist, Queued

(* The source of an event that a module puts.                              *)
LEMMA SourceType ==
  ASSUME TypeInv, NEW src \in Ids, NEW context
  PROVE  /\ Source(src, context) \in Ids
         /\ src \in Entities => Source(src, context) \in Entities
  BY DEF TypeInv, TypeOK, Source, Event, EndpointsExist, Endpoints, InHand

LEMMA InitType == ThreadInit => TypeInv
<1> SUFFICES ASSUME ThreadInit PROVE TypeInv
  OBVIOUS
<1>1. Cardinality(Slots) \in Nat
  BY ThreadAssumption, FS_CardinalityType
<1>2. free \in Seq(Slots)
  BY <1>1 DEF ThreadInit, FullPools
<1>3. slot \in [Slots -> Event]
  BY DEF ThreadInit, Zeroed, Event, Ids, Contexts
<1>4. TypeOK
  <2>1. torn \in BOOLEAN
    BY DEF ThreadInit
  <2> QED BY <1>2, <1>3, <2>1 DEF ThreadInit, TypeOK, Phases
<1>5. HandsMatchPhase
  BY DEF ThreadInit, HandsMatchPhase
<1>6. EndpointsExist
  BY DEF ThreadInit, EndpointsExist, Elems, InHand
<1> QED BY <1>4, <1>5, <1>6 DEF TypeInv

LEMMA PutType ==
  ASSUME TypeInv, NEW context \in Contexts, ModuleStep(context),
         torn' \in BOOLEAN
  PROVE  TypeInv'
<1>0. /\ HandFree(context)
      /\ \A e : PutEvent(e, context) /\ UNCHANGED <<current, phase>>
                => HandsMatchPhase'
  <2>1. MayPut(context)
    BY DEF ModuleStep, PutRequest, PutNotification, PutNotificationTo,
           PutDelayedResponse
  <2>2. HandFree(context)
    BY <2>1 DEF MayPut, HandFree, Contexts
  <2>3. ASSUME NEW e, PutEvent(e, context), UNCHANGED <<current, phase>>
        PROVE  HandsMatchPhase'
    <3>1. moving' # moving => phase # "respond"
      BY <2>1, <2>3 DEF MayPut, PutEvent
    <3> QED BY <2>3, <3>1 DEF TypeInv, HandsMatchPhase
  <2> QED BY <2>2, <2>3
<1>1. CASE PutRequest(context)
  <2> PICK src \in Ids, tgt \in Ids, id \in Modules, req \in RequestFlags :
        LET e == [Zeroed EXCEPT !.src = Source(src, context), !.tgt = tgt,
                                !.id = id, !.responseRequested = req]
        IN /\ Acceptable(e)
           /\ PutEvent(e, context)
           /\ asked' = IF req THEN asked \cup {[request |-> clock + 1,
                                                src |-> e.src, tgt |-> tgt]}
                              ELSE asked
           /\ UNCHANGED <<current, phase, owed, answered, lost>>
    BY <1>1 DEF PutRequest
  <2> DEFINE e == [Zeroed EXCEPT !.src = Source(src, context), !.tgt = tgt,
                                 !.id = id, !.responseRequested = req]
  <2>1. req \in BOOLEAN
    BY ThreadAssumption
  <2>2. e \in Event /\ e.src \in Ids
    BY <2>1, SourceType DEF Event, Zeroed, Ids, Contexts
  <2>3. Endpoints(e)
    BY DEF Acceptable, Endpoints
  <2>4. /\ asked' \subseteq [request : Nat, src : Ids, tgt : Ids]
        /\ answered' \subseteq Nat /\ lost' \subseteq Nat
    BY <2>2 DEF TypeInv, TypeOK
  <2>5. /\ PutEvent(e, context) /\ UNCHANGED <<current, phase, owed>>
        /\ phase' \in Phases /\ HandsMatchPhase'
    BY <1>0 DEF TypeInv, TypeOK
  <2> HIDE DEF e
  <2> QED BY <2>2, <2>3, <2>4, <2>5, <1>0, PutEventType
<1>2. CASE PutNotification(context)
  <2> PICK src \in Entities, tgt \in Entities, req \in RequestFlags :
        PutNotificationTo(context, src, tgt, req)
    BY <1>2 DEF PutNotification
  <2> DEFINE from == Source(src, context)
             e == [Zeroed EXCEPT !.src = from, !.tgt = tgt,
                                 !.id = ModuleOf[from],
                                 !.isNotification = TRUE,
                                 !.responseRequested = req]
  <2>1. req \in BOOLEAN
    BY ThreadAssumption
  <2>2. from \in Entities
    BY SourceType DEF Ids
  <2>3. e \in Event /\ Endpoints(e)
    BY <2>1, <2>2, ThreadAssumption DEF Event, Zeroed, Ids, Contexts, Endpoints
  <2>4. /\ asked' \subseteq [request : Nat, src : Ids, tgt : Ids]
        /\ answered' \subseteq Nat /\ lost' \subseteq Nat
    BY <2>2 DEF TypeInv, TypeOK, PutNotificationTo, Ids
  <2>5. /\ PutEvent(e, context) /\ UNCHANGED <<current, phase, owed>>
        /\ phase' \in Phases /\ HandsMatchPhase'
    BY <1>0 DEF PutNotificationTo, TypeInv, TypeOK
  <2> HIDE DEF e, from
  <2> QED BY <2>3, <2>4, <2>5, <1>0, PutEventType
<1>3. CASE PutDelayedResponse(context)
  <2> PICK o \in owed :
        LET e == [o EXCEPT !.src = Source(o.tgt, context), !.tgt = o.src,
                           !.isResponse = TRUE, !.responseRequested = FALSE]
        IN /\ Acceptable(e)
           /\ PutEvent(e, context)
           /\ owed' = owed \ {o}
           /\ UNCHANGED <<current, phase, asked, answered, lost>>
    BY <1>3 DEF PutDelayedResponse
  <2> DEFINE e == [o EXCEPT !.src = Source(o.tgt, context), !.tgt = o.src,
                            !.isResponse = TRUE, !.responseRequested = FALSE]
  <2>1. o \in Event /\ o.tgt \in Ids
    BY DEF TypeInv, TypeOK, Event
  <2>2. e \in Event
    BY <2>1, SourceType DEF Event
  <2>3. Endpoints(e)
    BY DEF Acceptable, Endpoints
  <2>4. /\ asked' \subseteq [request : Nat, src : Ids, tgt : Ids]
        /\ answered' \subseteq Nat /\ lost' \subseteq Nat
    BY DEF TypeInv, TypeOK
  <2>5. /\ PutEvent(e, context) /\ UNCHANGED <<current, phase>>
        /\ owed' \subseteq owed
        /\ phase' \in Phases /\ HandsMatchPhase'
    BY <1>0 DEF TypeInv, TypeOK
  <2> HIDE DEF e
  <2> QED BY <2>2, <2>3, <2>4, <2>5, <1>0, PutEventType
<1> QED BY <1>1, <1>2, <1>3 DEF ModuleStep

LEMMA ThreadType ==
  ASSUME TypeInv, ThreadStep, torn' \in BOOLEAN
  PROVE  TypeInv'
<1> USE DEF TypeInv
<1>1. CASE EnterLoop
  <2>1. TypeOK'
    BY <1>1 DEF EnterLoop, TypeOK, queues, history, Phases
  <2>2. HandsMatchPhase'
    BY <1>1 DEF EnterLoop, HandsMatchPhase
  <2>3. EndpointsExist'
    BY <1>1 DEF EnterLoop, EndpointsExist, queues, history, InHand
  <2> QED BY <2>1, <2>2, <2>3
<1>2. CASE TakeEvent
  <2>1. /\ Head(queue) \in Slots /\ Tail(queue) \in Seq(Slots)
        /\ Elems(queue) = {Head(queue)} \cup Elems(Tail(queue))
    BY <1>2, TailElems DEF TakeEvent, TypeOK
  <2>2. TypeOK'
    <3>1. slot[Head(queue)].request \in Nat
      BY <2>1 DEF TypeOK, Event
    <3>2. answered' \subseteq Nat
      BY <1>2, <3>1 DEF TakeEvent, TypeOK
    <3> QED BY <1>2, <2>1, <3>2 DEF TakeEvent, TypeOK, Phases
  <2>3. HandsMatchPhase'
    BY <1>2, <2>1, ThreadAssumption DEF TakeEvent, HandsMatchPhase
  <2>4. EndpointsExist'
    BY <1>2, <2>1 DEF TakeEvent, EndpointsExist, InHand
  <2> QED BY <2>2, <2>3, <2>4
<1>3. CASE HandlerReturns
  <2>1. current \in Slots /\ current \in InHand
    BY <1>3 DEF HandlerReturns, HandsMatchPhase, TypeOK, InHand
  <2>2. slot[current] \in Event /\ Endpoints(slot[current])
    BY <2>1 DEF TypeOK, EndpointsExist
  <2>3. owed' \subseteq Event /\ \A o \in owed' : Endpoints(o)
    BY <1>3, <2>2 DEF HandlerReturns, TypeOK, EndpointsExist
  <2>4. TypeOK'
    BY <1>3, <2>3 DEF HandlerReturns, TypeOK, queues, Phases
  <2>5. HandsMatchPhase'
    BY <1>3 DEF HandlerReturns, HandsMatchPhase
  <2>6. EndpointsExist'
    BY <1>3, <2>3 DEF HandlerReturns, EndpointsExist, queues, InHand
  <2> QED BY <2>4, <2>5, <2>6
<1>4. CASE Respond
  <2>1. current \in Slots /\ current \in InHand /\ moving = None
    BY <1>4 DEF Respond, HandsMatchPhase, TypeOK, InHand
  <2>2. /\ slot[current] \in Event /\ Endpoints(slot[current])
        /\ slot[current].request \in Nat
    BY <2>1 DEF TypeOK, EndpointsExist, Event
  <2>3. /\ phase' \in Phases /\ HandsMatchPhase'
        /\ UNCHANGED <<current, owed, asked, answered>>
    BY <1>4, <2>1, ThreadAssumption DEF Respond, HandsMatchPhase, Phases
  <2>4. lost' \subseteq Nat
    BY <1>4, <2>2 DEF Respond, TypeOK
  <2>5. CASE PutEvent(ResponseTo(slot[current]), "thread")
    <3>1. /\ ResponseTo(slot[current]) \in Event
          /\ Endpoints(ResponseTo(slot[current]))
      BY <2>2 DEF ResponseTo, Event, Endpoints
    <3>2. /\ asked' \subseteq [request : Nat, src : Ids, tgt : Ids]
          /\ answered' \subseteq Nat /\ owed' \subseteq owed
      BY <2>3 DEF TypeOK
    <3>3. HandFree("thread")
      BY <2>1 DEF HandFree
    <3> HIDE DEF TypeInv
    <3> QED BY <2>3, <2>4, <2>5, <3>1, <3>2, <3>3, PutEventType DEF Contexts
  <2>6. CASE UNCHANGED <<queues, moving, slot, clock>>
    <3>1. TypeOK'
      BY <2>3, <2>4, <2>6 DEF TypeOK, queues
    <3>2. EndpointsExist'
      BY <2>3, <2>6 DEF EndpointsExist, queues, InHand
    <3> QED BY <2>3, <3>1, <3>2
  <2> QED BY <1>4, <2>5, <2>6 DEF Respond
<1>5. CASE Release
  <2>1. current \in Slots /\ current \in InHand /\ moving = None
    BY <1>5 DEF Release, HandsMatchPhase, TypeOK, InHand
  <2>2. TypeOK'
    BY <1>5, <2>1, AppendElems DEF Release, TypeOK, history, Phases
  <2>3. HandsMatchPhase'
    BY <1>5, <2>1 DEF Release, HandsMatchPhase
  <2>4. EndpointsExist'
    BY <1>5, <2>1 DEF Release, EndpointsExist, history, InHand
  <2> QED BY <2>2, <2>3, <2>4
<1>6. CASE PopIsrEvent
  <2>1. /\ Head(isrQueue) \in Slots /\ Tail(isrQueue) \in Seq(Slots)
        /\ Elems(isrQueue) = {Head(isrQueue)} \cup Elems(Tail(isrQueue))
    BY <1>6, TailElems DEF PopIsrEvent, TypeOK
  <2>2. TypeOK'
    BY <1>6, <2>1 DEF PopIsrEvent, TypeOK, history
  <2>3. HandsMatchPhase'
    BY <1>6 DEF PopIsrEvent, HandsMatchPhase
  <2>4. EndpointsExist'
    BY <1>6, <2>1 DEF PopIsrEvent, EndpointsExist, history, InHand
  <2> QED BY <2>2, <2>3, <2>4
<1>7. CASE PushIsrEvent \/ PushEvent
  <2>1. moving \in Slots /\ moving \in InHand
    BY <1>7 DEF PushIsrEvent, PushEvent, TypeOK, InHand
  <2>2. /\ Append(queue, moving) \in Seq(Slots)
        /\ Elems(Append(queue, moving)) = Elems(queue) \cup {moving}
    BY <2>1, AppendElems DEF TypeOK
  <2>3. TypeOK'
    BY <1>7, <2>2 DEF PushIsrEvent, PushEvent, TypeOK, history
  <2>4. HandsMatchPhase'
    BY <1>7 DEF PushIsrEvent, PushEvent, HandsMatchPhase
  <2>5. EndpointsExist'
    BY <1>7, <2>1, <2>2
       DEF PushIsrEvent, PushEvent, EndpointsExist, history, InHand
  <2> QED BY <2>3, <2>4, <2>5
<1> QED BY <1>1, <1>2, <1>3, <1>4, <1>5, <1>6, <1>7 DEF ThreadStep

(* A step is one of the thread or of a module, or leaves everything but    *)
(* torn as it is.                                                          *)
AllButTorn ==
  <<free, queue, isrQueue, moving, current, phase, slot, clock,
    asked, owed, answered, lost>>

LEMMA Steps ==
  ASSUME TypeInv, [Next]_vars
  PROVE  /\ torn' \in BOOLEAN
         /\ \/ ThreadStep
            \/ \E context \in Contexts : ModuleStep(context)
            \/ UNCHANGED AllButTorn
<1>1. CASE UNCHANGED vars
  BY <1>1 DEF vars, AllButTorn, TypeInv, TypeOK
<1>2. CASE PopRaces
  BY <1>2 DEF PopRaces, AllButTorn, queues, history
<1>3. CASE Undisturbed
  <2>1. torn' \in BOOLEAN
    BY <1>3 DEF Undisturbed
  <2> QED BY <1>1, <1>2, <2>1 DEF Next
<1> QED BY <1>1, <1>2, <1>3 DEF Next

LEMMA StutterType ==
  ASSUME TypeInv, UNCHANGED AllButTorn, torn' \in BOOLEAN
  PROVE  TypeInv'
<1>1. TypeOK'
  BY DEF TypeInv, AllButTorn, TypeOK
<1>2. HandsMatchPhase' /\ EndpointsExist'
  BY DEF TypeInv, AllButTorn, HandsMatchPhase, EndpointsExist, InHand
<1> QED BY <1>1, <1>2 DEF TypeInv

(* The invariant holds in every reachable state.                           *)
LEMMA TypeInvariant == Spec => []TypeInv
<1>1. TypeInv /\ [Next]_vars => TypeInv'
  BY Steps, PutType, ThreadType, StutterType
<1> QED BY InitType, <1>1, PTL DEF Spec

(* The queues hold event structures, the hands of the thread too, and      *)
(* every structure holds an event (fwk_thread.c never links anything else).*)
THEOREM TypeCorrect == Spec => []TypeOK
<1>1. TypeInv => TypeOK
  BY DEF TypeInv
<1> QED BY TypeInvariant, <1>1, PTL

(***************************************************************************)
(* Conservation of event structures                                        *)
(***************************************************************************)

(* put_event moves the first free structure to the queue of the interrupt  *)
(* handlers or into the hands of the thread.                               *)
LEMMA PutEventConserves ==
  ASSUME TypeOK, WholePool, NEW e, NEW context, HandFree(context),
         PutEvent(e, context), UNCHANGED current
  PROVE  WholePool'
<1> DEFINE h == Head(free)
<1>1. /\ h \in Slots /\ free' = Tail(free)
      /\ Elems(free) = {h} \cup Elems(free')
      /\ Distinct(free') /\ h \notin Elems(free')
  BY TailElems DEF TypeOK, PutEvent, WholePool
<1>2. h \notin Elems(queue) /\ h \notin Elems(isrQueue) /\ h \notin InHand
  BY <1>1 DEF WholePool
<1>3. h # None
  BY <1>1, ThreadAssumption
<1>4. /\ Elems(Append(isrQueue, h)) = Elems(isrQueue) \cup {h}
      /\ Distinct(Append(isrQueue, h))
  BY <1>1, <1>2, AppendElems DEF TypeOK, WholePool
<1>6. CASE context = "isr"
  <2>1. /\ isrQueue' = Append(isrQueue, h) /\ queue' = queue
        /\ moving' = moving
    BY <1>6 DEF PutEvent
  <2>2. InHand' = InHand
    BY <2>1 DEF InHand
  <2> HIDE DEF h
  <2> QED BY <2>1, <2>2, <1>1, <1>2, <1>4 DEF WholePool
<1>7. CASE context # "isr"
  <2>1. /\ queue' = queue /\ isrQueue' = isrQueue
        /\ moving' = h /\ moving = None
    BY <1>7 DEF PutEvent, HandFree
  <2>2. InHand' = InHand \cup {h} /\ h # current
    BY <1>2, <1>3, <2>1 DEF InHand
  <2> HIDE DEF h
  <2> QED BY <2>1, <2>2, <1>1, <1>2 DEF WholePool
<1> QED BY <1>6, <1>7

LEMMA PutConserves ==
  ASSUME TypeOK, WholePool, NEW context \in Contexts, ModuleStep(context)
  PROVE  WholePool'
<1>1. \E e : /\ MayPut(context) /\ PutEvent(e, context)
             /\ UNCHANGED current
  <2>1. CASE PutRequest(context)
    BY <2>1 DEF PutRequest
  <2>2. CASE PutNotification(context)
    BY <2>2 DEF PutNotification, PutNotificationTo
  <2>3. CASE PutDelayedResponse(context)
    BY <2>3 DEF PutDelayedResponse
  <2> QED BY <2>1, <2>2, <2>3 DEF ModuleStep
<1>2. HandFree(context)
  BY <1>1 DEF MayPut, HandFree
<1> QED BY <1>1, <1>2, PutEventConserves

LEMMA ThreadConserves ==
  ASSUME TypeInv, WholePool, ThreadStep
  PROVE  WholePool'
<1> USE DEF TypeInv
<1>1. CASE EnterLoop \/ HandlerReturns
  BY <1>1 DEF EnterLoop, HandlerReturns, WholePool, queues, InHand
<1>2. CASE TakeEvent
  <2>1. /\ Elems(queue) = {Head(queue)} \cup Elems(queue')
        /\ Distinct(queue') /\ Head(queue) \notin Elems(queue')
        /\ Head(queue) \in Slots
    BY <1>2, TailElems DEF TakeEvent, TypeOK, WholePool
  <2>2. current = None /\ moving = None
    BY <1>2 DEF TakeEvent, HandsMatchPhase
  <2>3. InHand = {} /\ InHand' = {Head(queue)}
    BY <1>2, <2>1, <2>2, ThreadAssumption DEF TakeEvent, InHand
  <2>4. free' = free /\ isrQueue' = isrQueue /\ moving' = None
    BY <1>2, <2>2 DEF TakeEvent
  <2> QED BY <2>1, <2>3, <2>4 DEF WholePool
<1>3. CASE Respond
  <2>1. UNCHANGED current /\ moving = None
    BY <1>3 DEF Respond, HandsMatchPhase
  <2>2. CASE PutEvent(ResponseTo(slot[current]), "thread")
    BY <2>1, <2>2, PutEventConserves DEF HandFree
  <2>3. CASE UNCHANGED <<queues, moving, slot, clock>>
    BY <2>1, <2>3 DEF WholePool, queues, InHand
  <2> QED BY <1>3, <2>2, <2>3 DEF Respond
<1>4. CASE Release
  <2>1. current \in Slots /\ current # None /\ moving = None
    BY <1>4, ThreadAssumption DEF Release, HandsMatchPhase, TypeOK
  <2>2. InHand = {current} /\ InHand' = {}
    BY <1>4, <2>1 DEF Release, InHand
  <2>3. current \notin Elems(free)
    BY <2>2 DEF WholePool
  <2>4. /\ Elems(free') = Elems(free) \cup {current}
        /\ Distinct(free')
    BY <1>4, <2>1, <2>3, AppendElems DEF Release, TypeOK, WholePool
  <2>5. queue' = queue /\ isrQueue' = isrQueue /\ moving' = None
    BY <1>4, <2>1 DEF Release
  <2> QED BY <2>2, <2>4, <2>5 DEF WholePool
<1>5. CASE PopIsrEvent
  <2>1. /\ Elems(isrQueue) = {Head(isrQueue)} \cup Elems(isrQueue')
        /\ Distinct(isrQueue') /\ Head(isrQueue) \notin Elems(isrQueue')
        /\ Head(isrQueue) \in Slots
    BY <1>5, TailElems DEF PopIsrEvent, TypeOK, WholePool
  <2>2. current = None /\ moving = None
    BY <1>5 DEF PopIsrEvent, HandsMatchPhase
  <2>3. InHand = {} /\ InHand' = {Head(isrQueue)}
    BY <1>5, <2>1, <2>2, ThreadAssumption DEF PopIsrEvent, InHand
  <2>4. free' = free /\ queue' = queue /\ current' = None
    BY <1>5, <2>2 DEF PopIsrEvent
  <2> QED BY <2>1, <2>3, <2>4 DEF WholePool
<1>6. CASE PushIsrEvent \/ PushEvent
  <2>1. /\ moving \in Slots /\ moving # None /\ current' = current
        /\ queue' = Append(queue, moving) /\ moving' = None
        /\ free' = free /\ isrQueue' = isrQueue
    BY <1>6, ThreadAssumption DEF PushIsrEvent, PushEvent, TypeOK
  <2>2. InHand = InHand' \cup {moving} /\ moving \notin InHand'
    BY <2>1 DEF InHand, WholePool
  <2>3. moving \notin Elems(queue)
    BY <2>2 DEF WholePool
  <2>4. /\ Elems(queue') = Elems(queue) \cup {moving}
        /\ Distinct(queue')
    BY <2>1, <2>3, AppendElems DEF TypeOK, WholePool
  <2> QED BY <2>1, <2>2, <2>4 DEF WholePool
<1> QED BY <1>1, <1>2, <1>3, <1>4, <1>5, <1>6 DEF ThreadStep

LEMMA PoolInvariant == Spec => []WholePool
<1>1. ThreadInit => WholePool
  BY DEF ThreadInit, FullPools, WholePool, Elems, Distinct, InHand
<1>2. TypeInv /\ WholePool /\ [Next]_vars => WholePool'
  <2>1. CASE UNCHANGED AllButTorn
    BY <2>1 DEF AllButTorn, WholePool, InHand
  <2> QED BY <2>1, Steps, PutConserves, ThreadConserves DEF TypeInv
<1> QED BY <1>1, <1>2, TypeInvariant, PTL DEF Spec

(* Wherever interrupts come between the list operations of the thread, no  *)
(* event structure is lost and none is in two places, as long as no        *)
(* handler puts an event inside the unmasked pop of put_event.             *)
THEOREM Conservation == Spec => []SlotsConserved
<1>1. WholePool => SlotsConserved
  BY DEF SlotsConserved
<1> QED BY <1>1, PoolInvariant, PTL

(* In a system whose interrupt handlers put no event, such as the products *)
(* of the repository, this is so for ever: no pop races.                   *)
THEOREM ConservationUnraced ==
  ASSUME ~IsrPuts
  PROVE  Spec => [](WholePool /\ ~torn)
<1>1. ThreadInit => ~torn
  BY DEF ThreadInit
<1>2. ~torn /\ [Next]_vars => ~torn'
  BY DEF Next, vars, Undisturbed, PopRaces, MayPut
<1> QED BY <1>1, <1>2, PoolInvariant, PTL DEF Spec

(***************************************************************************)
(* Order                                                                   *)
(***************************************************************************)

(* A queue holds the events of each context in the order they were put;    *)
(* f is what the structures hold.                                          *)
Ordered(f, q) ==
  \A i, j \in DOMAIN q :
    (i < j /\ f[q[i]].context = f[q[j]].context)
      => f[q[i]].stamp < f[q[j]].stamp

(* The structures of P hold events that were put before those of Q.        *)
Precede(f, P, Q) ==
  \A s \in P, t \in Q :
    f[s].context = f[t].context => f[s].stamp < f[t].stamp

(* The event on its way to the event queue is behind those in it and, when *)
(* it comes from the queue of the interrupt handlers, before those it      *)
(* leaves there; only interrupt handlers put events there.                 *)
Later == Moving \cup Elems(isrQueue)
FifoInv ==
  /\ Ordered(slot, queue) /\ Ordered(slot, isrQueue)
  /\ Precede(slot, Elems(queue), Later)
  /\ Precede(slot, Moving, Elems(isrQueue))
  /\ \A s \in Elems(queue) \cup Later : slot[s].stamp <= clock
  /\ \A s \in Elems(isrQueue) : slot[s].context = "isr"

LEMMA OrderedTail ==
  ASSUME NEW S, NEW f, NEW q \in Seq(S), q # <<>>, Ordered(f, q)
  PROVE  Ordered(f, Tail(q)) /\ Precede(f, {Head(q)}, Elems(Tail(q)))
<1>1. /\ Head(q) = q[1] /\ Len(q) \in Nat \ {0} /\ DOMAIN q = 1..Len(q)
      /\ DOMAIN Tail(q) = 1..(Len(q) - 1)
      /\ \A i \in DOMAIN Tail(q) : Tail(q)[i] = q[i + 1]
  OBVIOUS
<1>2. Ordered(f, Tail(q))
  <2> SUFFICES ASSUME NEW i \in DOMAIN Tail(q), NEW j \in DOMAIN Tail(q),
                      i < j, f[Tail(q)[i]].context = f[Tail(q)[j]].context
               PROVE  f[Tail(q)[i]].stamp < f[Tail(q)[j]].stamp
    BY DEF Ordered
  <2>1. /\ i + 1 \in DOMAIN q /\ j + 1 \in DOMAIN q /\ i + 1 < j + 1
        /\ Tail(q)[i] = q[i + 1] /\ Tail(q)[j] = q[j + 1]
    BY <1>1
  <2> QED BY <2>1 DEF Ordered
<1>3. Precede(f, {Head(q)}, Elems(Tail(q)))
  <2> SUFFICES ASSUME NEW j \in DOMAIN Tail(q),
                      f[q[1]].context = f[Tail(q)[j]].context
               PROVE  f[q[1]].stamp < f[Tail(q)[j]].stamp
    BY <1>1 DEF Precede, Elems
  <2>1. /\ 1 \in DOMAIN q /\ j + 1 \in DOMAIN q /\ 1 < j + 1
        /\ Tail(q)[j] = q[j + 1]
    BY <1>1
  <2> QED BY <2>1 DEF Ordered
<1> QED BY <1>2, <1>3

LEMMA OrderedAppend ==
  ASSUME NEW S, NEW f, NEW q \in Seq(S), NEW s \in S, Ordered(f, q),
         Precede(f, Elems(q), {s})
  PROVE  Ordered(f, Append(q, s))
<1>1. /\ Len(q) \in Nat
      /\ DOMAIN q = 1..Len(q) /\ DOMAIN Append(q, s) = 1..(Len(q) + 1)
      /\ \A i \in 1..Len(q) : Append(q, s)[i] = q[i]
      /\ Append(q, s)[Len(q) + 1] = s
  OBVIOUS
<1> DEFINE r == Append(q, s)
<1> SUFFICES ASSUME NEW i \in DOMAIN r, NEW j \in DOMAIN r, i < j,
                    f[r[i]].context = f[r[j]].context
             PROVE  f[r[i]].stamp < f[r[j]].stamp
  BY DEF Ordered
<1>2. i \in DOMAIN q /\ r[i] = q[i] /\ r[i] \in Elems(q)
  BY <1>1 DEF Elems
<1>3. CASE j \in DOMAIN q
  <2>1. r[j] = q[j]
    BY <1>1, <1>3
  <2> HIDE DEF r
  <2> QED BY <1>2, <1>3, <2>1 DEF Ordered
<1>4. CASE j = Len(q) + 1
  <2>1. r[j] = s
    BY <1>1, <1>4
  <2> HIDE DEF r
  <2> QED BY <1>2, <2>1 DEF Precede
<1> QED BY <1>1, <1>3, <1>4

(* Only what the structures of a queue hold matters to its order.          *)
LEMMA OrderedSame ==
  ASSUME NEW f, NEW g, NEW q, Ordered(f, q), \A s \in Elems(q) : f[s] = g[s]
  PROVE  Ordered(g, q)
BY DEF Ordered, Elems

(* Waiting, the queues in the order they are served, is ordered if its     *)
(* parts are.                                                              *)
LEMMA WaitingOrdered ==
  ASSUME TypeOK, FifoInv
  PROVE  FifoPerContext
<1> DEFINE m == IF moving = None THEN <<>> ELSE <<moving>>
           n == Len(queue)
           k == Len(m)
           W(i) == Waiting[i]
<1>1. /\ m \in Seq(Slots) /\ k \in {0, 1}
      /\ k = 1 => m[1] = moving /\ moving # None
      /\ n \in Nat /\ Len(isrQueue) \in Nat
  BY DEF TypeOK
<1>2. /\ Waiting = queue \o m \o isrQueue
      /\ DOMAIN Waiting = 1..(n + k + Len(isrQueue))
      /\ \A i \in 1..n : Waiting[i] = queue[i]
      /\ k = 1 => Waiting[n + 1] = m[1]
      /\ \A i \in (n + k + 1)..(n + k + Len(isrQueue)) :
           Waiting[i] = isrQueue[i - n - k]
  <2>1. Waiting = queue \o m \o isrQueue
    BY DEF Waiting
  <2> HIDE DEF m
  <2>2. queue \in Seq(Slots) /\ m \in Seq(Slots) /\ isrQueue \in Seq(Slots)
    BY <1>1 DEF TypeOK
  <2> QED BY <1>1, <2>1, <2>2
<1> HIDE DEF m, n, k
<1>3. /\ DOMAIN queue = 1..n /\ DOMAIN isrQueue = 1..Len(isrQueue)
  BY DEF n, TypeOK
<1> SUFFICES ASSUME NEW i \in DOMAIN Waiting, NEW j \in DOMAIN Waiting, i < j,
                    slot[W(i)].context = slot[W(j)].context
             PROVE  slot[W(i)].stamp < slot[W(j)].stamp
  BY DEF FifoPerContext
<1>6. /\ i \in Nat /\ j \in Nat /\ i >= 1
      /\ i <= n + k + Len(isrQueue) /\ j <= n + k + Len(isrQueue)
  BY <1>1, <1>2
<1>7. \A x \in Nat : x >= n + k + 1 /\ x <= n + k + Len(isrQueue)
        => W(x) = isrQueue[x - n - k] /\ x - n - k \in DOMAIN isrQueue
  BY <1>1, <1>2, <1>3
<1> HIDE DEF W
<1>4. CASE i <= n
  <2>1. i \in DOMAIN queue /\ W(i) = queue[i] /\ W(i) \in Elems(queue)
    BY <1>1, <1>2, <1>3, <1>4 DEF Elems, W
  <2>2. CASE j <= n
    <3>1. j \in DOMAIN queue /\ W(j) = queue[j]
      BY <1>1, <1>2, <1>3, <2>2 DEF W
    <3> QED BY <2>1, <3>1 DEF FifoInv, Ordered
  <2>3. CASE j > n
    <3>1. W(j) \in Later
      <4>1. CASE k = 1 /\ j = n + 1
        BY <1>1, <1>2, <4>1 DEF W, Later, Moving
      <4>2. CASE j >= n + k + 1
        <5>1. W(j) = isrQueue[j - n - k] /\ j - n - k \in DOMAIN isrQueue
          BY <1>6, <1>7, <4>2
        <5> QED BY <5>1 DEF Later, Elems
      <4> QED BY <1>1, <1>6, <2>3, <4>1, <4>2
    <3> QED BY <2>1, <3>1 DEF FifoInv, Precede
  <2> QED BY <1>1, <1>6, <2>2, <2>3
<1>5. CASE i > n
  <2>1. j >= n + k + 1
    BY <1>1, <1>6, <1>5
  <2>2. W(j) = isrQueue[j - n - k] /\ j - n - k \in DOMAIN isrQueue
    BY <1>6, <1>7, <2>1
  <2>3. CASE k = 1 /\ i = n + 1
    <3>1. W(i) \in Moving /\ W(j) \in Elems(isrQueue)
      BY <1>1, <1>2, <2>2, <2>3 DEF W, Moving, Elems
    <3> QED BY <3>1 DEF FifoInv, Precede
  <2>4. CASE i >= n + k + 1
    <3>1. /\ W(i) = isrQueue[i - n - k] /\ i - n - k \in DOMAIN isrQueue
          /\ i - n - k < j - n - k
      BY <1>1, <1>6, <1>7, <2>4
    <3> QED BY <2>2, <3>1 DEF FifoInv, Ordered
  <2> QED BY <1>1, <1>6, <1>5, <2>3, <2>4
<1> QED BY <1>1, <1>6, <1>4, <1>5
(* put_event keeps the order: its stamp is beyond every other, and a       *)
(* structure it fills is in no queue.                                      *)
LEMMA PutEventFifo ==
  ASSUME TypeInv, WholePool, FifoInv, NEW e \in Event,
         NEW context \in Contexts, HandFree(context), PutEvent(e, context)
  PROVE  FifoInv'
<1> DEFINE h == Head(free)
           c == [e EXCEPT !.stamp = clock + 1, !.context = context,
                          !.request = IF e.isResponse THEN e.request
                                                      ELSE clock + 1]
<1>1. h \in Slots /\ h \in Elems(free)
  BY TailElems DEF TypeInv, TypeOK, PutEvent
<1>2. /\ h \notin Elems(queue) /\ h \notin Elems(isrQueue)
      /\ h \notin Moving
  BY <1>1 DEF WholePool, Moving, InHand
<1>3. clock \in Nat /\ clock' = clock + 1 /\ queue' = queue
  BY DEF TypeInv, TypeOK, PutEvent
<1>4. slot' = [slot EXCEPT ![h] = c]
  BY DEF PutEvent
<1>5. /\ slot'[h].stamp = clock + 1 /\ slot'[h].context = context
      /\ \A s \in Slots : s # h => slot'[s] = slot[s]
  BY <1>1, <1>4 DEF TypeInv, TypeOK, Event
<1>6. /\ Elems(queue) \subseteq Slots /\ Elems(isrQueue) \subseteq Slots
      /\ Moving \subseteq Slots
  BY DEF TypeInv, TypeOK, Elems, Moving
<1> HIDE DEF h, c
<1>7. \A s \in Elems(queue) \cup Later : s # h /\ slot'[s] = slot[s]
  BY <1>2, <1>5, <1>6 DEF Later
<1>8. /\ Ordered(slot', queue) /\ Ordered(slot', isrQueue)
      /\ Precede(slot', Elems(queue), Later)
      /\ Precede(slot', Moving, Elems(isrQueue))
  <2>1. Ordered(slot', queue) /\ Ordered(slot', isrQueue)
    BY <1>7, OrderedSame DEF FifoInv, Later
  <2>2. /\ Precede(slot', Elems(queue), Later)
        /\ Precede(slot', Moving, Elems(isrQueue))
    BY <1>7 DEF FifoInv, Precede, Later
  <2> QED BY <2>1, <2>2
<1>9. \A s \in Elems(queue) \cup Later :
        slot'[s].stamp < clock + 1 /\ slot'[s].stamp <= clock'
  <2> SUFFICES ASSUME NEW s \in Elems(queue) \cup Later
               PROVE  slot'[s].stamp < clock + 1 /\ slot'[s].stamp <= clock'
    OBVIOUS
  <2>1. slot'[s] = slot[s] /\ slot[s].stamp <= clock /\ slot[s].stamp \in Nat
    BY <1>6, <1>7 DEF FifoInv, TypeInv, TypeOK, Event, Later
  <2> QED BY <1>3, <2>1
<1>10. CASE context = "isr"
  <2>1. isrQueue' = Append(isrQueue, h) /\ Moving' = Moving
    BY <1>10 DEF PutEvent, h, Moving
  <2>2. Elems(isrQueue') = Elems(isrQueue) \cup {h}
    BY <1>1, <2>1, AppendElems DEF TypeInv, TypeOK
  <2>3. Later' = Later \cup {h}
    BY <2>1, <2>2 DEF Later
  <2>4. Ordered(slot', isrQueue')
    <3>1. Precede(slot', Elems(isrQueue), {h})
      BY <1>5, <1>9 DEF Precede, Later
    <3> QED BY <1>1, <1>8, <2>1, <3>1, OrderedAppend DEF TypeInv, TypeOK
  <2>5. /\ Precede(slot', Elems(queue'), Later')
        /\ Precede(slot', Moving', Elems(isrQueue'))
    BY <1>3, <1>5, <1>8, <1>9, <2>1, <2>2, <2>3 DEF Precede, Later
  <2>6. /\ \A s \in Elems(queue') \cup Later' : slot'[s].stamp <= clock'
        /\ \A s \in Elems(isrQueue') : slot'[s].context = "isr"
    BY <1>3, <1>5, <1>7, <1>9, <1>10, <2>2, <2>3 DEF FifoInv, Later
  <2> QED BY <1>3, <1>8, <2>4, <2>5, <2>6 DEF FifoInv
<1>11. CASE context = "thread"
  <2>1. isrQueue' = isrQueue /\ moving = None /\ moving' = h
    BY <1>11 DEF PutEvent, HandFree, h
  <2>2. Moving = {} /\ Moving' = {h} /\ Later = Elems(isrQueue)
        /\ Later' = {h} \cup Elems(isrQueue)
    BY <1>1, <2>1, ThreadAssumption DEF Moving, Later
  <2>3. Precede(slot', Elems(queue), {h})
    BY <1>5, <1>9 DEF Precede
  <2>4. Precede(slot', {h}, Elems(isrQueue))
    BY <1>5, <1>7, <1>11 DEF FifoInv, Precede, Later
  <2>5. Precede(slot', Elems(queue'), Later')
    BY <1>3, <1>8, <2>2, <2>3 DEF Precede
  <2>6. /\ \A s \in Elems(queue') \cup Later' : slot'[s].stamp <= clock'
        /\ \A s \in Elems(isrQueue') : slot'[s].context = "isr"
    BY <1>3, <1>5, <1>7, <1>9, <2>1, <2>2 DEF FifoInv
  <2> QED BY <1>3, <1>8, <2>1, <2>2, <2>4, <2>5, <2>6 DEF FifoInv
<1> QED BY <1>10, <1>11 DEF Contexts

(* The response to an event is an event that goes the other way and keeps  *)
(* everything else.                                                        *)
LEMMA ResponseFields ==
  ASSUME NEW e \in Event
  PROVE  /\ ResponseTo(e) \in Event
         /\ ResponseTo(e).src = e.tgt /\ ResponseTo(e).tgt = e.src
         /\ ResponseTo(e).isResponse /\ ~ResponseTo(e).responseRequested
         /\ ResponseTo(e).request = e.request /\ ResponseTo(e).id = e.id
         /\ ResponseTo(e).isNotification = e.isNotification
BY DEF ResponseTo, Event

(* What a module puts is a new event, which carries the identifier of the  *)
(* module that knows it, or the response to an event it had delayed.       *)
Addressed(e) ==
  IF e.isResponse = e.isNotification THEN e.id = ModuleOf[e.tgt]
                                     ELSE e.id = ModuleOf[e.src]
AsksFor(e, r) == [request |-> r, src |-> e.src, tgt |-> e.tgt]
NewEvent(e) ==
  /\ ~e.isResponse /\ Addressed(e) /\ clock < MaxPosts
  /\ owed' = owed
  /\ asked' = IF e.responseRequested
              THEN asked \cup {AsksFor(e, clock + 1)} ELSE asked
DelayedAnswer(e) ==
  \E o \in owed : e = ResponseTo(o) /\ owed' = owed \ {o} /\ asked' = asked

LEMMA ModulePuts ==
  ASSUME TypeInv, NEW context \in Contexts, ModuleStep(context)
  PROVE  \E e \in Event :
           /\ Endpoints(e) /\ HandFree(context) /\ PutEvent(e, context)
           /\ NewEvent(e) \/ DelayedAnswer(e)
           /\ MayPut(context) /\ WithinLimits
           /\ UNCHANGED <<current, phase, answered, lost>>
<1>0. MayPut(context) => HandFree(context)
  BY DEF MayPut, HandFree
<1>1. CASE PutRequest(context)
  <2> PICK src \in Ids, tgt \in Ids, id \in Modules, req \in RequestFlags :
        LET e == [Zeroed EXCEPT !.src = Source(src, context), !.tgt = tgt,
                                !.id = id, !.responseRequested = req]
        IN /\ MayPut(context) /\ WithinLimits
           /\ clock < MaxPosts
           /\ Acceptable(e)
           /\ PutEvent(e, context)
           /\ asked' = IF req THEN asked \cup {[request |-> clock + 1,
                                                src |-> e.src, tgt |-> tgt]}
                              ELSE asked
           /\ UNCHANGED <<current, phase, owed, answered, lost>>
    BY <1>1 DEF PutRequest
  <2> DEFINE e == [Zeroed EXCEPT !.src = Source(src, context), !.tgt = tgt,
                                 !.id = id, !.responseRequested = req]
  <2>1. req \in BOOLEAN
    BY ThreadAssumption
  <2>2. /\ e \in Event /\ ~e.isResponse /\ ~e.isNotification
        /\ e.responseRequested = req /\ e.tgt = tgt
    BY <2>1, SourceType DEF Event, Zeroed, Ids, Contexts
  <2>3. /\ Acceptable(e) /\ MayPut(context) /\ WithinLimits /\ PutEvent(e, context)
        /\ clock < MaxPosts /\ owed' = owed
        /\ asked' = IF req THEN asked \cup {[request |-> clock + 1,
                                             src |-> e.src, tgt |-> tgt]}
                           ELSE asked
        /\ UNCHANGED <<current, phase, answered, lost>>
    OBVIOUS
  <2> HIDE DEF e
  <2>4. Endpoints(e) /\ Addressed(e)
    BY <2>2, <2>3 DEF Acceptable, Endpoints, Addressed, Event
  <2>5. NewEvent(e)
    BY <2>2, <2>3, <2>4 DEF NewEvent, AsksFor
  <2> QED BY <1>0, <2>2, <2>3, <2>4, <2>5
<1>2. CASE PutNotification(context)
  <2> PICK src \in Entities, tgt \in Entities, req \in RequestFlags :
        PutNotificationTo(context, src, tgt, req)
    BY <1>2 DEF PutNotification
  <2> DEFINE from == Source(src, context)
             e == [Zeroed EXCEPT !.src = from, !.tgt = tgt,
                                 !.id = ModuleOf[from],
                                 !.isNotification = TRUE,
                                 !.responseRequested = req]
  <2>1. req \in BOOLEAN
    BY ThreadAssumption
  <2>2. from \in Entities
    BY SourceType DEF Ids
  <2>3. /\ e \in Event /\ ~e.isResponse /\ e.isNotification
        /\ e.responseRequested = req /\ e.tgt = tgt /\ e.src = from
        /\ e.id = ModuleOf[from]
    BY <2>1, <2>2, ThreadAssumption DEF Event, Zeroed, Ids, Contexts
  <2>4. /\ MayPut(context) /\ WithinLimits /\ PutEvent(e, context)
        /\ clock < MaxPosts /\ owed' = owed
        /\ asked' = IF req THEN asked \cup {[request |-> clock + 1,
                                             src |-> from, tgt |-> tgt]}
                           ELSE asked
        /\ UNCHANGED <<current, phase, answered, lost>>
    BY DEF PutNotificationTo
  <2> HIDE DEF e, from
  <2>5. Endpoints(e) /\ Addressed(e)
    BY <2>2, <2>3 DEF Endpoints, Addressed
  <2>6. NewEvent(e)
    BY <2>3, <2>4, <2>5 DEF NewEvent, AsksFor
  <2> QED BY <1>0, <2>3, <2>4, <2>5, <2>6
<1>3. CASE PutDelayedResponse(context)
  <2> PICK o \in owed :
        LET e == [o EXCEPT !.src = Source(o.tgt, context), !.tgt = o.src,
                           !.isResponse = TRUE, !.responseRequested = FALSE]
        IN /\ MayPut(context) /\ WithinLimits
           /\ e.src = o.tgt
           /\ Acceptable(e)
           /\ PutEvent(e, context)
           /\ owed' = owed \ {o}
           /\ UNCHANGED <<current, phase, asked, answered, lost>>
    BY <1>3 DEF PutDelayedResponse
  <2> DEFINE e == [o EXCEPT !.src = Source(o.tgt, context), !.tgt = o.src,
                            !.isResponse = TRUE, !.responseRequested = FALSE]
  <2>1. o \in Event
    BY DEF TypeInv, TypeOK
  <2>2. e.src = Source(o.tgt, context) /\ e.src = o.tgt
    BY <2>1 DEF Event
  <2>3. e = ResponseTo(o)
    BY <2>1, <2>2 DEF ResponseTo, Event
  <2>4. /\ Acceptable(e) /\ MayPut(context) /\ WithinLimits /\ PutEvent(e, context)
        /\ owed' = owed \ {o}
        /\ UNCHANGED <<current, phase, asked, answered, lost>>
    OBVIOUS
  <2> HIDE DEF e
  <2>5. e \in Event /\ e.isResponse
    BY <2>1, <2>3 DEF ResponseTo, Event
  <2>6. Endpoints(e) /\ DelayedAnswer(e)
    BY <2>3, <2>4 DEF Acceptable, Endpoints, DelayedAnswer
  <2> QED BY <1>0, <2>4, <2>5, <2>6
<1> QED BY <1>1, <1>2, <1>3 DEF ModuleStep

LEMMA ThreadFifo ==
  ASSUME TypeInv, WholePool, FifoInv, ThreadStep
  PROVE  FifoInv'
<1>1. CASE EnterLoop \/ HandlerReturns
  BY <1>1 DEF EnterLoop, HandlerReturns, FifoInv, queues, Later, Moving
<1>2. CASE TakeEvent
  <2>1. /\ queue' = Tail(queue) /\ queue # <<>>
        /\ UNCHANGED <<isrQueue, moving, slot, clock>>
    BY <1>2 DEF TakeEvent
  <2>2. Elems(queue') \subseteq Elems(queue) /\ Later' = Later
    BY <2>1, TailElems DEF TypeInv, TypeOK, Later, Moving
  <2>3. Ordered(slot, queue')
    BY <2>1, OrderedTail DEF FifoInv, TypeInv, TypeOK
  <2>4. Precede(slot, Elems(queue'), Later)
    BY <2>2 DEF FifoInv, Precede
  <2>5. Moving' = Moving
    BY <2>1 DEF Moving
  <2> QED BY <2>1, <2>2, <2>3, <2>4, <2>5 DEF FifoInv
<1>3. CASE Respond
  <2>1. HandFree("thread")
    BY <1>3 DEF Respond, HandFree, TypeInv, HandsMatchPhase
  <2>2. CASE PutEvent(ResponseTo(slot[current]), "thread")
    <3>1. slot[current] \in Event
      BY <1>3 DEF Respond, TypeInv, HandsMatchPhase, TypeOK
    <3>2. ResponseTo(slot[current]) \in Event
      BY <3>1, ResponseFields
    <3>3. "thread" \in Contexts
      BY DEF Contexts
    <3> QED BY <2>1, <2>2, <3>2, <3>3, PutEventFifo
  <2>3. CASE UNCHANGED <<queues, moving, slot, clock>>
    BY <2>3 DEF FifoInv, queues, Later, Moving
  <2> QED BY <1>3, <2>2, <2>3 DEF Respond
<1>4. CASE Release
  BY <1>4 DEF Release, FifoInv, Later, Moving
<1>5. CASE PopIsrEvent
  <2> DEFINE h == Head(isrQueue)
  <2>1. /\ isrQueue' = Tail(isrQueue) /\ isrQueue # <<>> /\ queue = <<>>
        /\ moving = None /\ moving' = h
        /\ UNCHANGED <<queue, slot, clock>>
    BY <1>5 DEF PopIsrEvent
  <2>2. /\ Elems(isrQueue) = {h} \cup Elems(isrQueue')
        /\ h \in Slots
    BY <2>1, TailElems DEF TypeInv, TypeOK
  <2>3. Moving = {} /\ Moving' = {h} /\ Later' = Later
    BY <2>1, <2>2, ThreadAssumption DEF Moving, Later
  <2>4. Ordered(slot, isrQueue') /\ Precede(slot, {h}, Elems(isrQueue'))
    BY <2>1, OrderedTail DEF FifoInv, TypeInv, TypeOK
  <2>5. \A s \in Elems(isrQueue') : slot[s].context = "isr"
    BY <2>2 DEF FifoInv
  <2> HIDE DEF h
  <2> QED BY <2>1, <2>3, <2>4, <2>5 DEF FifoInv
<1>6. CASE PushIsrEvent \/ PushEvent
  <2>1. /\ queue' = Append(queue, moving) /\ moving # None /\ moving' = None
        /\ UNCHANGED <<isrQueue, slot, clock>>
    BY <1>6 DEF PushIsrEvent, PushEvent
  <2>2. moving \in Slots
    BY <2>1 DEF TypeInv, TypeOK
  <2>3. /\ Moving = {moving} /\ Moving' = {}
        /\ Later = {moving} \cup Elems(isrQueue) /\ Later' = Elems(isrQueue)
    BY <2>1 DEF Moving, Later
  <2>4. Elems(queue') = Elems(queue) \cup {moving}
    BY <2>1, <2>2, AppendElems DEF TypeInv, TypeOK
  <2>5. Ordered(slot, queue')
    <3>1. Precede(slot, Elems(queue), {moving})
      BY <2>3 DEF FifoInv, Precede
    <3> QED BY <2>1, <2>2, <3>1, OrderedAppend DEF FifoInv, TypeInv, TypeOK
  <2>6. /\ Precede(slot, Elems(queue'), Later')
        /\ Precede(slot, Moving', Elems(isrQueue'))
    BY <2>1, <2>3, <2>4 DEF FifoInv, Precede
  <2>7. /\ \A s \in Elems(queue') \cup Later' : slot[s].stamp <= clock
        /\ \A s \in Elems(isrQueue') : slot[s].context = "isr"
    BY <2>1, <2>3, <2>4 DEF FifoInv
  <2> QED BY <2>1, <2>5, <2>6, <2>7 DEF FifoInv
<1> QED BY <1>1, <1>2, <1>3, <1>4, <1>5, <1>6 DEF ThreadStep

(* The events of one context are handled in the order they were put,       *)
(* although those of interrupt handlers change queue on their way          *)
(* (put_event, process_isr).                                               *)
THEOREM FifoOrder == Spec => []FifoPerContext
<1>1. ThreadInit => FifoInv
  BY DEF ThreadInit, FifoInv, Ordered, Precede, Elems, Later, Moving
<1>2. TypeInv /\ WholePool /\ FifoInv /\ [Next]_vars => FifoInv'
  <2>1. CASE UNCHANGED AllButTorn
    BY <2>1 DEF AllButTorn, FifoInv, Later, Moving
  <2>2. ASSUME TypeInv, WholePool, FifoInv, NEW context \in Contexts,
               ModuleStep(context)
        PROVE  FifoInv'
    BY <2>2, ModulePuts, PutEventFifo
  <2> QED BY <2>1, <2>2, Steps, ThreadFifo
<1>3. TypeInv /\ FifoInv => FifoPerContext
  BY WaitingOrdered DEF TypeInv
<1> QED BY <1>1, <1>2, <1>3, TypeInvariant, PoolInvariant, PTL DEF Spec

(***************************************************************************)
(* Requests and responses                                                  *)
(***************************************************************************)

(* The structures that hold an event: every one that is not free.          *)
Occupied == Elems(queue) \cup Elems(isrQueue) \cup InHand

(* What put_event leaves in the structure it takes.                        *)
Stored(e, context) ==
  [e EXCEPT !.stamp = clock + 1, !.context = context,
            !.request = IF e.isResponse THEN e.request ELSE clock + 1]

LEMMA StoredFields ==
  ASSUME TypeOK, NEW e \in Event, NEW context \in Contexts
  PROVE  LET c == Stored(e, context)
         IN /\ c \in Event
            /\ c.src = e.src /\ c.tgt = e.tgt /\ c.id = e.id
            /\ c.isResponse = e.isResponse
            /\ c.isNotification = e.isNotification
            /\ c.responseRequested = e.responseRequested
            /\ e.isResponse => c.request = e.request
            /\ ~e.isResponse => c.request = clock + 1
<1> DEFINE r == IF e.isResponse THEN e.request ELSE clock + 1
<1>1. r \in Nat /\ clock + 1 \in Nat
  BY DEF Event, TypeOK
<1>2. /\ e.isResponse => r = e.request
      /\ ~e.isResponse => r = clock + 1
  OBVIOUS
<1>3. Stored(e, context)
        = [e EXCEPT !.stamp = clock + 1, !.context = context, !.request = r]
  BY DEF Stored
<1> HIDE DEF r
<1>4. Stored(e, context) \in Event /\ Stored(e, context).request = r
  BY <1>1, <1>3 DEF Event
<1>5. /\ Stored(e, context).src = e.src /\ Stored(e, context).tgt = e.tgt
      /\ Stored(e, context).id = e.id
      /\ Stored(e, context).isResponse = e.isResponse
      /\ Stored(e, context).isNotification = e.isNotification
      /\ Stored(e, context).responseRequested = e.responseRequested
  BY <1>3 DEF Event
<1> QED BY <1>2, <1>4, <1>5

(* put_event occupies one more structure and leaves the others alone.      *)
LEMMA PutEventFills ==
  ASSUME TypeInv, WholePool, NEW e \in Event, NEW context \in Contexts,
         HandFree(context), PutEvent(e, context), UNCHANGED current
  PROVE  /\ Head(free) \in Slots /\ Head(free) \notin Occupied
         /\ Occupied' = Occupied \cup {Head(free)}
         /\ slot'[Head(free)] = Stored(e, context)
         /\ Occupied \subseteq Slots
         /\ \A s \in Occupied : slot'[s] = slot[s]
         /\ clock' = clock + 1
<1> DEFINE h == Head(free)
<1>1. h \in Slots /\ h \in Elems(free)
  BY TailElems DEF TypeInv, TypeOK, PutEvent
<1>2. h \notin Occupied
  BY <1>1 DEF WholePool, Occupied
<1>3. Queued' \cup Moving' = {h} \cup Queued \cup Moving
  BY PutEventQueues DEF TypeInv
<1>4. Occupied' = Occupied \cup {h}
  <2>1. /\ Occupied = Queued \cup Moving \cup ({current} \ {None})
        /\ Occupied' = Queued' \cup Moving' \cup ({current} \ {None})
    BY DEF Occupied, Queued, InHand, Moving
  <2> QED BY <1>3, <2>1
<1>5. Occupied \subseteq Slots
  BY DEF Occupied, TypeInv, TypeOK, Elems, InHand
<1>6. slot' = [slot EXCEPT ![h] = Stored(e, context)] /\ clock' = clock + 1
  BY DEF PutEvent, Stored
<1> HIDE DEF h
<1>7. /\ slot'[h] = Stored(e, context)
      /\ \A s \in Slots \ {h} : slot'[s] = slot[s]
  BY <1>1, <1>6 DEF TypeInv, TypeOK
<1> QED BY <1>1, <1>2, <1>4, <1>5, <1>6, <1>7 DEF h

(* The elements of two queues put together.                                *)
LEMMA ConcatElems ==
  ASSUME NEW S, NEW p \in Seq(S), NEW q \in Seq(S)
  PROVE  p \o q \in Seq(S) /\ Elems(p \o q) = Elems(p) \cup Elems(q)
<1>1. /\ p \o q \in Seq(S) /\ Len(p) \in Nat /\ Len(q) \in Nat
      /\ DOMAIN p = 1..Len(p) /\ DOMAIN q = 1..Len(q)
      /\ DOMAIN (p \o q) = 1..(Len(p) + Len(q))
      /\ \A i \in 1..Len(p) : (p \o q)[i] = p[i]
      /\ \A i \in (Len(p) + 1)..(Len(p) + Len(q)) :
           (p \o q)[i] = q[i - Len(p)]
  OBVIOUS
<1>2. \A i \in DOMAIN p : p[i] \in Elems(p \o q)
  BY <1>1 DEF Elems
<1>3. \A i \in DOMAIN q : q[i] \in Elems(p \o q)
  <2> SUFFICES ASSUME NEW i \in DOMAIN q PROVE q[i] \in Elems(p \o q)
    OBVIOUS
  <2>1. /\ i + Len(p) \in DOMAIN (p \o q)
        /\ (p \o q)[i + Len(p)] = q[i]
    BY <1>1
  <2> QED BY <2>1 DEF Elems
<1>4. \A i \in DOMAIN (p \o q) : (p \o q)[i] \in Elems(p) \cup Elems(q)
  <2> SUFFICES ASSUME NEW i \in DOMAIN (p \o q)
               PROVE  (p \o q)[i] \in Elems(p) \cup Elems(q)
    OBVIOUS
  <2>1. CASE i \in DOMAIN p
    BY <1>1, <2>1 DEF Elems
  <2>2. CASE i \notin DOMAIN p
    <3>1. i - Len(p) \in DOMAIN q /\ (p \o q)[i] = q[i - Len(p)]
      BY <1>1, <2>2
    <3> QED BY <3>1 DEF Elems
  <2> QED BY <2>1, <2>2
<1> QED BY <1>1, <1>2, <1>3, <1>4 DEF Elems

LEMMA WaitingElems ==
  ASSUME TypeOK
  PROVE  Pending = Elems(queue) \cup Moving \cup Elems(isrQueue)
<1> DEFINE m == IF moving = None THEN <<>> ELSE <<moving>>
           A == queue \o m
<1>1. /\ queue \in Seq(Slots) /\ m \in Seq(Slots) /\ isrQueue \in Seq(Slots)
      /\ Waiting = A \o isrQueue
  BY DEF TypeOK, Waiting
<1>2. Elems(m) = Moving
  BY DEF Elems, Moving
<1> HIDE DEF m
<1>3. A \in Seq(Slots) /\ Elems(A) = Elems(queue) \cup Elems(m)
  BY <1>1, ConcatElems
<1> HIDE DEF A
<1>4. Elems(A \o isrQueue) = Elems(A) \cup Elems(isrQueue)
  BY <1>1, <1>3, ConcatElems
<1> QED BY <1>1, <1>2, <1>3, <1>4 DEF Pending

(* An event that asks for a response is recorded under its own number, and *)
(* a response answers a recorded request in the opposite direction.        *)
Answering(e, requests) ==
  /\ Addressed(e)
  /\ e.isResponse => ~e.responseRequested
  /\ e.isResponse =>
       [request |-> e.request, src |-> e.tgt, tgt |-> e.src] \in requests
  /\ e.responseRequested => AsksFor(e, e.request) \in requests

(* Every event in a structure, and every event whose response is delayed,  *)
(* can be answered correctly; the thread only responds when asked to.      *)
HomeInv ==
  /\ \A s \in Occupied : Answering(slot[s], asked)
  /\ \A o \in owed : o.responseRequested /\ Answering(o, asked)
  /\ phase = "respond" => slot[current].responseRequested

LEMMA AnsweringMonotone ==
  ASSUME NEW e, NEW S, NEW T, S \subseteq T, Answering(e, S)
  PROVE  Answering(e, T)
BY DEF Answering

LEMMA ResponseAnswers ==
  ASSUME NEW e \in Event, e.responseRequested, NEW S, Answering(e, S)
  PROVE  Answering(ResponseTo(e), S)
<1> DEFINE a == ResponseTo(e)
<1>1. /\ a.src = e.tgt /\ a.tgt = e.src
      /\ a.isResponse /\ ~a.responseRequested
      /\ a.request = e.request /\ a.id = e.id
      /\ a.isNotification = e.isNotification
      /\ a \in Event
  BY ResponseFields
<1> HIDE DEF a
<1>2. ~e.isResponse
  BY DEF Answering
<1>3. Addressed(a)
  BY <1>1, <1>2 DEF Answering, Addressed, Event
<1>4. [request |-> a.request, src |-> a.tgt, tgt |-> a.src] \in S
  BY <1>1 DEF Answering, AsksFor
<1> QED BY <1>1, <1>3, <1>4 DEF Answering, a

LEMMA PutEventHome ==
  ASSUME TypeInv, WholePool, HomeInv,
         NEW e \in Event, NEW context \in Contexts, HandFree(context),
         PutEvent(e, context), UNCHANGED current,
         phase' = "respond" => phase = "respond",
         asked \subseteq asked', owed' \subseteq owed,
         Answering(Stored(e, context), asked')
  PROVE  HomeInv'
<1> DEFINE h == Head(free)
<1>1. /\ h \notin Occupied
      /\ Occupied' = Occupied \cup {h}
      /\ slot'[h] = Stored(e, context)
      /\ \A s \in Occupied : slot'[s] = slot[s]
  BY PutEventFills
<1> HIDE DEF h
<1>2. \A s \in Occupied' : Answering(slot'[s], asked')
  <2> SUFFICES ASSUME NEW s \in Occupied' PROVE Answering(slot'[s], asked')
    OBVIOUS
  <2>1. CASE s = h
    BY <1>1, <2>1
  <2>2. CASE s \in Occupied
    BY <1>1, <2>2, AnsweringMonotone DEF HomeInv
  <2> QED BY <1>1, <2>1, <2>2
<1>3. \A o \in owed' : o.responseRequested /\ Answering(o, asked')
  BY AnsweringMonotone DEF HomeInv
<1>4. ASSUME phase' = "respond" PROVE slot'[current'].responseRequested
  <2>1. phase = "respond" /\ current' = current /\ current # None
    BY <1>4 DEF TypeInv, HandsMatchPhase
  <2>2. current \in Occupied
    BY <2>1 DEF Occupied, InHand
  <2> QED BY <1>1, <2>1, <2>2 DEF HomeInv
<1> QED BY <1>2, <1>3, <1>4 DEF HomeInv

LEMMA PutHome ==
  ASSUME TypeInv, WholePool, HomeInv,
         NEW context \in Contexts, ModuleStep(context)
  PROVE  HomeInv'
<1> PICK e \in Event :
      /\ Endpoints(e) /\ HandFree(context) /\ PutEvent(e, context)
      /\ NewEvent(e) \/ DelayedAnswer(e)
      /\ UNCHANGED <<current, phase, answered, lost>>
  BY ModulePuts
<1> DEFINE c == Stored(e, context)
<1>1. /\ c \in Event
      /\ c.src = e.src /\ c.tgt = e.tgt /\ c.id = e.id
      /\ c.isResponse = e.isResponse
      /\ c.isNotification = e.isNotification
      /\ c.responseRequested = e.responseRequested
      /\ e.isResponse => c.request = e.request
      /\ ~e.isResponse => c.request = clock + 1
  BY StoredFields DEF TypeInv
<1> HIDE DEF c
<1>2. CASE NewEvent(e)
  <2>1. asked \subseteq asked' /\ owed' = owed
    BY <1>2 DEF NewEvent
  <2>2. Answering(c, asked')
    BY <1>1, <1>2 DEF NewEvent, Answering, Addressed, AsksFor
  <2> QED BY <2>1, <2>2, PutEventHome DEF c
<1>3. CASE DelayedAnswer(e)
  <2> PICK o \in owed :
        e = ResponseTo(o) /\ owed' = owed \ {o} /\ asked' = asked
    BY <1>3 DEF DelayedAnswer
  <2>1. o \in Event /\ o.responseRequested /\ Answering(o, asked)
    BY DEF TypeInv, TypeOK, HomeInv
  <2>2. Answering(e, asked) /\ e.isResponse
    BY <2>1, ResponseAnswers, ResponseFields
  <2>3. Answering(c, asked')
    BY <1>1, <2>2 DEF Answering, Addressed, AsksFor
  <2> QED BY <2>3, PutEventHome DEF c
<1> QED BY <1>2, <1>3

LEMMA ThreadHome ==
  ASSUME TypeInv, WholePool, HomeInv, ThreadStep
  PROVE  HomeInv'
<1>1. CASE EnterLoop
  BY <1>1 DEF EnterLoop, HomeInv, queues, history, Occupied, InHand
<1>2. CASE TakeEvent
  <2>1. /\ Elems(queue) = {Head(queue)} \cup Elems(queue')
        /\ current = None /\ current' = Head(queue)
        /\ UNCHANGED <<isrQueue, moving, slot, asked, owed>>
        /\ phase' = "handler"
    BY <1>2, TailElems DEF TakeEvent, TypeInv, TypeOK, HandsMatchPhase
  <2>2. Occupied' \subseteq Occupied
    BY <2>1 DEF Occupied, InHand
  <2> QED BY <2>1, <2>2 DEF HomeInv
<1>3. CASE HandlerReturns
  <2>1. current \in Occupied
    BY <1>3 DEF HandlerReturns, TypeInv, HandsMatchPhase, Occupied, InHand
  <2>2. /\ UNCHANGED <<queues, moving, current, slot, asked>>
        /\ phase' = "respond" => slot[current].responseRequested
        /\ \/ owed' = owed
           \/ /\ slot[current].responseRequested
              /\ owed' = owed \cup {slot[current]}
    BY <1>3 DEF HandlerReturns
  <2>3. Occupied' = Occupied
    BY <2>2 DEF Occupied, InHand, queues
  <2> QED BY <2>1, <2>2, <2>3 DEF HomeInv
<1>4. CASE Respond
  <2>1. /\ UNCHANGED <<current, asked, owed>> /\ phase' = "release"
        /\ phase = "respond" /\ HandFree("thread")
    BY <1>4 DEF Respond, HandFree, TypeInv, HandsMatchPhase
  <2>2. current \in Occupied /\ slot[current] \in Event
    BY <2>1 DEF TypeInv, TypeOK, HandsMatchPhase, Occupied, InHand
  <2>3. CASE PutEvent(ResponseTo(slot[current]), "thread")
    <3> DEFINE e == ResponseTo(slot[current])
               c == Stored(e, "thread")
    <3>1. e \in Event /\ e.isResponse /\ Answering(e, asked)
      BY <2>1, <2>2, ResponseAnswers, ResponseFields DEF HomeInv
    <3>2. PutEvent(e, "thread") /\ "thread" \in Contexts
      BY <2>3 DEF Contexts
    <3> HIDE DEF e
    <3>3. /\ c \in Event
          /\ c.src = e.src /\ c.tgt = e.tgt /\ c.id = e.id
          /\ c.isResponse = e.isResponse
          /\ c.isNotification = e.isNotification
          /\ c.responseRequested = e.responseRequested
          /\ c.request = e.request
      BY <3>1, <3>2, StoredFields DEF TypeInv
    <3> HIDE DEF c
    <3>4. Answering(c, asked')
      BY <2>1, <3>1, <3>3 DEF Answering, Addressed, AsksFor
    <3> QED BY <2>1, <3>1, <3>2, <3>4, PutEventHome DEF c
  <2>4. CASE UNCHANGED <<queues, moving, slot, clock>>
    BY <2>1, <2>4 DEF HomeInv, queues, Occupied, InHand
  <2> QED BY <1>4, <2>3, <2>4 DEF Respond
<1>5. CASE Release
  <2>1. /\ UNCHANGED <<queue, isrQueue, moving, slot, asked, owed>>
        /\ current' = None /\ phase' = "loop"
    BY <1>5 DEF Release, history
  <2>2. Occupied' \subseteq Occupied
    BY <2>1 DEF Occupied, InHand
  <2> QED BY <2>1, <2>2 DEF HomeInv
<1>6. CASE PopIsrEvent
  <2>1. /\ Elems(isrQueue) = {Head(isrQueue)} \cup Elems(isrQueue')
        /\ moving' = Head(isrQueue)
        /\ UNCHANGED <<queue, current, phase, slot, asked, owed>>
    BY <1>6, TailElems DEF PopIsrEvent, TypeInv, TypeOK, history
  <2>2. Occupied' \subseteq Occupied
    BY <2>1 DEF Occupied, InHand
  <2> QED BY <2>1, <2>2 DEF HomeInv
<1>7. CASE PushIsrEvent \/ PushEvent
  <2>1. /\ queue' = Append(queue, moving) /\ moving # None
        /\ moving' = None /\ moving \in Slots
        /\ UNCHANGED <<isrQueue, current, phase, slot, asked, owed>>
    BY <1>7 DEF PushIsrEvent, PushEvent, TypeInv, TypeOK, history
  <2>3. Elems(queue') = Elems(queue) \cup {moving}
    BY <2>1, AppendElems DEF TypeInv, TypeOK
  <2>2. Occupied' \subseteq Occupied
    BY <2>1, <2>3 DEF Occupied, InHand
  <2> QED BY <2>1, <2>2 DEF HomeInv
<1> QED BY <1>1, <1>2, <1>3, <1>4, <1>5, <1>6, <1>7 DEF ThreadStep

LEMMA HomeInvariant == Spec => []HomeInv
<1>1. ThreadInit => HomeInv
  BY DEF ThreadInit, HomeInv, Occupied, InHand, Elems
<1>2. TypeInv /\ WholePool /\ HomeInv /\ [Next]_vars => HomeInv'
  <2>1. CASE UNCHANGED AllButTorn
    BY <2>1 DEF AllButTorn, HomeInv, Occupied, InHand
  <2> QED BY <2>1, Steps, PutHome, ThreadHome
<1> QED BY <1>1, <1>2, TypeInvariant, PoolInvariant, PTL DEF Spec

(* Every event that waits can be dispatched to the module that knows it,   *)
(* and every response, sent at once or delayed, goes from the entity that  *)
(* was asked to the one that asked (process_next_event, put_event).        *)
THEOREM ResponsesGoHome == Spec => []AnswersGoHome
<1>1. ASSUME TypeInv, HomeInv PROVE AnswersGoHome
  <2>1. Pending \subseteq Occupied
    BY <1>1, WaitingElems DEF TypeInv, Occupied, Moving, InHand
  <2>2. \A s \in Pending : Endpoints(slot[s])
    BY <1>1, <2>1 DEF TypeInv, EndpointsExist, Occupied
  <2> QED BY <1>1, <2>1, <2>2
          DEF AnswersGoHome, HomeInv, Answering, Addressed, Endpoints
<1> QED BY <1>1, TypeInvariant, HomeInvariant, PTL

(***************************************************************************)
(* Stages of a request                                                     *)
(***************************************************************************)

(* The stages a request can be at, one at a time.                          *)
OwedFor(r) == {o \in owed : o.request = r}
Closed == answered \cup lost
Stage(r) ==
  \/ (\E s : Carriers(r) = {s}) /\ OwedFor(r) = {} /\ r \notin Closed
  \/ Carriers(r) = {} /\ (\E o : OwedFor(r) = {o}) /\ r \notin Closed
  \/ Carriers(r) = {} /\ OwedFor(r) = {} /\ r \in answered /\ r \notin lost
  \/ Carriers(r) = {} /\ OwedFor(r) = {} /\ r \notin answered /\ r \in lost

(* Numbers of requests are those of events already put, and every recorded *)
(* request is at one stage.                                                *)
NumbersUsed ==
  /\ \A s \in Occupied : slot[s].request <= clock
  /\ \A o \in owed : o.request <= clock
  /\ \A a \in asked : a.request <= clock
  /\ \A n \in Closed : n <= clock
StageInv == NumbersUsed /\ \A a \in asked : Stage(a.request)

(* What stands for a request, without sequences.                           *)
Served == IF Serving THEN {current} ELSE {}
Stands(e, r) == e.request = r /\ (e.responseRequested \/ e.isResponse)
Holders == Elems(queue) \cup Moving \cup Elems(isrQueue) \cup Served

LEMMA CarriersOf ==
  ASSUME TypeInv, NEW r
  PROVE  /\ Carriers(r) = {s \in Holders : Stands(slot[s], r)}
         /\ Holders \subseteq Occupied
<1>1. Pending = Elems(queue) \cup Moving \cup Elems(isrQueue)
  BY WaitingElems DEF TypeInv
<1>2. Carriers(r) = {s \in Holders : Stands(slot[s], r)}
  BY <1>1 DEF Carriers, Holders, Served, Stands
<1>3. Served \subseteq InHand
  BY DEF Served, Serving, TypeInv, HandsMatchPhase, InHand
<1> QED BY <1>2, <1>3 DEF Holders, Occupied, Moving, InHand

(* put_event adds the structure it fills to the holders, and takes none    *)
(* away but the event just responded to.                                   *)
LEMMA PutEventStands ==
  ASSUME TypeInv, TypeInv', WholePool, NEW e \in Event,
         NEW context \in Contexts, HandFree(context), PutEvent(e, context),
         UNCHANGED current, NEW r
  PROVE  LET h == Head(free)
             added == IF Stands(Stored(e, context), r) THEN {h} ELSE {}
         IN /\ h \notin Occupied
            /\ Served' = Served
                 => Carriers(r)' = Carriers(r) \cup added
            /\ Served' = {}
                 => Carriers(r)' = (Carriers(r) \ Served) \cup added
<1> DEFINE h == Head(free)
<1>1. /\ h \notin Occupied
      /\ slot'[h] = Stored(e, context)
      /\ \A s \in Occupied : slot'[s] = slot[s]
  BY PutEventFills
<1>2. Queued' \cup Moving' = {h} \cup Queued \cup Moving
  BY PutEventQueues DEF TypeInv
<1> HIDE DEF h
<1>3. /\ Carriers(r) = {s \in Holders : Stands(slot[s], r)}
      /\ Holders \subseteq Occupied
      /\ Carriers(r)' = {s \in Holders' : Stands(slot'[s], r)}
  <2>1. (Carriers(r) = {s \in Holders : Stands(slot[s], r)})'
    BY CarriersOf, PTL
  <2> QED BY CarriersOf, <2>1
<1>4. Holders' = Queued \cup {h} \cup Moving \cup Served'
  <2>1. Holders' = Queued' \cup Moving' \cup Served'
    BY DEF Holders, Queued
  <2> QED BY <1>2, <2>1
<1>5. Holders = Queued \cup Moving \cup Served
  BY DEF Holders, Queued
<1>6. Served \cap (Queued \cup Moving) = {}
  <2>1. CASE Serving
    <3>1. Served = {current} /\ current # None
      BY <2>1 DEF Served, Serving, TypeInv, HandsMatchPhase
    <3>2. moving # current /\ current \in InHand
      BY <3>1 DEF WholePool, InHand
    <3> QED BY <3>1, <3>2 DEF WholePool, Queued, Moving
  <2> QED BY <2>1 DEF Served
<1>7. \A s \in Holders : s # h /\ (Stands(slot'[s], r) <=> Stands(slot[s], r))
  BY <1>1, <1>3
<1>8. Stands(slot'[h], r) <=> Stands(Stored(e, context), r)
  BY <1>1
<1>9. ASSUME Served' = Served
      PROVE  Carriers(r)' = Carriers(r) \cup
                 (IF Stands(Stored(e, context), r) THEN {h} ELSE {})
  <2>1. Holders' = Holders \cup {h}
    BY <1>4, <1>5, <1>9
  <2> HIDE DEF Carriers, Stands, Holders, Served
  <2> QED BY <1>3, <1>7, <1>8, <2>1
<1>10. ASSUME Served' = {}
      PROVE  Carriers(r)' = (Carriers(r) \ Served) \cup
                 (IF Stands(Stored(e, context), r) THEN {h} ELSE {})
  <2>1. Holders' = (Holders \ Served) \cup {h}
    BY <1>4, <1>5, <1>6, <1>10
  <2> QED BY <1>3, <1>7, <1>8, <2>1
<1> QED BY <1>1, <1>9, <1>10 DEF h

LEMMA FreshNumber ==
  ASSUME TypeInv, StageInv
  PROVE  Carriers(clock + 1) = {} /\ OwedFor(clock + 1) = {}
         /\ clock + 1 \notin Closed
<1>1. clock \in Nat
  BY DEF TypeInv, TypeOK
<1>2. \A s \in Occupied : slot[s].request # clock + 1
  BY <1>1 DEF StageInv, NumbersUsed
<1>3. Carriers(clock + 1) = {}
  BY <1>2, CarriersOf DEF Stands
<1>4. OwedFor(clock + 1) = {} /\ clock + 1 \notin Closed
  BY <1>1 DEF StageInv, NumbersUsed, OwedFor
<1> QED BY <1>3, <1>4

(* put_event uses no number but the next one.                              *)
LEMMA PutEventNumbers ==
  ASSUME TypeInv, WholePool, StageInv, NEW e \in Event,
         NEW context \in Contexts, HandFree(context), PutEvent(e, context),
         UNCHANGED current,
         e.isResponse => e.request <= clock,
         owed' \subseteq owed, Closed' \subseteq Closed,
         \A a \in asked' : a \in asked \/ a.request = clock + 1
  PROVE  NumbersUsed'
<1> DEFINE h == Head(free)
           c == Stored(e, context)
<1>1. /\ Occupied' = Occupied \cup {h}
      /\ slot'[h] = c /\ Occupied \subseteq Slots
      /\ \A s \in Occupied : slot'[s] = slot[s]
      /\ clock' = clock + 1
  BY PutEventFills
<1>2. /\ c \in Event
      /\ e.isResponse => c.request = e.request
      /\ ~e.isResponse => c.request = clock + 1
  BY StoredFields DEF TypeInv
<1> HIDE DEF h, c
<1>3. /\ clock \in Nat
      /\ \A s \in Occupied : slot[s].request \in Nat
      /\ \A o \in owed : o.request \in Nat
      /\ \A a \in asked : a.request \in Nat
      /\ \A n \in Closed : n \in Nat
  BY <1>1 DEF TypeInv, TypeOK, Event, Closed
<1>4. c.request <= clock'
  <2>1. e.request \in Nat
    BY DEF Event
  <2> QED BY <1>1, <1>2, <1>3, <2>1
<1>5. \A s \in Occupied' : slot'[s].request <= clock'
  <2> SUFFICES ASSUME NEW s \in Occupied' PROVE slot'[s].request <= clock'
    OBVIOUS
  <2>1. CASE s = h
    BY <1>1, <1>4, <2>1
  <2>2. CASE s \in Occupied
    BY <1>1, <1>3, <2>2 DEF StageInv, NumbersUsed
  <2> QED BY <1>1, <2>1, <2>2
<1>6. /\ \A o \in owed' : o.request <= clock'
      /\ \A n \in Closed' : n <= clock'
  BY <1>1, <1>3 DEF StageInv, NumbersUsed
<1>7. \A a \in asked' : a.request <= clock'
  BY <1>1, <1>3 DEF StageInv, NumbersUsed
<1> QED BY <1>5, <1>6, <1>7 DEF NumbersUsed

LEMMA PutStage ==
  ASSUME TypeInv, TypeInv', WholePool, HomeInv, StageInv,
         NEW context \in Contexts, ModuleStep(context)
  PROVE  StageInv'
<1> PICK e \in Event :
      /\ Endpoints(e) /\ HandFree(context) /\ PutEvent(e, context)
      /\ NewEvent(e) \/ DelayedAnswer(e)
      /\ UNCHANGED <<current, phase, answered, lost>>
  BY ModulePuts
<1> DEFINE h == Head(free)
           c == Stored(e, context)
           added(r) == IF Stands(c, r) THEN {h} ELSE {}
<1>1. /\ c \in Event
      /\ c.isResponse = e.isResponse
      /\ c.responseRequested = e.responseRequested
      /\ e.isResponse => c.request = e.request
      /\ ~e.isResponse => c.request = clock + 1
  BY StoredFields DEF TypeInv
<1>2. /\ Occupied \subseteq Slots
      /\ \A s \in Occupied : slot'[s] = slot[s]
      /\ clock \in Nat
  BY PutEventFills DEF TypeInv, TypeOK
<1>3. Served' = Served
  <2>1. CASE phase = "handler" \/ phase = "respond"
    <3>1. current \in Occupied
      BY <2>1 DEF TypeInv, HandsMatchPhase, Occupied, InHand
    <3> QED BY <1>2, <3>1 DEF Served, Serving
  <2> QED BY <2>1 DEF Served, Serving
<1>4. \A r : Carriers(r)' = Carriers(r) \cup added(r)
  <2> SUFFICES ASSUME NEW r PROVE Carriers(r)' = Carriers(r) \cup added(r)
    OBVIOUS
  <2> QED BY <1>3, PutEventStands
<1>5. Closed' = Closed
  BY DEF Closed
<1> HIDE DEF c, h, added
<1>6. CASE NewEvent(e)
  <2>1. /\ ~e.isResponse /\ owed' = owed
        /\ \A a \in asked' : a \in asked
             \/ (a.request = clock + 1 /\ e.responseRequested)
    BY <1>6 DEF NewEvent, AsksFor
  <2>2. NumbersUsed'
    BY <1>5, <2>1, PutEventNumbers
  <2>3. ASSUME NEW a \in asked PROVE Stage(a.request)'
    <3>1. a.request # clock + 1
      BY <1>2 DEF StageInv, NumbersUsed, TypeInv, TypeOK
    <3>2. added(a.request) = {}
      BY <1>1, <2>1, <3>1 DEF added, Stands
    <3>3. /\ Carriers(a.request)' = Carriers(a.request)
          /\ OwedFor(a.request)' = OwedFor(a.request)
      BY <1>4, <2>1, <3>2 DEF OwedFor
    <3> QED BY <1>5, <3>3 DEF StageInv, Stage
  <2>4. ASSUME NEW n, n = clock + 1, e.responseRequested PROVE Stage(n)'
    <3>1. added(n) = {h}
      BY <1>1, <2>1, <2>4 DEF added, Stands
    <3>2. Carriers(n)' = {h} /\ OwedFor(n)' = {} /\ n \notin Closed'
      BY <1>4, <1>5, <2>1, <2>4, <3>1, FreshNumber DEF OwedFor
    <3> QED BY <3>2 DEF Stage
  <2> QED BY <2>1, <2>2, <2>3, <2>4 DEF StageInv
<1>7. CASE DelayedAnswer(e)
  <2> PICK o \in owed :
        e = ResponseTo(o) /\ owed' = owed \ {o} /\ asked' = asked
    BY <1>7 DEF DelayedAnswer
  <2>1. o \in Event /\ o.request <= clock
    BY DEF TypeInv, TypeOK, StageInv, NumbersUsed
  <2>2. e.isResponse /\ e.request = o.request
    BY <2>1, ResponseFields
  <2>3. NumbersUsed'
    BY <1>5, <2>1, <2>2, PutEventNumbers
  <2>4. ASSUME NEW a \in asked PROVE Stage(a.request)'
    <3> DEFINE r == a.request
    <3>1. CASE r = o.request
      <4>1. o \in OwedFor(r)
        BY <3>1 DEF OwedFor
      <4>2. Carriers(r) = {} /\ OwedFor(r) = {o} /\ r \notin Closed
        BY <4>1 DEF StageInv, Stage
      <4>3. added(r) = {h}
        BY <1>1, <2>2, <3>1 DEF added, Stands
      <4>4. Carriers(r)' = {h} /\ OwedFor(r)' = {} /\ r \notin Closed'
        BY <1>4, <1>5, <4>2, <4>3 DEF OwedFor
      <4> QED BY <4>4 DEF Stage
    <3>2. CASE r # o.request
      <4>1. added(r) = {}
        BY <1>1, <2>2, <3>2 DEF added, Stands
      <4>2. Carriers(r)' = Carriers(r) /\ OwedFor(r)' = OwedFor(r)
        BY <1>4, <3>2, <4>1 DEF OwedFor
      <4> QED BY <1>5, <4>2 DEF StageInv, Stage
    <3> QED BY <3>1, <3>2
  <2> QED BY <2>3, <2>4 DEF StageInv
<1> QED BY <1>6, <1>7

(* A step that changes no structure changes what stands for a request only *)
(* through the holders, and no number.                                     *)
LEMMA SameSlots ==
  ASSUME TypeInv, TypeInv', slot' = slot, NEW r
  PROVE  /\ Carriers(r) = {s \in Holders : Stands(slot[s], r)}
         /\ Carriers(r)' = {s \in Holders' : Stands(slot[s], r)}
<1>1. (Carriers(r) = {s \in Holders : Stands(slot[s], r)})'
  BY CarriersOf, PTL
<1> QED BY <1>1, CarriersOf

LEMMA SameNumbers ==
  ASSUME StageInv, UNCHANGED <<slot, clock, asked>>,
         Occupied' \subseteq Occupied,
         \A o \in owed' : o.request <= clock,
         \A n \in Closed' : n <= clock
  PROVE  NumbersUsed'
BY DEF StageInv, NumbersUsed

LEMMA SameHolders ==
  ASSUME TypeInv, TypeInv', StageInv, Holders' = Holders,
         Occupied' \subseteq Occupied,
         UNCHANGED <<slot, clock, asked, owed, answered, lost>>
  PROVE  StageInv'
<1>1. Closed' = Closed
  BY DEF Closed
<1>2. NumbersUsed'
  BY <1>1, SameNumbers DEF StageInv, NumbersUsed
<1>3. \A r : Carriers(r)' = Carriers(r) /\ OwedFor(r)' = OwedFor(r)
  BY SameSlots DEF OwedFor
<1> QED BY <1>1, <1>2, <1>3 DEF StageInv, Stage

LEMMA TakeEventStage ==
  ASSUME TypeInv, TypeInv', WholePool, HomeInv, StageInv, TakeEvent
  PROVE  StageInv'
<1> DEFINE h == Head(queue)
           e == slot[h]
<1>1. /\ Elems(queue) = {h} \cup Elems(queue') /\ h \notin Elems(queue')
      /\ h \in Slots /\ h # None
      /\ phase = "loop" /\ moving = None /\ current = None /\ current' = h
      /\ phase' = "handler"
      /\ UNCHANGED <<isrQueue, moving, slot, clock, asked, owed, lost>>
      /\ answered' = IF e.isResponse THEN answered \cup {e.request}
                                     ELSE answered
  BY TailElems, ThreadAssumption
     DEF TakeEvent, TypeInv, TypeOK, HandsMatchPhase, WholePool
<1> HIDE DEF h
<1>2. h \notin Elems(isrQueue)
  BY <1>1 DEF WholePool
<1>3. Occupied' = Occupied /\ Moving = {} /\ Moving' = {} /\ Served = {}
  BY <1>1 DEF Occupied, InHand, Moving, Served, Serving
<1>4. e \in Event /\ h \in Occupied /\ e.request <= clock
  BY <1>1 DEF TypeInv, TypeOK, Occupied, StageInv, NumbersUsed
<1>5. CASE ~e.isResponse
  <2>1. Served' = {h}
    BY <1>1, <1>5 DEF Served, Serving
  <2>2. Holders' = Holders /\ answered' = answered
    BY <1>1, <1>3, <1>5, <2>1 DEF Holders
  <2> QED BY <1>1, <1>3, <2>2, SameHolders
<1>6. CASE e.isResponse
  <2>1. Served' = {}
    BY <1>1, <1>6 DEF Served, Serving
  <2>2. Holders' = Holders \ {h}
    BY <1>1, <1>2, <1>3, <2>1 DEF Holders
  <2>3. h \in Holders /\ Stands(e, e.request)
    BY <1>1, <1>6 DEF Holders, Stands
  <2>4. /\ Closed' = Closed \cup {e.request}
        /\ answered' = answered \cup {e.request}
    BY <1>1, <1>6 DEF Closed
  <2>5. NumbersUsed'
    BY <1>1, <1>3, <1>4, <2>4, SameNumbers DEF StageInv, NumbersUsed
  <2>6. ASSUME NEW a \in asked PROVE Stage(a.request)'
    <3> DEFINE r == a.request
    <3>1. /\ Carriers(r)' = Carriers(r) \ {h} /\ OwedFor(r)' = OwedFor(r)
          /\ h \in Carriers(r) <=> r = e.request
      BY <1>1, <1>6, <2>2, <2>3, SameSlots DEF OwedFor, Stands
    <3>2. CASE r = e.request
      <4>1. Carriers(r) = {h} /\ OwedFor(r) = {} /\ r \notin Closed
        BY <3>1, <3>2 DEF StageInv, Stage
      <4>2. Carriers(r)' = {} /\ OwedFor(r)' = {}
            /\ r \in answered' /\ r \notin lost'
        BY <1>1, <2>4, <3>1, <3>2, <4>1 DEF Closed
      <4> QED BY <4>2 DEF Stage
    <3>3. CASE r # e.request
      <4>1. Carriers(r)' = Carriers(r) /\ OwedFor(r)' = OwedFor(r)
            /\ (r \in answered' <=> r \in answered) /\ lost' = lost
            /\ (r \in Closed' <=> r \in Closed)
        BY <1>1, <2>4, <3>1, <3>3
      <4> QED BY <4>1 DEF StageInv, Stage
    <3> QED BY <3>2, <3>3
  <2> QED BY <1>1, <2>5, <2>6 DEF StageInv
<1> QED BY <1>5, <1>6

LEMMA HandlerReturnsStage ==
  ASSUME TypeInv, TypeInv', WholePool, HomeInv, StageInv, HandlerReturns
  PROVE  StageInv'
<1> DEFINE e == slot[current]
<1>1. /\ phase = "handler" /\ current # None /\ moving = None
      /\ UNCHANGED <<queues, moving, current, slot, clock, asked, answered,
                     lost>>
  BY DEF HandlerReturns, TypeInv, HandsMatchPhase
<1>2. /\ current \in Occupied /\ current \in InHand
      /\ e \in Event /\ e.request <= clock
      /\ e.isResponse => ~e.responseRequested
  BY <1>1 DEF TypeInv, TypeOK, Occupied, InHand, StageInv, NumbersUsed,
              HomeInv, Answering
<1>3. /\ Occupied' = Occupied /\ Moving' = Moving /\ Moving = {}
      /\ queue' = queue /\ isrQueue' = isrQueue
      /\ current \notin Elems(queue) \cup Elems(isrQueue)
  BY <1>1, <1>2 DEF Occupied, InHand, Moving, queues, WholePool
<1>4. Served = IF e.isResponse THEN {} ELSE {current}
  BY <1>1 DEF Served, Serving
<1>5. CASE ~e.responseRequested /\ phase' = "release" /\ owed' = owed
  <2>1. Served' = {}
    BY <1>5 DEF Served, Serving
  <2>2. \A r : Carriers(r)' = Carriers(r) /\ OwedFor(r)' = OwedFor(r)
    <3> SUFFICES ASSUME NEW r
                 PROVE  Carriers(r)' = Carriers(r) /\ OwedFor(r)' = OwedFor(r)
      OBVIOUS
    <3>1. \A s \in Served : ~Stands(slot[s], r)
      BY <1>4, <1>5 DEF Stands
    <3>2. Carriers(r)' = Carriers(r)
      BY <1>1, <1>3, <2>1, <3>1, SameSlots DEF Holders
    <3> QED BY <1>5, <3>2 DEF OwedFor
  <2>3. Closed' = Closed
    BY <1>1 DEF Closed
  <2>4. NumbersUsed'
    BY <1>1, <1>3, <1>5, <2>3, SameNumbers DEF StageInv, NumbersUsed
  <2> QED BY <1>1, <2>2, <2>3, <2>4 DEF StageInv, Stage
<1>6. CASE e.responseRequested /\ phase' = "respond" /\ owed' = owed
  <2>1. Served' = Served
    BY <1>1, <1>4, <1>6 DEF Served, Serving
  <2>2. Holders' = Holders
    BY <1>1, <1>3, <2>1 DEF Holders
  <2> QED BY <1>1, <1>3, <1>6, <2>2, SameHolders
<1>7. CASE e.responseRequested /\ phase' = "release" /\ owed' = owed \cup {e}
  <2>1. Served = {current} /\ Served' = {}
    BY <1>2, <1>4, <1>7 DEF Served, Serving
  <2>2. Holders' = Holders \ {current} /\ current \in Holders
    BY <1>3, <2>1 DEF Holders
  <2>3. Closed' = Closed
    BY <1>1 DEF Closed
  <2>4. NumbersUsed'
    BY <1>1, <1>2, <1>3, <1>7, <2>3, SameNumbers DEF StageInv, NumbersUsed
  <2>5. ASSUME NEW a \in asked PROVE Stage(a.request)'
    <3> DEFINE r == a.request
    <3>1. /\ Carriers(r)' = Carriers(r) \ {current}
          /\ current \in Carriers(r) <=> r = e.request
      BY <1>1, <1>7, <2>2, SameSlots DEF Stands
    <3>2. CASE r = e.request
      <4>1. Carriers(r) = {current} /\ OwedFor(r) = {} /\ r \notin Closed
        BY <3>1, <3>2 DEF StageInv, Stage
      <4>2. Carriers(r)' = {} /\ OwedFor(r)' = {e} /\ r \notin Closed'
        BY <1>7, <2>3, <3>1, <3>2, <4>1 DEF OwedFor
      <4> QED BY <4>2 DEF Stage
    <3>3. CASE r # e.request
      <4>1. Carriers(r)' = Carriers(r) /\ OwedFor(r)' = OwedFor(r)
        BY <1>7, <3>1, <3>3 DEF OwedFor
      <4> QED BY <1>1, <2>3, <4>1 DEF StageInv, Stage
    <3> QED BY <3>2, <3>3
  <2> QED BY <1>1, <2>4, <2>5 DEF StageInv
<1> QED BY <1>5, <1>6, <1>7 DEF HandlerReturns

LEMMA RespondStage ==
  ASSUME TypeInv, TypeInv', WholePool, HomeInv, StageInv, Respond
  PROVE  StageInv'
<1> DEFINE e == slot[current]
           n == e.request
<1>1. /\ phase = "respond" /\ phase' = "release" /\ current # None
      /\ moving = None /\ HandFree("thread")
      /\ UNCHANGED <<current, asked, owed, answered>>
  BY DEF Respond, HandFree, TypeInv, HandsMatchPhase
<1>2. /\ current \in Occupied /\ current \in InHand
      /\ e \in Event /\ n <= clock
      /\ e.responseRequested /\ ~e.isResponse
  BY <1>1 DEF TypeInv, TypeOK, Occupied, InHand, StageInv, NumbersUsed,
              HomeInv, Answering
<1>3. Served = {current} /\ Served' = {}
  BY <1>1, <1>2 DEF Served, Serving
<1>4. \A r : current \in Carriers(r) <=> r = n
  <2>1. current \in Holders
    BY <1>3 DEF Holders
  <2> QED BY <1>2, <2>1, CarriersOf DEF Stands
<1>5. ASSUME NEW a \in asked, a.request = n
      PROVE  Carriers(n) = {current} /\ OwedFor(n) = {} /\ n \notin Closed
  BY <1>4, <1>5 DEF StageInv, Stage
<1>6. \A r : OwedFor(r)' = OwedFor(r)
  BY <1>1 DEF OwedFor
<1>7. CASE PutEvent(ResponseTo(e), "thread") /\ lost' = lost
  <2> DEFINE x == ResponseTo(e)
             h == Head(free)
             c == Stored(x, "thread")
  <2>1. x \in Event /\ x.isResponse /\ x.request = n
    BY <1>2, ResponseFields
  <2>2. PutEvent(x, "thread") /\ "thread" \in Contexts
    BY <1>7 DEF Contexts
  <2> HIDE DEF x
  <2>3. c.isResponse /\ c.request = n
    BY <2>1, <2>2, StoredFields DEF TypeInv, Event
  <2>4. h \notin Occupied
    BY <1>1, <2>1, <2>2, PutEventStands
  <2>5. \A r : Carriers(r)' = (Carriers(r) \ {current})
                                 \cup (IF Stands(c, r) THEN {h} ELSE {})
    BY <1>1, <1>3, <2>1, <2>2, PutEventStands
  <2>6. \A r : Stands(c, r) <=> r = n
    BY <2>3 DEF Stands
  <2>7. Closed' = Closed
    BY <1>1, <1>7 DEF Closed
  <2>8. NumbersUsed'
    BY <1>1, <1>2, <2>1, <2>2, <2>7, PutEventNumbers
  <2> HIDE DEF h, c, n
  <2>9. ASSUME NEW a \in asked, NEW r, r = a.request PROVE Stage(r)'
    <3>1. CASE r = n
      <4>1. Carriers(r)' = {h} /\ OwedFor(r)' = {} /\ r \notin Closed'
        BY <1>5, <1>6, <2>5, <2>6, <2>7, <2>9, <3>1
      <4> QED BY <4>1 DEF Stage
    <3>2. CASE r # n
      <4>1. Carriers(r)' = Carriers(r) /\ OwedFor(r)' = OwedFor(r)
        BY <1>4, <1>6, <2>5, <2>6, <3>2
      <4> QED BY <1>1, <1>7, <2>7, <2>9, <4>1 DEF StageInv, Stage
    <3> QED BY <3>1, <3>2
  <2> QED BY <1>1, <2>8, <2>9 DEF StageInv
<1>8. CASE UNCHANGED <<queues, moving, slot, clock>> /\ lost' = lost \cup {n}
  <2>1. /\ Occupied' = Occupied /\ Moving' = Moving /\ Moving = {}
        /\ queue' = queue /\ isrQueue' = isrQueue
        /\ current \notin Elems(queue) \cup Elems(isrQueue)
    BY <1>1, <1>2, <1>8 DEF Occupied, InHand, Moving, queues, WholePool
  <2>2. Holders' = Holders \ {current}
    BY <1>3, <2>1 DEF Holders
  <2>3. Closed' = Closed \cup {n}
    BY <1>1, <1>8 DEF Closed
  <2>4. NumbersUsed'
    BY <1>1, <1>2, <1>8, <2>1, <2>3, SameNumbers DEF StageInv, NumbersUsed
  <2>5. \A r : Carriers(r)' = Carriers(r) \ {current}
    BY <1>8, <2>2, SameSlots
  <2>6. lost' = lost \cup {n} /\ slot' = slot
    BY <1>8
  <2> HIDE DEF n
  <2>7. ASSUME NEW a \in asked, NEW r, r = a.request PROVE Stage(r)'
    <3>1. CASE r = n
      <4>1. Carriers(r)' = {} /\ OwedFor(r)' = {}
            /\ r \notin answered' /\ r \in lost'
        BY <1>1, <1>5, <1>6, <2>5, <2>6, <2>7, <3>1 DEF Closed
      <4> QED BY <4>1 DEF Stage
    <3>2. CASE r # n
      <4>1. Carriers(r)' = Carriers(r) /\ OwedFor(r)' = OwedFor(r)
            /\ answered' = answered /\ (r \in lost' <=> r \in lost)
            /\ (r \in Closed' <=> r \in Closed)
        BY <1>1, <1>4, <1>6, <2>3, <2>5, <2>6, <3>2
      <4> QED BY <2>7, <4>1 DEF StageInv, Stage
    <3> QED BY <3>1, <3>2
  <2> QED BY <1>1, <2>4, <2>7 DEF StageInv
<1> QED BY <1>7, <1>8 DEF Respond

LEMMA ThreadStage ==
  ASSUME TypeInv, TypeInv', WholePool, HomeInv, StageInv, ThreadStep
  PROVE  StageInv'
<1>1. CASE EnterLoop
  <2>1. /\ UNCHANGED <<queues, moving, current, slot, clock, history>>
        /\ phase = "boot" /\ phase' = "loop"
    BY <1>1 DEF EnterLoop
  <2>2. Occupied' = Occupied /\ Holders' = Holders
    BY <2>1 DEF Occupied, InHand, Holders, Moving, Served, Serving, queues
  <2> QED BY <2>1, <2>2, SameHolders DEF history
<1>2. CASE TakeEvent
  BY <1>2, TakeEventStage
<1>3. CASE HandlerReturns
  BY <1>3, HandlerReturnsStage
<1>4. CASE Respond
  BY <1>4, RespondStage
<1>5. CASE Release
  <2>1. /\ UNCHANGED <<queue, isrQueue, moving, slot, clock, history>>
        /\ phase = "release" /\ phase' = "loop" /\ current' = None
    BY <1>5 DEF Release
  <2>2. Occupied' \subseteq Occupied /\ Holders' = Holders
    BY <2>1 DEF Occupied, InHand, Holders, Moving, Served, Serving
  <2> QED BY <2>1, <2>2, SameHolders DEF history
<1>6. CASE PopIsrEvent
  <2>1. /\ Elems(isrQueue) = {Head(isrQueue)} \cup Elems(isrQueue')
        /\ moving = None /\ moving' = Head(isrQueue) /\ phase = "loop"
        /\ Head(isrQueue) # None
        /\ UNCHANGED <<queue, current, phase, slot, clock, history>>
    BY <1>6, TailElems, ThreadAssumption DEF PopIsrEvent, TypeInv, TypeOK
  <2>2. Occupied' \subseteq Occupied /\ Holders' = Holders
    BY <2>1 DEF Occupied, InHand, Holders, Moving, Served, Serving
  <2> QED BY <2>1, <2>2, SameHolders DEF history
<1>7. CASE PushIsrEvent \/ PushEvent
  <2>1. /\ queue' = Append(queue, moving) /\ moving # None
        /\ moving' = None /\ moving \in Slots
        /\ UNCHANGED <<isrQueue, current, phase, slot, clock, history>>
    BY <1>7 DEF PushIsrEvent, PushEvent, TypeInv, TypeOK
  <2>3. Elems(queue') = Elems(queue) \cup {moving}
    BY <2>1, AppendElems DEF TypeInv, TypeOK
  <2>2. Occupied' \subseteq Occupied /\ Holders' = Holders
    BY <2>1, <2>3 DEF Occupied, InHand, Holders, Moving, Served, Serving
  <2> QED BY <2>1, <2>2, SameHolders DEF history
<1> QED BY <1>1, <1>2, <1>3, <1>4, <1>5, <1>6, <1>7 DEF ThreadStep

LEMMA StageInvariant == Spec => []StageInv
<1>1. ThreadInit => StageInv
  BY DEF ThreadInit, StageInv, NumbersUsed, Occupied, InHand, Elems, Closed
<1>2. TypeInv /\ TypeInv' /\ WholePool /\ HomeInv /\ StageInv
        /\ [Next]_vars => StageInv'
  <2> SUFFICES ASSUME TypeInv, TypeInv', WholePool, HomeInv, StageInv,
                      [Next]_vars
               PROVE  StageInv'
    OBVIOUS
  <2>1. CASE UNCHANGED AllButTorn
    <3>1. Occupied' = Occupied /\ Holders' = Holders
      BY <2>1 DEF AllButTorn, Occupied, InHand, Holders, Moving, Served, Serving
    <3> QED BY <2>1, <3>1, SameHolders DEF AllButTorn
  <2> QED BY <2>1, Steps, PutStage, ThreadStage
<1> QED BY <1>1, <1>2, TypeInvariant, PoolInvariant, HomeInvariant, PTL
        DEF Spec

(* No request for a response is answered twice, and none disappears: it    *)
(* waits, is handled, is delayed, has its response waiting, is answered,   *)
(* or has lost its response for want of a structure.                       *)
THEOREM RequestsTracked == Spec => []OneStagePerRequest
<1>1. ASSUME StageInv PROVE OneStagePerRequest
  <2> SUFFICES ASSUME NEW a \in asked, NEW r, r = a.request
               PROVE  Cardinality(Carriers(r)) + Cardinality(OwedFor(r))
                        + Cardinality({r} \cap answered)
                        + Cardinality({r} \cap lost) = 1
    BY DEF OneStagePerRequest, OwedFor
  <2>1. Stage(r)
    BY <1>1 DEF StageInv
  <2>2. \A S : (S = {} => Cardinality(S) = 0)
               /\ ((\E x : S = {x}) => Cardinality(S) = 1)
    BY FS_EmptySet, FS_Singleton, Zenon
  <2>3. /\ Cardinality({r} \cap answered) = IF r \in answered THEN 1 ELSE 0
        /\ Cardinality({r} \cap lost) = IF r \in lost THEN 1 ELSE 0
    <3>1. \A S : {r} \cap S = IF r \in S THEN {r} ELSE {}
      OBVIOUS
    <3> QED BY <2>2, <3>1
  <2>4. CASE /\ \E s : Carriers(r) = {s}
             /\ OwedFor(r) = {} /\ r \notin Closed
    <3>1. Cardinality(Carriers(r)) = 1 /\ Cardinality(OwedFor(r)) = 0
      BY <2>2, <2>4
    <3> QED BY <2>3, <2>4, <3>1 DEF Closed
  <2>5. CASE /\ Carriers(r) = {} /\ \E o : OwedFor(r) = {o}
             /\ r \notin Closed
    <3>1. Cardinality(Carriers(r)) = 0 /\ Cardinality(OwedFor(r)) = 1
      BY <2>2, <2>5
    <3> QED BY <2>3, <2>5, <3>1 DEF Closed
  <2>6. CASE /\ Carriers(r) = {} /\ OwedFor(r) = {}
             /\ (r \in answered) # (r \in lost)
    <3>1. Cardinality(Carriers(r)) = 0 /\ Cardinality(OwedFor(r)) = 0
      BY <2>2, <2>6
    <3> QED BY <2>3, <2>6, <3>1
  <2> QED BY <2>1, <2>4, <2>5, <2>6 DEF Stage
<1> QED BY <1>1, StageInvariant, PTL

(***************************************************************************)
(* Responses that are not lost                                             *)
(***************************************************************************)

(* As many structures are in a queue as it is long.                        *)
LEMMA QueueLength ==
  ASSUME NEW S, NEW q \in Seq(S), Distinct(q)
  PROVE  IsFiniteSet(Elems(q)) /\ Cardinality(Elems(q)) = Len(q)
<1>1. Len(q) \in Nat /\ q \in [1..Len(q) -> S] /\ DOMAIN q = 1..Len(q)
  OBVIOUS
<1>2. q \in Bijection(1..Len(q), Elems(q))
  <2>1. q \in [1..Len(q) -> Elems(q)]
    BY <1>1 DEF Elems
  <2>2. \A i, j \in 1..Len(q) : q[i] = q[j] => i = j
    BY <1>1 DEF Distinct
  <2>3. \A s \in Elems(q) : \E i \in 1..Len(q) : q[i] = s
    BY <1>1 DEF Elems
  <2> QED BY <2>1, <2>2, <2>3, Zenon
          DEF Bijection, Injection, Surjection, IsInjective
<1>3. ExistsBijection(1..Len(q), Elems(q))
  BY <1>2 DEF ExistsBijection
<1> QED BY <1>1, <1>3, FS_NatBijection, FS_CountingElements

(* InUse counts the structures that are not free.                          *)
LEMMA OccupiedCount ==
  ASSUME TypeInv, WholePool
  PROVE  /\ IsFiniteSet(Occupied) /\ Cardinality(Occupied) = InUse
         /\ InUse \in Nat
<1>1. /\ IsFiniteSet(Elems(queue)) /\ Cardinality(Elems(queue)) = Len(queue)
      /\ IsFiniteSet(Elems(isrQueue))
      /\ Cardinality(Elems(isrQueue)) = Len(isrQueue)
      /\ Len(queue) \in Nat /\ Len(isrQueue) \in Nat
  BY QueueLength DEF TypeInv, TypeOK, WholePool
<1> DEFINE m == IF moving = None THEN 0 ELSE 1
           c == IF current = None THEN 0 ELSE 1
           A == Elems(queue) \cup Elems(isrQueue)
<1>2. IsFiniteSet(InHand) /\ Cardinality(InHand) = m + c
  <2>1. CASE moving = None /\ current = None
    <3>1. InHand = {}
      BY <2>1 DEF InHand
    <3> QED BY <2>1, <3>1, FS_EmptySet
  <2>2. CASE moving # None /\ current = None
    <3>1. InHand = {moving}
      BY <2>2 DEF InHand
    <3>2. IsFiniteSet({moving}) /\ Cardinality({moving}) = 1
      BY FS_Singleton, Zenon
    <3> QED BY <2>2, <3>1, <3>2
  <2>3. CASE moving = None /\ current # None
    <3>1. InHand = {current}
      BY <2>3 DEF InHand
    <3>2. IsFiniteSet({current}) /\ Cardinality({current}) = 1
      BY FS_Singleton, Zenon
    <3> QED BY <2>3, <3>1, <3>2
  <2>4. CASE moving # None /\ current # None
    <3>1. InHand = {moving} \cup {current} /\ current \notin {moving}
      BY <2>4 DEF InHand, WholePool
    <3>2. IsFiniteSet({moving}) /\ Cardinality({moving}) = 1
      BY FS_Singleton, Zenon
    <3>3. /\ IsFiniteSet({moving} \cup {current})
          /\ Cardinality({moving} \cup {current}) = Cardinality({moving}) + 1
      BY <3>1, <3>2, FS_AddElement
    <3> QED BY <2>4, <3>1, <3>2, <3>3
  <2> QED BY <2>1, <2>2, <2>3, <2>4
<1>3. IsFiniteSet(A) /\ Cardinality(A) = Len(queue) + Len(isrQueue)
  <2>1. Elems(queue) \cap Elems(isrQueue) = {}
    BY DEF WholePool
  <2>2. /\ IsFiniteSet(A)
        /\ Cardinality(A) = Cardinality(Elems(queue))
             + Cardinality(Elems(isrQueue))
             - Cardinality(Elems(queue) \cap Elems(isrQueue))
    BY <1>1, FS_Union
  <2>3. Cardinality(Elems(queue) \cap Elems(isrQueue)) = 0
    BY <2>1, FS_EmptySet
  <2> HIDE DEF A
  <2> QED BY <1>1, <2>2, <2>3
<1>4. A \cap InHand = {} /\ Occupied = A \cup InHand
  BY DEF WholePool, Occupied
<1>5. /\ IsFiniteSet(A \cup InHand)
      /\ Cardinality(A \cup InHand)
           = Cardinality(A) + Cardinality(InHand) - Cardinality(A \cap InHand)
  BY <1>2, <1>3, FS_Union
<1>6. Cardinality(A \cap InHand) = 0
  BY <1>4, FS_EmptySet
<1>7. m \in Nat /\ c \in Nat /\ InUse = Len(queue) + Len(isrQueue) + m + c
  BY DEF InUse
<1> HIDE DEF A, m, c
<1> QED BY <1>1, <1>2, <1>3, <1>4, <1>5, <1>6, <1>7

(* put_event uses one structure more.                                      *)
LEMMA PutEventUses ==
  ASSUME TypeOK, NEW e, NEW context, HandFree(context), PutEvent(e, context),
         UNCHANGED current
  PROVE  InUse' = InUse + 1
<1>1. /\ Head(free) \in Slots /\ Head(free) # None
      /\ Len(queue) \in Nat /\ Len(isrQueue) \in Nat
      /\ Len(Append(isrQueue, Head(free))) = Len(isrQueue) + 1
  BY PutEventQueues DEF TypeOK
<1>2. CASE context = "isr"
  <2>1. /\ queue' = queue /\ moving' = moving /\ current' = current
        /\ isrQueue' = Append(isrQueue, Head(free))
    BY <1>2 DEF PutEvent
  <2>2. Len(isrQueue') = Len(isrQueue) + 1
    BY <1>1, <2>1, Zenon
  <2> QED BY ONLY <1>1, <2>1, <2>2 DEF InUse
<1>3. CASE context # "isr"
  BY <1>1, <1>3 DEF PutEvent, HandFree, InUse
<1> QED BY <1>2, <1>3

(* Modules keep to Outstanding structures; the response the thread sends   *)
(* on its own may take one more, until it releases the request.            *)
Dimensioned ==
  InUse <= Outstanding + (IF phase = "release" THEN 1 ELSE 0)

LEMMA ThreadDimensioned ==
  ASSUME TypeInv, WholePool, Dimensioned, ThreadStep
  PROVE  Dimensioned'
<1> DEFINE m == IF moving = None THEN 0 ELSE 1
           c == IF current = None THEN 0 ELSE 1
<1>1. /\ queue \in Seq(Slots) /\ isrQueue \in Seq(Slots)
      /\ Len(queue) \in Nat /\ Len(isrQueue) \in Nat
      /\ Outstanding \in Nat
      /\ moving \in Slots \cup {None} /\ current \in Slots \cup {None}
  BY ThreadAssumption DEF TypeInv, TypeOK
<1>2. /\ phase \in {"handler", "respond", "release"} <=> current # None
      /\ None \notin Slots
  BY ThreadAssumption DEF TypeInv, HandsMatchPhase
<1>3. CASE EnterLoop \/ HandlerReturns
  BY <1>1, <1>3 DEF EnterLoop, HandlerReturns, queues, Dimensioned, InUse
<1>4. CASE TakeEvent
  <2>1. /\ phase = "loop" /\ phase' = "handler" /\ current = None
        /\ moving' = moving /\ isrQueue' = isrQueue
        /\ Head(queue) \in Slots /\ Len(Tail(queue)) = Len(queue) - 1
        /\ queue' = Tail(queue) /\ current' = Head(queue)
    BY <1>1, <1>2, <1>4 DEF TakeEvent
  <2>2. /\ Len(queue') = Len(queue) - 1 /\ current' # None
        /\ Len(queue) \in Nat /\ Len(isrQueue) \in Nat
        /\ current = None /\ moving' = moving /\ isrQueue' = isrQueue
    BY <1>1, <1>2, <2>1, Zenon
  <2>3. InUse' = InUse
    BY ONLY <2>2 DEF InUse
  <2> QED BY <2>1, <2>3 DEF Dimensioned
<1>5. CASE Respond
  <2>1. /\ phase = "respond" /\ phase' = "release" /\ current' = current
        /\ moving = None
    BY <1>5 DEF Respond, TypeInv, HandsMatchPhase
  <2>2. InUse \in Nat
    BY OccupiedCount
  <2>3. CASE PutEvent(ResponseTo(slot[current]), "thread")
    <3>1. InUse' = InUse + 1
      BY <2>1, <2>3, PutEventUses DEF TypeInv, HandFree
    <3> HIDE DEF m, c
    <3> QED BY <1>1, <2>1, <2>2, <3>1 DEF Dimensioned
  <2>4. CASE UNCHANGED <<queues, moving, slot, clock>>
    <3>1. InUse' = InUse
      BY <2>1, <2>4 DEF InUse, queues
    <3> QED BY <1>1, <2>1, <2>2, <3>1 DEF Dimensioned
  <2> QED BY <1>5, <2>3, <2>4 DEF Respond
<1>6. CASE Release
  <2>1. /\ phase = "release" /\ phase' = "loop" /\ current # None
        /\ current' = None /\ queue' = queue /\ isrQueue' = isrQueue
        /\ moving' = moving
    BY <1>2, <1>6 DEF Release
  <2> QED BY <1>1, <2>1 DEF Dimensioned, InUse
<1>7. CASE PopIsrEvent
  <2>1. /\ phase' = phase /\ current' = current /\ moving = None
        /\ queue' = queue /\ moving' = Head(isrQueue)
        /\ Head(isrQueue) \in Slots
        /\ isrQueue' = Tail(isrQueue)
        /\ Len(Tail(isrQueue)) = Len(isrQueue) - 1
    BY <1>1, <1>7 DEF PopIsrEvent
  <2>2. /\ Len(isrQueue') = Len(isrQueue) - 1 /\ moving' # None
        /\ Len(queue) \in Nat /\ Len(isrQueue) \in Nat
        /\ moving = None /\ current' = current /\ queue' = queue
    BY <1>1, <1>2, <2>1, Zenon
  <2>3. InUse' = InUse
    BY ONLY <2>2 DEF InUse
  <2> QED BY <2>1, <2>3 DEF Dimensioned
<1>8. CASE PushIsrEvent \/ PushEvent
  <2>1. /\ phase' = phase /\ current' = current /\ isrQueue' = isrQueue
        /\ moving # None /\ moving' = None /\ moving \in Slots
        /\ queue' = Append(queue, moving)
    BY <1>1, <1>8 DEF PushIsrEvent, PushEvent
  <2>2. Len(queue') = Len(queue) + 1
    BY <1>1, <2>1
  <2> QED BY <1>1, <2>1, <2>2 DEF Dimensioned, InUse
<1> QED BY <1>3, <1>4, <1>5, <1>6, <1>7, <1>8 DEF ThreadStep

LEMMA WithinPool == Spec => []Dimensioned
<1>1. ThreadInit => Dimensioned
  BY ThreadAssumption DEF ThreadInit, Dimensioned, InUse
<1>2. TypeInv /\ WholePool /\ Dimensioned /\ [Next]_vars => Dimensioned'
  <2> SUFFICES ASSUME TypeInv, WholePool, Dimensioned, [Next]_vars
               PROVE  Dimensioned'
    OBVIOUS
  <2>1. ASSUME NEW context \in Contexts, ModuleStep(context)
        PROVE  Dimensioned'
    <3>1. PICK e \in Event :
            /\ HandFree(context) /\ PutEvent(e, context) /\ WithinLimits
            /\ UNCHANGED <<current, phase>>
      BY <2>1, ModulePuts
    <3>2. InUse' = InUse + 1
      BY <3>1, PutEventUses DEF TypeInv
    <3>3. InUse \in Nat /\ Outstanding \in Nat
      BY OccupiedCount, ThreadAssumption
    <3> QED BY <3>1, <3>2, <3>3 DEF Dimensioned, WithinLimits
  <2>2. CASE UNCHANGED AllButTorn
    BY <2>2 DEF AllButTorn, Dimensioned, InUse
  <2> QED BY <2>1, <2>2, Steps, ThreadDimensioned
<1> QED BY <1>1, <1>2, TypeInvariant, PoolInvariant, PTL DEF Spec

(* If no structure is free every one is in use.                            *)
LEMMA PoolEmpty ==
  ASSUME TypeInv, WholePool, free = <<>>
  PROVE  Cardinality(Slots) = InUse
<1>1. Elems(free) = {}
  BY DEF Elems
<1>2. Slots = Occupied
  BY <1>1 DEF WholePool, Occupied
<1> QED BY <1>2, OccupiedCount

(* With more structures than modules ever have outstanding, the response   *)
(* that process_next_event sends on its own always finds a structure, for  *)
(* however long the system runs: the status of put_event, which it         *)
(* ignores, would be success.                                              *)
THEOREM ResponsesNeverLost == Spec => []NoAnswerLost
<1>1. ThreadInit => NoAnswerLost
  BY DEF ThreadInit, NoAnswerLost
<1>2. TypeInv /\ WholePool /\ Dimensioned /\ NoAnswerLost /\ [Next]_vars
        => NoAnswerLost'
  <2> SUFFICES ASSUME TypeInv, WholePool, Dimensioned, NoAnswerLost,
                      [Next]_vars, Cardinality(Slots) > Outstanding
               PROVE  lost' = {}
    BY DEF NoAnswerLost
  <2>1. lost = {}
    BY DEF NoAnswerLost
  <2>2. CASE Respond
    <3>1. free # <<>>
      <4>1. /\ Cardinality(Slots) \in Nat /\ Outstanding \in Nat
            /\ phase # "release"
        BY <2>2, ThreadAssumption, FS_CardinalityType DEF Respond
      <4>2. InUse <= Outstanding /\ InUse \in Nat
        BY <4>1, OccupiedCount DEF Dimensioned
      <4> QED BY <4>1, <4>2, PoolEmpty
    <3> QED BY <2>1, <2>2, <3>1 DEF Respond
  <2>3. CASE ThreadStep /\ ~Respond
    BY <2>1, <2>3 DEF ThreadStep, EnterLoop, TakeEvent, HandlerReturns,
                      Release, PopIsrEvent, PushIsrEvent, PushEvent, history
  <2>4. ASSUME NEW context \in Contexts, ModuleStep(context) PROVE lost' = lost
    BY <2>4, ModulePuts
  <2>5. CASE UNCHANGED AllButTorn
    BY <2>1, <2>5 DEF AllButTorn
  <2> QED BY <2>1, <2>2, <2>3, <2>4, <2>5, Steps
<1> QED BY <1>1, <1>2, TypeInvariant, PoolInvariant, WithinPool, PTL
        DEF Spec

(***************************************************************************)
(* The runtime implements the event service                                *)
(***************************************************************************)

(* What the structures of a queue hold, in order; f is what they hold.     *)
Holding(f, q) == [i \in DOMAIN q |-> f[q[i]]]

LEMMA HoldingLen ==
  ASSUME NEW S, NEW f, NEW q \in Seq(S)
  PROVE  /\ Len(Holding(f, q)) = Len(q)
         /\ \A i \in 1..Len(q) : Holding(f, q)[i] = f[q[i]]
<1>1. Len(q) \in Nat /\ DOMAIN q = 1..Len(q)
  OBVIOUS
<1>2. Holding(f, q) = [i \in 1..Len(q) |-> f[q[i]]]
  BY <1>1 DEF Holding
<1> QED BY <1>1, <1>2

LEMMA HoldingSeq ==
  ASSUME NEW S, NEW T, NEW f, \A s \in S : f[s] \in T, NEW q \in Seq(S)
  PROVE  Holding(f, q) \in Seq(T)
<1>1. Len(q) \in Nat /\ DOMAIN q = 1..Len(q) /\ \A i \in 1..Len(q) : q[i] \in S
  OBVIOUS
<1>2. Holding(f, q) = [i \in 1..Len(q) |-> f[q[i]]]
  BY <1>1 DEF Holding
<1> QED BY <1>1, <1>2

LEMMA HoldingTail ==
  ASSUME NEW S, NEW f, NEW q \in Seq(S), q # <<>>
  PROVE  /\ Holding(f, Tail(q)) = Tail(Holding(f, q))
         /\ Head(Holding(f, q)) = f[Head(q)] /\ Holding(f, q) # <<>>
<1> DEFINE T == {f[s] : s \in S}
           t == Tail(q)
           H == Holding(f, q)
           K == Holding(f, t)
<1>1. /\ t \in Seq(S) /\ Len(t) = Len(q) - 1
      /\ Len(q) \in Nat \ {0}
      /\ \A i \in 1..(Len(q) - 1) : t[i] = q[i + 1]
      /\ Head(q) = q[1]
  OBVIOUS
<1>8. \A s \in S : f[s] \in T
  OBVIOUS
<1> HIDE DEF t, T
<1>2. /\ H \in Seq(T) /\ Len(H) = Len(q)
      /\ \A i \in 1..Len(q) : H[i] = f[q[i]]
  <2>1. H \in Seq(T)
    BY <1>8, HoldingSeq
  <2>2. Len(H) = Len(q) /\ \A i \in 1..Len(q) : H[i] = f[q[i]]
    BY HoldingLen
  <2> QED BY <2>1, <2>2
<1>3. /\ K \in Seq(T) /\ Len(K) = Len(q) - 1
      /\ \A i \in 1..(Len(q) - 1) : K[i] = f[q[i + 1]]
  <2>1. K \in Seq(T)
    BY <1>1, <1>8, HoldingSeq
  <2>2. /\ Len(K) = Len(t)
        /\ \A i \in 1..Len(t) : K[i] = f[t[i]]
    BY <1>1, HoldingLen
  <2> HIDE DEF K
  <2> QED BY <1>1, <2>1, <2>2
<1> HIDE DEF H, K
<1>4. /\ Tail(H) \in Seq(T) /\ Len(Tail(H)) = Len(q) - 1 /\ H # <<>>
      /\ \A i \in 1..(Len(q) - 1) : Tail(H)[i] = H[i + 1]
      /\ Head(H) = H[1]
  BY <1>1, <1>2
<1>5. \A i \in 1..(Len(q) - 1) : Tail(H)[i] = K[i]
  <2> SUFFICES ASSUME NEW i \in 1..(Len(q) - 1) PROVE Tail(H)[i] = K[i]
    OBVIOUS
  <2>1. i + 1 \in 1..Len(q)
    BY <1>1
  <2> QED BY <1>2, <1>3, <1>4, <2>1
<1>6. Tail(H) = K
  BY <1>3, <1>4, <1>5, SeqEqual
<1>7. Head(H) = f[Head(q)]
  BY <1>1, <1>2, <1>4
<1> QED BY <1>4, <1>6, <1>7 DEF H, K, t

(* A structure appended to a queue extends what the queue holds, if the    *)
(* other structures hold what they held.                                   *)
LEMMA HoldingAppend ==
  ASSUME NEW S, NEW f, NEW g, NEW q \in Seq(S), NEW h \in S,
         \A s \in Elems(q) : g[s] = f[s]
  PROVE  Service!Extends(Holding(f, q), Holding(g, Append(q, h)))
<1> DEFINE T == {f[s] : s \in S} \cup {g[s] : s \in S}
           r == Append(q, h)
           H == Holding(f, q)
           K == Holding(g, r)
<1>1. /\ r \in Seq(S) /\ Len(r) = Len(q) + 1 /\ Len(q) \in Nat
      /\ DOMAIN q = 1..Len(q)
      /\ \A i \in 1..Len(q) : r[i] = q[i]
  OBVIOUS
<1>8. \A s \in S : f[s] \in T /\ g[s] \in T
  OBVIOUS
<1>2. /\ H \in Seq(T) /\ Len(H) = Len(q)
      /\ \A i \in 1..Len(q) : H[i] = f[q[i]]
  <2>1. H \in Seq(T)
    BY <1>8, HoldingSeq
  <2>2. Len(H) = Len(q) /\ \A i \in 1..Len(q) : H[i] = f[q[i]]
    BY HoldingLen
  <2> QED BY <2>1, <2>2
<1> HIDE DEF r, T
<1>7. K \in Seq(T)
  BY <1>1, <1>8, HoldingSeq
<1>3. Len(K) = Len(r) /\ \A i \in 1..Len(r) : K[i] = g[r[i]]
  BY <1>1, HoldingLen
<1> HIDE DEF H, K
<1>4. \A i \in 1..Len(q) : K[i] = H[i]
  <2> SUFFICES ASSUME NEW i \in 1..Len(q) PROVE K[i] = H[i]
    OBVIOUS
  <2>1. q[i] \in Elems(q) /\ i \in 1..Len(r) /\ r[i] = q[i]
    BY <1>1 DEF Elems
  <2> QED BY <1>2, <1>3, <2>1
<1>5. SubSeq(K, 1, Len(H)) = H
  <2> DEFINE P == SubSeq(K, 1, Len(H))
  <2>1. P \in Seq(T) /\ Len(P) = Len(H) /\ \A i \in 1..Len(H) : P[i] = K[i]
    BY <1>1, <1>2, <1>3, <1>7
  <2> HIDE DEF P
  <2>2. P = H
    BY <1>2, <1>4, <2>1, SeqEqual
  <2> QED BY <2>2 DEF P
<1>6. Service!Extends(H, K)
  BY <1>1, <1>2, <1>3, <1>5 DEF Service!Extends
<1> QED BY <1>6 DEF H, K, r

(* The interrupt handlers' inbox of the service: the event process_isr     *)
(* moves, then those it has not popped yet.                                *)
HandingOver == phase = "loop" /\ moving # None
Behind == HandedOver \o isrQueue
InService == IF current = None THEN None ELSE slot[current]

LEMMA BehindSeq ==
  ASSUME TypeOK
  PROVE  /\ Behind \in Seq(Slots)
         /\ Elems(Behind) \subseteq Moving \cup Elems(isrQueue)
         /\ ~HandingOver => Behind = isrQueue
         /\ HandingOver => /\ Behind # <<>> /\ Head(Behind) = moving
                           /\ Tail(Behind) = isrQueue
                           /\ Len(Behind) = Len(isrQueue) + 1
<1>1. isrQueue \in Seq(Slots) /\ moving \in Slots \cup {None}
  BY DEF TypeOK
<1>2. CASE ~HandingOver
  <2>1. Behind = isrQueue
    BY <1>1, <1>2, ConcatEmptySeq DEF Behind, HandedOver, HandingOver
  <2> QED BY <1>1, <1>2, <2>1
<1>3. CASE HandingOver
  <2>1. /\ Behind = <<moving>> \o isrQueue /\ <<moving>> \in Seq(Slots)
        /\ moving # None
    BY <1>1, <1>3 DEF Behind, HandedOver, HandingOver
  <2>2. /\ Behind \in Seq(Slots) /\ Len(Behind) = Len(isrQueue) + 1
        /\ Behind[1] = moving
        /\ \A i \in 1..Len(isrQueue) : Behind[i + 1] = isrQueue[i]
    BY <1>1, <2>1, ConcatProperties
  <2>3. Behind # <<>> /\ Head(Behind) = moving
    BY <1>1, <2>2
  <2>4. Tail(Behind) = isrQueue
    <3>1. /\ Tail(Behind) \in Seq(Slots) /\ Len(Tail(Behind)) = Len(isrQueue)
          /\ \A i \in 1..Len(isrQueue) : Tail(Behind)[i] = Behind[i + 1]
      BY <1>1, <2>2, <2>3, HeadTailProperties
    <3> QED BY <1>1, <2>2, <3>1, SeqEqual
  <2>5. Elems(<<moving>>) = {moving} /\ Moving = {moving}
    BY <2>1 DEF Elems, Moving
  <2>6. Elems(Behind) = Moving \cup Elems(isrQueue)
    <3> DEFINE p == <<moving>>
    <3>1. p \in Seq(Slots) /\ Behind = p \o isrQueue /\ Elems(p) = Moving
      BY <2>1, <2>5
    <3> HIDE DEF p
    <3> QED BY <1>1, <3>1, ConcatElems
  <2> QED BY <1>3, <2>2, <2>3, <2>4, <2>6
<1> QED BY <1>2, <1>3

(* The service counts what is in use, but for the structure of an event    *)
(* the thread has not accepted yet.                                        *)
LEMMA LoadInUse ==
  ASSUME TypeInv
  PROVE  Service!Load =
           InUse - (IF moving # None /\ ~HandingOver THEN 1 ELSE 0)
<1> DEFINE o == IF HandingOver THEN 1 ELSE 0
           c == IF current = None THEN 0 ELSE 1
<1>1. /\ queue \in Seq(Slots) /\ isrQueue \in Seq(Slots)
      /\ Len(queue) \in Nat /\ Len(isrQueue) \in Nat
  BY DEF TypeInv, TypeOK
<1>2. Len(Contents(queue)) = Len(queue)
  <2>1. Contents(queue) = Holding(slot, queue)
    BY DEF Contents, Holding
  <2> QED BY <1>1, <2>1, HoldingLen
<1>3. Len(Contents(Behind)) = o + Len(isrQueue)
  <2>1. Contents(Behind) = Holding(slot, Behind)
    BY DEF Contents, Holding
  <2>2. Behind \in Seq(Slots) /\ Len(Behind) = o + Len(isrQueue)
    BY <1>1, BehindSeq DEF TypeInv
  <2> QED BY <2>1, <2>2, HoldingLen
<1>4. (IF InService = None THEN 0 ELSE 1) = c
  <2>1. current # None => slot[current] # None
    BY NullAssumption DEF TypeInv, TypeOK
  <2> QED BY <2>1 DEF InService
<1>5. Service!Load = Len(Contents(queue)) + Len(Contents(Behind))
                       + (IF InService = None THEN 0 ELSE 1)
  BY DEF Service!Load, Behind, InService
<1>6. Service!Load = Len(queue) + Len(isrQueue) + o + c
  <2> HIDE DEF o, c
  <2>1. o \in Nat /\ c \in Nat
    BY DEF o, c
  <2> QED BY <1>1, <1>2, <1>3, <1>4, <1>5, <2>1
<1>7. HandingOver => moving # None
  BY DEF HandingOver
<1> QED BY ONLY <1>1, <1>6, <1>7 DEF InUse

(* While a structure is free or on its way to the queue, fewer events are  *)
(* in the service than it can hold.                                        *)
LEMMA LoadBelow ==
  ASSUME TypeInv, WholePool, free # <<>> \/ (moving # None /\ ~HandingOver)
  PROVE  Service!Load < Cardinality(Slots)
<1>1. /\ Occupied \subseteq Slots /\ Cardinality(Slots) \in Nat
      /\ Cardinality(Occupied) <= Cardinality(Slots)
  <2>1. Occupied \subseteq Slots
    BY DEF TypeInv, TypeOK, Occupied, Elems, InHand
  <2> QED BY <2>1, FS_Subset, FS_CardinalityType, ThreadAssumption
<1>2. Cardinality(Occupied) = InUse /\ InUse \in Nat
  BY OccupiedCount
<1>3. CASE moving # None /\ ~HandingOver
  BY <1>1, <1>2, <1>3, LoadInUse
<1>4. CASE free # <<>>
  <2>1. Head(free) \in Slots \ Occupied
    BY <1>4, TailElems DEF TypeInv, TypeOK, WholePool, Occupied
  <2>2. Cardinality(Occupied) # Cardinality(Slots)
    BY <1>1, <2>1, FS_Subset, ThreadAssumption
  <2>3. Service!Load <= InUse
    <3>1. Service!Load = InUse \/ Service!Load = InUse - 1
      BY <1>2, LoadInUse
    <3> QED BY <1>2, <3>1
  <2>4. Service!Load \in Int
    BY <1>2, LoadInUse
  <2> QED BY <1>1, <1>2, <2>2, <2>3, <2>4
<1> QED BY <1>3, <1>4

(* Every step of the runtime is a step of the service or none.             *)
LEMMA PutEventServes ==
  ASSUME TypeInv, TypeInv', WholePool, NEW e \in Event,
         NEW context \in Contexts, PutEvent(e, context), HandFree(context),
         UNCHANGED InService, phase' = "loop" <=> phase = "loop",
         context = "thread" => phase # "loop"
  PROVE  Service!AcceptFromIsr \/ UNCHANGED Service!vars
<1> DEFINE h == Head(free)
<1>1. h \in Slots /\ h \in Elems(free) /\ free # <<>>
  BY TailElems DEF TypeInv, TypeOK, PutEvent
<1>2. \A s \in Elems(queue) \cup Elems(isrQueue) \cup Moving : s # h
  BY <1>1 DEF WholePool, Moving, InHand
<1>3. slot \in [Slots -> Event] /\ slot' \in [Slots -> Event]
      /\ \A s \in Slots \ {h} : slot'[s] = slot[s]
  BY <1>1 DEF TypeInv, TypeOK, PutEvent
<1>4. /\ queue \in Seq(Slots) /\ isrQueue \in Seq(Slots)
      /\ Behind \in Seq(Slots)
      /\ Elems(Behind) \subseteq Moving \cup Elems(isrQueue)
  BY BehindSeq DEF TypeInv, TypeOK
<1>5. /\ \A s \in Elems(queue) : slot'[s] = slot[s]
      /\ \A s \in Elems(Behind) : slot'[s] = slot[s]
  <2>1. Elems(queue) \subseteq Slots /\ Elems(Behind) \subseteq Slots
    BY <1>4 DEF Elems
  <2> HIDE DEF h
  <2> QED BY <1>2, <1>3, <1>4, <2>1
<1>6. Service!Load < Cardinality(Slots)
  BY <1>1, LoadBelow
<1> HIDE DEF h
<1>9. queue' = queue
  BY DEF PutEvent
<1>10. Holding(slot', queue') = Holding(slot, queue)
  BY <1>4, <1>5, <1>9 DEF Holding, Elems
<1>7. CASE context = "thread"
  <2>1. isrQueue' = isrQueue /\ ~HandingOver /\ ~HandingOver'
    BY <1>7 DEF PutEvent, HandingOver
  <2>2. Behind' = isrQueue' /\ Behind = isrQueue
    BY <2>1, BehindSeq DEF TypeInv, HandedOver, Behind, HandingOver
  <2>3. Holding(slot', Behind') = Holding(slot, Behind)
    BY <1>4, <1>5, <2>1, <2>2 DEF Holding, Elems
  <2> QED BY <1>10, <2>3
          DEF Service!vars, Contents, Holding, Behind, InService
<1>8. CASE context = "isr"
  <2>1. isrQueue' = Append(isrQueue, h) /\ Behind' = Append(Behind, h)
    <3> DEFINE m == HandedOver
    <3>1. isrQueue' = Append(isrQueue, h) /\ moving' = moving
      BY <1>8 DEF PutEvent, h
    <3>2. m \in Seq(Slots) /\ m' = m /\ Behind = m \o isrQueue
          /\ Behind' = m \o Append(isrQueue, h)
      BY <3>1 DEF Behind, HandedOver, TypeInv, TypeOK
    <3> HIDE DEF m
    <3>3. <<h>> \in Seq(Slots) /\ Append(isrQueue, h) = isrQueue \o <<h>>
          /\ Append(m \o isrQueue, h) = (m \o isrQueue) \o <<h>>
      BY <1>1, <1>4, <3>2, AppendIsConcat
    <3>4. (m \o isrQueue) \o <<h>> = m \o (isrQueue \o <<h>>)
      BY <1>4, <3>2, <3>3, ConcatAssociative
    <3> QED BY <3>1, <3>2, <3>3, <3>4
  <2>2. Service!Extends(Holding(slot, Behind), Holding(slot', Behind'))
    BY <1>1, <1>3, <1>4, <1>5, <2>1, HoldingAppend
  <2> QED BY <1>6, <1>10, <2>2
          DEF Service!AcceptFromIsr, Contents, Holding, Behind, InService
<1> QED BY <1>7, <1>8 DEF Contexts

LEMMA ModuleServes ==
  ASSUME TypeInv, TypeInv', WholePool,
         NEW context \in Contexts, ModuleStep(context)
  PROVE  Service!AcceptFromIsr \/ UNCHANGED Service!vars
<1>0. PICK e \in Event :
        /\ HandFree(context) /\ PutEvent(e, context) /\ MayPut(context)
        /\ UNCHANGED <<current, phase>>
  BY ModulePuts
<1>1. UNCHANGED InService
  <2>1. CASE current = None
    BY <1>0, <2>1 DEF InService
  <2>2. CASE current # None
    <3>1. current \in Occupied
      BY <2>2 DEF Occupied, InHand
    <3>2. slot'[current] = slot[current]
      BY <1>0, <3>1, PutEventFills
    <3> QED BY <1>0, <3>2 DEF InService
  <2> QED BY <2>1, <2>2
<1>2. context = "thread" => phase # "loop"
  BY <1>0 DEF MayPut
<1> QED BY <1>0, <1>1, <1>2, PutEventServes

(* A queue is its head followed by its tail.                               *)
LEMMA HeadAndTail ==
  ASSUME NEW S, NEW q \in Seq(S), q # <<>>
  PROVE  q = <<Head(q)>> \o Tail(q)
<1> DEFINE p == <<Head(q)>>
           t == Tail(q)
<1>1. /\ p \in Seq(S) /\ Len(p) = 1 /\ p[1] = q[1]
      /\ t \in Seq(S) /\ Len(t) = Len(q) - 1 /\ Len(q) \in Nat \ {0}
      /\ \A i \in 1..(Len(q) - 1) : t[i] = q[i + 1]
  OBVIOUS
<1> HIDE DEF p, t
<1>2. /\ p \o t \in Seq(S) /\ Len(p \o t) = Len(q)
      /\ \A i \in 1..Len(q) : (p \o t)[i] = q[i]
  <2>1. /\ p \o t \in Seq(S) /\ Len(p \o t) = Len(p) + Len(t)
        /\ \A i \in 1..(Len(p) + Len(t)) :
             (p \o t)[i] = IF i <= Len(p) THEN p[i] ELSE t[i - Len(p)]
    BY <1>1, ConcatProperties
  <2>2. ASSUME NEW i \in 1..Len(q) PROVE (p \o t)[i] = q[i]
    <3>1. CASE i = 1
      BY <1>1, <2>1, <3>1
    <3>2. CASE i # 1
      <4>1. /\ (p \o t)[i] = t[i - 1] /\ i - 1 \in 1..(Len(q) - 1)
        BY <1>1, <2>1, <3>2
      <4> QED BY <1>1, <4>1
    <3> QED BY <3>1, <3>2
  <2> QED BY <1>1, <2>1, <2>2
<1>3. p \o t = q
  BY <1>2, SeqEqual
<1> QED BY <1>3 DEF p, t

(* The event queue stays empty while an interrupt event moves to it: only  *)
(* interrupt handlers put events then.                                     *)
MovesIntoEmpty == HandingOver => queue = <<>>

LEMMA MovesInvariant == Spec => []MovesIntoEmpty
<1>1. ThreadInit => MovesIntoEmpty
  BY DEF ThreadInit, MovesIntoEmpty
<1>2. TypeInv /\ MovesIntoEmpty /\ [Next]_vars => MovesIntoEmpty'
  <2> SUFFICES ASSUME TypeInv, MovesIntoEmpty, [Next]_vars
               PROVE  MovesIntoEmpty'
    OBVIOUS
  <2>1. CASE ThreadStep
    <3>1. CASE Respond
      BY <3>1 DEF Respond, MovesIntoEmpty, HandingOver
    <3> QED BY <2>1, <3>1
            DEF ThreadStep, EnterLoop, TakeEvent, HandlerReturns, Release,
                PopIsrEvent, PushIsrEvent, PushEvent, MovesIntoEmpty,
                HandingOver, queues
  <2>2. ASSUME NEW context \in Contexts, ModuleStep(context)
        PROVE  MovesIntoEmpty'
    <3>0. PICK e \in Event :
            /\ HandFree(context) /\ PutEvent(e, context) /\ MayPut(context)
            /\ UNCHANGED <<current, phase>>
      BY <2>2, ModulePuts
    <3>1. queue' = queue /\ (HandingOver' => HandingOver)
      BY <3>0 DEF PutEvent, MayPut, HandingOver
    <3> QED BY <3>1 DEF MovesIntoEmpty
  <2>3. CASE UNCHANGED AllButTorn
    BY <2>3 DEF AllButTorn, MovesIntoEmpty, HandingOver
  <2> QED BY <2>1, <2>2, <2>3, Steps
<1> QED BY <1>1, <1>2, TypeInvariant, PTL DEF Spec

LEMMA ThreadServes ==
  ASSUME TypeInv, TypeInv', WholePool, MovesIntoEmpty, ThreadStep
  PROVE  Service!Next \/ UNCHANGED Service!vars
<1>1. /\ queue \in Seq(Slots) /\ isrQueue \in Seq(Slots)
      /\ slot \in [Slots -> Event] /\ \A s \in Slots : slot[s] \in Event
      /\ Behind \in Seq(Slots)
  BY BehindSeq DEF TypeInv, TypeOK
<1>3. CASE EnterLoop \/ HandlerReturns
  <2>1. moving = None /\ UNCHANGED <<queue, isrQueue, moving, current, slot>>
    BY <1>3 DEF EnterLoop, HandlerReturns, queues
  <2> QED BY <2>1 DEF Service!vars, Contents, HandedOver
<1>4. CASE TakeEvent
  <2>1. /\ queue # <<>> /\ queue' = Tail(queue) /\ moving = None
        /\ current = None /\ current' = Head(queue)
        /\ Head(queue) \in Slots /\ Head(queue) # None
        /\ UNCHANGED <<isrQueue, moving, slot>>
    BY <1>1, <1>4, TailElems, ThreadAssumption
       DEF TakeEvent, TypeInv, HandsMatchPhase
  <2>2. /\ Holding(slot, queue') = Tail(Holding(slot, queue))
        /\ Head(Holding(slot, queue)) = slot[Head(queue)]
        /\ Holding(slot, queue) # <<>>
    BY <1>1, <2>1, HoldingTail
  <2>3. Behind' = Behind /\ InService = None /\ InService' = slot[Head(queue)]
    BY <2>1 DEF Behind, HandedOver, InService
  <2>4. Service!Serve
    BY <2>1, <2>2, <2>3
       DEF Service!Serve, Contents, Holding, Behind, InService
  <2> QED BY <2>4 DEF Service!Next
<1>5. CASE Respond
  <2>1. /\ current \in Slots /\ current # None /\ current \in Occupied
        /\ moving = None /\ slot[current] \in Event
        /\ phase = "respond" /\ phase' = "release" /\ current' = current
    BY <1>5 DEF Respond, TypeInv, TypeOK, HandsMatchPhase, Occupied, InHand
  <2>2. CASE PutEvent(ResponseTo(slot[current]), "thread")
    <3>1. ResponseTo(slot[current]) \in Event /\ "thread" \in Contexts
      BY <2>1, ResponseFields DEF Contexts
    <3>2. slot'[current] = slot[current]
      BY <2>1, <2>2, <3>1, PutEventFills DEF HandFree
    <3>3. UNCHANGED InService
      BY <2>1, <3>2 DEF InService
    <3>4. Service!AcceptFromIsr \/ UNCHANGED Service!vars
      BY <2>1, <2>2, <3>1, <3>3, PutEventServes DEF HandFree
    <3> QED BY <3>4 DEF Service!Next
  <2>3. CASE UNCHANGED <<queues, moving, slot, clock>>
    BY <2>1, <2>3 DEF queues, Service!vars, Contents, HandedOver
  <2> QED BY <1>5, <2>2, <2>3 DEF Respond
<1>6. CASE Release
  <2>1. /\ current \in Slots /\ current # None /\ current' = None
        /\ moving = None /\ UNCHANGED <<queue, isrQueue, moving, slot>>
    BY <1>6 DEF Release, TypeInv, TypeOK, HandsMatchPhase, history
  <2>2. InService # None /\ InService' = None
    BY <1>1, <2>1, NullAssumption DEF InService
  <2>3. Service!Finish
    BY <2>1, <2>2 DEF Service!Finish, Contents, InService, HandedOver
  <2> QED BY <2>3 DEF Service!Next
<1>7. CASE PopIsrEvent
  <2>1. /\ isrQueue # <<>> /\ isrQueue' = Tail(isrQueue) /\ moving = None
        /\ moving' = Head(isrQueue) /\ Head(isrQueue) \in Slots
        /\ Head(isrQueue) # None
        /\ phase = "loop" /\ UNCHANGED <<queue, current, slot, phase>>
    BY <1>1, <1>7, TailElems, ThreadAssumption DEF PopIsrEvent, history
  <2>2. Behind' = Behind
    <3>1. Behind = isrQueue
      BY <2>1, BehindSeq DEF TypeInv, HandingOver
    <3>2. Behind' = <<Head(isrQueue)>> \o Tail(isrQueue)
      BY <2>1 DEF Behind, HandedOver
    <3>3. isrQueue = <<Head(isrQueue)>> \o Tail(isrQueue)
      BY <1>1, <2>1, HeadAndTail
    <3> QED BY <3>1, <3>2, <3>3
  <2> QED BY <2>1, <2>2 DEF Service!vars, Contents, Behind
<1>8. CASE PushIsrEvent
  <2>1. /\ moving # None /\ moving \in Slots /\ moving' = None
        /\ queue' = Append(queue, moving) /\ current = None
        /\ phase = "loop" /\ UNCHANGED <<isrQueue, current, slot>>
    BY <1>8 DEF PushIsrEvent, TypeInv, TypeOK, HandsMatchPhase, history
  <2>2. queue = <<>> /\ queue' = <<moving>>
    BY <2>1 DEF MovesIntoEmpty, HandingOver
  <2>3. /\ Behind # <<>> /\ Head(Behind) = moving /\ Tail(Behind) = isrQueue
    BY <2>1, BehindSeq DEF TypeInv, HandingOver
  <2>4. Behind' = isrQueue
    BY <1>1, <2>1, ConcatEmptySeq DEF Behind, HandedOver
  <2>5. /\ Holding(slot, isrQueue) = Tail(Holding(slot, Behind))
        /\ Head(Holding(slot, Behind)) = slot[moving]
        /\ Holding(slot, Behind) # <<>>
    <3> DEFINE b == Behind
    <3>1. /\ b \in Seq(Slots) /\ b # <<>>
          /\ Head(b) = moving /\ Tail(b) = isrQueue
      BY <1>1, <2>1, <2>3
    <3> HIDE DEF b
    <3>2. /\ Holding(slot, Tail(b)) = Tail(Holding(slot, b))
          /\ Head(Holding(slot, b)) = slot[Head(b)] /\ Holding(slot, b) # <<>>
      BY <3>1, HoldingTail
    <3>3. /\ Holding(slot, isrQueue) = Tail(Holding(slot, b))
          /\ Head(Holding(slot, b)) = slot[moving]
          /\ Holding(slot, b) # <<>>
      BY <3>1, <3>2
    <3> QED BY <3>3 DEF b
  <2>6. Holding(slot, queue) = <<>> /\ Holding(slot, queue') = <<slot[moving]>>
    BY <2>2 DEF Holding
  <2>7. Service!HandOver
    BY <2>1, <2>4, <2>5, <2>6
       DEF Service!HandOver, Contents, Holding, Behind, InService
  <2> QED BY <2>7 DEF Service!Next
<1>9. CASE PushEvent
  <2>1. /\ moving # None /\ moving \in Slots /\ moving' = None
        /\ queue' = Append(queue, moving) /\ phase # "loop"
        /\ UNCHANGED <<isrQueue, current, slot, phase>>
    BY <1>9 DEF PushEvent, TypeInv, TypeOK, history
  <2>2. Behind' = Behind /\ InService' = InService
    BY <2>1 DEF Behind, HandedOver, InService
  <2>3. Service!Extends(Holding(slot, queue), Holding(slot', queue'))
    BY <1>1, <2>1, HoldingAppend
  <2>4. Service!Load < Cardinality(Slots)
    BY <2>1, LoadBelow DEF HandingOver
  <2>5. Service!Accept
    BY <2>1, <2>2, <2>3, <2>4
       DEF Service!Accept, Contents, Holding, Behind, InService
  <2> QED BY <2>5 DEF Service!Next
<1> QED BY <1>3, <1>4, <1>5, <1>6, <1>7, <1>8, <1>9 DEF ThreadStep

(* The runtime is a server of bounded capacity that serves what it         *)
(* accepts unchanged, one event at a time, the thread's first: whatever    *)
(* the queues, the pool and the interrupts do, modules see EventService.   *)
THEOREM ImplementsService == Spec => ImplementsEventService
<1>1. ThreadInit => Service!Init
  BY DEF ThreadInit, Service!Init, Contents, HandedOver
<1>2. TypeInv /\ TypeInv' /\ WholePool /\ MovesIntoEmpty /\ [Next]_vars
        => [Service!Next]_(Service!vars)
  <2>1. CASE UNCHANGED AllButTorn
    BY <2>1 DEF AllButTorn, Service!vars, Contents, HandedOver
  <2> QED BY <2>1, Steps, ModuleServes, ThreadServes DEF Service!Next
<1> QED BY <1>1, <1>2, TypeInvariant, PoolInvariant, MovesInvariant, PTL
        DEF Spec, Service!Spec, ImplementsEventService

(***************************************************************************)
(* Notifications: types of the lists and of the calls in progress          *)
(***************************************************************************)

(* Removing one node of a list without repetitions removes its element and *)
(* keeps the list free of repetitions.                                     *)
LEMMA WithoutNode ==
  ASSUME NEW S, NEW q \in Seq(S), NEW i \in DOMAIN q
  PROVE  /\ Without(q, i) \in Seq(S)
         /\ DOMAIN q = 1..Len(q)
         /\ DOMAIN Without(q, i) = 1..(Len(q) - 1)
         /\ Distinct(q) => Distinct(Without(q, i))
<1>1. /\ Len(q) \in Nat /\ DOMAIN q = 1..Len(q) /\ i \in 1..Len(q)
      /\ \A j \in 1..Len(q) : q[j] \in S
  OBVIOUS
<1>2. ASSUME NEW j \in 1..(Len(q) - 1)
      PROVE  /\ j \in 1..Len(q) /\ j + 1 \in 1..Len(q)
             /\ Without(q, i)[j] = IF j < i THEN q[j] ELSE q[j + 1]
             /\ Without(q, i)[j] \in S
  BY <1>1 DEF Without
<1>3. DOMAIN Without(q, i) = 1..(Len(q) - 1)
  BY DEF Without
<1>4. Without(q, i) \in Seq(S)
  <2>1. Without(q, i) = [j \in 1..(Len(q) - 1) |-> Without(q, i)[j]]
    BY DEF Without
  <2>2. Len(q) - 1 \in Nat
    BY <1>1
  <2>3. Without(q, i) \in [1..(Len(q) - 1) -> S]
    BY <1>2, <2>1
  <2> QED BY <2>2, <2>3
<1>5. ASSUME Distinct(q) PROVE Distinct(Without(q, i))
  <2> SUFFICES ASSUME NEW j \in 1..(Len(q) - 1), NEW k \in 1..(Len(q) - 1),
                      Without(q, i)[j] = Without(q, i)[k]
               PROVE  j = k
    BY <1>3 DEF Distinct
  <2> DEFINE to(n) == IF n < i THEN n ELSE n + 1
  <2>1. /\ to(j) \in DOMAIN q /\ to(k) \in DOMAIN q
        /\ q[to(j)] = q[to(k)]
    BY <1>1, <1>2
  <2>2. to(j) = to(k)
    BY <2>1, <1>5 DEF Distinct
  <2> QED BY <2>2, <1>1
<1> QED BY <1>1, <1>3, <1>4, <1>5

(* The subscription lists and the calls of fwk_notification_notify have    *)
(* their types, whatever the event runtime does.                           *)
Calling ==
  /\ subs \in [Notifiers -> Seq(Entities)]
  /\ notifying \in [Contexts -> Call \cup {None}]

LEMMA CallingInit == NInit => Calling
<1> SUFFICES ASSUME NInit PROVE Calling
  OBVIOUS
<1>1. <<>> \in Seq(Entities)
  OBVIOUS
<1> QED BY <1>1 DEF NInit, Calling

LEMMA CallingNotify ==
  ASSUME Calling, NEW context \in Contexts, NEW src \in Notifiers,
         NEW req \in RequestFlags, Notify(context, src, req)
  PROVE  Calling'
<1> DEFINE from == Source(src, context)
           call == [src |-> from, req |-> req, todo |-> subs[from], sent |-> 0]
<1>1. from \in Notifiers /\ notifying' = [notifying EXCEPT ![context] = call]
      /\ subs' = subs
  BY DEF Notify
<1> HIDE DEF from
<1>2. subs[from] \in Seq(Entities)
  BY <1>1 DEF Calling
<1>3. call \in Call
  BY <1>1, <1>2 DEF Call
<1> QED BY <1>1, <1>3 DEF Calling

(* The call of a context that still has subscribers to notify.             *)
LEMMA CallFields ==
  ASSUME Calling, NEW context \in Contexts, notifying[context] # None
  PROVE  LET call == notifying[context]
         IN /\ call \in Call
            /\ call.src \in Notifiers /\ call.src \in Entities
            /\ call.req \in RequestFlags /\ call.sent \in Nat
            /\ call.todo \in Seq(Entities)
            /\ call.todo # <<>> => /\ Head(call.todo) \in Entities
                                   /\ Tail(call.todo) \in Seq(Entities)
<1>1. notifying[context] \in Call
  BY DEF Calling
<1>2. /\ notifying[context].src \in Notifiers
      /\ notifying[context].req \in RequestFlags
      /\ notifying[context].sent \in Nat
      /\ notifying[context].todo \in Seq(Entities)
  BY <1>1 DEF Call
<1> QED BY <1>1, <1>2, NotificationAssumption, TailElems

(* What is left of a call when a subscriber has been dealt with.           *)
LEMMA SendLeaves ==
  ASSUME Calling, NEW context \in Contexts, SendNotification(context)
  PROVE  /\ notifying[context] # None /\ notifying[context].todo # <<>>
         /\ notifying' \in [Contexts -> Call \cup {None}]
         /\ \A c \in Contexts \ {context} : notifying'[c] = notifying[c]
         /\ LET call == notifying[context]
                next == notifying'[context]
            IN /\ next \in Call
               /\ next.src = call.src /\ next.todo = Tail(call.todo)
               /\ \/ /\ PutNotificationTo(context, call.src,
                                          Head(call.todo), call.req)
                     /\ next.sent = call.sent + 1
                  \/ free = <<>> /\ UNCHANGED vars /\ next.sent = call.sent
<1> DEFINE call == notifying[context]
           skipped == [call EXCEPT !.todo = Tail(@)]
           notified == [call EXCEPT !.todo = Tail(@), !.sent = @ + 1]
<1>1. /\ call # None /\ call.todo # <<>>
      /\ call \in Call /\ Tail(call.todo) \in Seq(Entities)
      /\ call.sent + 1 \in Nat
  BY CallFields DEF SendNotification
<1>2. skipped \in Call /\ notified \in Call
  BY <1>1 DEF Call
<1>3. /\ skipped.src = call.src /\ notified.src = call.src
      /\ skipped.todo = Tail(call.todo) /\ notified.todo = Tail(call.todo)
      /\ skipped.sent = call.sent /\ notified.sent = call.sent + 1
  BY <1>1 DEF Call
<1>4. notifying \in [Contexts -> Call \cup {None}]
  BY DEF Calling
<1>5. CASE /\ PutNotificationTo(context, call.src, Head(call.todo), call.req)
           /\ notifying' = [notifying EXCEPT ![context] = notified]
  BY <1>1, <1>2, <1>3, <1>4, <1>5
<1>6. CASE /\ free = <<>> /\ UNCHANGED vars
           /\ notifying' = [notifying EXCEPT ![context] = skipped]
  BY <1>1, <1>2, <1>3, <1>4, <1>6
<1>7. \/ /\ PutNotificationTo(context, call.src, Head(call.todo), call.req)
         /\ notifying' = [notifying EXCEPT ![context] = notified]
      \/ /\ free = <<>> /\ UNCHANGED vars
         /\ notifying' = [notifying EXCEPT ![context] = skipped]
  <2> DEFINE next == [notifying EXCEPT ![context].todo = Tail(@)]
  <2>1. next = [notifying EXCEPT ![context] = skipped]
    BY <1>1, <1>4
  <2>2. [next EXCEPT ![context].sent = @ + 1]
          = [notifying EXCEPT ![context] = notified]
    BY <1>1, <1>4
  <2>3. \/ /\ PutNotificationTo(context, call.src, Head(call.todo), call.req)
           /\ notifying' = [next EXCEPT ![context].sent = @ + 1]
        \/ free = <<>> /\ notifying' = next /\ UNCHANGED vars
    BY Zenon DEF SendNotification
  <2> HIDE DEF next
  <2> QED BY <2>1, <2>2, <2>3
<1> QED BY <1>5, <1>6, <1>7

LEMMA CallingStep == Calling /\ [NNext]_<<vars, nvars>> => Calling'
<1> SUFFICES ASSUME Calling, [NNext]_<<vars, nvars>> PROVE Calling'
  OBVIOUS
<1>1. CASE UNCHANGED nvars
  BY <1>1 DEF nvars, Calling
<1>2. ASSUME NEW source \in Notifiers, NEW target \in Entities,
             Subscribe(source, target)
      PROVE  Calling'
  <2>1. Append(subs[source], target) \in Seq(Entities)
    BY DEF Calling
  <2> QED BY <2>1, <1>2 DEF Subscribe, Calling
<1>3. ASSUME NEW source \in Notifiers, NEW target \in Entities,
             Unsubscribe(source, target)
      PROVE  Calling'
  <2>1. PICK i \in DOMAIN subs[source] :
          subs' = [subs EXCEPT ![source] = Without(@, i)]
    BY <1>3 DEF Unsubscribe
  <2>2. Without(subs[source], i) \in Seq(Entities)
    BY WithoutNode DEF Calling
  <2> QED BY <2>1, <2>2, <1>3 DEF Unsubscribe, Calling
<1>4. ASSUME NEW context \in Contexts, SendNotification(context)
      PROVE  Calling'
  BY <1>4, SendLeaves DEF SendNotification, Calling
<1>5. ASSUME NEW context \in Contexts, NotifyReturns(context)
      PROVE  Calling'
  BY <1>5 DEF NotifyReturns, Calling
<1> QED BY <1>1, <1>2, <1>3, <1>4, <1>5, CallingNotify DEF NNext, nvars

LEMMA CallingInvariant == NSpec => []Calling
<1> QED BY CallingInit, CallingStep, PTL DEF NSpec

(***************************************************************************)
(* Notifications are steps of the event runtime                            *)
(***************************************************************************)
LEMMA SendIsPut ==
  ASSUME Calling, NEW context \in Contexts, SendNotification(context)
  PROVE  UNCHANGED vars \/ PutNotification(context)
<1> DEFINE call == notifying[context]
<1>1. \/ PutNotificationTo(context, call.src, Head(call.todo), call.req)
      \/ UNCHANGED vars
  BY SendLeaves
<1>2. /\ call.src \in Entities /\ Head(call.todo) \in Entities
      /\ call.req \in RequestFlags
  BY CallFields DEF SendNotification
<1> HIDE DEF call
<1> QED BY <1>1, <1>2 DEF PutNotification

LEMMA NotificationStep == Calling /\ [NNext]_<<vars, nvars>> => [Next]_vars
<1> SUFFICES ASSUME Calling, [NNext]_<<vars, nvars>> PROVE [Next]_vars
  OBVIOUS
<1>1. ASSUME NEW context \in Contexts, SendNotification(context), Undisturbed
      PROVE  [Next]_vars
  BY <1>1, SendIsPut DEF Next, ModuleStep
<1>2. ASSUME NEW context \in Contexts, Undisturbed,
             PutRequest(context) \/ PutDelayedResponse(context)
      PROVE  [Next]_vars
  BY <1>2 DEF Next, ModuleStep
<1>3. CASE Undisturbed /\ (ThreadStep \/ PushEvent)
  BY <1>3 DEF Next, ThreadStep
<1>4. CASE torn = FALSE /\ PopRaces
  BY <1>4 DEF Next
<1>5. CASE UNCHANGED vars
  BY <1>5
<1> QED
  BY <1>1, <1>2, <1>3, <1>4, <1>5
     DEF NNext, Subscribe, Unsubscribe, Notify, NotifyReturns, Contexts

(* Whatever is subscribed and notified, the event runtime only sees events *)
(* that modules put (fwk_notification.c calls nothing of fwk_thread.c but  *)
(* __fwk_thread_put_notification and fwk_thread_get_current_event), so     *)
(* every property of FwkThread holds with notifications too.               *)
THEOREM RuntimeUnderneath == NSpec => Spec
<1>1. NInit => ThreadInit
  BY DEF NInit
<1> QED BY <1>1, CallingInvariant, NotificationStep, PTL DEF NSpec, Spec

(***************************************************************************)
(* Subscription structures                                                 *)
(***************************************************************************)

(* The places in lists s, one for every structure that is linked.          *)
Places(s) == UNION {{<<e, i>> : i \in DOMAIN s[e]} : e \in Notifiers}

LEMMA PlacesElements ==
  ASSUME NEW s
  PROVE  \A p : p \in Places(s)
                  <=> \E e \in Notifiers : \E i \in DOMAIN s[e] : p = <<e, i>>
<1> QED BY DEF Places

(* Lengthening one list by a node adds one place.                          *)
LEMMA PlacesGrow ==
  ASSUME NEW s, NEW t, NEW e \in Notifiers, NEW n \in Nat,
         DOMAIN s[e] = 1..n, DOMAIN t[e] = 1..(n + 1),
         \A f \in Notifiers \ {e} : t[f] = s[f]
  PROVE  /\ <<e, n + 1>> \notin Places(s)
         /\ Places(t) = Places(s) \cup {<<e, n + 1>>}
<1>1. <<e, n + 1>> \notin Places(s)
  <2> SUFFICES ASSUME NEW f \in Notifiers, NEW i \in DOMAIN s[f],
                      <<e, n + 1>> = <<f, i>>
               PROVE  FALSE
    BY PlacesElements
  <2>1. f = e /\ i = n + 1
    OBVIOUS
  <2> QED BY <2>1
<1>2. ASSUME NEW p \in Places(t) PROVE p \in Places(s) \cup {<<e, n + 1>>}
  <2>0. PICK f \in Notifiers : \E i \in DOMAIN t[f] : p = <<f, i>>
    BY PlacesElements
  <2>1. PICK i \in DOMAIN t[f] : p = <<f, i>>
    BY <2>0
  <2>2. CASE f # e
    BY <2>1, <2>2, PlacesElements
  <2>3. CASE f = e /\ i \in 1..n
    BY <2>1, <2>3, PlacesElements
  <2>4. CASE f = e /\ i \notin 1..n
    <3>1. i \in 1..(n + 1)
      BY <2>4
    <3>2. i = n + 1
      BY <2>4, <3>1
    <3> QED BY <2>1, <2>4, <3>2
  <2> QED BY <2>2, <2>3, <2>4
<1>3. ASSUME NEW p \in Places(s) PROVE p \in Places(t)
  <2>0. PICK f \in Notifiers : \E i \in DOMAIN s[f] : p = <<f, i>>
    BY PlacesElements
  <2>1. PICK i \in DOMAIN s[f] : p = <<f, i>>
    BY <2>0
  <2>2. i \in DOMAIN t[f]
    <3>1. CASE f # e
      BY <3>1
    <3>2. CASE f = e
      <4>1. i \in 1..n
        BY <3>2
      <4>2. i \in 1..(n + 1)
        BY <4>1
      <4> QED BY <3>2, <4>2
    <3> QED BY <3>1, <3>2
  <2> QED BY <2>1, <2>2, PlacesElements
<1>4. <<e, n + 1>> \in Places(t)
  <2>1. n + 1 \in DOMAIN t[e]
    OBVIOUS
  <2> QED BY <2>1, PlacesElements
<1> QED BY <1>1, <1>2, <1>3, <1>4

(* Two finite sets of which one has one element more.                      *)
LEMMA OneApart ==
  ASSUME NEW S, NEW T, NEW x, IsFiniteSet(S) \/ IsFiniteSet(T),
         x \notin S, T = S \cup {x}
  PROVE  /\ IsFiniteSet(S) /\ IsFiniteSet(T)
         /\ Cardinality(S) \in Nat /\ Cardinality(T) = Cardinality(S) + 1
<1>1. S = T \ {x} /\ x \in T
  OBVIOUS
<1>2. IsFiniteSet(S)
  <2>1. CASE IsFiniteSet(T)
    BY <1>1, <2>1, FS_RemoveElement
  <2> QED BY <2>1
<1>3. /\ IsFiniteSet(T) /\ Cardinality(S) \in Nat
      /\ Cardinality(T) = Cardinality(S) + 1
  BY <1>2, FS_AddElement, FS_CardinalityType
<1> QED BY <1>2, <1>3

(* The invariant: linked and free structures make up the pool, and no      *)
(* list holds a target twice.                                              *)
Linked ==
  /\ freeSubs \in Nat
  /\ IsFiniteSet(Taken)
  /\ freeSubs + Cardinality(Taken) = MaxSubscriptions
  /\ \A e \in Notifiers : Distinct(subs[e])

LEMMA LinkedInit == NInit => Linked
<1> SUFFICES ASSUME NInit PROVE Linked
  OBVIOUS
<1>1. subs = [e \in Notifiers |-> <<>>] /\ freeSubs = MaxSubscriptions
  BY DEF NInit
<1>2. Taken = {}
  BY <1>1 DEF Taken
<1>3. \A e \in Notifiers : Distinct(subs[e])
  BY <1>1 DEF Distinct
<1> QED BY <1>1, <1>2, <1>3, FS_EmptySet, NotificationAssumption DEF Linked

LEMMA SubscribeLinks ==
  ASSUME Calling, Linked, NEW source \in Notifiers, NEW target \in Entities,
         Subscribe(source, target)
  PROVE  Linked'
<1> DEFINE q == subs[source]
           n == Len(q)
<1>1. /\ q \in Seq(Entities) /\ n \in Nat /\ DOMAIN q = 1..n
      /\ DOMAIN Append(q, target) = 1..(n + 1)
  BY DEF Calling
<1>2. /\ freeSubs > 0 /\ freeSubs' = freeSubs - 1
      /\ subs' = [subs EXCEPT ![source] = Append(q, target)]
      /\ target \notin Elems(q)
  BY DEF Subscribe, Subscribed
<1>3. /\ subs'[source] = Append(q, target)
      /\ \A e \in Notifiers \ {source} : subs'[e] = subs[e]
  BY <1>2 DEF Calling
<1> DEFINE new == <<source, n + 1>>
<1>4. new \notin Places(subs) /\ Places(subs') = Places(subs) \cup {new}
  <2> HIDE DEF n
  <2> QED BY <1>1, <1>3, PlacesGrow
<1>5. Taken = Places(subs) /\ Taken' = Places(subs')
  BY DEF Taken, Places
<1> HIDE DEF new
<1>6. /\ IsFiniteSet(Taken') /\ Cardinality(Taken') = Cardinality(Taken) + 1
      /\ Cardinality(Taken) \in Nat
  BY <1>4, <1>5, OneApart DEF Linked
<1>7. Distinct(Append(q, target))
  BY <1>1, <1>2, AppendElems DEF Linked
<1>8. \A e \in Notifiers : Distinct(subs'[e])
  BY <1>3, <1>7 DEF Linked
<1>9. /\ freeSubs' \in Nat
      /\ freeSubs' + Cardinality(Taken') = MaxSubscriptions
  BY <1>2, <1>6, NotificationAssumption DEF Linked
<1> QED BY <1>6, <1>8, <1>9 DEF Linked

LEMMA UnsubscribeLinks ==
  ASSUME Calling, Linked, NEW source \in Notifiers, NEW target \in Entities,
         Unsubscribe(source, target)
  PROVE  Linked'
<1> DEFINE q == subs[source]
           n == Len(q) - 1
<1>1. PICK i \in DOMAIN q : subs' = [subs EXCEPT ![source] = Without(q, i)]
  BY DEF Unsubscribe
<1>2. q \in Seq(Entities) /\ Len(q) \in Nat \ {0} /\ DOMAIN q = 1..(n + 1)
  <2>1. q \in Seq(Entities)
    BY DEF Calling
  <2>2. Len(q) \in Nat /\ DOMAIN q = 1..Len(q) /\ i \in 1..Len(q)
    BY <2>1
  <2> QED BY <2>1, <2>2
<1>3. DOMAIN Without(q, i) = 1..n /\ Distinct(Without(q, i)) /\ n \in Nat
  BY <1>2, WithoutNode DEF Linked
<1>4. /\ subs'[source] = Without(q, i)
      /\ \A e \in Notifiers \ {source} : subs'[e] = subs[e]
  BY <1>1 DEF Calling
<1> DEFINE old == <<source, n + 1>>
<1>5. old \notin Places(subs') /\ Places(subs) = Places(subs') \cup {old}
  <2> HIDE DEF n
  <2> QED BY <1>2, <1>3, <1>4, PlacesGrow
<1>6. Taken = Places(subs) /\ Taken' = Places(subs')
  BY DEF Taken, Places
<1> HIDE DEF old
<1>7. /\ IsFiniteSet(Taken') /\ Cardinality(Taken) = Cardinality(Taken') + 1
      /\ Cardinality(Taken') \in Nat
  BY <1>5, <1>6, OneApart DEF Linked
<1>8. \A e \in Notifiers : Distinct(subs'[e])
  BY <1>3, <1>4 DEF Linked
<1>9. freeSubs' = freeSubs + 1
  BY DEF Unsubscribe
<1>10. /\ freeSubs' \in Nat
       /\ freeSubs' + Cardinality(Taken') = MaxSubscriptions
  BY <1>7, <1>9, NotificationAssumption DEF Linked
<1> QED BY <1>7, <1>8, <1>10 DEF Linked

LEMMA LinkedStep ==
  Calling /\ Linked /\ [NNext]_<<vars, nvars>> => Linked'
<1> SUFFICES ASSUME Calling, Linked, [NNext]_<<vars, nvars>> PROVE Linked'
  OBVIOUS
<1>1. CASE UNCHANGED <<subs, freeSubs>>
  BY <1>1 DEF Linked, Taken
<1> QED
  BY <1>1, SubscribeLinks, UnsubscribeLinks
     DEF NNext, nvars, Notify, SendNotification, NotifyReturns

LEMMA LinkedInvariant == NSpec => []Linked
<1> QED BY LinkedInit, LinkedStep, CallingInvariant, PTL DEF NSpec

(* fwk_notification_subscribe and fwk_notification_unsubscribe neither     *)
(* lose nor invent a subscription structure, and no target is subscribed   *)
(* twice to a source.                                                      *)
THEOREM SubscriptionsKept == NSpec => []SubscriptionsConserved
<1>1. TypeOK /\ Calling /\ Linked => SubscriptionsConserved
  <2> SUFFICES ASSUME TypeOK, Calling, Linked PROVE SubscriptionsConserved
    OBVIOUS
  <2>1. Cardinality(Taken) \in Nat
    BY FS_CardinalityType DEF Linked
  <2>2. freeSubs \in 0..MaxSubscriptions
    BY <2>1, NotificationAssumption DEF Linked
  <2> QED
    BY <2>2 DEF SubscriptionsConserved, NTypeOK, Calling, Linked
<1> QED
  BY <1>1, RuntimeUnderneath, TypeCorrect, CallingInvariant, LinkedInvariant,
     PTL

(***************************************************************************)
(* What one call queues                                                    *)
(***************************************************************************)

(* What is left to notify is the end of the subscription list.             *)
EndOf(todo, targets) ==
  /\ Len(todo) <= Len(targets)
  /\ \A i \in 1..Len(todo) :
       todo[i] = targets[Len(targets) - Len(todo) + i]

(* The i-th event that the call put is the notification of the i-th        *)
(* subscriber of the list.                                                 *)
Notified(e, src, target) == e.isNotification /\ e.src = src /\ e.tgt = target
Batch(call) ==
  /\ call.sent <= Len(PutByThread)
  /\ \A i \in 1..call.sent :
       Notified(slot[PutByThread[Len(PutByThread) - call.sent + i]],
                call.src, subs[call.src][i])

(* The call of fwk_notification_notify in the thread.  Its caller is still *)
(* the entity whose handler runs, and no put has failed before the pool    *)
(* was empty: what was sent is the start of the list, what is left its     *)
(* end.                                                                    *)
InProgress(call) ==
  /\ phase \in {"boot", "handler"}
  /\ current # None => slot[current].tgt = call.src
  /\ EndOf(call.todo, subs[call.src])
  /\ call.sent <= Len(subs[call.src]) - Len(call.todo)
  /\ free # <<>> => call.sent = Len(subs[call.src]) - Len(call.todo)
  /\ Batch(call)

BatchInv ==
  notifying["thread"] # None => InProgress(notifying["thread"])

(* What the thread has put is queued, but for the event it puts now.       *)
LEMMA PutByThreadIs ==
  ASSUME TypeOK
  PROVE  /\ PutByThread \in Seq(Slots) /\ Len(PutByThread) \in Nat
         /\ Elems(PutByThread) \subseteq Occupied
         /\ moving = None => PutByThread = queue
         /\ moving # None => PutByThread = Append(queue, moving)
<1>1. queue \in Seq(Slots) /\ moving \in Slots \cup {None}
  BY DEF TypeOK
<1>2. CASE moving = None
  <2>1. PutByThread = queue
    BY <1>1, <1>2, ConcatEmptySeq DEF PutByThread
  <2> QED BY <1>1, <1>2, <2>1 DEF Occupied
<1>3. CASE moving # None
  <2>1. moving \in Slots /\ PutByThread = queue \o <<moving>>
    BY <1>1, <1>3 DEF PutByThread
  <2>2. PutByThread = Append(queue, moving)
    BY <1>1, <2>1, AppendIsConcat
  <2>3. /\ Append(queue, moving) \in Seq(Slots)
        /\ Elems(Append(queue, moving)) = Elems(queue) \cup {moving}
    BY <1>1, <2>1, AppendElems
  <2>4. moving \in Occupied
    BY <1>3 DEF Occupied, InHand
  <2>5. Len(PutByThread) \in Nat
    BY <2>2, <2>3
  <2> QED BY <1>3, <2>2, <2>3, <2>4, <2>5 DEF Occupied
<1> QED BY <1>2, <1>3

(* A step that leaves what the thread has put alone disturbs no call of    *)
(* it.                                                                     *)
LEMMA BatchKept ==
  ASSUME TypeInv, NEW call \in Call, InProgress(call),
         PutByThread' = PutByThread, \A s \in Occupied : slot'[s] = slot[s],
         free # <<>> \/ free' = free, UNCHANGED <<current, phase, subs>>
  PROVE  InProgress(call)'
<1> DEFINE p == PutByThread
<1>1. current # None => slot'[current] = slot[current]
  <2>1. current # None => current \in Occupied
    BY DEF Occupied, InHand
  <2> QED BY <2>1
<1>2. ASSUME NEW i \in 1..call.sent, call.sent <= Len(p)
      PROVE  slot'[p[Len(p) - call.sent + i]] = slot[p[Len(p) - call.sent + i]]
  <2> DEFINE at == Len(p) - call.sent + i
  <2>1. call.sent \in Nat /\ p \in Seq(Slots) /\ Elems(p) \subseteq Occupied
    BY PutByThreadIs DEF Call, TypeInv
  <2> HIDE DEF p
  <2>2. at \in DOMAIN p
    BY <2>1, <1>2
  <2>3. p[at] \in Occupied
    BY <2>1, <2>2 DEF Elems
  <2> QED BY <2>3
<1> HIDE DEF p
<1>3. Batch(call)'
  BY <1>2 DEF InProgress, Batch, p
<1>4. free' # <<>> => call.sent = Len(subs[call.src]) - Len(call.todo)
  BY DEF InProgress
<1> QED BY <1>1, <1>3, <1>4 DEF InProgress

(* An interrupt handler that puts an event disturbs no call of the thread. *)
LEMMA IsrPutKeeps ==
  ASSUME TypeInv, WholePool, NEW call \in Call, InProgress(call),
         NEW e \in Event, PutEvent(e, "isr"), UNCHANGED <<current, phase, subs>>
  PROVE  InProgress(call)'
<1>1. queue' = queue /\ moving' = moving /\ free # <<>>
  BY DEF PutEvent
<1>2. \A s \in Occupied : slot'[s] = slot[s]
  BY PutEventFills DEF Contexts, HandFree
<1>3. PutByThread' = PutByThread
  BY <1>1 DEF PutByThread
<1> QED BY <1>1, <1>2, <1>3, BatchKept

(* Nor does the end of the thread's own put.                               *)
LEMMA PushKeeps ==
  ASSUME TypeInv, TypeInv', NEW call \in Call, InProgress(call), PushEvent,
         UNCHANGED subs
  PROVE  InProgress(call)'
<1>1. /\ queue' = Append(queue, moving) /\ moving # None /\ moving' = None
      /\ UNCHANGED <<free, slot, current, phase>>
  BY DEF PushEvent
<1>2. PutByThread' = queue'
  BY <1>1, ConcatEmptySeq DEF PutByThread, TypeInv, TypeOK
<1>3. PutByThread = Append(queue, moving)
  BY <1>1, PutByThreadIs DEF TypeInv
<1> QED BY <1>1, <1>2, <1>3, BatchKept

(* The next subscriber of the list is notified.                            *)
LEMMA EndOfTail ==
  ASSUME NEW S, NEW todo \in Seq(S), NEW targets \in Seq(S),
         EndOf(todo, targets), todo # <<>>
  PROVE  /\ EndOf(Tail(todo), targets)
         /\ Len(Tail(todo)) = Len(todo) - 1
         /\ Head(todo) = targets[Len(targets) - Len(todo) + 1]
<1>1. /\ Len(todo) \in Nat \ {0} /\ Len(targets) \in Nat
      /\ Head(todo) = todo[1] /\ Len(Tail(todo)) = Len(todo) - 1
      /\ \A i \in 1..(Len(todo) - 1) : Tail(todo)[i] = todo[i + 1]
  OBVIOUS
<1>2. ASSUME NEW i \in 1..(Len(todo) - 1)
      PROVE  Tail(todo)[i] = targets[Len(targets) - (Len(todo) - 1) + i]
  <2>1. i + 1 \in 1..Len(todo) /\ Tail(todo)[i] = todo[i + 1]
    BY <1>1
  <2>2. Len(targets) - Len(todo) + (i + 1)
          = Len(targets) - (Len(todo) - 1) + i
    BY <1>1
  <2> QED BY <2>1, <2>2 DEF EndOf
<1>3. todo[1] = targets[Len(targets) - Len(todo) + 1]
  BY <1>1 DEF EndOf
<1>4. Len(todo) - 1 <= Len(targets)
  BY <1>1 DEF EndOf
<1>5. EndOf(Tail(todo), targets)
  BY <1>1, <1>2, <1>4 DEF EndOf
<1> QED BY <1>1, <1>3, <1>5

(* The event of a notification that the thread puts.                       *)
LEMMA NotificationEvent ==
  ASSUME TypeInv, NEW context \in Contexts, NEW src \in Entities,
         NEW tgt \in Entities, NEW req \in RequestFlags,
         PutNotificationTo(context, src, tgt, req)
  PROVE  \E e \in Event :
           /\ Notified(e, Source(src, context), tgt)
           /\ PutEvent(e, context) /\ HandFree(context)
           /\ UNCHANGED <<current, phase>>
<1> DEFINE from == Source(src, context)
           e == [Zeroed EXCEPT !.src = from, !.tgt = tgt,
                               !.id = ModuleOf[from], !.isNotification = TRUE,
                               !.responseRequested = req]
<1>1. /\ PutEvent(e, context) /\ MayPut(context)
      /\ UNCHANGED <<current, phase>>
  BY Zenon DEF PutNotificationTo
<1>7. HandFree(context)
  BY <1>1 DEF MayPut, HandFree
<1>2. from \in Entities
  <2>1. CASE context = "thread" /\ current # None
    <3>1. current \in InHand
      BY <2>1 DEF InHand
    <3>2. slot[current].tgt \in Entities
      BY <3>1 DEF TypeInv, EndpointsExist, Endpoints
    <3> QED BY <2>1, <3>2 DEF Source
  <2>2. CASE ~(context = "thread" /\ current # None)
    BY <2>2 DEF Source
  <2> QED BY <2>1, <2>2
<1> HIDE DEF from
<1>3. /\ ModuleOf[from] \in Modules /\ req \in BOOLEAN
      /\ from \in Ids /\ tgt \in Ids
  BY <1>2, ThreadAssumption DEF Ids
<1>4. Zeroed \in Event
  BY ThreadAssumption DEF Zeroed, Event, Ids, Contexts
<1>5. e \in Event
  BY <1>3, <1>4 DEF Event
<1>6. e.isNotification = TRUE /\ e.src = from /\ e.tgt = tgt
  BY <1>4 DEF Event
<1> QED BY <1>1, <1>5, <1>6, <1>7 DEF Notified, from

(* A notification of the thread goes to the end of the event queue, behind *)
(* those the call has put before; it is sent in the name of the source     *)
(* that the call started with.                                             *)
LEMMA ThreadPutExtends ==
  ASSUME TypeInv, WholePool, NEW call \in Call, InProgress(call),
         NEW next \in Call, call.todo # <<>>,
         call.todo \in Seq(Entities), subs[call.src] \in Seq(Entities),
         next.src = call.src, next.todo = Tail(call.todo),
         next.sent = call.sent + 1,
         PutNotificationTo("thread", call.src, Head(call.todo), call.req),
         call.src \in Entities, Head(call.todo) \in Entities,
         call.req \in RequestFlags, subs' = subs
  PROVE  InProgress(next)'
<1> DEFINE targets == subs[call.src]
           n == Len(PutByThread)
           k == call.sent
<1>1. PICK e \in Event : /\ Notified(e, Source(call.src, "thread"),
                                     Head(call.todo))
                         /\ PutEvent(e, "thread") /\ HandFree("thread")
                         /\ UNCHANGED <<current, phase>>
  BY NotificationEvent DEF Contexts
<1>2. Source(call.src, "thread") = call.src
  BY DEF Source, InProgress
<1>3. /\ Head(free) \in Slots /\ slot'[Head(free)] = Stored(e, "thread")
      /\ \A s \in Occupied : slot'[s] = slot[s]
  BY <1>1, PutEventFills DEF Contexts
<1>4. PutByThread' = Append(PutByThread, Head(free)) /\ free # <<>>
  <2>1. /\ queue' = queue /\ moving = None /\ moving' = Head(free)
        /\ free # <<>> /\ queue \in Seq(Slots) /\ Head(free) # None
    BY <1>1, <1>3, ThreadAssumption DEF PutEvent, HandFree, TypeInv, TypeOK
  <2>2. PutByThread' = queue \o <<Head(free)>> /\ PutByThread = queue
    BY <2>1, PutByThreadIs DEF PutByThread, TypeInv
  <2>3. queue \o <<Head(free)>> = Append(queue, Head(free))
    BY <1>3, <2>1, AppendIsConcat
  <2> QED BY <2>1, <2>2, <2>3
<1>5. Notified(slot'[Head(free)], call.src, Head(call.todo))
  <2>1. TypeOK
    BY DEF TypeInv
  <2> QED BY <1>1, <1>2, <1>3, <2>1, StoredFields DEF Notified, Contexts
<1>6. /\ EndOf(Tail(call.todo), targets)
      /\ Len(Tail(call.todo)) = Len(call.todo) - 1
      /\ Head(call.todo) = targets[Len(targets) - Len(call.todo) + 1]
  BY EndOfTail DEF InProgress
<1>7. /\ k = Len(targets) - Len(call.todo)
      /\ k \in Nat /\ k <= n
      /\ Len(targets) \in Nat /\ Len(call.todo) \in Nat
      /\ \A i \in 1..k :
           Notified(slot[PutByThread[n - k + i]], call.src, targets[i])
  BY <1>4 DEF InProgress, Batch, Call
<1>8. /\ PutByThread \in Seq(Slots) /\ n \in Nat
      /\ Elems(PutByThread) \subseteq Occupied
  BY PutByThreadIs DEF TypeInv
<1> DEFINE t == Len(call.todo)
           l == Len(targets)
<1>17. k = l - t /\ k \in Nat /\ k <= n /\ l \in Nat /\ t \in Nat /\ n \in Nat
      /\ Len(next.todo) = t - 1 /\ next.sent = k + 1
  BY <1>6, <1>7, <1>8
<1> HIDE DEF k, n, t, l
<1>9. /\ Len(PutByThread') = n + 1 /\ PutByThread'[n + 1] = Head(free)
      /\ \A i \in 1..n : PutByThread'[i] = PutByThread[i]
  BY <1>3, <1>4, <1>8 DEF n
<1>10. ASSUME NEW i \in 1..(k + 1)
       PROVE  Notified(slot'[PutByThread'[(n + 1) - (k + 1) + i]],
                       call.src, targets[i])
  <2>1. CASE i = k + 1
    <3>1. (n + 1) - (k + 1) + i = n + 1
      BY <2>1, <1>17
    <3>2. targets[i] = Head(call.todo)
      <4>1. l - t + 1 = i
        BY <2>1, <1>17
      <4> QED BY <4>1, <1>6 DEF l, t
    <3> QED BY <3>1, <3>2, <1>5, <1>9
  <2>2. CASE i # k + 1
    <3>1. /\ i \in 1..k /\ n - k + i \in 1..n
          /\ (n + 1) - (k + 1) + i = n - k + i
      BY <2>2, <1>17
    <3>2. PutByThread[n - k + i] \in Occupied
      BY <3>1, <1>8 DEF Elems, n
    <3>3. slot'[PutByThread'[n - k + i]] = slot[PutByThread[n - k + i]]
      BY <3>1, <3>2, <1>3, <1>9
    <3> QED BY <3>1, <3>3, <1>7 DEF n, k
  <2> QED BY <2>1, <2>2
<1>11. Batch(next)'
  <2>1. next.sent = k + 1 /\ k + 1 <= n + 1
    BY <1>17
  <2> QED BY <2>1, <1>9, <1>10 DEF Batch
<1>12. current' # None => slot'[current'].tgt = call.src
  <2>1. current # None => current \in Occupied
    BY DEF Occupied, InHand
  <2> QED BY <2>1, <1>1, <1>3 DEF InProgress
<1>13. next.sent = l - Len(next.todo)
  BY <1>17
<1>14. phase' \in {"boot", "handler"}
  BY <1>1 DEF InProgress
<1>15. next.sent <= l - Len(next.todo)
  BY <1>17
<1>16. EndOf(next.todo, targets)
  BY <1>6
<1> QED
  BY <1>11, <1>12, <1>13, <1>14, <1>15, <1>16 DEF InProgress, l

(* A subscriber is skipped: the pool is empty, and stays empty while the   *)
(* thread notifies.                                                        *)
LEMMA ThreadPutSkips ==
  ASSUME NEW call \in Call, InProgress(call), NEW next \in Call,
         call.todo # <<>>,
         call.todo \in Seq(Entities), subs[call.src] \in Seq(Entities),
         next.src = call.src, next.todo = Tail(call.todo),
         next.sent = call.sent, free = <<>>, UNCHANGED vars, subs' = subs
  PROVE  InProgress(next)'
<1>1. /\ EndOf(Tail(call.todo), subs[call.src])
      /\ Len(Tail(call.todo)) = Len(call.todo) - 1
  BY EndOfTail DEF InProgress
<1>2. next.sent <= Len(subs[call.src]) - Len(next.todo)
  <2> DEFINE l == Len(subs[call.src])
             t == Len(call.todo)
  <2>1. l \in Nat /\ t \in Nat /\ call.sent \in Nat
    BY DEF Call
  <2>2. call.sent <= l - t /\ Len(next.todo) = t - 1
    BY <1>1 DEF InProgress
  <2> HIDE DEF l, t
  <2>3. call.sent <= l - (t - 1)
    BY <2>1, <2>2
  <2> QED BY <2>2, <2>3 DEF l
<1>3. Batch(next)'
  BY DEF InProgress, Batch, PutByThread, vars
<1> QED BY <1>1, <1>2, <1>3 DEF InProgress, vars

LEMMA BatchStep ==
  TypeInv /\ TypeInv' /\ WholePool /\ Calling /\ BatchInv
    /\ [NNext]_<<vars, nvars>> => BatchInv'
<1> SUFFICES ASSUME TypeInv, TypeInv', WholePool, Calling, BatchInv,
                    [NNext]_<<vars, nvars>>
             PROVE  BatchInv'
  OBVIOUS
<1> PICK call : call = notifying["thread"]
  OBVIOUS
<1> PICK next : next = notifying'["thread"]
  OBVIOUS
<1> SUFFICES ASSUME next # None PROVE InProgress(next)'
  BY DEF BatchInv, InProgress, Batch
<1>1. notifying \in [Contexts -> Call \cup {None}] /\ "thread" \in Contexts
  BY DEF Calling, Contexts
<1>2. ASSUME next = call, UNCHANGED subs,
             UNCHANGED AllButTorn \/ ModuleStep("isr") \/ PushEvent
      PROVE  InProgress(next)'
  <2>1. call \in Call /\ InProgress(call)
    BY <1>1, <1>2, CallFields DEF BatchInv
  <2>2. CASE UNCHANGED AllButTorn
    BY <2>1, <2>2, <1>2 DEF AllButTorn, InProgress, Batch, PutByThread
  <2>3. CASE ModuleStep("isr")
    <3>1. PICK e \in Event : PutEvent(e, "isr")
                             /\ UNCHANGED <<current, phase>>
      BY <2>3, ModulePuts DEF Contexts
    <3> QED BY <2>1, <1>2, <3>1, IsrPutKeeps
  <2>4. CASE PushEvent
    BY <2>1, <1>2, <2>4, PushKeeps
  <2> QED BY <2>2, <2>3, <2>4, <1>2
<1>3. ASSUME NEW context \in Contexts, NEW src \in Notifiers,
             NEW req \in RequestFlags, Notify(context, src, req)
      PROVE  InProgress(next)'
  <2>1. CASE context # "thread"
    <3>1. next = call /\ UNCHANGED <<AllButTorn, subs>>
      BY <1>1, <1>3, <2>1 DEF Notify, vars, AllButTorn
    <3> QED BY <3>1, <1>2
  <2>2. CASE context = "thread"
    <3> DEFINE from == Source(src, context)
    <3>1. /\ next = [src |-> from, req |-> req, todo |-> subs[from],
                     sent |-> 0]
          /\ from \in Notifiers /\ UNCHANGED <<vars, subs>>
          /\ phase \in {"boot", "handler"}
      BY <1>1, <1>3, <2>2 DEF Notify, CanCall, MayPut
    <3>2. current # None => slot[current].tgt = from
      BY <2>2 DEF Source
    <3>3. subs[from] \in Seq(Entities)
      BY <3>1 DEF Calling
    <3> HIDE DEF from
    <3>4. /\ next.src = from /\ next.todo = subs[from] /\ next.sent = 0
          /\ Len(subs[from]) \in Nat /\ Len(PutByThread) \in Nat
      BY <3>1, <3>3, PutByThreadIs DEF TypeInv
    <3>5. EndOf(next.todo, subs[next.src])
      BY <3>4 DEF EndOf
    <3>6. Batch(next)
      BY <3>4 DEF Batch
    <3>7. InProgress(next)
      BY <3>1, <3>2, <3>4, <3>5, <3>6 DEF InProgress
    <3> QED BY <3>1, <3>7 DEF vars, InProgress, Batch, PutByThread
  <2> QED BY <2>1, <2>2
<1>4. ASSUME NEW context \in Contexts, SendNotification(context)
      PROVE  InProgress(next)'
  <2>1. UNCHANGED subs
    BY <1>4 DEF SendNotification
  <2>2. CASE context # "thread"
    <3>1. context = "isr" /\ next = call
      BY <1>1, <1>4, <2>2, SendLeaves DEF Contexts
    <3>2. UNCHANGED AllButTorn \/ PutNotification("isr")
      BY <1>4, <3>1, SendIsPut DEF vars, AllButTorn
    <3> QED BY <2>1, <3>1, <3>2, <1>2 DEF ModuleStep
  <2>3. CASE context = "thread"
    <3>1. /\ call # None /\ call.todo # <<>>
          /\ next \in Call /\ next.src = call.src
          /\ next.todo = Tail(call.todo)
          /\ \/ /\ PutNotificationTo("thread", call.src, Head(call.todo),
                                     call.req)
                /\ next.sent = call.sent + 1
             \/ free = <<>> /\ UNCHANGED vars /\ next.sent = call.sent
      BY <1>4, <2>3, SendLeaves
    <3>2. /\ call \in Call /\ InProgress(call) /\ call.src \in Entities
          /\ call.todo \in Seq(Entities) /\ Head(call.todo) \in Entities
          /\ call.req \in RequestFlags /\ call.src \in Notifiers
      BY <1>1, <3>1, CallFields DEF BatchInv
    <3>3. subs[call.src] \in Seq(Entities)
      BY <3>2 DEF Calling
    <3> QED BY <2>1, <3>1, <3>2, <3>3, ThreadPutExtends, ThreadPutSkips
  <2> QED BY <2>2, <2>3
<1>5. ASSUME NEW context \in Contexts, NotifyReturns(context)
      PROVE  InProgress(next)'
  <2>1. context # "thread" /\ next = call /\ UNCHANGED <<AllButTorn, subs>>
    BY <1>1, <1>5 DEF NotifyReturns, vars, AllButTorn
  <2> QED BY <2>1, <1>2
<1>6. ASSUME NEW source \in Notifiers, NEW target \in Entities,
             Subscribe(source, target) \/ Unsubscribe(source, target)
      PROVE  FALSE
  BY <1>6 DEF Subscribe, Unsubscribe, CanCall
<1>7. CASE \/ ThreadFree /\ UNCHANGED nvars
           \/ UNCHANGED nvars /\ (PutRequest("isr") \/ PutDelayedResponse("isr"))
           \/ UNCHANGED nvars /\ PushEvent
           \/ UNCHANGED <<AllButTorn, nvars>>
  <2>1. next = call /\ UNCHANGED subs /\ ~ThreadFree
    BY <1>7 DEF nvars, ThreadFree
  <2> QED BY <2>1, <1>2, <1>7 DEF ModuleStep
<1>8. UNCHANGED <<vars, nvars>> \/ (PopRaces /\ UNCHANGED nvars)
        => UNCHANGED <<AllButTorn, nvars>>
  BY DEF vars, PopRaces, AllButTorn, queues, history
<1> QED
  BY <1>3, <1>4, <1>5, <1>6, <1>7, <1>8 DEF NNext

LEMMA BatchInvariant == NSpec => []BatchInv
<1>1. NInit => BatchInv
  <2> SUFFICES ASSUME NInit PROVE notifying["thread"] = None
    BY DEF BatchInv
  <2> QED BY DEF NInit, Contexts
<1>2. Spec => []TypeInv /\ []WholePool
  BY TypeInvariant, PoolInvariant, PTL
<1> QED
  BY <1>1, <1>2, RuntimeUnderneath, CallingInvariant, BatchStep, PTL
     DEF NSpec

(* While fwk_notification_notify runs in the thread, what it has queued is *)
(* at the end of the event queue, one notification per subscriber from the *)
(* head of the list on, whatever interrupt handlers put and notify between *)
(* two of its events.                                                      *)
THEOREM BatchInOrder == NSpec => []BatchFollowsSubscriptions
<1>1. TypeInv /\ Calling /\ BatchInv => BatchFollowsSubscriptions
  <2> SUFFICES ASSUME TypeInv, Calling, BatchInv, notifying["thread"] # None
               PROVE  BatchFollowsSubscriptions
    BY DEF BatchFollowsSubscriptions
  <2> DEFINE call == notifying["thread"]
             n == Len(PutByThread)
             k == call.sent
             batch == SubSeq(PutByThread, n - k + 1, n)
  <2>1. /\ k \in Nat /\ n \in Nat /\ k <= n /\ PutByThread \in Seq(Slots)
        /\ \A i \in 1..k : Notified(slot[PutByThread[n - k + i]],
                                    call.src, subs[call.src][i])
    <3>1. k \in Nat
      BY CallFields DEF Contexts
    <3>2. Batch(call)
      BY DEF BatchInv, InProgress
    <3>3. PutByThread \in Seq(Slots) /\ n \in Nat
      BY PutByThreadIs DEF TypeInv
    <3> QED BY <3>1, <3>2, <3>3 DEF Batch
  <2>2. /\ DOMAIN batch = 1..k
        /\ \A i \in 1..k : batch[i] = PutByThread[n - k + i]
    <3> HIDE DEF k
    <3>1. n - k + 1 \in 1..(n + 1) /\ n \in 0..n
      BY <2>1
    <3>2. \A i \in 1..k : (n - k + 1) + i - 1 = n - k + i
      BY <2>1
    <3>3. n - (n - k + 1) + 1 = k
      BY <2>1
    <3> QED BY <2>1, <3>1, <3>2, <3>3
  <2> QED BY <2>1, <2>2 DEF BatchFollowsSubscriptions, Notified
<1> QED
  BY <1>1, RuntimeUnderneath, TypeInvariant, CallingInvariant,
     BatchInvariant, PTL
=============================================================================
