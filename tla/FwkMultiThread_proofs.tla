------------------------ MODULE FwkMultiThread_proofs ------------------------
(***************************************************************************)
(* Proofs about FwkMultiThread: its safety properties hold for any         *)
(* threads, entities, system of Usages and number of events.               *)
(*                                                                         *)
(* Inv, at the end, is inductive.  Its parts lean on each other: a thread  *)
(* is told to go on only when it is its turn (TurnInv) and it is where the *)
(* flag finds it (PlaceInv); the response that wakes it is the only event  *)
(* that matches, because the request it answers was carried in one place   *)
(* (CarrierInv) and cookies are never used again (EventInv, AwaitInv); and *)
(* the queue of ready threads follows from where threads are and what is   *)
(* queued for them (ReadyInv).                                             *)
(***************************************************************************)
EXTENDS FwkMultiThread, FiniteSetTheorems, TLAPS

(* Whose turn it is: a thread that runs or is told to.                     *)
InTurn(t) == pc[t] \in Active \/ flags[t] # {}

TurnInv ==
  /\ \A s, t \in Threads : InTurn(s) /\ InTurn(t) => s = t
  /\ \A t \in Threads : \/ flags[t] = {}
                        \/ /\ pc[t] \in Waiting
                           /\ \E f \in Signals : flags[t] = {f}
  /\ waitingIsr => \A t \in Threads : ~InTurn(t)

(* Where threads are, and what the runtime knows of them then.             *)
PlaceOf(t) ==
  /\ pc[t] \in {"boot", "isrcheck", "isrwait"} => t = Common
  /\ pc[t] \in {"boot", "launch", "isrcheck", "isrwait"} =>
       current = None /\ currentEvent = None
  /\ pc[t] \in {"handle", "call", "finish"} =>
       current = t /\ currentEvent = handling[t]
  /\ handling[t] # None <=> pc[t] \in {"handle", "call", "blocked", "finish"}
  /\ awaits[t] # None <=> pc[t] \in {"call", "blocked"}
  /\ pc[t] = "take" => evq[t] # <<>>
  /\ TO_PROCESS \in flags[t] => pc[t] = "wait" /\ evq[t] # <<>>
  /\ PROCESSED \in flags[t] => pc[t] = "blocked" /\ awaits[t].answer # None
  /\ NO_READY \in flags[t] =>
       /\ t = Common /\ pc[t] = "wait" /\ ready = <<>>
       /\ evq[t] = <<>> /\ current = None /\ currentEvent = None
  /\ ISR_EVENT \in flags[t] => pc[t] = "isrwait"
CommonPlace ==
  /\ pc[Common] \in {"isrcheck", "isrwait"} =>
       ready = <<>> /\ evq[Common] = <<>>
  /\ pc[Common] = "isrwait" => waitingIsr \/ ISR_EVENT \in flags[Common]
  /\ waitingIsr => pc[Common] = "isrwait"
  /\ awaits[Common] = None
  /\ pc[Common] = "boot" =>
       \A t \in Threads \ {Common} : pc[t] = "wait" /\ flags[t] = {}
CurrentPlace ==
  current # None => pc[current] \in {"handle", "finish", "call", "blocked"}
PlaceInv ==
  (\A t \in Threads : PlaceOf(t)) /\ CommonPlace /\ CurrentPlace

(* Events, those stored and those of interrupts, with cookies below c.      *)
QueuedOK(e, c) ==
  /\ e.cookie < c /\ ~e.sent
  /\ IF e.response THEN ~e.want ELSE e.request = e.cookie
StoredOK(d, c) ==
  /\ d.response /\ ~d.want /\ ~d.early
  /\ d.cookie < c /\ d.request = d.cookie
IsrOK(d, c) == ~d.early /\ ~d.sent /\ (d.response => StoredOK(d, c))

QueuedInv ==
  \A t \in Threads : \A i \in DOMAIN evq[t] : QueuedOK(evq[t][i], cookies)
HandledInv ==
  \A t \in Threads : handling[t] # None => QueuedOK(handling[t], cookies)
StoredInv ==
  \A e \in Entities : \A d \in delayed[e] : d.src = e /\ StoredOK(d, cookies)
IsrInv == \A i \in DOMAIN isrQueue : IsrOK(isrQueue[i], cookies)
EventInv == QueuedInv /\ HandledInv /\ StoredInv /\ IsrInv

(* Where the response to the request with cookie k may still come from.    *)
Asks(e) == ~e.response /\ e.want
QueuedCarrier(x, i, k) ==
  /\ x \in Threads /\ i \in DOMAIN evq[x]
  /\ Asks(evq[x][i]) /\ evq[x][i].cookie = k
HandledCarrier(x, k) ==
  /\ x \in Threads /\ pc[x] \in {"handle", "call", "blocked"}
  /\ Asks(handling[x]) /\ handling[x].cookie = k
StoredCarrier(x, d, k) ==
  x \in Entities /\ d \in delayed[x] /\ ~d.sent /\ d.cookie = k
IsrCarrier(i, k) ==
  /\ i \in DOMAIN isrQueue
  /\ isrQueue[i].response /\ isrQueue[i].cookie = k
Carries(kind, x, i, k) ==
  \/ kind = "queued" /\ QueuedCarrier(x, i, k)
  \/ kind = "handled" /\ i = 0 /\ HandledCarrier(x, k)
  \/ kind = "stored" /\ StoredCarrier(x, i, k)
  \/ kind = "isr" /\ x = 0 /\ IsrCarrier(i, k)
Carried(k) == \E kind, x, i : Carries(kind, x, i, k)

(* There is one such place; and a response that an interrupt handler has   *)
(* sent, whose structure stays where it is, comes from no other place.     *)
Unique ==
  \A k \in Nat : \A p, q, x, y, i, j :
    Carries(p, x, i, k) /\ Carries(q, y, j, k) => p = q /\ x = y /\ i = j
StoredOnce ==
  \A e \in Entities : \A c, d \in delayed[e] : c.cookie = d.cookie => c = d
SentGone ==
  \A e \in Entities : \A d \in delayed[e] : d.sent =>
    \A x, i : /\ ~QueuedCarrier(x, i, d.cookie)
              /\ ~HandledCarrier(x, d.cookie)
CarrierInv == Unique /\ StoredOnce /\ SentGone

(* A thread that waits; and the response that has come for it.             *)
AwaitOK(t) ==
  awaits[t] # None =>
    /\ awaits[t].cookie < cookies
    /\ IF awaits[t].answer = None THEN awaits[t].cookie = awaits[t].asked
       ELSE /\ PROCESSED \in flags[t]
            /\ awaits[t].answer.request = awaits[t].asked
WakeOK(t, i) ==
  evq[t][i].wake =>
    /\ awaits[t] # None /\ awaits[t].answer = None /\ i = 1
    /\ evq[t][i].request = awaits[t].cookie
    /\ current # t
    /\ ~Carried(awaits[t].cookie)
AwaitInv ==
  \A t \in Threads : AwaitOK(t) /\ \A i \in DOMAIN evq[t] : WakeOK(t, i)

(* Threads whose response has come are first among those that are ready,   *)
(* and there is none when a thread is to take an event.                    *)
WaitersFirst ==
  \A i, j \in DOMAIN ready :
    i < j /\ awaits[ready[j]] # None => awaits[ready[i]] # None
NoWaiterLeft ==
  \A t \in Threads : (pc[t] = "take" \/ TO_PROCESS \in flags[t]) =>
    \A i \in DOMAIN ready : awaits[ready[i]] = None
ReadyInv == ReadyOnce /\ WaitersFirst /\ NoWaiterLeft

(* An event not put early is at the thread of the entity it is for.        *)
HomeOK(e, t) == ~e.early => pc[Common] # "boot" /\ t = ThreadOf(e.tgt)
HomeInv ==
  \A t \in Threads : /\ \A i \in DOMAIN evq[t] : HomeOK(evq[t][i], t)
                     /\ handling[t] # None => HomeOK(handling[t], t)

(***************************************************************************)
(* The types, but for the bound of free, which the pool's invariant gives. *)
(***************************************************************************)
Types ==
  /\ usage \in Usages /\ owners \subseteq usage.owners
  /\ free \in Nat
  /\ isrQueue \in Seq(Event) /\ waitingIsr \in BOOLEAN
  /\ ready \in Seq(Threads)
  /\ current \in Threads \cup {None} /\ currentEvent \in Event \cup {None}
  /\ cookies \in Nat /\ posts \in 0..MaxPosts
  /\ evq \in [Threads -> Seq(Event)]
  /\ awaits \in [Threads -> Await \cup {None}]
  /\ flags \in [Threads -> SUBSET Signals]
  /\ pc \in [Threads -> Active \cup Waiting]
  /\ handling \in [Threads -> Event \cup {None}]
  /\ delayed \in [Entities -> SUBSET Event]

(* Whose thread it is is always known.                                     *)
LEMMA ThreadKnown ==
  ASSUME Types, NEW e \in Entities
  PROVE  ThreadOf(e) \in Threads
<1>1. owners \subseteq DOMAIN NewThread
  BY MultiThreadAssumption DEF Types
<1>. QED
  BY <1>1, MultiThreadAssumption DEF ThreadOf

(* What an event looks like once it is queued.                             *)
LEMMA StampedType ==
  ASSUME Types, NEW t \in Threads, NEW e \in Event
  PROVE  /\ Stamped(t, e) \in Event
         /\ Stamped(t, e).src = e.src /\ Stamped(t, e).tgt = e.tgt
         /\ Stamped(t, e).response = e.response
         /\ Stamped(t, e).want = e.want
         /\ Stamped(t, e).cookie = cookies
         /\ Stamped(t, e).wake = IsWake(t, e)
         /\ Stamped(t, e).request = IF e.response THEN e.request ELSE cookies
         /\ Stamped(t, e).sent = e.sent /\ Stamped(t, e).early = e.early
<1>1. IsWake(t, e) \in BOOLEAN
  BY DEF IsWake, Event
<1>2. cookies \in Nat
  BY DEF Types
<1>. QED
  BY <1>1, <1>2 DEF Stamped, Event

LEMMA NewType ==
  ASSUME NEW s \in Entities, NEW g \in Entities, NEW w \in BOOLEAN
  PROVE  /\ NewEvent(s, g, w) \in Event
         /\ [NewEvent(s, g, w) EXCEPT !.early = FALSE] \in Event
BY DEF NewEvent, Event

(* The queues after an event was put in the one of t.                      *)
Queues(t, e) ==
  /\ cookies' = cookies + 1
  /\ evq' = [evq EXCEPT ![t] = IF Stamped(t, e).wake THEN <<Stamped(t, e)>> \o @
                               ELSE Append(@, Stamped(t, e))]

LEMMA EnqueueQueues ==
  ASSUME NEW t \in Threads, NEW e \in Event, Enqueue(t, e)
  PROVE  /\ Queues(t, e)
         /\ ready' = IF Stamped(t, e).wake THEN <<t>> \o ready
                     ELSE IF evq[t] = <<>> /\ t # current /\ awaits[t] = None
                     THEN Append(ready, t) ELSE ready
BY DEF Enqueue, Queues

LEMMA QueuesEffect ==
  ASSUME Types, NEW t \in Threads, NEW e \in Event, Queues(t, e)
  PROVE  /\ cookies' = cookies + 1 /\ cookies' \in Nat
         /\ evq' \in [Threads -> Seq(Event)]
         /\ \A x \in Threads \ {t} : evq'[x] = evq[x]
         /\ Len(evq'[t]) = Len(evq[t]) + 1
         /\ IF IsWake(t, e)
            THEN /\ evq'[t][1] = Stamped(t, e)
                 /\ \A i \in 1..Len(evq[t]) : evq'[t][i + 1] = evq[t][i]
            ELSE /\ evq'[t][Len(evq[t]) + 1] = Stamped(t, e)
                 /\ \A i \in 1..Len(evq[t]) : evq'[t][i] = evq[t][i]
<1>. DEFINE s == Stamped(t, e)
<1>1. s \in Event /\ s.wake = IsWake(t, e)
  BY StampedType
<1>. HIDE DEF s
<1>2. /\ cookies' = cookies + 1
      /\ evq' = [evq EXCEPT ![t] = IF s.wake THEN <<s>> \o @
                                   ELSE Append(@, s)]
  BY DEF Queues, s
<1>3. evq \in [Threads -> Seq(Event)] /\ evq[t] \in Seq(Event)
      /\ cookies \in Nat
  BY DEF Types
<1>4. Append(evq[t], s) \in Seq(Event) /\ <<s>> \o evq[t] \in Seq(Event)
  BY <1>1, <1>3
<1>5. /\ Len(Append(evq[t], s)) = Len(evq[t]) + 1
      /\ Append(evq[t], s)[Len(evq[t]) + 1] = s
      /\ \A i \in 1..Len(evq[t]) : Append(evq[t], s)[i] = evq[t][i]
  BY <1>1, <1>3
<1>6. /\ Len(<<s>> \o evq[t]) = Len(evq[t]) + 1
      /\ (<<s>> \o evq[t])[1] = s
      /\ \A i \in 1..Len(evq[t]) : (<<s>> \o evq[t])[i + 1] = evq[t][i]
  BY <1>1, <1>3
<1>7. evq' \in [Threads -> Seq(Event)]
  BY <1>2, <1>3, <1>4
<1>. QED
  BY <1>1, <1>2, <1>3, <1>5, <1>6, <1>7 DEF s

(* The first of the threads that are ready.                                *)
LEMMA FirstReady ==
  ASSUME Types, ReadyOnce, ready # <<>>
  PROVE  /\ Head(ready) \in Threads /\ CanGoOn(Head(ready))
         /\ Head(ready) = ready[1] /\ 1 \in DOMAIN ready
         /\ Tail(ready) \in Seq(Threads)
         /\ Len(Tail(ready)) = Len(ready) - 1
         /\ \A i \in DOMAIN Tail(ready) :
              Tail(ready)[i] = ready[i + 1] /\ i + 1 \in DOMAIN ready
<1>1. ready \in Seq(Threads)
  BY DEF Types
<1>2. /\ Head(ready) \in Threads /\ Head(ready) = ready[1]
      /\ 1 \in DOMAIN ready
      /\ Tail(ready) \in Seq(Threads)
      /\ Len(Tail(ready)) = Len(ready) - 1
      /\ \A i \in DOMAIN Tail(ready) :
           Tail(ready)[i] = ready[i + 1] /\ i + 1 \in DOMAIN ready
  BY <1>1
<1>3. Head(ready) \in ToSet(ready)
  BY <1>2 DEF ToSet
<1>. QED
  BY <1>2, <1>3 DEF ReadyOnce

(* The first of the events in a queue.                                     *)
LEMMA FirstQueued ==
  ASSUME Types, NEW t \in Threads, evq[t] # <<>>
  PROVE  /\ Head(evq[t]) \in Event /\ Head(evq[t]) = evq[t][1]
         /\ 1 \in DOMAIN evq[t]
         /\ Tail(evq[t]) \in Seq(Event)
         /\ Len(Tail(evq[t])) = Len(evq[t]) - 1
         /\ \A i \in DOMAIN Tail(evq[t]) :
              Tail(evq[t])[i] = evq[t][i + 1] /\ i + 1 \in DOMAIN evq[t]
<1>1. evq[t] \in Seq(Event)
  BY DEF Types
<1>. QED
  BY <1>1

(* What the launch of thread n does.                                       *)
LEMMA SignalEffect ==
  ASSUME Types, NEW n \in Threads, evq[n] # <<>>, Signal(n),
         Head(evq[n]).wake => awaits[n] # None
  PROVE  /\ free' \in Nat
         /\ evq' \in [Threads -> Seq(Event)]
         /\ awaits' \in [Threads -> Await \cup {None}]
         /\ flags' \in [Threads -> SUBSET Signals]
         /\ \A x \in Threads \ {n} :
              evq'[x] = evq[x] /\ awaits'[x] = awaits[x] /\ flags'[x] = flags[x]
         /\ IF Head(evq[n]).wake
            THEN /\ free' = free + 1 /\ evq'[n] = Tail(evq[n])
                 /\ flags'[n] = flags[n] \cup {PROCESSED}
                 /\ awaits'[n] # None
                 /\ awaits'[n].cookie = Head(evq[n]).cookie
                 /\ awaits'[n].asked = awaits[n].asked
                 /\ awaits'[n].answer = Head(evq[n])
            ELSE /\ free' = free /\ evq' = evq /\ awaits' = awaits
                 /\ flags'[n] = flags[n] \cup {TO_PROCESS}
<1>1. /\ free \in Nat /\ evq \in [Threads -> Seq(Event)]
      /\ awaits \in [Threads -> Await \cup {None}]
      /\ flags \in [Threads -> SUBSET Signals]
  BY DEF Types
<1>2. PICK h : h = Head(evq[n])
  OBVIOUS
<1>3. h \in Event /\ Tail(evq[n]) \in Seq(Event) /\ h.cookie \in Nat
  BY <1>2, FirstQueued DEF Event
<1>4. TO_PROCESS \in Signals /\ PROCESSED \in Signals
  BY DEF Signals
<1>5. CASE h.wake
  <2>1. /\ free' = free + 1 /\ evq' = [evq EXCEPT ![n] = Tail(@)]
        /\ flags' = [flags EXCEPT ![n] = @ \cup {PROCESSED}]
        /\ awaits' = [awaits EXCEPT ![n] = [@ EXCEPT !.cookie = h.cookie,
                                                     !.answer = h]]
    BY <1>2, <1>5 DEF Signal, Raise
  <2>2. PICK a : a = awaits[n]
    OBVIOUS
  <2>3. a \in Await
    BY <2>2, <1>1, <1>2, <1>5
  <2>4. PICK b : b = [a EXCEPT !.cookie = h.cookie, !.answer = h]
    OBVIOUS
  <2>5. b \in Await /\ b.cookie = h.cookie /\ b.answer = h
        /\ b.asked = a.asked
    BY <2>3, <2>4, <1>3 DEF Await
  <2>6. b # None
    BY <2>5, NullAssumption
  <2>7. awaits' = [awaits EXCEPT ![n] = b]
    BY <2>1, <2>2, <2>4
  <2>. QED
    BY <1>1, <1>2, <1>3, <1>4, <1>5, <2>1, <2>2, <2>5, <2>6, <2>7
<1>6. CASE ~h.wake
  BY <1>1, <1>2, <1>4, <1>6 DEF Signal, Raise
<1>. QED
  BY <1>5, <1>6

(* A thread that is launched has an event, and a response only if it waits *)
(* for one.                                                                *)
LEMMA Launches ==
  ASSUME Types, AwaitInv, ReadyInv, ready # <<>>, Signal(Head(ready)),
         NEW n, n = Head(ready)
  PROVE  /\ n \in Threads /\ CanGoOn(n) /\ evq[n] # <<>>
         /\ Signal(n)
         /\ Head(evq[n]).wake => awaits[n] # None
<1>1. ReadyOnce
  BY DEF ReadyInv
<1>2. n \in Threads /\ CanGoOn(n) /\ evq[n] # <<>> /\ Signal(n)
  BY <1>1, FirstReady DEF CanGoOn
<1>3. Head(evq[n]).wake => awaits[n] # None
  BY <1>2, FirstQueued DEF AwaitInv, WakeOK
<1>. QED
  BY <1>2, <1>3

LEMMA ResponseType ==
  ASSUME NEW e \in Event
  PROVE  /\ Response(e) \in Event
         /\ Response(e).src = e.tgt /\ Response(e).tgt = e.src
         /\ Response(e).response = TRUE /\ Response(e).want = FALSE
         /\ Response(e).early = FALSE
         /\ Response(e).cookie = e.cookie /\ Response(e).request = e.request
         /\ Response(e).sent = e.sent
BY DEF Response, Event

LEMMA ReadyTypes ==
  ASSUME Types, NEW t \in Threads
  PROVE  Append(ready, t) \in Seq(Threads) /\ <<t>> \o ready \in Seq(Threads)
<1>1. ready \in Seq(Threads)
  BY DEF Types
<1>. QED
  BY <1>1

LEMMA EnqueueTypes ==
  ASSUME Types, NEW t \in Threads, NEW e \in Event, Enqueue(t, e)
  PROVE  cookies' \in Nat /\ evq' \in [Threads -> Seq(Event)]
         /\ ready' \in Seq(Threads)
<1>1. cookies' \in Nat /\ evq' \in [Threads -> Seq(Event)]
  BY EnqueueQueues, QueuesEffect
<1>2. ready' = ready \/ ready' = <<t>> \o ready \/ ready' = Append(ready, t)
  BY EnqueueQueues
<1>3. ready' \in Seq(Threads)
  BY <1>2, ReadyTypes DEF Types
<1>. QED
  BY <1>1, <1>3

(* Every step keeps the types.                                             *)
LEMMA TypesStep ==
  ASSUME Types, PlaceInv, AwaitInv, ReadyInv, [Next]_vars
  PROVE  Types'
<1>1. SUFFICES ASSUME Next PROVE Types'
  BY DEF Types, vars, fixed, isrVars, contextVars, queueVars, osVars
<1>. USE DEF fixed, isrVars, contextVars, queueVars, osVars
<1>2. ASSUME NEW e \in Entities, CreateThread(e) PROVE Types'
  BY <1>2 DEF CreateThread, Types
<1>3. ASSUME NEW t \in Threads, NEW p \in Active \cup Waiting,
             Types, Goto(t, p)
      PROVE  pc' \in [Threads -> Active \cup Waiting]
  BY <1>3 DEF Types, Goto
<1>4. Common \in Threads
  BY MultiThreadAssumption
<1>5. CASE Start
  BY <1>3, <1>4, <1>5 DEF Start, Types, Active, Waiting
<1>6. CASE IsrWait
  BY <1>3, <1>4, <1>6 DEF IsrWait, Types, Active, Waiting
<1>7. CASE IsrWake
  <2>1. flags' \in [Threads -> SUBSET Signals]
    BY <1>7 DEF IsrWake, Types
  <2>. QED
    BY <1>3, <1>4, <1>7, <2>1 DEF IsrWake, Types, Active, Waiting
<1>8. CASE IsrDispatch
  <2>1. PICK e : e = Head(isrQueue)
    OBVIOUS
  <2>2. e \in Event /\ Tail(isrQueue) \in Seq(Event)
    BY <1>8, <2>1 DEF IsrDispatch, Types
  <2>3. PICK t : t = ThreadOf(e.tgt)
    OBVIOUS
  <2>4. t \in Threads
    BY <2>2, <2>3, ThreadKnown DEF Event
  <2>5. Queues(t, e) /\ isrQueue' = Tail(isrQueue)
        /\ ready' \in {ready, <<t>> \o ready}
        /\ (Goto(Common, "launch") \/ Goto(Common, "isrcheck"))
    BY <1>8, <2>1, <2>3 DEF IsrDispatch, Queues
  <2>6. cookies' \in Nat /\ evq' \in [Threads -> Seq(Event)]
    BY <2>2, <2>4, <2>5, QueuesEffect
  <2>7. ready' \in Seq(Threads)
    BY <2>4, <2>5, ReadyTypes DEF Types
  <2>8. pc' \in [Threads -> Active \cup Waiting]
    BY <1>3, <1>4, <2>5 DEF Active
  <2>. QED
    BY <1>8, <2>2, <2>5, <2>6, <2>7, <2>8 DEF IsrDispatch, Types
<1>9. ASSUME NEW t \in Threads, RunStep(t) PROVE Types'
  <2>1. CASE Wake(t)
    <3>1. flags' \in [Threads -> SUBSET Signals]
      BY <2>1 DEF Wake, Types
    <3>2. pc' \in [Threads -> Active \cup Waiting]
      BY <1>3, <2>1 DEF Wake, Active, Waiting
    <3>. QED
      BY <2>1, <3>1, <3>2 DEF Wake, Types
  <2>2. CASE TakeEvent(t)
    <3>1. evq[t] # <<>>
      BY <2>2 DEF TakeEvent, PlaceInv, PlaceOf
    <3>2. Head(evq[t]) \in Event /\ Tail(evq[t]) \in Seq(Event)
      BY <3>1, FirstQueued
    <3>3. evq' \in [Threads -> Seq(Event)]
      BY <2>2, <3>2 DEF TakeEvent, Types
    <3>4. handling' \in [Threads -> Event \cup {None}]
      BY <2>2, <3>2 DEF TakeEvent, Types
    <3>5. pc' \in [Threads -> Active \cup Waiting]
      BY <1>3, <2>2 DEF TakeEvent, Active
    <3>. QED
      BY <2>2, <3>2, <3>3, <3>4, <3>5 DEF TakeEvent, Types
  <2>3. CASE HandlerReturns(t)
    <3>1. PICK e : e = handling[t]
      OBVIOUS
    <3>2. e \in Event
      BY <2>3, <3>1 DEF HandlerReturns, PlaceInv, PlaceOf, Types
    <3>3. PICK r : r = Response(e)
      OBVIOUS
    <3>4. r \in Event
      BY <3>2, <3>3, ResponseType
    <3>5. pc' \in [Threads -> Active \cup Waiting]
      BY <1>3, <2>3 DEF HandlerReturns, Active
    <3>6. CASE /\ ~e.want \/ free = 0
               /\ UNCHANGED <<free, queueVars, delayed>>
      BY <2>3, <3>5, <3>6 DEF HandlerReturns, Types
    <3>7. CASE /\ e.want /\ free > 0 /\ free' = free - 1
               /\ Enqueue(ThreadOf(r.tgt), r) /\ UNCHANGED delayed
      <4>1. PICK to : to = ThreadOf(r.tgt)
        OBVIOUS
      <4>2. to \in Threads
        BY <3>4, <4>1, ThreadKnown DEF Event
      <4>3. Enqueue(to, r)
        BY <3>7, <4>1
      <4>4. cookies' \in Nat /\ evq' \in [Threads -> Seq(Event)]
            /\ ready' \in Seq(Threads)
        BY <3>4, <4>2, <4>3, EnqueueTypes
      <4>5. free' \in Nat
        BY <3>7 DEF Types
      <4>. QED
        BY <2>3, <3>5, <3>7, <4>4, <4>5 DEF HandlerReturns, Types
    <3>8. CASE /\ e.want /\ free > 0 /\ free' = free - 1
               /\ e.tgt \in usage.delays
               /\ delayed' = [delayed EXCEPT ![e.tgt] = @ \cup {r}]
               /\ UNCHANGED queueVars
      <4>1. delayed' \in [Entities -> SUBSET Event]
        BY <3>4, <3>8 DEF Types
      <4>2. free' \in Nat
        BY <3>8 DEF Types
      <4>. QED
        BY <2>3, <3>5, <3>8, <4>1, <4>2 DEF HandlerReturns, Types
    <3>. QED
      BY <2>3, <3>1, <3>3, <3>6, <3>7, <3>8 DEF HandlerReturns
  <2>4. CASE Finish(t)
    <3>1. handling' \in [Threads -> Event \cup {None}]
      BY <2>4 DEF Finish, Types
    <3>2. pc' \in [Threads -> Active \cup Waiting]
      BY <1>3, <2>4 DEF Finish, Active
    <3>3. ready' \in Seq(Threads)
      BY <2>4, ReadyTypes DEF Finish, Types
    <3>4. free' \in Nat
      BY <2>4 DEF Finish, Types
    <3>. QED
      BY <2>4, <3>1, <3>2, <3>3, <3>4 DEF Finish, Types
  <2>5. CASE LaunchNext(t)
    <3>1. pc' \in [Threads -> Active \cup Waiting]
      BY <1>3, <2>5 DEF LaunchNext, Active, Waiting
    <3>2. CASE ready = <<>>
      <4>1. CASE t = Common
        BY <2>5, <3>1, <3>2, <4>1 DEF LaunchNext, Types
      <4>2. CASE t # Common
        <5>1. flags' = [flags EXCEPT ![Common] = @ \cup {NO_READY}]
          BY <2>5, <3>2, <4>2 DEF LaunchNext, Raise
        <5>2. flags' \in [Threads -> SUBSET Signals]
          BY <1>4, <5>1 DEF Types, Signals
        <5>. QED
          BY <2>5, <3>1, <3>2, <5>2 DEF LaunchNext, Types
      <4>. QED
        BY <4>1, <4>2
    <3>3. CASE ready # <<>> /\ Head(ready) = t
      <4>1. ready' \in Seq(Threads)
        BY <2>5, <3>3, FirstReady DEF LaunchNext, ReadyInv
      <4>. QED
        BY <2>5, <3>1, <3>3, <4>1 DEF LaunchNext, Types
    <3>4. CASE ready # <<>> /\ Head(ready) # t
      <4>1. ready' \in Seq(Threads)
        BY <2>5, <3>4, FirstReady DEF LaunchNext, ReadyInv
      <4>2. Signal(Head(ready))
        BY <2>5, <3>4 DEF LaunchNext
      <4>3. /\ free' \in Nat /\ evq' \in [Threads -> Seq(Event)]
            /\ awaits' \in [Threads -> Await \cup {None}]
            /\ flags' \in [Threads -> SUBSET Signals]
        BY <3>4, <4>2, Launches, SignalEffect
      <4>. QED
        BY <2>5, <3>1, <4>1, <4>3 DEF LaunchNext, Types
    <3>. QED
      BY <3>2, <3>3, <3>4
  <2>6. CASE LaunchAndWait(t)
    <3>1. pc' \in [Threads -> Active \cup Waiting]
      BY <1>3, <2>6 DEF LaunchAndWait, Waiting
    <3>2. CASE ready = <<>>
      BY <2>6, <3>1, <3>2 DEF LaunchAndWait, Types
    <3>3. CASE ready # <<>>
      <4>1. ready' \in Seq(Threads)
        BY <2>6, <3>3, FirstReady DEF LaunchAndWait, ReadyInv
      <4>2. Signal(Head(ready))
        BY <2>6, <3>3 DEF LaunchAndWait
      <4>3. /\ free' \in Nat /\ evq' \in [Threads -> Seq(Event)]
            /\ awaits' \in [Threads -> Await \cup {None}]
            /\ flags' \in [Threads -> SUBSET Signals]
        BY <3>3, <4>2, Launches, SignalEffect
      <4>. QED
        BY <2>6, <3>1, <4>1, <4>3 DEF LaunchAndWait, Types
    <3>. QED
      BY <3>2, <3>3
  <2>7. CASE Resume(t)
    <3>1. pc' \in [Threads -> Active \cup Waiting]
      BY <1>3, <2>7 DEF Resume, Active
    <3>2. flags' \in [Threads -> SUBSET Signals]
      BY <2>7 DEF Resume, Types
    <3>3. awaits' \in [Threads -> Await \cup {None}]
      BY <2>7 DEF Resume, Types
    <3>. QED
      BY <2>7, <3>1, <3>2, <3>3 DEF Resume, Types
  <2>. QED
    BY <1>9, <2>1, <2>2, <2>3, <2>4, <2>5, <2>6, <2>7 DEF RunStep
<1>10. Bounded => posts + 1 \in 0..MaxPosts
  BY MultiThreadAssumption DEF Bounded, Types
<1>12. \A w \in usage.flags : w \in BOOLEAN
  BY MultiThreadAssumption DEF Types
<1>13. Sources \subseteq Entities
  BY DEF Sources, Types, Event
<1>14. CASE PutRequest
  <2>1. PICK src \in Sources, tgt \in Entities, want \in usage.flags :
          /\ Bounded /\ free > 0
          /\ free' = free - 1 /\ posts' = posts + 1
          /\ Enqueue(ThreadOf(tgt), NewEvent(src, tgt, want))
          /\ UNCHANGED <<fixed, isrVars, contextVars, osVars, awaits,
                         handling, delayed>>
    BY <1>14 DEF PutRequest
  <2>2. NewEvent(src, tgt, want) \in Event /\ ThreadOf(tgt) \in Threads
    BY <1>12, <1>13, NewType, ThreadKnown
  <2>3. cookies' \in Nat /\ evq' \in [Threads -> Seq(Event)]
        /\ ready' \in Seq(Threads)
    BY <2>1, <2>2, EnqueueTypes
  <2>4. free' \in Nat
    BY <2>1 DEF Types
  <2>. QED
    BY <1>10, <2>1, <2>3, <2>4 DEF Types
<1>15. CASE PutDelayed
  <2>1. PICK t \in Threads, e \in Entities, cookie \in 0..cookies :
         \E d \in GetDelayedResponse(e, cookie) :
          /\ delayed' = [delayed EXCEPT ![d.src] = @ \ {d}]
          /\ Enqueue(ThreadOf(d.tgt), d)
          /\ UNCHANGED <<fixed, free, isrVars, contextVars, osVars, awaits,
                         handling, posts>>
    BY <1>15 DEF PutDelayed
  <2>2. PICK d \in delayed[e] :
          /\ delayed' = [delayed EXCEPT ![d.src] = @ \ {d}]
          /\ Enqueue(ThreadOf(d.tgt), d)
          /\ UNCHANGED <<fixed, free, isrVars, contextVars, osVars, awaits,
                         handling, posts>>
    BY <2>1 DEF GetDelayedResponse
  <2>3. d \in Event /\ ThreadOf(d.tgt) \in Threads
    BY <2>2, ThreadKnown DEF Types, Event
  <2>4. cookies' \in Nat /\ evq' \in [Threads -> Seq(Event)]
        /\ ready' \in Seq(Threads)
    BY <2>2, <2>3, EnqueueTypes
  <2>5. delayed' \in [Entities -> SUBSET Event]
    BY <2>2 DEF Types
  <2>. QED
    BY <2>2, <2>4, <2>5 DEF Types
<1>16. ASSUME NEW t \in Threads, PutEventAndWait(t) PROVE Types'
  <2>1. PICK tgt \in Entities :
          /\ pc[t] = "handle" /\ Bounded /\ free > 0
          /\ free' = free - 1 /\ posts' = posts + 1
          /\ Enqueue(ThreadOf(tgt), NewEvent(currentEvent.tgt, tgt, TRUE))
          /\ awaits' = [awaits EXCEPT ![t] = [cookie |-> cookies,
                                   asked |-> cookies, answer |-> None]]
          /\ Goto(t, "call")
          /\ UNCHANGED <<fixed, isrVars, contextVars, flags, handling,
                         delayed>>
    BY <1>16 DEF PutEventAndWait
  <2>2. currentEvent \in Event
    BY <2>1 DEF PlaceInv, PlaceOf, Types
  <2>3. NewEvent(currentEvent.tgt, tgt, TRUE) \in Event
        /\ ThreadOf(tgt) \in Threads
    BY <2>2, NewType, ThreadKnown DEF Event
  <2>4. cookies' \in Nat /\ evq' \in [Threads -> Seq(Event)]
        /\ ready' \in Seq(Threads)
    BY <2>1, <2>3, EnqueueTypes
  <2>5. free' \in Nat
    BY <2>1 DEF Types
  <2>6. [cookie |-> cookies, asked |-> cookies, answer |-> None] \in Await
    BY DEF Await, Types
  <2>7. awaits' \in [Threads -> Await \cup {None}]
    BY <2>1, <2>6 DEF Types
  <2>8. pc' \in [Threads -> Active \cup Waiting]
    BY <1>3, <2>1 DEF Active
  <2>. QED
    BY <1>10, <2>1, <2>4, <2>5, <2>7, <2>8 DEF Types
<1>17. ASSUME NEW e \in Event, PutIsrEvent(e)
       PROVE  /\ free' \in Nat /\ isrQueue' \in Seq(Event)
              /\ waitingIsr' \in BOOLEAN
              /\ flags' \in [Threads -> SUBSET Signals]
  <2>1. free' \in Nat
    BY <1>17 DEF PutIsrEvent, Types
  <2>4. waitingIsr' \in BOOLEAN
    BY <1>17 DEF PutIsrEvent
  <2>2. isrQueue' \in Seq(Event)
    BY <1>17 DEF PutIsrEvent, Types
  <2>3. flags' \in [Threads -> SUBSET Signals]
    BY <1>17 DEF PutIsrEvent, Types, Signals
  <2>. QED
    BY <2>1, <2>2, <2>3, <2>4
<1>18. CASE IsrPutRequest
  <2>1. PICK src \in Entities, tgt \in Entities, want \in usage.flags :
          /\ Bounded /\ posts' = posts + 1
          /\ PutIsrEvent([NewEvent(src, tgt, want) EXCEPT !.early = FALSE])
          /\ UNCHANGED <<fixed, contextVars, queueVars, pc, awaits, handling,
                         delayed>>
    BY <1>18 DEF IsrPutRequest
  <2>2. [NewEvent(src, tgt, want) EXCEPT !.early = FALSE] \in Event
    BY <1>12, NewType
  <2>3. /\ free' \in Nat /\ isrQueue' \in Seq(Event)
        /\ waitingIsr' \in BOOLEAN
        /\ flags' \in [Threads -> SUBSET Signals]
    BY <1>17, <2>1, <2>2
  <2>. QED
    BY <1>10, <2>1, <2>3 DEF Types
<1>19. CASE IsrPutResponse
  <2>1. PICK d \in UNION {delayed[e] : e \in Entities} :
          /\ PutIsrEvent(d)
          /\ delayed' = [delayed EXCEPT ![d.src] =
                          (@ \ {d}) \cup {[d EXCEPT !.sent = TRUE]}]
          /\ UNCHANGED <<fixed, contextVars, queueVars, pc, awaits, handling,
                         posts>>
    BY <1>19 DEF IsrPutResponse
  <2>2. d \in Event
    BY DEF Types
  <2>3. [d EXCEPT !.sent = TRUE] \in Event
    BY <2>2 DEF Event
  <2>4. delayed' \in [Entities -> SUBSET Event]
    BY <2>1, <2>3 DEF Types
  <2>5. /\ free' \in Nat /\ isrQueue' \in Seq(Event)
        /\ waitingIsr' \in BOOLEAN
        /\ flags' \in [Threads -> SUBSET Signals]
    BY <1>17, <2>1, <2>2
  <2>. QED
    BY <2>1, <2>4, <2>5 DEF Types
<1>. QED
  BY <1>1, <1>2, <1>5, <1>6, <1>7, <1>8, <1>9, <1>14, <1>15, <1>16, <1>18,
     <1>19 DEF Next, ThreadStep, ModuleStep

(***************************************************************************)
(* Turns: only the thread whose turn it is gives the turn to another, and  *)
(* an interrupt gives it to the common thread only when it is nobody's.    *)
(***************************************************************************)
LEMMA Places ==
  /\ Active \cap Waiting = {} /\ Common \in Threads
  /\ TO_PROCESS # PROCESSED /\ TO_PROCESS # NO_READY
  /\ TO_PROCESS # ISR_EVENT /\ PROCESSED # NO_READY
  /\ PROCESSED # ISR_EVENT /\ NO_READY # ISR_EVENT
BY MultiThreadAssumption
   DEF Active, Waiting, TO_PROCESS, PROCESSED, NO_READY, ISR_EVENT

(* The thread that runs is the only one in turn, and has no flag.          *)
LEMMA Alone ==
  ASSUME Types, TurnInv, NEW t \in Threads, pc[t] \in Active
  PROVE  /\ flags[t] = {} /\ ~waitingIsr
         /\ \A x \in Threads \ {t} : flags[x] = {} /\ pc[x] \in Waiting
BY Places DEF Types, TurnInv, InTurn

(* The turn goes from t, which ran, to n, by a flag.                       *)
LEMMA TurnGiven ==
  ASSUME Types, TurnInv, NEW t \in Threads, NEW n \in Threads \ {t},
         NEW f \in Signals, NEW p \in Waiting, pc[t] \in Active,
         pc' = [pc EXCEPT ![t] = p],
         flags' = [flags EXCEPT ![n] = @ \cup {f}], waitingIsr' = waitingIsr
  PROVE  TurnInv'
<1>1. /\ \A x \in Threads : pc'[x] \in Waiting
      /\ flags'[n] = {f} /\ \A x \in Threads \ {n} : flags'[x] = {}
      /\ ~waitingIsr'
  BY Alone DEF Types
<1>. QED
  BY <1>1, Places DEF TurnInv, InTurn

(* The turn stays with t, or is nobody's.                                  *)
LEMMA TurnKept ==
  ASSUME Types, TurnInv, NEW t \in Threads, NEW p \in Active \cup Waiting,
         InTurn(t), pc' = [pc EXCEPT ![t] = p],
         flags' = [flags EXCEPT ![t] = {}], waitingIsr' = waitingIsr
  PROVE  TurnInv'
<1>1. /\ \A x \in Threads \ {t} : pc[x] \notin Active /\ flags[x] = {}
      /\ ~waitingIsr
  BY DEF TurnInv, InTurn
<1>2. /\ \A x \in Threads : flags'[x] = {}
      /\ \A x \in Threads \ {t} : pc'[x] \notin Active
      /\ ~waitingIsr'
  BY <1>1 DEF Types
<1>. QED
  BY <1>2 DEF TurnInv, InTurn

LEMMA TurnSame ==
  ASSUME TurnInv, UNCHANGED <<pc, flags, waitingIsr>>
  PROVE  TurnInv'
BY DEF TurnInv, InTurn

(* An event of an interrupt raises a flag only when it is nobody's turn.   *)
LEMMA TurnOfIsr ==
  ASSUME Types, TurnInv, NEW e \in Event, PutIsrEvent(e), pc' = pc
  PROVE  TurnInv'
<1>1. CASE waitingIsr
  <2>1. /\ flags' = [flags EXCEPT ![Common] = @ \cup {ISR_EVENT}]
        /\ ~waitingIsr'
    BY <1>1 DEF PutIsrEvent
  <2>2. \A x \in Threads : flags[x] = {} /\ pc[x] \in Waiting
    BY <1>1 DEF TurnInv, InTurn, Types
  <2>3. /\ flags'[Common] = {ISR_EVENT}
        /\ \A x \in Threads \ {Common} : flags'[x] = {}
    BY <2>1, <2>2, Places DEF Types
  <2>. QED
    BY <2>1, <2>2, <2>3, Places DEF TurnInv, InTurn, Signals
<1>2. CASE ~waitingIsr
  <2>1. flags' = flags /\ ~waitingIsr'
    BY <1>2 DEF PutIsrEvent
  <2>. QED
    BY <2>1 DEF TurnInv, InTurn
<1>. QED
  BY <1>1, <1>2

LEMMA NoFlag ==
  ASSUME Types, TurnInv, NEW t \in Threads, pc[t] \in Active
  PROVE  flags = [flags EXCEPT ![t] = {}]
BY Alone DEF Types

(* A single flag is forgotten when the thread sees it.                     *)
LEMMA FlagSeen ==
  ASSUME Types, TurnInv, NEW t \in Threads, NEW f \in Signals, NEW S,
         f \in flags[t], f \in S
  PROVE  /\ InTurn(t) /\ flags[t] = {f}
         /\ [flags EXCEPT ![t] = @ \ S] = [flags EXCEPT ![t] = {}]
<1>1. flags[t] = {f} /\ flags[t] \ S = {}
  BY DEF TurnInv
<1>2. flags \in [Threads -> SUBSET Signals]
  BY DEF Types
<1>. QED
  BY <1>1, <1>2 DEF InTurn

(* Where Wake goes.                                                        *)
LEMMA WakeEffect ==
  ASSUME Types, TurnInv, PlaceInv, NEW t \in Threads, Wake(t)
  PROVE  /\ InTurn(t) /\ pc[t] = "wait"
         /\ flags' = [flags EXCEPT ![t] = {}]
         /\ \/ flags[t] = {TO_PROCESS} /\ pc' = [pc EXCEPT ![t] = "take"]
            \/ /\ t = Common /\ flags[t] = {NO_READY}
               /\ pc' = [pc EXCEPT ![t] = "isrcheck"]
         /\ \A x \in Threads : pc[x] \in Waiting
<1>. DEFINE X == IF t = Common THEN {TO_PROCESS, NO_READY} ELSE {TO_PROCESS}
<1>1. /\ Idle /\ pc[t] = "wait" /\ flags[t] \cap X # {}
      /\ Goto(t, IF Cardinality(flags[t]) > 1 THEN "wait"
                 ELSE IF flags[t] = {TO_PROCESS} THEN "take" ELSE "isrcheck")
      /\ flags' = [flags EXCEPT ![t] = @ \ X]
  BY DEF Wake
<1>2. PICK f \in X : f \in flags[t]
  BY <1>1
<1>3. f \in Signals
  BY <1>2 DEF Signals
<1>4. flags[t] = {f} /\ InTurn(t) /\ flags' = [flags EXCEPT ![t] = {}]
  BY <1>1, <1>2, <1>3, FlagSeen
<1>5. Cardinality(flags[t]) = 1
  BY <1>4, FS_Singleton
<1>6. pc' = [pc EXCEPT ![t] = IF flags[t] = {TO_PROCESS} THEN "take"
                              ELSE "isrcheck"]
  BY <1>1, <1>5 DEF Goto
<1>7. f = TO_PROCESS \/ (t = Common /\ f = NO_READY)
  BY <1>2
<1>. QED
  BY <1>1, <1>4, <1>6, <1>7, Places DEF Idle

(* Every step keeps the turns.                                             *)
LEMMA TurnStep ==
  ASSUME Types, TurnInv, PlaceInv, AwaitInv, ReadyInv, Types', [Next]_vars
  PROVE  TurnInv'
<1>1. SUFFICES ASSUME Next PROVE TurnInv'
  BY TurnSame DEF vars, isrVars, osVars
<1>. USE DEF isrVars, osVars
<1>2. ASSUME NEW t \in Threads, NEW p \in Active \cup Waiting,
             pc[t] \in Active, Goto(t, p), UNCHANGED <<flags, waitingIsr>>
      PROVE  TurnInv'
  BY <1>2, TurnKept, NoFlag DEF Goto, InTurn
<1>3. ASSUME NEW e \in Entities, CreateThread(e) PROVE TurnInv'
  BY <1>3, TurnSame DEF CreateThread
<1>4. CASE Start
  BY <1>2, <1>4, Places DEF Start, Active
<1>5. CASE IsrWait
  <2>1. pc[Common] \in Active /\ pc' = [pc EXCEPT ![Common] = "isrwait"]
        /\ flags' = flags /\ "isrwait" \in Waiting
    BY <1>5 DEF IsrWait, Goto, Active, Waiting
  <2>2. \A x \in Threads : flags'[x] = {} /\ pc'[x] \in Waiting
    BY <2>1, Alone, Places DEF Types
  <2>. QED
    BY <2>2, Places DEF TurnInv, InTurn
<1>6. CASE IsrWake
  BY <1>6, Places, FlagSeen, TurnKept
     DEF IsrWake, Goto, Active, Signals
<1>7. CASE IsrDispatch
  <2>1. /\ pc[Common] \in Active /\ UNCHANGED <<flags, waitingIsr>>
        /\ Goto(Common, "launch") \/ Goto(Common, "isrcheck")
    BY <1>7 DEF IsrDispatch, Active
  <2>. QED
    BY <1>2, <2>1, Places DEF Active
<1>8. ASSUME NEW t \in Threads, RunStep(t) PROVE TurnInv'
  <2>1. CASE Wake(t)
    <3>1. waitingIsr' = waitingIsr
      BY <2>1 DEF Wake
    <3>. QED
      BY <2>1, <3>1, WakeEffect, TurnKept DEF Active
  <2>2. CASE TakeEvent(t)
    BY <1>2, <2>2 DEF TakeEvent, Active
  <2>3. CASE HandlerReturns(t)
    BY <1>2, <2>3 DEF HandlerReturns, Active
  <2>4. CASE Finish(t)
    BY <1>2, <2>4 DEF Finish, Active
  <2>5. ASSUME NEW n \in Threads \ {t}, NEW p \in Waiting, pc[t] \in Active,
               Signal(n), Goto(t, p), UNCHANGED waitingIsr
        PROVE  TurnInv'
    <3>1. \E f \in Signals : flags' = [flags EXCEPT ![n] = @ \cup {f}]
      BY <2>5 DEF Signal, Raise, Signals
    <3>. QED
      BY <2>5, <3>1, TurnGiven DEF Goto
  <2>6. CASE LaunchNext(t)
    <3>1. pc[t] \in Active /\ UNCHANGED waitingIsr
      BY <2>6 DEF LaunchNext, Active
    <3>2. CASE ready = <<>> /\ t = Common
      BY <1>2, <2>6, <3>1, <3>2 DEF LaunchNext, Active
    <3>3. CASE ready = <<>> /\ t # Common
      <4>1. Goto(t, "wait") /\ Raise(Common, NO_READY)
        BY <2>6, <3>3 DEF LaunchNext
      <4>. QED
        BY <3>1, <3>3, <4>1, Places, TurnGiven
           DEF Goto, Raise, Signals, Waiting
    <3>4. CASE ready # <<>> /\ Head(ready) = t
      BY <1>2, <2>6, <3>1, <3>4 DEF LaunchNext, Active
    <3>5. CASE ready # <<>> /\ Head(ready) # t
      BY <2>5, <2>6, <3>1, <3>5, Launches DEF LaunchNext, Waiting
    <3>. QED
      BY <3>2, <3>3, <3>4, <3>5
  <2>7. CASE LaunchAndWait(t)
    <3>1. pc[t] \in Active /\ UNCHANGED waitingIsr /\ current = t
      BY <2>7 DEF LaunchAndWait, Active, PlaceInv, PlaceOf
    <3>2. CASE ready = <<>>
      BY <1>2, <2>7, <3>1, <3>2 DEF LaunchAndWait, Waiting
    <3>3. CASE ready # <<>>
      BY <2>5, <2>7, <3>1, <3>3, Launches DEF LaunchAndWait, Waiting, CanGoOn
    <3>. QED
      BY <3>2, <3>3
  <2>8. CASE Resume(t)
    BY <2>8, FlagSeen, TurnKept DEF Resume, Goto, Active, Signals
  <2>. QED
    BY <1>8, <2>1, <2>2, <2>3, <2>4, <2>6, <2>7, <2>8 DEF RunStep
<1>9. CASE PutRequest
  BY <1>9, TurnSame DEF PutRequest
<1>10. CASE PutDelayed
  BY <1>10, TurnSame DEF PutDelayed
<1>11. ASSUME NEW t \in Threads, PutEventAndWait(t) PROVE TurnInv'
  BY <1>2, <1>11 DEF PutEventAndWait, Active
<1>12. CASE IsrPutRequest
  <2>1. \A w \in usage.flags : w \in BOOLEAN
    BY MultiThreadAssumption DEF Types
  <2>. QED
    BY <1>12, <2>1, NewType, TurnOfIsr DEF IsrPutRequest
<1>13. CASE IsrPutResponse
  <2>1. \A d \in UNION {delayed[e] : e \in Entities} : d \in Event
    BY DEF Types
  <2>. QED
    BY <1>13, <2>1, TurnOfIsr DEF IsrPutResponse
<1>. QED
  BY <1>1, <1>3, <1>4, <1>5, <1>6, <1>7, <1>8, <1>9, <1>10, <1>11, <1>12,
     <1>13 DEF Next, ThreadStep, ModuleStep

(***************************************************************************)
(* Places: while a thread runs the others wait for an event or a response. *)
(***************************************************************************)
LEMMA Rest ==
  ASSUME Types, TurnInv, PlaceInv, NEW t \in Threads, pc[t] \in Active
  PROVE  /\ flags[t] = {} /\ ~waitingIsr
         /\ \A x \in Threads \ {t} :
              flags[x] = {} /\ pc[x] \in {"wait", "blocked"}
         /\ t # Common => pc[Common] = "wait"
<1>1. /\ flags[t] = {} /\ ~waitingIsr
      /\ \A x \in Threads \ {t} : flags[x] = {} /\ pc[x] \in Waiting
  BY Alone
<1>2. ASSUME NEW x \in Threads \ {t} PROVE pc[x] # "isrwait"
  <2>1. SUFFICES ASSUME pc[x] = "isrwait" PROVE FALSE
    OBVIOUS
  <2>2. x = Common
    BY <2>1 DEF PlaceInv, PlaceOf
  <2>. QED
    BY <1>1, <2>1, <2>2 DEF PlaceInv, CommonPlace
<1>3. t # Common => pc[Common] # "blocked"
  BY Places DEF PlaceInv, PlaceOf, CommonPlace
<1>. QED
  BY <1>1, <1>2, <1>3, Places DEF Waiting

LEMMA OthersStay ==
  ASSUME Types, TurnInv, PlaceInv, NEW t \in Threads, pc[t] \in Active,
         NEW x \in Threads \ {t}, pc'[x] = pc[x], flags'[x] = flags[x],
         handling'[x] = handling[x], awaits'[x] = awaits[x]
  PROVE  PlaceOf(x)'
<1>1. flags'[x] = {} /\ pc'[x] \in {"wait", "blocked"}
  BY Rest
<1>2. /\ handling[x] # None <=> pc[x] = "blocked"
      /\ awaits[x] # None <=> pc[x] = "blocked"
  BY Rest DEF PlaceInv, PlaceOf
<1>. QED
  BY <1>1, <1>2 DEF PlaceOf

LEMMA CommonStays ==
  ASSUME Types, TurnInv, PlaceInv, NEW t \in Threads, pc[t] \in Active,
         NEW p \in Active \cup Waiting, pc' = [pc EXCEPT ![t] = p],
         p \notin {"boot", "isrcheck", "isrwait"},
         waitingIsr' = waitingIsr, awaits'[Common] = awaits[Common]
  PROVE  CommonPlace'
<1>1. ~waitingIsr' /\ awaits'[Common] = None
  BY Rest DEF PlaceInv, CommonPlace
<1>2. pc'[Common] \in {"wait", p}
  BY Rest, Places DEF Types
<1>. QED
  BY <1>1, <1>2 DEF CommonPlace

(* The thread that is signalled.                                           *)
LEMMA SignalledPlace ==
  ASSUME Types, TurnInv, PlaceInv, AwaitInv, ReadyInv, NEW t \in Threads,
         pc[t] \in Active, NEW n \in Threads \ {t}, CanGoOn(n), Signal(n),
         pc'[n] = pc[n], handling'[n] = handling[n]
  PROVE  /\ PlaceOf(n)'
         /\ (awaits'[n] # None) <=> (awaits[n] # None)
         /\ \A x \in Threads \ {n} :
              /\ evq'[x] = evq[x] /\ awaits'[x] = awaits[x]
              /\ flags'[x] = flags[x]
<1>1. evq[n] # <<>> /\ flags[n] = {} /\ pc[n] \in {"wait", "blocked"}
  BY Rest DEF CanGoOn
<1>2. Head(evq[n]).wake => awaits[n] # None
  BY <1>1, FirstQueued DEF AwaitInv, WakeOK
<1>3. /\ handling[n] # None <=> pc[n] = "blocked"
      /\ awaits[n] # None <=> pc[n] = "blocked"
  BY <1>1 DEF PlaceInv, PlaceOf
<1>4. CASE Head(evq[n]).wake
  <2>1. Head(evq[n]) # None
    BY <1>1, FirstQueued, NullAssumption
  <2>2. /\ flags'[n] = {PROCESSED} /\ awaits'[n] # None
        /\ awaits'[n].answer = Head(evq[n])
    BY <1>1, <1>2, <1>4, SignalEffect
  <2>3. pc'[n] = "blocked"
    BY <1>2, <1>3, <1>4
  <2>4. PlaceOf(n)'
    BY <1>2, <1>3, <1>4, <2>1, <2>2, <2>3, Places DEF PlaceOf
  <2>. QED
    BY <1>1, <1>2, <1>4, <2>2, <2>4, SignalEffect
<1>5. CASE ~Head(evq[n]).wake
  <2>1. flags'[n] = {TO_PROCESS} /\ awaits' = awaits /\ evq' = evq
    BY <1>1, <1>5, SignalEffect
  <2>2. awaits[n] = None /\ pc'[n] = "wait"
    BY <1>1, <1>3, <1>5 DEF CanGoOn
  <2>3. PlaceOf(n)'
    BY <1>1, <1>3, <2>1, <2>2, Places DEF PlaceOf
  <2>. QED
    BY <1>1, <1>5, <2>1, <2>3, SignalEffect
<1>. QED
  BY <1>4, <1>5

(* No thread is ready: the common thread has nothing to do.                *)
LEMMA NothingReady ==
  ASSUME Types, TurnInv, PlaceInv, ReadyInv, ready = <<>>,
         NEW t \in Threads, pc[t] \in Active, pc[Common] # "take",
         current # Common
  PROVE  evq[Common] = <<>>
<1>1. Common \notin ToSet(ready)
  BY DEF ToSet
<1>2. ~CanGoOn(Common)
  BY <1>1, Places DEF ReadyInv, ReadyOnce
<1>3. flags[Common] = {} /\ awaits[Common] = None
  BY Rest, Places DEF PlaceInv, CommonPlace
<1>. QED
  BY <1>2, <1>3 DEF CanGoOn

(* Who can put an event.                                                   *)
LEMMA Putting ==
  ASSUME Types, TurnInv, PlaceInv, MayPut
  PROVE  \E t \in Threads : pc[t] \in {"boot", "handle"} /\ pc[t] \in Active
BY DEF MayPut, Active

(* Queues may grow while a thread runs code of modules.                    *)
LEMMA PlacesStay ==
  ASSUME Types, TurnInv, PlaceInv, MayPut,
         UNCHANGED <<pc, flags, handling, awaits, waitingIsr, current,
                     currentEvent>>
  PROVE  PlaceInv'
<1>1. PICK t \in Threads : pc[t] \in {"boot", "handle"} /\ pc[t] \in Active
  BY Putting
<1>2. ASSUME NEW x \in Threads \ {t} PROVE PlaceOf(x)'
  BY <1>1, OthersStay
<1>3. PlaceOf(t)'
  <2>1. flags[t] = {}
    BY <1>1, Rest
  <2>. QED
    BY <1>1, <2>1 DEF PlaceInv, PlaceOf
<1>4. CommonPlace'
  <2>1. pc[Common] \notin {"isrcheck", "isrwait"}
    BY <1>1, Rest
  <2>. QED
    BY <2>1 DEF PlaceInv, CommonPlace
<1>5. CurrentPlace'
  BY DEF PlaceInv, CurrentPlace
<1>. QED
  BY <1>2, <1>3, <1>4, <1>5 DEF PlaceInv

(* A step of the thread that runs, which does not read the interrupt queue *)
(* afterwards.                                                             *)
LEMMA PlacesByThread ==
  ASSUME Types, TurnInv, PlaceInv, NEW t \in Threads, pc[t] \in Active,
         NEW p \in Active \cup Waiting, pc' = [pc EXCEPT ![t] = p],
         p \notin {"boot", "isrcheck", "isrwait"},
         flags' = flags, waitingIsr' = waitingIsr,
         \A x \in Threads \ {t} :
            handling'[x] = handling[x] /\ awaits'[x] = awaits[x],
         awaits'[Common] = awaits[Common],
         PlaceOf(t)', CurrentPlace'
  PROVE  PlaceInv'
<1>1. ASSUME NEW x \in Threads \ {t} PROVE PlaceOf(x)'
  <2>1. pc'[x] = pc[x]
    BY DEF Types
  <2>. QED
    BY <2>1, OthersStay
<1>2. CommonPlace'
  BY CommonStays
<1>. QED
  BY <1>1, <1>2 DEF PlaceInv

(* An interrupt handler only raises the flag of the common thread.         *)
LEMMA PlacesOfIsr ==
  ASSUME Types, TurnInv, PlaceInv, NEW e \in Event, PutIsrEvent(e),
         UNCHANGED <<pc, handling, awaits, current, currentEvent, ready, evq>>
  PROVE  PlaceInv'
<1>1. CASE waitingIsr
  <2>1. pc[Common] = "isrwait" /\ \A x \in Threads : flags[x] = {}
    BY <1>1 DEF PlaceInv, CommonPlace, TurnInv, InTurn
  <2>2. /\ flags' = [flags EXCEPT ![Common] = @ \cup {ISR_EVENT}]
        /\ ~waitingIsr'
    BY <1>1 DEF PutIsrEvent
  <2>3. /\ flags'[Common] = {ISR_EVENT}
        /\ \A x \in Threads \ {Common} : flags'[x] = {}
    BY <2>1, <2>2, Places DEF Types
  <2>4. ASSUME NEW x \in Threads PROVE PlaceOf(x)'
    <3>1. CASE x = Common
      BY <2>1, <2>3, <3>1, Places DEF PlaceInv, PlaceOf
    <3>2. CASE x # Common
      BY <2>1, <2>3, <3>2, Places DEF PlaceInv, PlaceOf
    <3>. QED
      BY <3>1, <3>2
  <2>5. CommonPlace'
    BY <2>1, <2>2, <2>3 DEF PlaceInv, CommonPlace
  <2>. QED
    BY <2>4, <2>5 DEF PlaceInv, CurrentPlace
<1>2. CASE ~waitingIsr
  <2>1. flags' = flags /\ ~waitingIsr'
    BY <1>2 DEF PutIsrEvent
  <2>. QED
    BY <1>2, <2>1 DEF PlaceInv, PlaceOf, CommonPlace, CurrentPlace
<1>. QED
  BY <1>1, <1>2

(* What a thread that was signalled by t leaves of the places.             *)
LEMMA PlacesSignalled ==
  ASSUME Types, TurnInv, PlaceInv, AwaitInv, ReadyInv, NEW t \in Threads,
         pc[t] \in {"launch", "call"}, NEW n \in Threads \ {t}, CanGoOn(n),
         Signal(n), NEW p \in {"wait", "blocked"}, pc' = [pc EXCEPT ![t] = p],
         p = (IF pc[t] = "call" THEN "blocked" ELSE "wait"),
         UNCHANGED <<waitingIsr, handling, current, currentEvent>>
  PROVE  PlaceInv'
<1>1. pc[t] \in Active /\ p \in Active \cup Waiting /\ flags[t] = {}
  BY Rest DEF Active, Waiting
<1>2. pc'[t] = p /\ \A x \in Threads \ {t} : pc'[x] = pc[x]
  BY DEF Types
<1>3. /\ PlaceOf(n)'
      /\ (awaits'[n] # None) <=> (awaits[n] # None)
      /\ \A x \in Threads \ {n} :
           /\ evq'[x] = evq[x] /\ awaits'[x] = awaits[x]
           /\ flags'[x] = flags[x]
  BY <1>1, <1>2, SignalledPlace
<1>4. ASSUME NEW x \in Threads \ {t, n} PROVE PlaceOf(x)'
  BY <1>1, <1>2, <1>3, OthersStay
<1>5. PlaceOf(t)'
  <2>1. /\ handling[t] # None <=> pc[t] = "call"
        /\ awaits[t] # None <=> pc[t] = "call"
    BY DEF PlaceInv, PlaceOf
  <2>2. flags'[t] = {} /\ awaits'[t] = awaits[t] /\ pc'[t] = p
    BY <1>1, <1>2, <1>3
  <2>. QED
    BY <2>1, <2>2 DEF PlaceOf
<1>6. awaits'[Common] = awaits[Common]
  BY <1>3, Places DEF PlaceInv, CommonPlace
<1>7. CommonPlace'
  BY <1>1, <1>6, CommonStays
<1>8. CurrentPlace'
  <2>1. pc[t] = "launch" => current = None
    BY DEF PlaceInv, PlaceOf
  <2>2. pc[t] = "call" => current = t
    BY DEF PlaceInv, PlaceOf
  <2>. QED
    BY <1>2, <2>1, <2>2 DEF CurrentPlace
<1>. QED
  BY <1>3, <1>4, <1>5, <1>7, <1>8 DEF PlaceInv

(* Every step keeps the places.                                            *)
LEMMA PlaceStep ==
  ASSUME Types, TurnInv, PlaceInv, AwaitInv, ReadyInv, Types', [Next]_vars
  PROVE  PlaceInv'
<1>1. SUFFICES ASSUME Next PROVE PlaceInv'
  BY DEF vars, fixed, isrVars, contextVars, queueVars, osVars, PlaceInv,
         PlaceOf, CommonPlace, CurrentPlace
<1>. USE DEF isrVars, osVars, contextVars, queueVars
<1>2. ASSUME NEW e \in Entities, CreateThread(e) PROVE PlaceInv'
  BY <1>2 DEF CreateThread, PlaceInv, PlaceOf, CommonPlace, CurrentPlace
<1>3. CASE Start
  <2>1. /\ pc[Common] \in Active /\ pc' = [pc EXCEPT ![Common] = "launch"]
        /\ pc[Common] = "boot"
    BY <1>3 DEF Start, Goto, Active
  <2>2. UNCHANGED <<flags, waitingIsr, handling, awaits, current,
                    currentEvent, ready, evq>>
    BY <1>3 DEF Start
  <2>3. pc'[Common] = "launch" /\ flags[Common] = {}
    BY <2>1, Rest, Places DEF Types
  <2>4. PlaceOf(Common)'
    BY <2>1, <2>2, <2>3, Places DEF PlaceInv, PlaceOf
  <2>5. CurrentPlace'
    BY <2>1, <2>2, Places DEF PlaceInv, PlaceOf, CurrentPlace
  <2>. QED
    BY <2>1, <2>2, <2>4, <2>5, PlacesByThread, Places DEF Active
<1>4. CASE IsrWait
  <2>1. /\ pc[Common] \in Active /\ pc' = [pc EXCEPT ![Common] = "isrwait"]
        /\ waitingIsr' /\ pc[Common] = "isrcheck"
        /\ UNCHANGED <<flags, handling, awaits, current, currentEvent, ready,
                       evq>>
    BY <1>4 DEF IsrWait, Goto, Active
  <2>2. pc'[Common] = "isrwait" /\ flags[Common] = {}
    BY <2>1, Rest, Places DEF Types
  <2>3. PlaceOf(Common)'
    BY <2>1, <2>2, Places DEF PlaceInv, PlaceOf
  <2>4. ASSUME NEW x \in Threads \ {Common} PROVE PlaceOf(x)'
    <3>1. pc'[x] = pc[x]
      BY <2>1 DEF Types
    <3>. QED
      BY <2>1, <3>1, OthersStay, Places
  <2>5. CommonPlace'
    BY <2>1, <2>2 DEF PlaceInv, CommonPlace
  <2>6. CurrentPlace'
    BY <2>1, Places DEF PlaceInv, PlaceOf, CurrentPlace
  <2>. QED
    BY <2>3, <2>4, <2>5, <2>6 DEF PlaceInv
<1>5. CASE IsrWake
  <2>1. /\ pc[Common] = "isrwait" /\ ISR_EVENT \in flags[Common]
        /\ pc' = [pc EXCEPT ![Common] = "isrcheck"]
        /\ flags' = [flags EXCEPT ![Common] = @ \ {ISR_EVENT}]
        /\ UNCHANGED <<waitingIsr, handling, awaits, current, currentEvent,
                       ready, evq>>
    BY <1>5 DEF IsrWake, Goto
  <2>2. flags' = [flags EXCEPT ![Common] = {}] /\ InTurn(Common)
    BY <2>1, FlagSeen, Places DEF Signals
  <2>3. flags'[Common] = {} /\ pc'[Common] = "isrcheck" /\ ~waitingIsr
    BY <2>1, <2>2, Places DEF Types, TurnInv
  <2>4. PlaceOf(Common)'
    BY <2>1, <2>3, Places DEF PlaceInv, PlaceOf
  <2>5. ASSUME NEW x \in Threads \ {Common} PROVE PlaceOf(x)'
    <3>1. pc'[x] = pc[x] /\ flags'[x] = flags[x]
      BY <2>1 DEF Types
    <3>. QED
      BY <2>1, <3>1 DEF PlaceInv, PlaceOf
  <2>6. CommonPlace'
    BY <2>1, <2>3 DEF PlaceInv, CommonPlace
  <2>7. CurrentPlace'
    BY <2>1, Places DEF PlaceInv, PlaceOf, CurrentPlace
  <2>. QED
    BY <2>4, <2>5, <2>6, <2>7 DEF PlaceInv
<1>6. CASE IsrDispatch
  <2>1. PICK e : e = Head(isrQueue)
    OBVIOUS
  <2>2. e \in Event
    BY <1>6, <2>1 DEF IsrDispatch, Types
  <2>3. PICK t : t = ThreadOf(e.tgt)
    OBVIOUS
  <2>4. t \in Threads
    BY <2>2, <2>3, ThreadKnown DEF Event
  <2>5. PICK runs : runs <=> awaits[t] = None \/ Stamped(t, e).wake
    OBVIOUS
  <2>6. /\ pc[Common] = "isrcheck" /\ pc[Common] \in Active
        /\ Queues(t, e)
        /\ ready' = IF runs THEN <<t>> \o ready ELSE ready
        /\ pc' = [pc EXCEPT ![Common] = IF runs THEN "launch" ELSE "isrcheck"]
        /\ UNCHANGED <<flags, waitingIsr, handling, awaits, current,
                       currentEvent>>
    BY <1>6, <2>1, <2>3, <2>5 DEF IsrDispatch, Goto, Queues, Active
  <2>7. \A x \in Threads \ {t} : evq'[x] = evq[x]
    BY <2>2, <2>4, <2>6, QueuesEffect
  <2>8. flags[Common] = {} /\ ~waitingIsr
    BY <2>6, Rest, Places
  <2>9. CurrentPlace'
    BY <2>6, Places DEF PlaceInv, PlaceOf, CurrentPlace
  <2>10. CASE runs
    <3>1. pc'[Common] = "launch" /\ pc' = [pc EXCEPT ![Common] = "launch"]
      BY <2>6, <2>10, Places DEF Types
    <3>2. PlaceOf(Common)'
      BY <2>6, <2>8, <3>1, Places DEF PlaceInv, PlaceOf
    <3>. QED
      BY <2>6, <2>9, <3>1, <3>2, PlacesByThread, Places DEF Active
  <2>11. CASE ~runs
    <3>1. pc' = pc /\ ready' = ready
      BY <2>6, <2>11 DEF Types
    <3>2. t # Common
      BY <2>5, <2>11 DEF PlaceInv, CommonPlace
    <3>3. evq'[Common] = evq[Common]
      BY <2>7, <3>2, Places
    <3>4. PlaceOf(Common)'
      BY <2>6, <2>8, <3>1, <3>3, Places DEF PlaceInv, PlaceOf
    <3>5. ASSUME NEW x \in Threads \ {Common} PROVE PlaceOf(x)'
      BY <2>6, <3>1, OthersStay, Places
    <3>6. CommonPlace'
      BY <2>6, <3>1, <3>3 DEF PlaceInv, CommonPlace
    <3>. QED
      BY <2>9, <3>4, <3>5, <3>6 DEF PlaceInv
  <2>. QED
    BY <2>10, <2>11
<1>7. ASSUME NEW t \in Threads, RunStep(t) PROVE PlaceInv'
  <2>1. CASE Wake(t)
    <3>1. /\ InTurn(t) /\ pc[t] = "wait"
          /\ flags' = [flags EXCEPT ![t] = {}]
          /\ \/ flags[t] = {TO_PROCESS} /\ pc' = [pc EXCEPT ![t] = "take"]
             \/ /\ t = Common /\ flags[t] = {NO_READY}
                /\ pc' = [pc EXCEPT ![t] = "isrcheck"]
      BY <2>1, WakeEffect
    <3>2. UNCHANGED <<waitingIsr, handling, awaits, current, currentEvent,
                      ready, evq>>
      BY <2>1 DEF Wake
    <3>3. flags'[t] = {} /\ ~waitingIsr
      BY <3>1 DEF Types, TurnInv
    <3>4. /\ \A x \in Threads \ {t} : pc'[x] = pc[x] /\ flags'[x] = flags[x]
          /\ pc'[t] \in {"take", "isrcheck"}
          /\ pc'[t] = "take" => flags[t] = {TO_PROCESS}
          /\ pc'[t] = "isrcheck" => t = Common /\ flags[t] = {NO_READY}
      BY <3>1 DEF Types
    <3>5. ASSUME NEW x \in Threads \ {t} PROVE PlaceOf(x)'
      BY <3>2, <3>4 DEF PlaceInv, PlaceOf
    <3>6. PlaceOf(t)'
      BY <3>1, <3>2, <3>3, <3>4 DEF PlaceInv, PlaceOf
    <3>7. CommonPlace'
      <4>1. CASE t = Common
        BY <3>1, <3>2, <3>3, <3>4, <4>1 DEF PlaceInv, PlaceOf, CommonPlace
      <4>2. CASE t # Common
        BY <3>1, <3>2, <3>3, <3>4, <4>2, Places
           DEF PlaceInv, PlaceOf, CommonPlace, TurnInv, InTurn, Active
      <4>. QED
        BY <4>1, <4>2
    <3>8. CurrentPlace'
      BY <3>1, <3>2, <3>4 DEF PlaceInv, CurrentPlace, Types
    <3>. QED
      BY <3>5, <3>6, <3>7, <3>8 DEF PlaceInv
  <2>2. CASE TakeEvent(t)
    <3>1. /\ pc[t] = "take" /\ pc[t] \in Active
          /\ pc' = [pc EXCEPT ![t] = "handle"]
          /\ current' = t /\ currentEvent' = Head(evq[t])
          /\ handling' = [handling EXCEPT ![t] = Head(evq[t])]
          /\ UNCHANGED <<flags, waitingIsr, awaits>>
      BY <2>2 DEF TakeEvent, Goto, Active
    <3>2. evq[t] # <<>> /\ awaits[t] = None /\ flags[t] = {}
      BY <3>1, Rest DEF PlaceInv, PlaceOf
    <3>3. Head(evq[t]) # None
      BY <3>2, FirstQueued, NullAssumption
    <3>4. /\ pc'[t] = "handle" /\ handling'[t] = Head(evq[t])
          /\ \A x \in Threads \ {t} : handling'[x] = handling[x]
      BY <3>1 DEF Types
    <3>5. PlaceOf(t)'
      BY <3>1, <3>2, <3>3, <3>4 DEF PlaceOf
    <3>6. CurrentPlace'
      BY <3>1, <3>4 DEF CurrentPlace
    <3>. QED
      BY <3>1, <3>4, <3>5, <3>6, PlacesByThread DEF Active
  <2>3. CASE HandlerReturns(t)
    <3>1. /\ pc[t] = "handle" /\ pc[t] \in Active
          /\ pc' = [pc EXCEPT ![t] = "finish"]
          /\ UNCHANGED <<flags, waitingIsr, awaits, current, currentEvent,
                         handling>>
      BY <2>3 DEF HandlerReturns, Goto, Active
    <3>2. pc'[t] = "finish" /\ flags[t] = {}
      BY <3>1, Rest DEF Types
    <3>3. PlaceOf(t)'
      BY <3>1, <3>2 DEF PlaceInv, PlaceOf
    <3>4. CurrentPlace'
      BY <3>1, <3>2 DEF PlaceInv, PlaceOf, CurrentPlace
    <3>. QED
      BY <3>1, <3>3, <3>4, PlacesByThread DEF Active
  <2>4. CASE Finish(t)
    <3>1. /\ pc[t] = "finish" /\ pc[t] \in Active
          /\ pc' = [pc EXCEPT ![t] = "launch"]
          /\ current' = None /\ currentEvent' = None
          /\ handling' = [handling EXCEPT ![t] = None]
          /\ UNCHANGED <<flags, waitingIsr, awaits>>
      BY <2>4 DEF Finish, Goto, Active
    <3>2. /\ pc'[t] = "launch" /\ flags[t] = {} /\ handling'[t] = None
          /\ \A x \in Threads \ {t} : handling'[x] = handling[x]
      BY <3>1, Rest DEF Types
    <3>3. PlaceOf(t)'
      BY <3>1, <3>2 DEF PlaceInv, PlaceOf
    <3>4. CurrentPlace'
      BY <3>1 DEF CurrentPlace
    <3>. QED
      BY <3>1, <3>2, <3>3, <3>4, PlacesByThread DEF Active
  <2>5. CASE LaunchNext(t)
    <3>1. /\ pc[t] = "launch" /\ pc[t] \in Active
          /\ current = None /\ currentEvent = None
          /\ UNCHANGED <<waitingIsr, handling, current, currentEvent>>
      BY <2>5 DEF LaunchNext, Active, PlaceInv, PlaceOf
    <3>2. CurrentPlace'
      BY <3>1 DEF CurrentPlace
    <3>3. handling[t] = None /\ awaits[t] = None /\ flags[t] = {}
      BY <3>1, Rest DEF PlaceInv, PlaceOf
    <3>4. CASE ready = <<>>
      <4>1. pc[Common] # "take"
        BY <3>1, Rest
      <4>2. evq[Common] = <<>>
        BY <3>1, <3>4, <4>1, NothingReady, MultiThreadAssumption
      <4>3. UNCHANGED <<ready, evq, awaits>>
        BY <2>5, <3>4 DEF LaunchNext
      <4>4. CASE t = Common
        <5>1. pc' = [pc EXCEPT ![Common] = "isrcheck"] /\ flags' = flags
          BY <2>5, <3>4, <4>4 DEF LaunchNext, Goto
        <5>2. /\ pc'[Common] = "isrcheck"
              /\ \A x \in Threads \ {Common} : pc'[x] = pc[x]
          BY <5>1, Places DEF Types
        <5>3. PlaceOf(Common)'
          BY <3>1, <3>3, <4>3, <4>4, <5>1, <5>2 DEF PlaceOf
        <5>4. ASSUME NEW x \in Threads \ {Common} PROVE PlaceOf(x)'
          BY <3>1, <4>3, <4>4, <5>1, <5>2, OthersStay
        <5>5. CommonPlace'
          BY <3>1, <3>3, <3>4, <4>2, <4>3, <4>4, <5>1, <5>2, Rest
             DEF PlaceInv, CommonPlace
        <5>. QED
          BY <3>2, <5>3, <5>4, <5>5 DEF PlaceInv
      <4>5. CASE t # Common
        <5>1. /\ pc' = [pc EXCEPT ![t] = "wait"]
              /\ flags' = [flags EXCEPT ![Common] = @ \cup {NO_READY}]
          BY <2>5, <3>4, <4>5 DEF LaunchNext, Goto, Raise
        <5>2. /\ pc'[t] = "wait" /\ flags'[t] = {}
              /\ flags'[Common] = {NO_READY} /\ pc'[Common] = "wait"
              /\ \A x \in Threads \ {t} : pc'[x] = pc[x]
              /\ \A x \in Threads \ {Common} : flags'[x] = flags[x]
          BY <3>1, <3>3, <4>5, <5>1, Rest, Places DEF Types
        <5>3. PlaceOf(Common)'
          <6>1. handling[Common] = None /\ awaits[Common] = None
            BY <3>1, <4>5, Rest, Places DEF PlaceInv, PlaceOf
          <6>. QED
            BY <3>1, <3>4, <4>2, <4>3, <5>2, <6>1, Places DEF PlaceOf
        <5>4. PlaceOf(t)'
          BY <3>1, <3>3, <4>3, <5>2 DEF PlaceOf
        <5>5. ASSUME NEW x \in Threads \ {t, Common} PROVE PlaceOf(x)'
          BY <3>1, <4>3, <5>2, OthersStay
        <5>6. CommonPlace'
          BY <3>1, <4>3, <5>2, Rest DEF PlaceInv, CommonPlace
        <5>. QED
          BY <3>2, <5>3, <5>4, <5>5, <5>6 DEF PlaceInv
      <4>. QED
        BY <4>4, <4>5
    <3>5. CASE ready # <<>> /\ Head(ready) = t
      <4>1. /\ pc' = [pc EXCEPT ![t] = "take"]
            /\ UNCHANGED <<flags, awaits, evq>>
        BY <2>5, <3>5 DEF LaunchNext, Goto
      <4>2. evq[t] # <<>>
        BY <3>5, FirstReady DEF ReadyInv, CanGoOn
      <4>3. pc'[t] = "take"
        BY <4>1 DEF Types
      <4>4. PlaceOf(t)'
        BY <3>1, <3>3, <4>1, <4>2, <4>3 DEF PlaceOf
      <4>. QED
        BY <3>1, <3>2, <4>1, <4>4, PlacesByThread DEF Active
    <3>6. CASE ready # <<>> /\ Head(ready) # t
      <4>1. pc' = [pc EXCEPT ![t] = "wait"] /\ Signal(Head(ready))
        BY <2>5, <3>6 DEF LaunchNext, Goto
      <4>2. Head(ready) \in Threads \ {t} /\ CanGoOn(Head(ready))
        BY <3>6, FirstReady DEF ReadyInv
      <4>. QED
        BY <3>1, <4>1, <4>2, PlacesSignalled
    <3>. QED
      BY <3>4, <3>5, <3>6
  <2>6. CASE LaunchAndWait(t)
    <3>1. /\ pc[t] = "call" /\ pc[t] \in Active
          /\ current = t /\ pc' = [pc EXCEPT ![t] = "blocked"]
          /\ UNCHANGED <<waitingIsr, handling, current, currentEvent>>
      BY <2>6 DEF LaunchAndWait, Goto, Active, PlaceInv, PlaceOf
    <3>2. CASE ready = <<>>
      <4>1. UNCHANGED <<flags, awaits, evq>>
        BY <2>6, <3>2 DEF LaunchAndWait
      <4>2. pc'[t] = "blocked" /\ flags[t] = {}
        BY <3>1, Rest DEF Types
      <4>3. PlaceOf(t)'
        BY <3>1, <4>1, <4>2 DEF PlaceInv, PlaceOf
      <4>4. CurrentPlace'
        BY <3>1, <4>2 DEF CurrentPlace
      <4>. QED
        BY <3>1, <4>1, <4>3, <4>4, PlacesByThread DEF Waiting
    <3>3. CASE ready # <<>>
      <4>1. Signal(Head(ready))
        BY <2>6, <3>3 DEF LaunchAndWait
      <4>2. Head(ready) \in Threads \ {t} /\ CanGoOn(Head(ready))
        BY <3>1, <3>3, FirstReady DEF ReadyInv, CanGoOn
      <4>. QED
        BY <3>1, <4>1, <4>2, PlacesSignalled
    <3>. QED
      BY <3>2, <3>3
  <2>7. CASE Resume(t)
    <3>1. /\ pc[t] = "blocked" /\ PROCESSED \in flags[t]
          /\ flags' = [flags EXCEPT ![t] = @ \ {PROCESSED}]
          /\ awaits' = [awaits EXCEPT ![t] = None]
          /\ current' = t /\ currentEvent' = handling[t]
          /\ pc' = [pc EXCEPT ![t] = "handle"]
          /\ UNCHANGED <<handling, waitingIsr, ready, evq>>
      BY <2>7 DEF Resume, Goto
    <3>2. InTurn(t) /\ flags' = [flags EXCEPT ![t] = {}]
      BY <3>1, FlagSeen DEF Signals
    <3>3. /\ pc'[t] = "handle" /\ flags'[t] = {} /\ awaits'[t] = None
          /\ ~waitingIsr
          /\ \A x \in Threads \ {t} :
               /\ pc'[x] = pc[x] /\ flags'[x] = flags[x]
               /\ awaits'[x] = awaits[x]
               /\ flags[x] = {} /\ pc[x] \notin Active
      BY <3>1, <3>2 DEF Types, TurnInv, InTurn
    <3>4. t # Common /\ pc[Common] # "isrwait"
      BY <3>1, <3>3, Places DEF PlaceInv, PlaceOf, CommonPlace
    <3>5. PlaceOf(t)'
      BY <3>1, <3>3 DEF PlaceInv, PlaceOf
    <3>6. ASSUME NEW x \in Threads \ {t} PROVE PlaceOf(x)'
      <4>1. x = Common \/ pc[x] # "isrwait"
        BY DEF PlaceInv, PlaceOf
      <4>2. pc[x] \in {"wait", "blocked"}
        BY <3>3, <3>4, <4>1 DEF Types, Waiting
      <4>. QED
        BY <3>1, <3>3, <4>2 DEF PlaceInv, PlaceOf
    <3>7. CommonPlace'
      BY <3>1, <3>3, <3>4, Places DEF PlaceInv, CommonPlace, Active
    <3>8. CurrentPlace'
      BY <3>1, <3>3 DEF CurrentPlace
    <3>. QED
      BY <3>5, <3>6, <3>7, <3>8 DEF PlaceInv
  <2>. QED
    BY <1>7, <2>1, <2>2, <2>3, <2>4, <2>5, <2>6, <2>7 DEF RunStep
<1>8. CASE PutRequest
  BY <1>8, PlacesStay DEF PutRequest
<1>9. CASE PutDelayed
  <2>1. MayPut
    BY <1>9 DEF PutDelayed, MayPut
  <2>. QED
    BY <1>9, <2>1, PlacesStay DEF PutDelayed
<1>10. ASSUME NEW t \in Threads, PutEventAndWait(t) PROVE PlaceInv'
  <2>1. /\ pc[t] = "handle" /\ pc[t] \in Active /\ current # Common
        /\ awaits' = [awaits EXCEPT ![t] = [cookie |-> cookies,
                                 asked |-> cookies, answer |-> None]]
        /\ pc' = [pc EXCEPT ![t] = "call"]
        /\ UNCHANGED <<flags, waitingIsr, current, currentEvent, handling>>
    BY <1>10 DEF PutEventAndWait, Goto, Active
  <2>2. current = t
    BY <2>1 DEF PlaceInv, PlaceOf
  <2>3. [cookie |-> cookies, asked |-> cookies, answer |-> None] \in Await
    BY DEF Await, Types
  <2>4. awaits'[t] # None /\ \A x \in Threads \ {t} : awaits'[x] = awaits[x]
    BY <2>1, <2>3, NullAssumption DEF Types
  <2>5. pc'[t] = "call" /\ flags[t] = {}
    BY <2>1, Rest DEF Types
  <2>6. PlaceOf(t)'
    BY <2>1, <2>4, <2>5 DEF PlaceInv, PlaceOf
  <2>7. CurrentPlace'
    BY <2>1, <2>2, <2>5 DEF CurrentPlace
  <2>. QED
    BY <2>1, <2>2, <2>4, <2>6, <2>7, PlacesByThread, Places DEF Active
<1>11. CASE IsrPutRequest
  <2>1. \A w \in usage.flags : w \in BOOLEAN
    BY MultiThreadAssumption DEF Types
  <2>2. PICK e \in Event :
          /\ PutIsrEvent(e)
          /\ UNCHANGED <<contextVars, queueVars, pc, awaits, handling>>
    BY <1>11, <2>1, NewType DEF IsrPutRequest
  <2>. QED
    BY <2>2, PlacesOfIsr
<1>12. CASE IsrPutResponse
  <2>1. PICK e \in Event :
          /\ PutIsrEvent(e)
          /\ UNCHANGED <<contextVars, queueVars, pc, awaits, handling>>
    BY <1>12 DEF IsrPutResponse, Types
  <2>. QED
    BY <2>1, PlacesOfIsr
<1>. QED
  BY <1>1, <1>2, <1>3, <1>4, <1>5, <1>6, <1>7, <1>8, <1>9, <1>10, <1>11,
     <1>12 DEF Next, ThreadStep, ModuleStep

(***************************************************************************)
(* Events: what is queued afterwards was queued before or has been put.    *)
(***************************************************************************)
LEMMA QueuesMembers ==
  ASSUME Types, NEW t \in Threads, NEW e \in Event, Queues(t, e),
         NEW x \in Threads, NEW i \in DOMAIN evq'[x]
  PROVE  \/ x = t /\ evq'[x][i] = Stamped(t, e)
         \/ \E j \in DOMAIN evq[x] : evq'[x][i] = evq[x][j]
<1>1. evq'[x] \in Seq(Event) /\ evq[x] \in Seq(Event)
  BY QueuesEffect DEF Types
<1>2. CASE x # t
  BY <1>2, QueuesEffect
<1>3. CASE x = t /\ IsWake(t, e)
  <2>1. i = 1 \/ i - 1 \in 1..Len(evq[t])
    BY <1>1, <1>3, QueuesEffect
  <2>2. i - 1 \in 1..Len(evq[t]) => evq'[t][i] = evq[t][i - 1]
    BY <1>1, <1>3, QueuesEffect
  <2>. QED
    BY <1>1, <1>3, <2>1, <2>2, QueuesEffect
<1>4. CASE x = t /\ ~IsWake(t, e)
  <2>1. i = Len(evq[t]) + 1 \/ i \in 1..Len(evq[t])
    BY <1>1, <1>4, QueuesEffect
  <2>. QED
    BY <1>1, <1>4, <2>1, QueuesEffect
<1>. QED
  BY <1>2, <1>3, <1>4

LEMMA TailMembers ==
  ASSUME Types, NEW t \in Threads, evq[t] # <<>>,
         evq' = evq \/ evq' = [evq EXCEPT ![t] = Tail(@)],
         NEW x \in Threads, NEW i \in DOMAIN evq'[x]
  PROVE  \E j \in DOMAIN evq[x] : evq'[x][i] = evq[x][j]
<1>1. CASE evq' = evq \/ x # t
  BY <1>1 DEF Types
<1>2. CASE evq' = [evq EXCEPT ![t] = Tail(@)] /\ x = t
  <2>1. evq'[t] = Tail(evq[t])
    BY <1>2 DEF Types
  <2>. QED
    BY <1>2, <2>1, FirstQueued
<1>. QED
  BY <1>1, <1>2

(* Launching takes at most one event from a queue.                         *)
LEMMA SignalTail ==
  ASSUME NEW n, Signal(n)
  PROVE  evq' = evq \/ evq' = [evq EXCEPT ![n] = Tail(@)]
BY DEF Signal

LEMMA QueuedLasts ==
  ASSUME NEW e \in Event, NEW c \in Nat, NEW k \in {c, c + 1}, QueuedOK(e, c)
  PROVE  QueuedOK(e, k)
BY DEF QueuedOK, Event

LEMMA StoredLasts ==
  ASSUME NEW e \in Event, NEW c \in Nat, NEW k \in {c, c + 1}, StoredOK(e, c)
  PROVE  StoredOK(e, k)
BY DEF StoredOK, Event

LEMMA StampedOK ==
  ASSUME Types, NEW t \in Threads, NEW e \in Event, ~e.sent,
         e.response => ~e.want
  PROVE  QueuedOK(Stamped(t, e), cookies + 1)
BY StampedType DEF QueuedOK, Types

(* The parts of EventInv, each with the steps that bear on it.             *)
LEMMA QueuedAfterPut ==
  ASSUME Types, QueuedInv, NEW t \in Threads, NEW e \in Event, Queues(t, e),
         ~e.sent, e.response => ~e.want
  PROVE  QueuedInv'
<1>1. cookies' = cookies + 1 /\ cookies \in Nat
  BY DEF Queues, Types
<1>2. SUFFICES ASSUME NEW x \in Threads, NEW i \in DOMAIN evq'[x]
               PROVE  QueuedOK(evq'[x][i], cookies + 1)
  BY <1>1 DEF QueuedInv
<1>3. CASE x = t /\ evq'[x][i] = Stamped(t, e)
  BY <1>3, StampedOK
<1>4. CASE \E j \in DOMAIN evq[x] : evq'[x][i] = evq[x][j]
  BY <1>1, <1>4, QueuedLasts DEF QueuedInv, Types
<1>. QED
  BY <1>3, <1>4, QueuesMembers

LEMMA QueuedAfterTake ==
  ASSUME Types, QueuedInv, NEW t \in Threads, evq[t] # <<>>,
         evq' = evq \/ evq' = [evq EXCEPT ![t] = Tail(@)], cookies' = cookies
  PROVE  QueuedInv'
<1>1. SUFFICES ASSUME NEW x \in Threads, NEW i \in DOMAIN evq'[x]
               PROVE  QueuedOK(evq'[x][i], cookies)
  BY DEF QueuedInv
<1>. QED
  BY TailMembers DEF QueuedInv

(* The other parts only see the cookies grow.                              *)
LEMMA HandledLasts ==
  ASSUME Types, HandledInv, cookies' \in {cookies, cookies + 1},
         \A t \in Threads : handling'[t] \in {handling[t], None}
  PROVE  HandledInv'
<1>1. SUFFICES ASSUME NEW t \in Threads, handling'[t] # None
               PROVE  QueuedOK(handling'[t], cookies')
  BY DEF HandledInv
<1>2. /\ handling[t] \in Event /\ handling'[t] = handling[t]
      /\ QueuedOK(handling[t], cookies)
  BY <1>1 DEF Types, HandledInv
<1>. QED
  BY <1>2, QueuedLasts DEF Types

LEMMA StoredInvLasts ==
  ASSUME Types, StoredInv, \A e \in Entities : delayed'[e] \subseteq delayed[e],
         cookies' \in {cookies, cookies + 1}
  PROVE  StoredInv'
<1>1. SUFFICES ASSUME NEW e \in Entities, NEW d \in delayed'[e]
               PROVE  d.src = e /\ StoredOK(d, cookies')
  BY DEF StoredInv
<1>2. d \in Event /\ StoredOK(d, cookies) /\ d.src = e
  BY DEF Types, StoredInv
<1>. QED
  BY <1>2, StoredLasts DEF Types

LEMMA IsrInvLasts ==
  ASSUME Types, IsrInv, cookies' \in {cookies, cookies + 1},
         isrQueue' = isrQueue \/ (isrQueue # <<>> /\ isrQueue' = Tail(isrQueue))
  PROVE  IsrInv'
<1>1. SUFFICES ASSUME NEW i \in DOMAIN isrQueue'
               PROVE  IsrOK(isrQueue'[i], cookies')
  BY DEF IsrInv
<1>2. isrQueue \in Seq(Event)
  BY DEF Types
<1>3. \E j \in DOMAIN isrQueue : isrQueue'[i] = isrQueue[j]
  <2>1. CASE isrQueue' = isrQueue
    BY <2>1
  <2>2. CASE isrQueue # <<>> /\ isrQueue' = Tail(isrQueue)
    BY <1>2, <2>2
  <2>. QED
    BY <2>1, <2>2
<1>4. PICK j \in DOMAIN isrQueue : isrQueue'[i] = isrQueue[j]
  BY <1>3
<1>5. isrQueue[j] \in Event /\ IsrOK(isrQueue[j], cookies)
  BY <1>2, <1>4 DEF IsrInv
<1>. QED
  BY <1>4, <1>5, StoredLasts DEF IsrOK, Types

LEMMA IsrInvPut ==
  ASSUME Types, IsrInv, NEW e \in Event, PutIsrEvent(e), IsrOK(e, cookies),
         cookies' = cookies
  PROVE  IsrInv'
<1>1. SUFFICES ASSUME NEW i \in DOMAIN isrQueue'
               PROVE  IsrOK(isrQueue'[i], cookies)
  BY DEF IsrInv
<1>2. isrQueue' = Append(isrQueue, e) /\ isrQueue \in Seq(Event)
  BY DEF PutIsrEvent, Types
<1>3. isrQueue'[i] = e
      \/ (i \in DOMAIN isrQueue /\ isrQueue'[i] = isrQueue[i])
  BY <1>2
<1>. QED
  BY <1>3 DEF IsrInv

(* Every step keeps the events as they are to be.                          *)
LEMMA EventStep ==
  ASSUME Types, TurnInv, PlaceInv, EventInv, ReadyInv, AwaitInv, Types',
         [Next]_vars
  PROVE  EventInv'
<1>1. SUFFICES ASSUME Next PROVE EventInv'
  BY DEF vars, fixed, isrVars, contextVars, queueVars, osVars, EventInv,
         QueuedInv, HandledInv, StoredInv, IsrInv
<1>. USE DEF isrVars, osVars, contextVars, queueVars
<1>2. QueuedInv /\ HandledInv /\ StoredInv /\ IsrInv /\ cookies \in Nat
  BY DEF EventInv, Types
<1>3. ASSUME UNCHANGED <<evq, cookies, handling, delayed, isrQueue>>
      PROVE  EventInv'
  BY <1>3 DEF EventInv, QueuedInv, HandledInv, StoredInv, IsrInv
<1>4. ASSUME NEW t \in Threads, NEW e \in Event, Queues(t, e), ~e.sent,
             e.response => ~e.want, UNCHANGED handling,
             \A x \in Entities : delayed'[x] \subseteq delayed[x],
             isrQueue' = isrQueue
               \/ (isrQueue # <<>> /\ isrQueue' = Tail(isrQueue))
      PROVE  EventInv'
  <2>1. cookies' = cookies + 1
    BY <1>4 DEF Queues
  <2>. QED
    BY <1>2, <1>4, <2>1, QueuedAfterPut, HandledLasts, StoredInvLasts,
       IsrInvLasts DEF EventInv
<1>5. ASSUME NEW n \in Threads, evq[n] # <<>>,
             evq' = evq \/ evq' = [evq EXCEPT ![n] = Tail(@)],
             UNCHANGED <<cookies, handling, delayed, isrQueue>>
      PROVE  EventInv'
  BY <1>2, <1>5, QueuedAfterTake, HandledLasts, StoredInvLasts, IsrInvLasts
     DEF EventInv
<1>6. ASSUME NEW e \in Event, PutIsrEvent(e), IsrOK(e, cookies),
             UNCHANGED <<evq, cookies, handling>>, StoredInv'
      PROVE  EventInv'
  BY <1>2, <1>6, IsrInvPut DEF EventInv, QueuedInv, HandledInv
<1>7. ASSUME NEW e \in Entities, CreateThread(e) PROVE EventInv'
  BY <1>3, <1>7 DEF CreateThread
<1>8. CASE Start
  BY <1>3, <1>8 DEF Start
<1>9. CASE IsrWait
  BY <1>3, <1>9 DEF IsrWait
<1>10. CASE IsrWake
  BY <1>3, <1>10 DEF IsrWake
<1>11. CASE IsrDispatch
  <2>1. PICK e : e = Head(isrQueue)
    OBVIOUS
  <2>2. e \in Event /\ IsrOK(e, cookies)
    BY <1>2, <1>11, <2>1 DEF IsrDispatch, Types, IsrInv
  <2>3. PICK t : t = ThreadOf(e.tgt)
    OBVIOUS
  <2>4. t \in Threads
    BY <2>2, <2>3, ThreadKnown DEF Event
  <2>5. /\ Queues(t, e) /\ UNCHANGED <<handling, delayed>>
        /\ isrQueue # <<>> /\ isrQueue' = Tail(isrQueue)
    BY <1>11, <2>1, <2>3 DEF IsrDispatch, Queues
  <2>. QED
    BY <1>4, <2>2, <2>4, <2>5 DEF IsrOK, StoredOK
<1>12. ASSUME NEW t \in Threads, RunStep(t) PROVE EventInv'
  <2>1. CASE Wake(t)
    BY <1>3, <2>1 DEF Wake
  <2>2. CASE TakeEvent(t)
    <3>1. /\ evq[t] # <<>> /\ evq' = [evq EXCEPT ![t] = Tail(@)]
          /\ handling' = [handling EXCEPT ![t] = Head(evq[t])]
          /\ UNCHANGED <<cookies, delayed, isrQueue>>
      BY <2>2 DEF TakeEvent, PlaceInv, PlaceOf
    <3>2. QueuedOK(Head(evq[t]), cookies)
      BY <1>2, <3>1, FirstQueued DEF QueuedInv
    <3>3. HandledInv'
      BY <1>2, <3>1, <3>2 DEF HandledInv, Types
    <3>. QED
      BY <1>2, <3>1, <3>3, QueuedAfterTake, StoredInvLasts, IsrInvLasts
         DEF EventInv
  <2>3. CASE HandlerReturns(t)
    <3>1. PICK e : e = handling[t]
      OBVIOUS
    <3>2. e \in Event /\ QueuedOK(e, cookies)
      BY <1>2, <2>3, <3>1 DEF HandlerReturns, PlaceInv, PlaceOf, Types, HandledInv
    <3>3. PICK r : r = Response(e)
      OBVIOUS
    <3>4. /\ r \in Event /\ r.response /\ ~r.want /\ ~r.early
          /\ r.src = e.tgt /\ r.cookie = e.cookie
          /\ r.request = e.request /\ r.sent = e.sent
      BY <3>2, <3>3, ResponseType
    <3>5. UNCHANGED <<handling, isrQueue>>
      BY <2>3 DEF HandlerReturns
    <3>6. CASE UNCHANGED <<free, queueVars, delayed>>
      BY <1>3, <3>5, <3>6
    <3>7. CASE Enqueue(ThreadOf(r.tgt), r) /\ UNCHANGED delayed
      <4>1. PICK to : to = ThreadOf(r.tgt)
        OBVIOUS
      <4>2. to \in Threads
        BY <3>4, <4>1, ThreadKnown DEF Event
      <4>3. Queues(to, r)
        BY <3>4, <3>7, <4>1, <4>2, EnqueueQueues
      <4>. QED
        BY <1>4, <3>2, <3>4, <3>5, <3>7, <4>2, <4>3 DEF QueuedOK
    <3>8. CASE /\ e.want /\ UNCHANGED queueVars
               /\ delayed' = [delayed EXCEPT ![e.tgt] = @ \cup {r}]
      <4>1. StoredOK(r, cookies)
        BY <3>2, <3>4, <3>8 DEF StoredOK, QueuedOK
      <4>2. StoredInv'
        BY <1>2, <3>4, <3>8, <4>1 DEF StoredInv, Types
      <4>. QED
        BY <1>2, <3>5, <3>8, <4>2 DEF EventInv, QueuedInv, HandledInv, IsrInv
    <3>. QED
      BY <2>3, <3>1, <3>3, <3>6, <3>7, <3>8 DEF HandlerReturns
  <2>4. CASE Finish(t)
    <3>1. /\ UNCHANGED <<evq, cookies, delayed, isrQueue>>
          /\ handling' = [handling EXCEPT ![t] = None]
      BY <2>4 DEF Finish
    <3>2. \A x \in Threads : handling'[x] \in {handling[x], None}
      BY <3>1 DEF Types
    <3>. QED
      BY <1>2, <3>1, <3>2, HandledLasts DEF EventInv, QueuedInv, StoredInv, IsrInv
  <2>5. CASE LaunchNext(t)
    <3>1. UNCHANGED <<cookies, handling, delayed, isrQueue>>
      BY <2>5 DEF LaunchNext
    <3>2. CASE ready = <<>> \/ Head(ready) = t
      BY <1>3, <2>5, <3>1, <3>2 DEF LaunchNext
    <3>3. CASE ready # <<>> /\ Head(ready) # t
      BY <1>5, <2>5, <3>1, <3>3, Launches, SignalTail DEF LaunchNext
    <3>. QED
      BY <3>2, <3>3
  <2>6. CASE LaunchAndWait(t)
    <3>1. UNCHANGED <<cookies, handling, delayed, isrQueue>>
      BY <2>6 DEF LaunchAndWait
    <3>2. CASE ready = <<>>
      BY <1>3, <2>6, <3>1, <3>2 DEF LaunchAndWait
    <3>3. CASE ready # <<>>
      BY <1>5, <2>6, <3>1, <3>3, Launches, SignalTail DEF LaunchAndWait
    <3>. QED
      BY <3>2, <3>3
  <2>7. CASE Resume(t)
    BY <1>3, <2>7 DEF Resume
  <2>. QED
    BY <1>12, <2>1, <2>2, <2>3, <2>4, <2>5, <2>6, <2>7 DEF RunStep
<1>13. \A w \in usage.flags : w \in BOOLEAN
  BY MultiThreadAssumption DEF Types
<1>14. CASE PutRequest
  <2>1. PICK src \in Sources, tgt \in Entities, want \in usage.flags :
          /\ Enqueue(ThreadOf(tgt), NewEvent(src, tgt, want))
          /\ UNCHANGED <<isrQueue, handling, delayed>>
    BY <1>14 DEF PutRequest
  <2>2. PICK e : e = NewEvent(src, tgt, want)
    OBVIOUS
  <2>3. Sources \subseteq Entities
    BY DEF Sources, Types, Event
  <2>4. e \in Event /\ ~e.sent /\ ~e.response
    BY <1>13, <2>2, <2>3, NewType DEF NewEvent
  <2>5. Queues(ThreadOf(tgt), e) /\ ThreadOf(tgt) \in Threads
    BY <2>1, <2>2, <2>4, ThreadKnown, EnqueueQueues
  <2>. QED
    BY <1>4, <2>1, <2>4, <2>5
<1>15. CASE PutDelayed
  <2>1. PICK x \in Entities, d \in Event :
          /\ d \in delayed[x] /\ ~d.sent
          /\ delayed' = [delayed EXCEPT ![d.src] = @ \ {d}]
          /\ Enqueue(ThreadOf(d.tgt), d)
          /\ UNCHANGED <<isrQueue, handling>>
    BY <1>15 DEF PutDelayed, GetDelayedResponse, Types
  <2>2. d \in Event /\ ~d.want
    BY <1>2, <2>1 DEF Types, StoredInv, StoredOK
  <2>3. Queues(ThreadOf(d.tgt), d) /\ ThreadOf(d.tgt) \in Threads
    BY <2>1, <2>2, ThreadKnown, EnqueueQueues DEF Event
  <2>4. \A z \in Entities : delayed'[z] \subseteq delayed[z]
    BY <2>1 DEF Types
  <2>. QED
    BY <1>4, <2>1, <2>2, <2>3, <2>4
<1>16. ASSUME NEW t \in Threads, PutEventAndWait(t) PROVE EventInv'
  <2>1. PICK tgt \in Entities :
          /\ pc[t] = "handle"
          /\ Enqueue(ThreadOf(tgt), NewEvent(currentEvent.tgt, tgt, TRUE))
          /\ UNCHANGED <<isrQueue, handling, delayed>>
    BY <1>16 DEF PutEventAndWait
  <2>2. PICK e : e = NewEvent(currentEvent.tgt, tgt, TRUE)
    OBVIOUS
  <2>3. currentEvent \in Event
    BY <2>1 DEF PlaceInv, PlaceOf, Types
  <2>4. e \in Event /\ ~e.sent /\ ~e.response
    BY <2>2, <2>3, NewType DEF NewEvent, Event
  <2>5. Queues(ThreadOf(tgt), e) /\ ThreadOf(tgt) \in Threads
    BY <2>1, <2>2, <2>4, ThreadKnown, EnqueueQueues
  <2>. QED
    BY <1>4, <2>1, <2>4, <2>5
<1>17. CASE IsrPutRequest
  <2>1. PICK src \in Entities, tgt \in Entities, want \in usage.flags :
          /\ PutIsrEvent([NewEvent(src, tgt, want) EXCEPT !.early = FALSE])
          /\ UNCHANGED <<evq, cookies, handling, delayed>>
    BY <1>17 DEF IsrPutRequest
  <2>2. PICK e : e = [NewEvent(src, tgt, want) EXCEPT !.early = FALSE]
    OBVIOUS
  <2>3. e \in Event /\ IsrOK(e, cookies)
    BY <1>13, <2>2, NewType DEF NewEvent, IsrOK
  <2>4. StoredInv'
    BY <1>2, <2>1 DEF StoredInv
  <2>. QED
    BY <1>6, <2>1, <2>2, <2>3, <2>4
<1>18. CASE IsrPutResponse
  <2>1. PICK d \in UNION {delayed[e] : e \in Entities} :
          /\ PutIsrEvent(d) /\ ~d.sent
          /\ delayed' = [delayed EXCEPT ![d.src] =
                          (@ \ {d}) \cup {[d EXCEPT !.sent = TRUE]}]
          /\ UNCHANGED <<evq, cookies, handling>>
    BY <1>18 DEF IsrPutResponse
  <2>2. /\ d \in Event /\ StoredOK(d, cookies)
        /\ d.src \in Entities /\ d \in delayed[d.src]
    BY <1>2, <2>1 DEF Types, StoredInv
  <2>3. PICK c : c = [d EXCEPT !.sent = TRUE]
    OBVIOUS
  <2>4. StoredOK(c, cookies) /\ c.src = d.src
    BY <2>2, <2>3 DEF StoredOK, Event
  <2>5. StoredInv'
    BY <1>2, <2>1, <2>2, <2>3, <2>4 DEF StoredInv, Types
  <2>6. IsrOK(d, cookies)
    BY <2>1, <2>2 DEF IsrOK, StoredOK
  <2>. QED
    BY <1>6, <2>1, <2>2, <2>5, <2>6
<1>. QED
  BY <1>1, <1>7, <1>8, <1>9, <1>10, <1>11, <1>12, <1>14, <1>15, <1>16, <1>17,
     <1>18 DEF Next, ThreadStep, ModuleStep

(***************************************************************************)
(* Responses: the place a response may come from moves, and none appears   *)
(* but with the request that was put.  Queues shift by off and the one of  *)
(* interrupts by o; <<n, m, l>> is the new place, if any, for the cookie   *)
(* c, and <<g, gx, gi>> the one that is gone, if any.                      *)
(***************************************************************************)
Moved(off, o, n, m, l, c, g, gx, gi) ==
  /\ \A p, x, i : Carries(p, x, i, c) => p = g /\ x = gx /\ i = gi
  /\ \A x \in Threads : off[x] \in Int
  /\ o \in Int
  /\ \A x, i, k : QueuedCarrier(x, i, k)' =>
       \/ n = "queued" /\ k = c /\ x = m /\ i = l
       \/ /\ QueuedCarrier(x, i + off[x], k)
          /\ ~(g = "queued" /\ gx = x /\ gi = i + off[x])
  /\ \A x, k : HandledCarrier(x, k)' =>
       \/ n = "handled" /\ k = c /\ x = m /\ l = 0
       \/ HandledCarrier(x, k) /\ ~(g = "handled" /\ gx = x /\ gi = 0)
  /\ \A x, d, k : StoredCarrier(x, d, k)' =>
       \/ n = "stored" /\ k = c /\ x = m /\ d = l
       \/ StoredCarrier(x, d, k) /\ ~(g = "stored" /\ gx = x /\ gi = d)
  /\ \A i, k : IsrCarrier(i, k)' =>
       \/ n = "isr" /\ k = c /\ m = 0 /\ i = l
       \/ IsrCarrier(i + o, k) /\ ~(g = "isr" /\ gx = 0 /\ gi = i + o)

LEMMA Shifts ==
  ASSUME Types, Types', Unique, NEW off, NEW o, NEW n, NEW m, NEW l, NEW c,
         NEW g, NEW gx, NEW gi, Moved(off, o, n, m, l, c, g, gx, gi)
  PROVE  /\ Unique'
         /\ \A k \in Nat : k # c /\ Carried(k)' => Carried(k)
         /\ \A k \in Nat : k # c /\ Carries(g, gx, gi, k) => ~Carried(k)'
<1>1. \A x, i, k : QueuedCarrier(x, i, k)' => x \in Threads /\ i \in Nat
  <2>1. \A x \in Threads : evq'[x] \in Seq(Event)
    BY DEF Types
  <2>. QED
    BY <2>1 DEF QueuedCarrier
<1>2. \A i, k : IsrCarrier(i, k)' => i \in Nat
  <2>1. isrQueue' \in Seq(Event)
    BY DEF Types
  <2>. QED
    BY <2>1 DEF IsrCarrier
<1>4. ASSUME NEW p, NEW x, NEW i, NEW k, Carries(p, x, i, k)'
      PROVE  \/ p = n /\ k = c /\ x = m /\ i = l
             \/ \E j : /\ Carries(p, x, j, k)
                       /\ j = (IF p = "queued" THEN i + off[x]
                               ELSE IF p = "isr" THEN i + o ELSE i)
                       /\ ~(p = g /\ x = gx /\ j = gi)
                       /\ p = "queued" => x \in Threads /\ i \in Nat
                       /\ p = "isr" => i \in Nat
  <2>1. CASE p = "queued" /\ QueuedCarrier(x, i, k)'
    BY <1>1, <2>1 DEF Carries, Moved
  <2>2. CASE p = "handled" /\ i = 0 /\ HandledCarrier(x, k)'
    BY <2>2 DEF Carries, Moved
  <2>3. CASE p = "stored" /\ StoredCarrier(x, i, k)'
    BY <2>3 DEF Carries, Moved
  <2>4. CASE p = "isr" /\ x = 0 /\ IsrCarrier(i, k)'
    BY <1>2, <2>4 DEF Carries, Moved
  <2>. QED
    BY <1>4, <2>1, <2>2, <2>3, <2>4 DEF Carries
<1>5. Unique'
  <2>1. SUFFICES ASSUME NEW k \in Nat, NEW p, NEW q, NEW x, NEW y, NEW i,
                        NEW j, Carries(p, x, i, k)', Carries(q, y, j, k)'
                 PROVE  p = q /\ x = y /\ i = j
    BY DEF Unique
  <2>2. CASE k = c
    BY <1>4, <2>1, <2>2 DEF Moved
  <2>3. CASE k # c
    <3>1. PICK i0 : /\ Carries(p, x, i0, k)
                    /\ i0 = (IF p = "queued" THEN i + off[x]
                             ELSE IF p = "isr" THEN i + o ELSE i)
                    /\ p = "queued" => x \in Threads /\ i \in Nat
                    /\ p = "isr" => i \in Nat
      BY <1>4, <2>1, <2>3
    <3>2. PICK j0 : /\ Carries(q, y, j0, k)
                    /\ j0 = (IF q = "queued" THEN j + off[y]
                             ELSE IF q = "isr" THEN j + o ELSE j)
                    /\ q = "queued" => y \in Threads /\ j \in Nat
                    /\ q = "isr" => j \in Nat
      BY <1>4, <2>1, <2>3
    <3>3. p = q /\ x = y /\ i0 = j0
      BY <3>1, <3>2 DEF Unique
    <3>4. (p = "queued" => off[x] \in Int) /\ o \in Int
      BY <3>1 DEF Moved
    <3>. QED
      BY <3>1, <3>2, <3>3, <3>4
  <2>. QED
    BY <2>2, <2>3
<1>6. ASSUME NEW k \in Nat, k # c, Carried(k)' PROVE Carried(k)
  <2>1. PICK p, x, i : Carries(p, x, i, k)'
    BY <1>6 DEF Carried
  <2>. QED
    BY <1>4, <1>6, <2>1 DEF Carried
<1>7. ASSUME NEW k \in Nat, k # c, Carries(g, gx, gi, k), Carried(k)'
      PROVE  FALSE
  <2>1. PICK p, x, i : Carries(p, x, i, k)'
    BY <1>7 DEF Carried
  <2>2. PICK j : Carries(p, x, j, k) /\ ~(p = g /\ x = gx /\ j = gi)
    BY <1>4, <1>7, <2>1
  <2>. QED
    BY <1>7, <2>2 DEF Unique
<1>. QED
  BY <1>5, <1>6, <1>7

(* What a cookie that has not been given carries.                          *)
LEMMA FreshCookie ==
  ASSUME Types, EventInv, PlaceInv
  PROVE  ~Carried(cookies)
<1>1. \A x \in Threads : \A i \in DOMAIN evq[x] :
        evq[x][i] \in Event /\ evq[x][i].cookie < cookies
  BY DEF Types, EventInv, QueuedInv, QueuedOK
<1>2. \A x \in Threads : pc[x] \in {"handle", "call", "blocked"} =>
        handling[x] \in Event /\ handling[x].cookie < cookies
  BY DEF Types, EventInv, HandledInv, QueuedOK, PlaceInv, PlaceOf
<1>3. \A x \in Entities : \A d \in delayed[x] :
        d \in Event /\ d.cookie < cookies
  BY DEF Types, EventInv, StoredInv, StoredOK
<1>4. \A i \in DOMAIN isrQueue : isrQueue[i].response =>
        isrQueue[i] \in Event /\ isrQueue[i].cookie < cookies
  BY DEF Types, EventInv, IsrInv, IsrOK, StoredOK
<1>5. cookies \in Nat /\ \A e \in Event : e.cookie \in Nat
  BY DEF Types, Event
<1>. QED
  BY <1>1, <1>2, <1>3, <1>4, <1>5
     DEF Carried, Carries, QueuedCarrier, HandledCarrier, StoredCarrier,
         IsrCarrier

(* The queues after an event was put, seen as places.                      *)
LEMMA QueuesCarriers ==
  ASSUME Types, NEW t \in Threads, NEW e \in Event, Queues(t, e)
  PROVE  \E off : /\ \A x \in Threads : off[x] \in Int
                  /\ \A x, i, k : QueuedCarrier(x, i, k)' =>
                       \/ /\ ~e.response /\ k = cookies /\ x = t
                          /\ i = Len(evq[t]) + 1
                       \/ QueuedCarrier(x, i + off[x], k)
<1>. DEFINE off == [x \in Threads |-> IF x = t /\ IsWake(t, e) THEN -1 ELSE 0]
<1>1. \A x \in Threads : off[x] \in Int
  OBVIOUS
<1>2. ASSUME NEW x, NEW i, NEW k, QueuedCarrier(x, i, k)'
      PROVE  \/ ~e.response /\ k = cookies /\ x = t /\ i = Len(evq[t]) + 1
             \/ QueuedCarrier(x, i + off[x], k)
  <2>1. /\ x \in Threads /\ i \in DOMAIN evq'[x]
        /\ Asks(evq'[x][i]) /\ evq'[x][i].cookie = k
    BY <1>2 DEF QueuedCarrier
  <2>2. evq'[x] \in Seq(Event) /\ evq[x] \in Seq(Event)
    BY <2>1, QueuesEffect DEF Types
  <2>3. CASE x # t
    <3>1. evq'[x] = evq[x] /\ off[x] = 0 /\ i + off[x] = i
      BY <2>1, <2>2, <2>3, QueuesEffect
    <3>. QED
      BY <2>1, <3>1 DEF QueuedCarrier
  <2>4. CASE x = t /\ IsWake(t, e)
    <3>1. i # 1
      BY <2>1, <2>4, QueuesEffect, StampedType DEF Asks, IsWake
    <3>2. Len(evq'[t]) = Len(evq[t]) + 1
      BY QueuesEffect
    <3>6. i \in 1..Len(evq'[t]) /\ Len(evq[t]) \in Nat
      BY <2>1, <2>2, <2>4
    <3>3. PICK j \in Nat : j + 1 = i /\ j \in 1..Len(evq[t])
      <4>1. i - 1 \in 1..Len(evq[t]) /\ (i - 1) + 1 = i
        BY <3>1, <3>2, <3>6
      <4>. QED
        BY <4>1
    <3>4. evq'[t][j + 1] = evq[t][j]
      BY <2>4, <3>3, QueuesEffect
    <3>5. i + off[x] = j
      BY <2>1, <2>4, <3>3
    <3>. QED
      BY <2>1, <2>2, <2>4, <3>3, <3>4, <3>5 DEF QueuedCarrier
  <2>5. CASE x = t /\ ~IsWake(t, e)
    <3>1. i + off[x] = i /\ (i = Len(evq[t]) + 1 \/ i \in DOMAIN evq[t])
      BY <2>1, <2>2, <2>5, QueuesEffect
    <3>2. CASE i = Len(evq[t]) + 1
      BY <2>1, <2>5, <3>2, QueuesEffect, StampedType DEF Asks
    <3>3. CASE i \in DOMAIN evq[t]
      <4>1. evq'[t][i] = evq[t][i]
        BY <2>2, <2>5, <3>3, QueuesEffect
      <4>. QED
        BY <2>1, <2>5, <3>1, <3>3, <4>1 DEF QueuedCarrier
    <3>. QED
      BY <3>1, <3>2, <3>3
  <2>. QED
    BY <2>1, <2>3, <2>4, <2>5
<1>3. PICK f : f = off
  OBVIOUS
<1>. HIDE DEF off
<1>. QED
  BY <1>1, <1>2, <1>3

(* The queues after the first event of one was taken, or none.             *)
LEMMA TailCarriers ==
  ASSUME Types, NEW t \in Threads, evq[t] # <<>>,
         evq' = evq \/ evq' = [evq EXCEPT ![t] = Tail(@)]
  PROVE  \E off : /\ \A x \in Threads : off[x] \in Int
                  /\ \A x, i, k : QueuedCarrier(x, i, k)' =>
                       QueuedCarrier(x, i + off[x], k)
                  /\ evq' = [evq EXCEPT ![t] = Tail(@)] =>
                       /\ off[t] = 1
                       /\ \A i, k : QueuedCarrier(t, i, k)' => i \in Nat \ {0}
<1>. DEFINE off == [x \in Threads |-> IF x = t /\ evq' # evq THEN 1 ELSE 0]
<1>1. \A x \in Threads : off[x] \in Int
  OBVIOUS
<1>2. evq \in [Threads -> Seq(Event)]
  BY DEF Types
<1>3. ASSUME evq' = [evq EXCEPT ![t] = Tail(@)]
      PROVE  evq'[t] = Tail(evq[t]) /\ evq'[t] # evq[t] /\ off[t] = 1
  BY <1>2, <1>3
<1>4. ASSUME NEW x, NEW i, NEW k, QueuedCarrier(x, i, k)'
      PROVE  QueuedCarrier(x, i + off[x], k)
  <2>1. /\ x \in Threads /\ i \in DOMAIN evq'[x]
        /\ Asks(evq'[x][i]) /\ evq'[x][i].cookie = k
    BY <1>4 DEF QueuedCarrier
  <2>2. CASE evq' = evq \/ x # t
    <3>1. evq'[x] = evq[x] /\ off[x] = 0 /\ i + off[x] = i
      BY <1>2, <2>1, <2>2
    <3>. QED
      BY <2>1, <3>1 DEF QueuedCarrier
  <2>3. CASE evq' = [evq EXCEPT ![t] = Tail(@)] /\ x = t
    BY <1>3, <2>1, <2>3, FirstQueued DEF QueuedCarrier
  <2>. QED
    BY <2>2, <2>3
<1>5. ASSUME evq' = [evq EXCEPT ![t] = Tail(@)], NEW i, NEW k,
             QueuedCarrier(t, i, k)'
      PROVE  i \in Nat \ {0}
  BY <1>2, <1>3, <1>5 DEF QueuedCarrier
<1>6. PICK f : f = off
  OBVIOUS
<1>. HIDE DEF off
<1>. QED
  BY <1>1, <1>3, <1>4, <1>5, <1>6

(* No response comes from anywhere it could not come from before, but for  *)
(* the one to the request that was put.                                    *)
Settles == \A k \in Nat : k # cookies /\ Carried(k)' => Carried(k)

LEMMA StoredKept ==
  ASSUME Types, Types', EventInv, CarrierInv,
         \A e \in Entities : delayed'[e] \subseteq delayed[e],
         \A x, i, k : QueuedCarrier(x, i, k)' =>
            k = cookies \/ \E j : QueuedCarrier(x, j, k),
         \A x, k : HandledCarrier(x, k)' =>
            HandledCarrier(x, k) \/ \E y, j : QueuedCarrier(y, j, k)
  PROVE  StoredOnce' /\ SentGone'
<1>1. StoredOnce'
  BY DEF StoredOnce, CarrierInv
<1>2. ASSUME NEW e \in Entities, NEW d \in delayed'[e], d.sent, NEW x, NEW i
      PROVE  ~QueuedCarrier(x, i, d.cookie)' /\ ~HandledCarrier(x, d.cookie)'
  <2>1. d \in delayed[e] /\ d \in Event /\ d.cookie < cookies
    BY <1>2 DEF EventInv, StoredInv, StoredOK, Types
  <2>2. d.cookie # cookies
    BY <2>1 DEF Types, Event
  <2>. QED
    BY <1>2, <2>1, <2>2 DEF SentGone, CarrierInv
<1>. QED
  BY <1>1, <1>2 DEF SentGone

(* The handlers that hold a request go on, or stop.                        *)
LEMMA HandlersKept ==
  ASSUME UNCHANGED handling, NEW t, NEW p, pc' = [pc EXCEPT ![t] = p],
         pc \in [Threads -> Active \cup Waiting],
         p \in {"handle", "call", "blocked"} =>
            pc[t] \in {"handle", "call", "blocked"}
  PROVE  \A x, k : HandledCarrier(x, k)' => HandledCarrier(x, k)
BY DEF HandledCarrier

LEMMA CarriersTaken ==
  ASSUME Types, Types', EventInv, PlaceInv, CarrierInv, NEW t \in Threads,
         evq' = evq \/ (evq[t] # <<>> /\ evq' = [evq EXCEPT ![t] = Tail(@)]),
         UNCHANGED <<delayed, isrQueue>>,
         \A x, k : HandledCarrier(x, k)' => HandledCarrier(x, k)
  PROVE  CarrierInv' /\ Settles
<1>1. \E off : /\ \A x \in Threads : off[x] \in Int
               /\ \A x, i, k : QueuedCarrier(x, i, k)' =>
                    QueuedCarrier(x, i + off[x], k)
  <2>1. CASE evq' = evq
    <3>1. PICK off : off = [x \in Threads |-> 0]
      OBVIOUS
    <3>2. \A x \in Threads : off[x] = 0
      BY <3>1
    <3>3. ASSUME NEW x, NEW i, NEW k, QueuedCarrier(x, i, k)'
          PROVE  QueuedCarrier(x, i + off[x], k)
      <4>1. /\ x \in Threads /\ i \in DOMAIN evq[x]
            /\ Asks(evq[x][i]) /\ evq[x][i].cookie = k
        BY <2>1, <3>3 DEF QueuedCarrier
      <4>2. i + off[x] = i
        BY <3>2, <4>1 DEF Types
      <4>. QED
        BY <4>1, <4>2 DEF QueuedCarrier
    <3>. QED
      BY <3>2, <3>3
  <2>2. CASE evq' # evq
    BY <2>2, TailCarriers
  <2>. QED
    BY <2>1, <2>2
<1>2. PICK off : /\ \A x \in Threads : off[x] \in Int
                 /\ \A x, i, k : QueuedCarrier(x, i, k)' =>
                      QueuedCarrier(x, i + off[x], k)
  BY <1>1
<1>3. StoredOnce' /\ SentGone'
  BY <1>2, StoredKept
<1>4. \A x, d, k : StoredCarrier(x, d, k)' => StoredCarrier(x, d, k)
  BY DEF StoredCarrier
<1>5. \A i, k : IsrCarrier(i, k)' => IsrCarrier(i + 0, k)
  BY DEF IsrCarrier, Types
<1>6. \A p, x, i : ~Carries(p, x, i, cookies)
  BY FreshCookie DEF Carried
<1>7. PICK none : none = "none"
  OBVIOUS
<1>8. Unique
  BY DEF CarrierInv
<1>9. Moved(off, 0, none, 0, 0, cookies, none, 0, 0)
  BY <1>2, <1>4, <1>5, <1>6, <1>7 DEF Moved
<1>10. Unique' /\ \A k \in Nat : k # cookies /\ Carried(k)' => Carried(k)
  BY <1>8, <1>9, Shifts
<1>. QED
  BY <1>3, <1>10 DEF CarrierInv, Settles

(* A request is put: it is the new place.                                  *)
LEMMA CarriersAsked ==
  ASSUME Types, Types', EventInv, PlaceInv, CarrierInv, NEW t \in Threads,
         NEW e \in Event, Queues(t, e), ~e.response, UNCHANGED delayed,
         \/ isrQueue' = isrQueue
         \/ isrQueue # <<>> /\ isrQueue' = Tail(isrQueue),
         \A x, k : HandledCarrier(x, k)' => HandledCarrier(x, k)
  PROVE  CarrierInv' /\ Settles
<1>1. PICK off : /\ \A x \in Threads : off[x] \in Int
                 /\ \A x, i, k : QueuedCarrier(x, i, k)' =>
                      \/ /\ ~e.response /\ k = cookies /\ x = t
                         /\ i = Len(evq[t]) + 1
                      \/ QueuedCarrier(x, i + off[x], k)
  BY QueuesCarriers
<1>2. StoredOnce' /\ SentGone'
  BY <1>1, StoredKept
<1>3. \A x, d, k : StoredCarrier(x, d, k)' => StoredCarrier(x, d, k)
  BY DEF StoredCarrier
<1>4. \E o \in Int : \A i, k : IsrCarrier(i, k)' => IsrCarrier(i + o, k)
  <2>1. isrQueue \in Seq(Event)
    BY DEF Types
  <2>2. CASE isrQueue' = isrQueue
    <3>1. \A i, k : IsrCarrier(i, k)' => IsrCarrier(i + 0, k)
      BY <2>1, <2>2 DEF IsrCarrier
    <3>. QED
      BY <3>1
  <2>3. CASE isrQueue # <<>> /\ isrQueue' = Tail(isrQueue)
    <3>1. \A i, k : IsrCarrier(i, k)' => IsrCarrier(i + 1, k)
      BY <2>1, <2>3 DEF IsrCarrier
    <3>. QED
      BY <3>1
  <2>. QED
    BY <2>2, <2>3
<1>5. PICK o \in Int : \A i, k : IsrCarrier(i, k)' => IsrCarrier(i + o, k)
  BY <1>4
<1>6. \A p, x, i : ~Carries(p, x, i, cookies)
  BY FreshCookie DEF Carried
<1>7. PICK none : none = "none"
  OBVIOUS
<1>8. Unique
  BY DEF CarrierInv
<1>9. Moved(off, o, "queued", t, Len(evq[t]) + 1, cookies, none, 0, 0)
  BY <1>1, <1>3, <1>5, <1>6, <1>7 DEF Moved
<1>10. Unique' /\ \A k \in Nat : k # cookies /\ Carried(k)' => Carried(k)
  BY <1>8, <1>9, Shifts
<1>. QED
  BY <1>2, <1>10 DEF CarrierInv, Settles

(* A response is put: the place it comes from is gone.                     *)
Gone(o, g, gx, gi) ==
  /\ \A x, k : HandledCarrier(x, k)' =>
       HandledCarrier(x, k) /\ ~(g = "handled" /\ gx = x /\ gi = 0)
  /\ \A x, d, k : StoredCarrier(x, d, k)' =>
       StoredCarrier(x, d, k) /\ ~(g = "stored" /\ gx = x /\ gi = d)
  /\ \A i, k : IsrCarrier(i, k)' =>
       IsrCarrier(i + o, k) /\ ~(g = "isr" /\ gx = 0 /\ gi = i + o)

LEMMA CarriersAnswered ==
  ASSUME Types, Types', EventInv, PlaceInv, CarrierInv, NEW t \in Threads,
         NEW e \in Event, Queues(t, e), e.response,
         NEW g, NEW gx, NEW gi, NEW o \in Int,
         g \in {"handled", "stored", "isr"},
         \A x \in Entities : delayed'[x] \subseteq delayed[x],
         Gone(o, g, gx, gi)
  PROVE  /\ CarrierInv' /\ Settles
         /\ \A k \in Nat : Carries(g, gx, gi, k) => ~Carried(k)'
<1>1. PICK off : /\ \A x \in Threads : off[x] \in Int
                 /\ \A x, i, k : QueuedCarrier(x, i, k)' =>
                      \/ /\ ~e.response /\ k = cookies /\ x = t
                         /\ i = Len(evq[t]) + 1
                      \/ QueuedCarrier(x, i + off[x], k)
  BY QueuesCarriers
<1>2. StoredOnce' /\ SentGone'
  <2>1. \A x, i, k : QueuedCarrier(x, i, k)' => \E j : QueuedCarrier(x, j, k)
    BY <1>1
  <2>. QED
    BY <2>1, StoredKept DEF Gone
<1>3. \A p, x, i : ~Carries(p, x, i, cookies)
  BY FreshCookie DEF Carried
<1>4. PICK none : none = "none"
  OBVIOUS
<1>5. Unique
  BY DEF CarrierInv
<1>6. Moved(off, o, none, 0, 0, cookies, g, gx, gi)
  BY <1>1, <1>3, <1>4 DEF Moved, Gone
<1>7. /\ Unique' /\ \A k \in Nat : k # cookies /\ Carried(k)' => Carried(k)
      /\ \A k \in Nat : k # cookies /\ Carries(g, gx, gi, k) => ~Carried(k)'
  BY <1>5, <1>6, Shifts
<1>. QED
  BY <1>2, <1>3, <1>7 DEF CarrierInv, Settles

(* The handler that returns, or has it put the response it delayed, ...    *)
LEMMA HandledAnswered ==
  ASSUME Types, Types', EventInv, PlaceInv, CarrierInv, NEW t \in Threads,
         pc[t] = "handle", pc' = [pc EXCEPT ![t] = "finish"],
         handling[t].want, NEW to \in Threads, NEW r \in Event,
         r = Response(handling[t]), Queues(to, r),
         UNCHANGED <<handling, delayed, isrQueue>>
  PROVE  CarrierInv' /\ Settles /\ ~Carried(r.cookie)'
<1>8. handling[t] \in Event /\ QueuedOK(handling[t], cookies)
  BY DEF PlaceInv, PlaceOf, Types, EventInv, HandledInv
<1>9. r.response /\ r.cookie = handling[t].cookie
  BY <1>8, ResponseType
<1>1. /\ handling[t] \in Event /\ QueuedOK(handling[t], cookies)
      /\ r.response /\ r.cookie = handling[t].cookie /\ r.cookie \in Nat
  BY <1>8, <1>9 DEF Event
<1>2. Carries("handled", t, 0, r.cookie)
  BY <1>1 DEF Carries, HandledCarrier, Asks, QueuedOK
<1>3. PICK g : g = "handled"
  OBVIOUS
<1>4. \A x, k : HandledCarrier(x, k)' =>
        HandledCarrier(x, k) /\ ~(g = "handled" /\ t = x /\ 0 = 0)
  BY DEF HandledCarrier, Types
<1>5. \A x, d, k : StoredCarrier(x, d, k)' =>
        StoredCarrier(x, d, k) /\ ~(g = "stored" /\ t = x /\ 0 = d)
  BY <1>3 DEF StoredCarrier
<1>6. \A i, k : IsrCarrier(i, k)' =>
        IsrCarrier(i + 0, k) /\ ~(g = "isr" /\ t = 0 /\ 0 = i + 0)
  BY <1>3 DEF IsrCarrier, Types
<1>7. /\ CarrierInv' /\ Settles
      /\ \A k \in Nat : Carries(g, t, 0, k) => ~Carried(k)'
  <2>1. Gone(0, g, t, 0)
    BY <1>4, <1>5, <1>6 DEF Gone
  <2>. QED
    BY <1>1, <1>3, <2>1, CarriersAnswered
<1>. QED
  BY <1>1, <1>2, <1>3, <1>7

(* ... the handler that sends a response it delayed, ...                   *)
LEMMA StoredAnswered ==
  ASSUME Types, Types', EventInv, PlaceInv, CarrierInv,
         NEW x \in Entities, NEW d \in delayed[x], ~d.sent,
         NEW to \in Threads, Queues(to, d),
         delayed' = [delayed EXCEPT ![x] = @ \ {d}],
         UNCHANGED <<pc, handling, isrQueue>>
  PROVE  CarrierInv' /\ Settles /\ ~Carried(d.cookie)'
<1>1. d \in Event /\ d.response /\ d.cookie \in Nat
  BY DEF Types, EventInv, StoredInv, StoredOK, Event
<1>2. Carries("stored", x, d, d.cookie)
  BY DEF Carries, StoredCarrier
<1>3. PICK g : g = "stored"
  OBVIOUS
<1>4. \A y, k : HandledCarrier(y, k)' =>
        HandledCarrier(y, k) /\ ~(g = "handled" /\ x = y /\ d = 0)
  BY <1>3 DEF HandledCarrier
<1>5. \A y, c, k : StoredCarrier(y, c, k)' =>
        StoredCarrier(y, c, k) /\ ~(g = "stored" /\ x = y /\ d = c)
  BY DEF StoredCarrier, Types
<1>6. \A i, k : IsrCarrier(i, k)' =>
        IsrCarrier(i + 0, k) /\ ~(g = "isr" /\ x = 0 /\ d = i + 0)
  BY <1>3 DEF IsrCarrier, Types
<1>7. \A y \in Entities : delayed'[y] \subseteq delayed[y]
  BY DEF Types
<1>8. /\ CarrierInv' /\ Settles
      /\ \A k \in Nat : Carries(g, x, d, k) => ~Carried(k)'
  <2>1. Gone(0, g, x, d)
    BY <1>4, <1>5, <1>6 DEF Gone
  <2>. QED
    BY <1>1, <1>3, <1>7, <2>1, CarriersAnswered
<1>. QED
  BY <1>1, <1>2, <1>3, <1>8

(* ... and the interrupt handler whose response is dispatched.             *)
LEMMA IsrAnswered ==
  ASSUME Types, Types', EventInv, PlaceInv, CarrierInv,
         isrQueue # <<>>, isrQueue' = Tail(isrQueue),
         NEW e \in Event, e = Head(isrQueue), e.response,
         NEW to \in Threads, Queues(to, e), NEW p,
         pc[Common] = "isrcheck", pc' = [pc EXCEPT ![Common] = p],
         p \in {"launch", "isrcheck"}, UNCHANGED <<handling, delayed>>
  PROVE  CarrierInv' /\ Settles /\ ~Carried(e.cookie)'
<1>1. isrQueue \in Seq(Event) /\ e.cookie \in Nat /\ e = isrQueue[1]
      /\ 1 \in DOMAIN isrQueue
  <2>1. isrQueue \in Seq(Event)
    BY DEF Types
  <2>2. e.cookie \in Nat
    BY DEF Event
  <2>. QED
    BY <2>1, <2>2
<1>2. Carries("isr", 0, 1, e.cookie)
  BY <1>1 DEF Carries, IsrCarrier
<1>3. PICK g : g = "isr"
  OBVIOUS
<1>4. \A y, k : HandledCarrier(y, k)' =>
        HandledCarrier(y, k) /\ ~(g = "handled" /\ 0 = y /\ 1 = 0)
  BY <1>3 DEF HandledCarrier, Types
<1>5. \A y, c, k : StoredCarrier(y, c, k)' =>
        StoredCarrier(y, c, k) /\ ~(g = "stored" /\ 0 = y /\ 1 = c)
  BY <1>3 DEF StoredCarrier
<1>6. \A i, k : IsrCarrier(i, k)' =>
        IsrCarrier(i + 1, k) /\ ~(g = "isr" /\ 0 = 0 /\ 1 = i + 1)
  BY <1>1 DEF IsrCarrier
<1>7. /\ CarrierInv' /\ Settles
      /\ \A k \in Nat : Carries(g, 0, 1, k) => ~Carried(k)'
  <2>1. Gone(1, g, 0, 1)
    BY <1>4, <1>5, <1>6 DEF Gone
  <2>. QED
    BY <1>3, <2>1, CarriersAnswered
<1>. QED
  BY <1>1, <1>2, <1>3, <1>7

(* A request moves from its queue to the handler.                          *)
LEMMA CarrierHandled ==
  ASSUME Types, Types', EventInv, PlaceInv, CarrierInv, NEW t \in Threads,
         TakeEvent(t)
  PROVE  CarrierInv' /\ Settles
<1>1. /\ evq[t] # <<>> /\ evq' = [evq EXCEPT ![t] = Tail(@)]
      /\ pc[t] = "take" /\ pc' = [pc EXCEPT ![t] = "handle"]
      /\ handling' = [handling EXCEPT ![t] = Head(evq[t])]
      /\ UNCHANGED <<delayed, isrQueue>>
  BY DEF TakeEvent, Goto, PlaceInv, PlaceOf, isrVars
<1>2. PICK h : h = Head(evq[t])
  OBVIOUS
<1>3. h \in Event /\ h = evq[t][1] /\ 1 \in DOMAIN evq[t]
  BY <1>1, <1>2, FirstQueued
<1>4. PICK off : /\ \A x \in Threads : off[x] \in Int
                 /\ \A x, i, k : QueuedCarrier(x, i, k)' =>
                      QueuedCarrier(x, i + off[x], k)
                 /\ off[t] = 1
                 /\ \A i, k : QueuedCarrier(t, i, k)' => i \in Nat \ {0}
  BY <1>1, TailCarriers
<1>5. ASSUME NEW x, NEW k, HandledCarrier(x, k)'
      PROVE  \/ x = t /\ Asks(h) /\ k = h.cookie
             \/ x # t /\ HandledCarrier(x, k)
  BY <1>1, <1>2, <1>5 DEF HandledCarrier, Types
<1>6. Asks(h) => QueuedCarrier(t, 1, h.cookie)
  BY <1>3 DEF QueuedCarrier
<1>7. StoredOnce' /\ SentGone'
  <2>1. \A x, i, k : QueuedCarrier(x, i, k)' => \E j : QueuedCarrier(x, j, k)
    BY <1>4
  <2>. QED
    BY <1>1, <1>5, <1>6, <2>1, StoredKept
<1>8. \A x, d, k : StoredCarrier(x, d, k)' => StoredCarrier(x, d, k)
  BY <1>1 DEF StoredCarrier
<1>9. \A i, k : IsrCarrier(i, k)' => IsrCarrier(i + 0, k)
  BY <1>1 DEF IsrCarrier, Types
<1>10. Unique
  BY DEF CarrierInv
<1>11. CASE Asks(h)
  <2>1. PICK g : g = "queued"
    OBVIOUS
  <2>2. h.cookie \in Nat /\ Carries(g, t, 1, h.cookie)
    BY <1>3, <1>6, <1>11, <2>1 DEF Carries, Event
  <2>3. \A p, x, i : Carries(p, x, i, h.cookie) => p = g /\ x = t /\ i = 1
    BY <1>10, <2>2 DEF Unique
  <2>4. \A x, i, k : QueuedCarrier(x, i, k)' =>
          QueuedCarrier(x, i + off[x], k) /\ ~(t = x /\ 1 = i + off[x])
    BY <1>4
  <2>5. Moved(off, 0, "handled", t, 0, h.cookie, g, t, 1)
    BY <1>4, <1>5, <1>8, <1>9, <2>1, <2>3, <2>4 DEF Moved
  <2>6. /\ Unique'
        /\ \A k \in Nat : k # h.cookie /\ Carried(k)' => Carried(k)
    BY <1>10, <2>5, Shifts
  <2>7. Settles
    BY <2>2, <2>6 DEF Settles, Carried
  <2>. QED
    BY <1>7, <2>6, <2>7 DEF CarrierInv
<1>12. CASE ~Asks(h)
  <2>1. \A p, x, i : ~Carries(p, x, i, cookies)
    BY FreshCookie DEF Carried
  <2>2. PICK none : none = "none"
    OBVIOUS
  <2>3. Moved(off, 0, none, 0, 0, cookies, none, 0, 0)
    BY <1>4, <1>5, <1>8, <1>9, <1>12, <2>1, <2>2 DEF Moved
  <2>4. Unique' /\ \A k \in Nat : k # cookies /\ Carried(k)' => Carried(k)
    BY <1>10, <2>3, Shifts
  <2>. QED
    BY <1>7, <2>4 DEF CarrierInv, Settles
<1>. QED
  BY <1>11, <1>12

(* No response to the request of a handler has been stored yet.            *)
LEMMA NotStoredYet ==
  ASSUME Types, EventInv, PlaceInv, CarrierInv, NEW t \in Threads,
         pc[t] = "handle", handling[t].want
  PROVE  /\ Carries("handled", t, 0, handling[t].cookie)
         /\ \A x \in Entities : \A d \in delayed[x] :
              d.cookie # handling[t].cookie
<1>1. handling[t] \in Event /\ QueuedOK(handling[t], cookies)
  BY DEF PlaceInv, PlaceOf, Types, EventInv, HandledInv
<1>2. HandledCarrier(t, handling[t].cookie) /\ handling[t].cookie \in Nat
  BY <1>1 DEF HandledCarrier, Asks, QueuedOK, Event
<1>3. ASSUME NEW x \in Entities, NEW d \in delayed[x],
             d.cookie = handling[t].cookie
      PROVE  FALSE
  <2>1. ~d.sent
    BY <1>2, <1>3 DEF CarrierInv, SentGone
  <2>2. /\ Carries("stored", x, d, handling[t].cookie)
        /\ Carries("handled", t, 0, handling[t].cookie)
    BY <1>2, <1>3, <2>1 DEF Carries, StoredCarrier
  <2>3. "stored" = "handled"
    BY <1>2, <2>2 DEF CarrierInv, Unique
  <2>. QED
    BY <2>3
<1>. QED
  BY <1>2, <1>3 DEF Carries

(* The handler delays its response.                                        *)
LEMMA CarrierStored ==
  ASSUME Types, Types', EventInv, PlaceInv, CarrierInv, NEW t \in Threads,
         pc[t] = "handle", pc' = [pc EXCEPT ![t] = "finish"],
         handling[t].want, NEW r, r = Response(handling[t]),
         delayed' = [delayed EXCEPT ![handling[t].tgt] = @ \cup {r}],
         UNCHANGED <<evq, handling, isrQueue>>
  PROVE  CarrierInv' /\ Settles
<1>1. PICK e : e = handling[t]
  OBVIOUS
<1>2. e \in Event /\ e.tgt \in Entities /\ e.cookie \in Nat
  BY <1>1 DEF PlaceInv, PlaceOf, Types, Event
<1>3. r \in Event /\ r.cookie = e.cookie
  BY <1>1, <1>2, ResponseType
<1>4. ~r.sent
  <2>1. r.sent = e.sent /\ QueuedOK(e, cookies)
    BY <1>1, <1>2, ResponseType DEF PlaceInv, PlaceOf, EventInv, HandledInv
  <2>. QED
    BY <2>1 DEF QueuedOK
<1>5. /\ Carries("handled", t, 0, e.cookie)
      /\ \A x \in Entities : \A d \in delayed[x] : d.cookie # e.cookie
  BY <1>1, NotStoredYet
<1>6. /\ delayed'[e.tgt] = delayed[e.tgt] \cup {r}
      /\ \A x \in Entities \ {e.tgt} : delayed'[x] = delayed[x]
  BY <1>1, <1>2 DEF Types
<1>7. \A x, k : HandledCarrier(x, k)' => x # t /\ HandledCarrier(x, k)
  BY DEF HandledCarrier, Types
<1>8. StoredOnce'
  BY <1>3, <1>5, <1>6 DEF StoredOnce, CarrierInv
<1>9. \A x, i, k : QueuedCarrier(x, i, k)' => QueuedCarrier(x, i, k)
  BY DEF QueuedCarrier
<1>10. SentGone'
  <2>1. ASSUME NEW x \in Entities, NEW d \in delayed'[x], d.sent, NEW y, NEW i
        PROVE  /\ ~QueuedCarrier(y, i, d.cookie)'
               /\ ~HandledCarrier(y, d.cookie)'
    <3>1. d \in delayed[x]
      BY <1>4, <1>6, <2>1
    <3>. QED
      BY <1>7, <1>9, <2>1, <3>1 DEF SentGone, CarrierInv
  <2>. QED
    BY <2>1 DEF SentGone
<1>11. Unique
  BY DEF CarrierInv
<1>12. \A p, x, i : Carries(p, x, i, e.cookie) =>
         p = "handled" /\ x = t /\ i = 0
  BY <1>2, <1>5, <1>11 DEF Unique
<1>13. PICK off : off = [x \in Threads |-> 0]
  OBVIOUS
<1>14. \A x \in Threads : off[x] = 0
  BY <1>13
<1>15. \A x, i, k : QueuedCarrier(x, i, k)' => QueuedCarrier(x, i + off[x], k)
  <2>1. ASSUME NEW x, NEW i, NEW k, QueuedCarrier(x, i, k)
        PROVE  i + off[x] = i
    BY <1>14, <2>1 DEF QueuedCarrier, Types
  <2>. QED
    BY <1>9, <2>1
<1>16. PICK g : g = "handled"
  OBVIOUS
<1>17. Moved(off, 0, "stored", e.tgt, r, e.cookie, g, t, 0)
  <2>1. ASSUME NEW x, NEW d, NEW k, StoredCarrier(x, d, k)'
        PROVE  (k = e.cookie /\ x = e.tgt /\ d = r) \/ StoredCarrier(x, d, k)
    BY <1>3, <1>6, <2>1 DEF StoredCarrier
  <2>2. \A i, k : IsrCarrier(i, k)' => IsrCarrier(i + 0, k)
    BY DEF IsrCarrier, Types
  <2>. QED
    BY <1>7, <1>12, <1>14, <1>15, <1>16, <2>1, <2>2 DEF Moved
<1>18. Unique' /\ \A k \in Nat : k # e.cookie /\ Carried(k)' => Carried(k)
  BY <1>11, <1>17, Shifts
<1>19. Settles
  BY <1>5, <1>18 DEF Settles, Carried
<1>. QED
  BY <1>8, <1>10, <1>18, <1>19 DEF CarrierInv

(* An interrupt handler sends a response that was delayed.                 *)
LEMMA CarrierSent ==
  ASSUME Types, Types', EventInv, PlaceInv, CarrierInv,
         NEW d \in Event, NEW s \in Entities, s = d.src, d \in delayed[s],
         ~d.sent, isrQueue' = Append(isrQueue, d),
         delayed' = [delayed EXCEPT ![s] =
                       (@ \ {d}) \cup {[d EXCEPT !.sent = TRUE]}],
         UNCHANGED <<evq, handling, pc>>
  PROVE  CarrierInv' /\ Settles
<1>1. PICK c : c = [d EXCEPT !.sent = TRUE]
  OBVIOUS
<1>2. c.sent /\ c.cookie = d.cookie /\ d.cookie \in Nat
  BY <1>1 DEF Event
<1>3. /\ delayed'[s] = (delayed[s] \ {d}) \cup {c}
      /\ \A x \in Entities \ {s} : delayed'[x] = delayed[x]
  BY <1>1 DEF Types
<1>4. Carries("stored", s, d, d.cookie)
  BY DEF Carries, StoredCarrier
<1>5. Unique
  BY DEF CarrierInv
<1>6. \A p, x, i : Carries(p, x, i, d.cookie) =>
        p = "stored" /\ x = s /\ i = d
  BY <1>2, <1>4, <1>5 DEF Unique
<1>7. StoredOnce'
  BY <1>2, <1>3 DEF StoredOnce, CarrierInv
<1>8. /\ \A x, i, k : QueuedCarrier(x, i, k)' => QueuedCarrier(x, i, k)
      /\ \A x, k : HandledCarrier(x, k)' => HandledCarrier(x, k)
  BY DEF QueuedCarrier, HandledCarrier
<1>9. \A x, i : ~QueuedCarrier(x, i, d.cookie) /\ ~HandledCarrier(x, d.cookie)
  <2>1. "stored" # "queued" /\ "stored" # "handled"
    OBVIOUS
  <2>. QED
    BY <1>6, <2>1 DEF Carries
<1>10. SentGone'
  BY <1>2, <1>3, <1>8, <1>9 DEF SentGone, CarrierInv
<1>11. isrQueue \in Seq(Event)
  BY DEF Types
<1>12. ASSUME NEW i, NEW k, IsrCarrier(i, k)'
       PROVE  \/ k = d.cookie /\ i = Len(isrQueue) + 1
              \/ IsrCarrier(i + 0, k)
  BY <1>11, <1>12 DEF IsrCarrier
<1>13. PICK off : off = [x \in Threads |-> 0]
  OBVIOUS
<1>14. \A x \in Threads : off[x] = 0
  BY <1>13
<1>15. \A x, i, k : QueuedCarrier(x, i, k)' => QueuedCarrier(x, i + off[x], k)
  <2>1. ASSUME NEW x, NEW i, NEW k, QueuedCarrier(x, i, k)
        PROVE  i + off[x] = i
    BY <1>14, <2>1 DEF QueuedCarrier, Types
  <2>. QED
    BY <1>8, <2>1
<1>16. PICK g : g = "stored"
  OBVIOUS
<1>17. \A x, b, k : StoredCarrier(x, b, k)' =>
         StoredCarrier(x, b, k) /\ ~(s = x /\ d = b)
  BY <1>2, <1>3 DEF StoredCarrier
<1>18. Moved(off, 0, "isr", 0, Len(isrQueue) + 1, d.cookie, g, s, d)
  BY <1>6, <1>8, <1>12, <1>14, <1>15, <1>16, <1>17 DEF Moved
<1>19. Unique' /\ \A k \in Nat : k # d.cookie /\ Carried(k)' => Carried(k)
  BY <1>5, <1>18, Shifts
<1>20. Settles
  BY <1>4, <1>19 DEF Settles, Carried
<1>. QED
  BY <1>7, <1>10, <1>19, <1>20 DEF CarrierInv

(* A request of an interrupt handler has no cookie yet.                    *)
LEMMA CarrierIsr ==
  ASSUME Types, Types', EventInv, PlaceInv, CarrierInv, NEW e \in Event,
         ~e.response, isrQueue' = Append(isrQueue, e),
         UNCHANGED <<evq, handling, pc, delayed>>
  PROVE  CarrierInv' /\ Settles
<1>1. isrQueue \in Seq(Event)
  BY DEF Types
<1>2. \A i, k : IsrCarrier(i, k)' => IsrCarrier(i, k)
  BY <1>1 DEF IsrCarrier
<1>3. \A p, x, i, k : Carries(p, x, i, k)' => Carries(p, x, i, k)
  BY <1>2 DEF Carries, QueuedCarrier, HandledCarrier, StoredCarrier
<1>4. Unique' /\ Settles
  BY <1>3 DEF CarrierInv, Unique, Settles, Carried
<1>5. StoredOnce' /\ SentGone'
  BY DEF CarrierInv, StoredOnce, SentGone, QueuedCarrier, HandledCarrier
<1>. QED
  BY <1>4, <1>5 DEF CarrierInv

(***************************************************************************)
(* Waiting: a response that wakes a thread is the one to what it asked.    *)
(***************************************************************************)
LEMMA AwaitKept ==
  ASSUME Types, AwaitInv, Settles, UNCHANGED <<evq, awaits, cookies>>,
         \A t \in Threads : awaits[t] # None =>
           /\ current' # t \/ current' = current
           /\ PROCESSED \in flags[t] => PROCESSED \in flags'[t]
  PROVE  AwaitInv'
<1>1. ASSUME NEW t \in Threads PROVE AwaitOK(t)'
  BY DEF AwaitInv, AwaitOK
<1>2. ASSUME NEW t \in Threads, NEW i \in DOMAIN evq[t] PROVE WakeOK(t, i)'
  <2>1. SUFFICES ASSUME evq[t][i].wake PROVE WakeOK(t, i)'
    BY DEF WakeOK
  <2>2. /\ awaits[t] # None /\ awaits[t].answer = None /\ i = 1
        /\ evq[t][i].request = awaits[t].cookie
        /\ current # t /\ ~Carried(awaits[t].cookie)
        /\ awaits[t].cookie < cookies
    BY <2>1 DEF AwaitInv, WakeOK, AwaitOK
  <2>3. awaits[t].cookie \in Nat /\ awaits[t].cookie # cookies
    BY <2>2 DEF Types, Await
  <2>4. ~Carried(awaits[t].cookie)'
    BY <2>2, <2>3 DEF Settles
  <2>5. current' # t
    BY <2>2
  <2>. QED
    BY <2>2, <2>4, <2>5 DEF WakeOK
<1>. QED
  BY <1>1, <1>2 DEF AwaitInv

(* No response has been handed over while a thread runs.                   *)
LEMMA NoAnswerYet ==
  ASSUME Types, TurnInv, AwaitInv, NEW a \in Threads, pc[a] \in Active,
         NEW t \in Threads, awaits[t] # None
  PROVE  awaits[t].answer = None /\ awaits[t].cookie = awaits[t].asked
<1>1. flags[t] = {}
  BY Alone
<1>. QED
  BY <1>1 DEF AwaitInv, AwaitOK

LEMMA AwaitPut ==
  ASSUME Types, TurnInv, PlaceInv, AwaitInv, Settles, NEW a \in Threads,
         pc[a] \in {"boot", "handle", "isrcheck"}, pc[a] \in Active,
         NEW t \in Threads, NEW e \in Event, Queues(t, e),
         UNCHANGED <<awaits, flags, current>>,
         e.response => /\ Carried(e.cookie) /\ ~Carried(e.cookie)'
                       /\ e.request = e.cookie
  PROVE  AwaitInv'
<1>1. cookies' = cookies + 1 /\ cookies \in Nat
  BY DEF Queues, Types
<1>2. ASSUME NEW x \in Threads PROVE AwaitOK(x)'
  <2>1. awaits[x] # None => awaits[x].cookie \in Nat
    BY DEF Types, Await
  <2>. QED
    BY <1>1, <2>1 DEF AwaitInv, AwaitOK
<1>3. awaits[a] = None /\ (current # None => current = a)
  BY DEF PlaceInv, PlaceOf
<1>4. ASSUME NEW x \in Threads, NEW j \in DOMAIN evq[x], evq[x][j].wake,
             NEW i, evq'[x][i] = evq[x][j], i = j
      PROVE  WakeOK(x, i)'
  <2>1. /\ awaits[x] # None /\ awaits[x].answer = None /\ j = 1
        /\ evq[x][j].request = awaits[x].cookie
        /\ current # x /\ ~Carried(awaits[x].cookie)
        /\ awaits[x].cookie < cookies
    BY <1>4 DEF AwaitInv, WakeOK, AwaitOK
  <2>2. awaits[x].cookie \in Nat /\ awaits[x].cookie # cookies
    BY <2>1 DEF Types, Await
  <2>3. ~Carried(awaits[x].cookie)'
    BY <2>1, <2>2 DEF Settles
  <2>. QED
    BY <1>4, <2>1, <2>3 DEF WakeOK
<1>5. ASSUME NEW x \in Threads, NEW i \in DOMAIN evq'[x] PROVE WakeOK(x, i)'
  <2>1. evq'[x] \in Seq(Event) /\ evq[x] \in Seq(Event)
    BY QueuesEffect DEF Types
  <2>2. SUFFICES ASSUME evq'[x][i].wake PROVE WakeOK(x, i)'
    BY DEF WakeOK
  <2>3. CASE x # t
    BY <1>4, <1>5, <2>2, <2>3, QueuesEffect
  <2>4. CASE x = t /\ ~IsWake(t, e)
    <3>1. i = Len(evq[t]) + 1 \/ i \in DOMAIN evq[t]
      BY <1>5, <2>1, <2>4, QueuesEffect
    <3>2. i # Len(evq[t]) + 1
      BY <2>2, <2>4, QueuesEffect, StampedType
    <3>3. i \in DOMAIN evq[t] /\ evq'[t][i] = evq[t][i]
      BY <2>1, <2>4, <3>1, <3>2, QueuesEffect
    <3>. QED
      BY <1>4, <2>2, <2>4, <3>3
  <2>5. CASE x = t /\ IsWake(t, e)
    <3>1. awaits[t] # None /\ e.response /\ awaits[t].cookie = e.cookie
      BY <2>5 DEF IsWake
    <3>2. i = 1
      <4>1. SUFFICES ASSUME i # 1 PROVE FALSE
        OBVIOUS
      <4>2. i \in 1..Len(evq'[t]) /\ Len(evq[t]) \in Nat
        BY <1>5, <2>1, <2>5
      <4>3. Len(evq'[t]) = Len(evq[t]) + 1
        BY QueuesEffect
      <4>4. PICK j \in Nat : j + 1 = i /\ j \in 1..Len(evq[t])
        <5>1. i - 1 \in 1..Len(evq[t]) /\ (i - 1) + 1 = i
          BY <4>1, <4>2, <4>3
        <5>. QED
          BY <5>1
      <4>5. evq'[t][i] = evq[t][j] /\ j \in DOMAIN evq[t]
        BY <2>1, <2>5, <4>4, QueuesEffect
      <4>6. ~Carried(awaits[t].cookie)
        BY <2>2, <2>5, <4>5 DEF AwaitInv, WakeOK
      <4>. QED
        BY <3>1, <4>6
    <3>3. evq'[t][1] = Stamped(t, e)
      BY <2>5, QueuesEffect
    <3>4. Stamped(t, e).request = awaits[t].cookie
      BY <3>1, StampedType
    <3>5. awaits[t].answer = None
      BY <3>1, NoAnswerYet
    <3>6. current # t
      BY <1>3, <3>1, MultiThreadAssumption
    <3>. QED
      BY <2>5, <3>1, <3>2, <3>3, <3>4, <3>5, <3>6 DEF WakeOK
  <2>. QED
    BY <2>3, <2>4, <2>5
<1>. QED
  BY <1>2, <1>5 DEF AwaitInv

(* A thread asks, and waits for the response.                              *)
LEMMA AwaitAsked ==
  ASSUME Types, TurnInv, PlaceInv, AwaitInv, Settles, NEW t \in Threads,
         pc[t] = "handle", NEW to \in Threads \ {t}, NEW e \in Event,
         ~e.response, Queues(to, e), UNCHANGED <<flags, current>>,
         awaits' = [awaits EXCEPT ![t] = [cookie |-> cookies,
                                          asked |-> cookies, answer |-> None]]
  PROVE  AwaitInv'
<1>1. cookies' = cookies + 1 /\ cookies \in Nat /\ awaits[t] = None
  BY DEF Queues, Types, PlaceInv, PlaceOf
<1>2. PICK w : w = [cookie |-> cookies, asked |-> cookies, answer |-> None]
  OBVIOUS
<1>3. /\ awaits'[t] = w /\ w.cookie = cookies /\ w.asked = cookies
      /\ w.answer = None
      /\ \A x \in Threads \ {t} : awaits'[x] = awaits[x]
  BY <1>2 DEF Types
<1>4. ASSUME NEW x \in Threads PROVE AwaitOK(x)'
  <2>1. awaits[x] # None => awaits[x].cookie \in Nat
    BY DEF Types, Await
  <2>. QED
    BY <1>1, <1>3, <2>1 DEF AwaitInv, AwaitOK
<1>5. ASSUME NEW x \in Threads, NEW i \in DOMAIN evq'[x] PROVE WakeOK(x, i)'
  <2>1. evq'[x] \in Seq(Event) /\ evq[x] \in Seq(Event)
    BY QueuesEffect DEF Types
  <2>2. SUFFICES ASSUME evq'[x][i].wake PROVE WakeOK(x, i)'
    BY DEF WakeOK
  <2>3. ~IsWake(to, e)
    BY DEF IsWake
  <2>4. i \in DOMAIN evq[x] /\ evq'[x][i] = evq[x][i]
    <3>1. CASE x # to
      BY <1>5, <3>1, QueuesEffect
    <3>2. CASE x = to
      <4>1. i = Len(evq[to]) + 1 \/ i \in DOMAIN evq[to]
        BY <1>5, <2>1, <3>2, QueuesEffect
      <4>2. i # Len(evq[to]) + 1
        BY <2>2, <2>3, <3>2, QueuesEffect, StampedType
      <4>. QED
        BY <2>1, <2>3, <3>2, <4>1, <4>2, QueuesEffect
    <3>. QED
      BY <3>1, <3>2
  <2>5. /\ awaits[x] # None /\ awaits[x].answer = None /\ i = 1
        /\ evq[x][i].request = awaits[x].cookie
        /\ current # x /\ ~Carried(awaits[x].cookie)
        /\ awaits[x].cookie < cookies
    BY <2>2, <2>4 DEF AwaitInv, WakeOK, AwaitOK
  <2>6. PICK k : k = awaits[x].cookie
    OBVIOUS
  <2>7. ~Carried(k)'
    BY <2>5, <2>6 DEF Settles, Types, Await
  <2>8. awaits'[x] = awaits[x]
    BY <1>1, <1>3, <2>5
  <2>. QED
    BY <2>4, <2>5, <2>6, <2>7, <2>8 DEF WakeOK
<1>. QED
  BY <1>4, <1>5 DEF AwaitInv

(* A thread is told to go on; if it waits, it gets its response.           *)
LEMMA AwaitSignalled ==
  ASSUME Types, TurnInv, PlaceInv, EventInv, AwaitInv, Settles,
         NEW a \in Threads, pc[a] \in Active, NEW n \in Threads,
         evq[n] # <<>>, Signal(n), UNCHANGED <<current, cookies>>
  PROVE  AwaitInv'
<1>1. PICK h : h = Head(evq[n])
  OBVIOUS
<1>2. /\ h \in Event /\ h = evq[n][1] /\ 1 \in DOMAIN evq[n]
      /\ QueuedOK(h, cookies)
  BY <1>1, FirstQueued DEF EventInv, QueuedInv
<1>3. h.wake => /\ awaits[n] # None /\ awaits[n].answer = None
                /\ h.request = awaits[n].cookie
  BY <1>2 DEF AwaitInv, WakeOK
<1>4. /\ \A x \in Threads \ {n} :
           evq'[x] = evq[x] /\ awaits'[x] = awaits[x] /\ flags'[x] = flags[x]
      /\ IF h.wake
         THEN /\ evq'[n] = Tail(evq[n])
              /\ flags'[n] = flags[n] \cup {PROCESSED}
              /\ awaits'[n] # None /\ awaits'[n].cookie = h.cookie
              /\ awaits'[n].asked = awaits[n].asked /\ awaits'[n].answer = h
         ELSE /\ evq' = evq /\ awaits' = awaits
              /\ flags'[n] = flags[n] \cup {TO_PROCESS}
  BY <1>1, <1>3, SignalEffect
<1>5. ASSUME NEW x \in Threads PROVE AwaitOK(x)'
  <2>1. CASE x = n /\ h.wake
    <3>1. awaits[n].cookie = awaits[n].asked
      BY <1>3, <2>1, NoAnswerYet
    <3>2. h # None
      BY <1>2, NullAssumption
    <3>. QED
      BY <1>2, <1>3, <1>4, <2>1, <3>1, <3>2 DEF AwaitOK, QueuedOK
  <2>2. CASE x # n \/ ~h.wake
    <3>1. awaits'[x] = awaits[x] /\ flags[x] \subseteq flags'[x]
      BY <1>4, <2>2
    <3>. QED
      BY <3>1 DEF AwaitInv, AwaitOK
  <2>. QED
    BY <2>1, <2>2
<1>6. ASSUME NEW x \in Threads, NEW i \in DOMAIN evq'[x] PROVE WakeOK(x, i)'
  <2>1. SUFFICES ASSUME evq'[x][i].wake PROVE WakeOK(x, i)'
    BY DEF WakeOK
  <2>2. ~(x = n /\ h.wake)
    <3>1. SUFFICES ASSUME x = n, h.wake PROVE FALSE
      OBVIOUS
    <3>2. evq'[n] = Tail(evq[n])
      BY <1>4, <3>1
    <3>3. i + 1 \in DOMAIN evq[n] /\ evq[n][i + 1].wake
      BY <1>6, <2>1, <3>1, <3>2, FirstQueued
    <3>4. i + 1 = 1
      BY <3>3 DEF AwaitInv, WakeOK
    <3>5. i \in Nat \ {0}
      BY <1>6, <3>1, <3>2, FirstQueued
    <3>. QED
      BY <3>4, <3>5
  <2>3. evq'[x] = evq[x] /\ awaits'[x] = awaits[x]
    BY <1>4, <2>2
  <2>4. /\ awaits[x] # None /\ awaits[x].answer = None /\ i = 1
        /\ evq[x][i].request = awaits[x].cookie
        /\ current # x /\ ~Carried(awaits[x].cookie)
        /\ awaits[x].cookie < cookies
    BY <1>6, <2>1, <2>3 DEF AwaitInv, WakeOK, AwaitOK
  <2>5. PICK k : k = awaits[x].cookie
    OBVIOUS
  <2>6. ~Carried(k)'
    BY <2>4, <2>5 DEF Settles, Types, Await
  <2>. QED
    BY <2>3, <2>4, <2>5, <2>6 DEF WakeOK
<1>. QED
  BY <1>5, <1>6 DEF AwaitInv

LEMMA TailOrSame ==
  ASSUME NEW n, Signal(n), evq[n] # <<>>
  PROVE  evq' = evq \/ (evq[n] # <<>> /\ evq' = [evq EXCEPT ![n] = Tail(@)])
BY DEF Signal

(* Every step keeps the places of responses, and what threads wait for.    *)
LEMMA WaitStep ==
  ASSUME Types, TurnInv, PlaceInv, EventInv, CarrierInv, AwaitInv, ReadyInv,
         Types', [Next]_vars
  PROVE  CarrierInv' /\ AwaitInv'
<1>. USE DEF isrVars, osVars, contextVars, queueVars
<1>1. ASSUME UNCHANGED <<evq, cookies, awaits, delayed, isrQueue>>,
             \A x, k : HandledCarrier(x, k)' => HandledCarrier(x, k),
             \A t \in Threads : awaits[t] # None =>
               /\ current' # t \/ current' = current
               /\ PROCESSED \in flags[t] => PROCESSED \in flags'[t]
      PROVE  CarrierInv' /\ AwaitInv'
  <2>1. CarrierInv' /\ Settles
    BY <1>1, Places, CarriersTaken
  <2>. QED
    BY <1>1, <2>1, AwaitKept
<1>2. CASE UNCHANGED vars
  <2>1. UNCHANGED <<evq, cookies, awaits, delayed, isrQueue, handling, pc,
                    current, flags>>
    BY <1>2 DEF vars
  <2>. QED
    BY <1>1, <2>1 DEF HandledCarrier
<1>3. SUFFICES ASSUME Next PROVE CarrierInv' /\ AwaitInv'
  BY <1>2
<1>4. pc \in [Threads -> Active \cup Waiting]
  BY DEF Types
<1>5. ASSUME NEW t \in Threads, NEW p, pc[t] \in Active, Goto(t, p),
             p \in {"handle", "call", "blocked"} =>
               pc[t] \in {"handle", "call", "blocked"},
             UNCHANGED <<evq, cookies, awaits, delayed, isrQueue, handling>>,
             current' = None \/ current' = current \/ awaits[current'] = None,
             \A x \in Threads : flags[x] \subseteq flags'[x]
      PROVE  CarrierInv' /\ AwaitInv'
  <2>1. \A x, k : HandledCarrier(x, k)' => HandledCarrier(x, k)
    BY <1>4, <1>5, HandlersKept DEF Goto
  <2>2. None \notin Threads
    BY MultiThreadAssumption
  <2>. QED
    BY <1>1, <1>5, <2>1, <2>2
<1>6. ASSUME NEW e \in Entities, CreateThread(e)
      PROVE  CarrierInv' /\ AwaitInv'
  <2>1. UNCHANGED <<evq, cookies, awaits, delayed, isrQueue, handling, pc,
                    current, flags>>
    BY <1>6 DEF CreateThread
  <2>. QED
    BY <1>1, <2>1 DEF HandledCarrier
<1>7. CASE Start
  BY <1>5, <1>7, Places DEF Start, Active
<1>8. CASE IsrWait
  BY <1>5, <1>8, Places DEF IsrWait, Active
<1>9. CASE IsrWake
  <2>1. /\ pc[Common] = "isrwait" /\ awaits[Common] = None
        /\ pc' = [pc EXCEPT ![Common] = "isrcheck"]
        /\ flags' = [flags EXCEPT ![Common] = @ \ {ISR_EVENT}]
        /\ UNCHANGED <<evq, cookies, awaits, delayed, isrQueue, handling,
                       current>>
    BY <1>9 DEF IsrWake, Goto, PlaceInv, CommonPlace
  <2>2. \A x, k : HandledCarrier(x, k)' => HandledCarrier(x, k)
    BY <1>4, <2>1 DEF HandledCarrier
  <2>3. \A t \in Threads : awaits[t] # None =>
          (PROCESSED \in flags[t] => PROCESSED \in flags'[t])
    BY <2>1 DEF Types
  <2>. QED
    BY <1>1, <2>1, <2>2, <2>3
<1>10. CASE IsrDispatch
  <2>1. PICK e : e = Head(isrQueue)
    OBVIOUS
  <2>2. e \in Event /\ IsrOK(e, cookies) /\ isrQueue # <<>>
        /\ e = isrQueue[1] /\ 1 \in DOMAIN isrQueue
    BY <1>10, <2>1 DEF IsrDispatch, Types, EventInv, IsrInv
  <2>3. PICK t : t = ThreadOf(e.tgt)
    OBVIOUS
  <2>4. t \in Threads
    BY <2>2, <2>3, ThreadKnown DEF Event
  <2>5. PICK p \in {"launch", "isrcheck"} :
          pc' = [pc EXCEPT ![Common] = p]
    BY <1>10 DEF IsrDispatch, Goto
  <2>6. /\ Queues(t, e) /\ isrQueue' = Tail(isrQueue)
        /\ pc[Common] = "isrcheck" /\ pc[Common] \in Active
        /\ UNCHANGED <<handling, delayed, awaits, flags, current>>
    BY <1>10, <2>1, <2>3 DEF IsrDispatch, Queues, Active
  <2>7. CASE e.response
    <3>1. CarrierInv' /\ Settles /\ ~Carried(e.cookie)'
      BY <2>1, <2>2, <2>4, <2>5, <2>6, <2>7, IsrAnswered
    <3>2. Carried(e.cookie)
      BY <2>2, <2>7 DEF Carried, Carries, IsrCarrier
    <3>3. e.request = e.cookie
      BY <2>2, <2>7 DEF IsrOK, StoredOK
    <3>. QED
      BY <2>2, <2>4, <2>6, <3>1, <3>2, <3>3, Places, AwaitPut
  <2>8. CASE ~e.response
    <3>1. \A x, k : HandledCarrier(x, k)' => HandledCarrier(x, k)
      BY <1>4, <2>5, <2>6 DEF HandledCarrier
    <3>2. CarrierInv' /\ Settles
      BY <2>2, <2>4, <2>6, <2>8, <3>1, CarriersAsked
    <3>. QED
      BY <2>2, <2>4, <2>6, <2>8, <3>2, Places, AwaitPut
  <2>. QED
    BY <2>7, <2>8
<1>11. ASSUME NEW a \in Threads, pc[a] \in Active, NEW n \in Threads,
              evq[n] # <<>>, Signal(n),
              UNCHANGED <<current, cookies, handling, delayed, isrQueue>>,
              \A x, k : HandledCarrier(x, k)' => HandledCarrier(x, k)
       PROVE  CarrierInv' /\ AwaitInv'
  <2>1. CarrierInv' /\ Settles
    BY <1>11, TailOrSame, CarriersTaken
  <2>. QED
    BY <1>11, <2>1, AwaitSignalled
<1>12. ASSUME NEW t \in Threads, RunStep(t) PROVE CarrierInv' /\ AwaitInv'
  <2>1. CASE Wake(t)
    <3>1. /\ pc[t] = "wait" /\ flags' = [flags EXCEPT ![t] = {}]
          /\ \/ pc' = [pc EXCEPT ![t] = "take"]
             \/ pc' = [pc EXCEPT ![t] = "isrcheck"]
      BY <2>1, WakeEffect
    <3>2. UNCHANGED <<evq, cookies, awaits, delayed, isrQueue, handling,
                      current>>
      BY <2>1 DEF Wake
    <3>3. \A x, k : HandledCarrier(x, k)' => HandledCarrier(x, k)
      BY <1>4, <3>1, <3>2 DEF HandledCarrier
    <3>4. awaits[t] = None
      BY <3>1 DEF PlaceInv, PlaceOf
    <3>5. \A x \in Threads : awaits[x] # None => flags'[x] = flags[x]
      BY <3>1, <3>4 DEF Types
    <3>. QED
      BY <1>1, <3>2, <3>3, <3>5
  <2>2. CASE TakeEvent(t)
    <3>1. CarrierInv' /\ Settles
      BY <2>2, CarrierHandled
    <3>2. /\ pc[t] = "take" /\ evq[t] # <<>> /\ current' = t
          /\ evq' = [evq EXCEPT ![t] = Tail(@)] /\ awaits[t] = None
          /\ UNCHANGED <<cookies, awaits, flags>>
      BY <2>2 DEF TakeEvent, PlaceInv, PlaceOf
    <3>3. ASSUME NEW x \in Threads PROVE AwaitOK(x)'
      BY <3>2 DEF AwaitInv, AwaitOK
    <3>4. ASSUME NEW x \in Threads, NEW i \in DOMAIN evq'[x],
                 evq'[x][i].wake
          PROVE  WakeOK(x, i)'
      <4>1. PICK j \in DOMAIN evq[x] : evq'[x][i] = evq[x][j]
        BY <3>2, TailMembers
      <4>2. awaits[x] # None
        BY <3>4, <4>1 DEF AwaitInv, WakeOK
      <4>3. x # t /\ evq'[x] = evq[x]
        BY <3>2, <4>2 DEF Types
      <4>4. /\ awaits[x] # None /\ awaits[x].answer = None /\ i = 1
            /\ evq[x][i].request = awaits[x].cookie
            /\ ~Carried(awaits[x].cookie) /\ awaits[x].cookie < cookies
        BY <3>4, <4>3 DEF AwaitInv, WakeOK, AwaitOK
      <4>5. PICK k : k = awaits[x].cookie
        OBVIOUS
      <4>6. ~Carried(k)'
        BY <3>1, <4>4, <4>5 DEF Settles, Types, Await
      <4>. QED
        BY <3>2, <4>3, <4>4, <4>5, <4>6 DEF WakeOK
    <3>5. AwaitInv'
      BY <3>3, <3>4 DEF AwaitInv, WakeOK
    <3>. QED
      BY <3>1, <3>5
  <2>3. CASE HandlerReturns(t)
    <3>1. PICK e : e = handling[t]
      OBVIOUS
    <3>2. e \in Event /\ QueuedOK(e, cookies)
      BY <2>3, <3>1 DEF HandlerReturns, PlaceInv, PlaceOf, Types, EventInv,
                        HandledInv
    <3>3. PICK r : r = Response(e)
      OBVIOUS
    <3>4. r \in Event /\ r.response /\ r.cookie = e.cookie
          /\ r.request = e.request
      BY <3>2, <3>3, ResponseType
    <3>5. /\ UNCHANGED <<handling, isrQueue, flags, awaits, current>>
          /\ pc[t] = "handle" /\ pc[t] \in Active
          /\ pc' = [pc EXCEPT ![t] = "finish"]
      BY <2>3 DEF HandlerReturns, Goto, Active
    <3>6. CASE UNCHANGED <<free, queueVars, delayed>>
      BY <1>5, <3>5, <3>6 DEF Goto
    <3>7. CASE e.want /\ Enqueue(ThreadOf(r.tgt), r) /\ UNCHANGED delayed
      <4>1. PICK to : to = ThreadOf(r.tgt)
        OBVIOUS
      <4>2. to \in Threads
        BY <3>4, <4>1, ThreadKnown DEF Event
      <4>3. Queues(to, r)
        BY <3>4, <3>7, <4>1, <4>2, EnqueueQueues
      <4>4. CarrierInv' /\ Settles /\ ~Carried(r.cookie)'
        BY <3>1, <3>3, <3>4, <3>5, <3>7, <4>2, <4>3, HandledAnswered
      <4>5. Carried(r.cookie)
        BY <3>1, <3>4, <3>5, <3>7, NotStoredYet DEF Carried
      <4>6. r.request = r.cookie
        BY <3>2, <3>4, <3>7 DEF QueuedOK
      <4>. QED
        BY <3>4, <3>5, <4>2, <4>3, <4>4, <4>5, <4>6, AwaitPut
    <3>8. CASE /\ e.want /\ UNCHANGED queueVars
               /\ delayed' = [delayed EXCEPT ![e.tgt] = @ \cup {r}]
      <4>1. CarrierInv' /\ Settles
        BY <3>1, <3>3, <3>5, <3>8, CarrierStored
      <4>. QED
        BY <3>5, <3>8, <4>1, AwaitKept
    <3>. QED
      BY <2>3, <3>1, <3>3, <3>6, <3>7, <3>8 DEF HandlerReturns
  <2>4. CASE Finish(t)
    <3>1. /\ pc[t] = "finish" /\ pc' = [pc EXCEPT ![t] = "launch"]
          /\ current' = None
          /\ handling' = [handling EXCEPT ![t] = None]
          /\ UNCHANGED <<evq, cookies, flags, awaits, delayed, isrQueue>>
      BY <2>4 DEF Finish, Goto
    <3>2. \A x, k : HandledCarrier(x, k)' => HandledCarrier(x, k)
      BY <1>4, <3>1 DEF HandledCarrier, Types
    <3>3. \A x \in Threads : current' # x
      BY <3>1, MultiThreadAssumption
    <3>. QED
      BY <1>1, <3>1, <3>2, <3>3
  <2>5. CASE LaunchNext(t)
    <3>1. /\ pc[t] = "launch" /\ pc[t] \in Active
          /\ UNCHANGED <<current, cookies, handling, delayed, isrQueue>>
      BY <2>5 DEF LaunchNext, Active
    <3>2. CASE ready = <<>>
      <4>1. \E p \in {"isrcheck", "wait"} : Goto(t, p)
        BY <2>5, <3>2 DEF LaunchNext
      <4>2. UNCHANGED <<evq, awaits>>
        BY <2>5, <3>2 DEF LaunchNext
      <4>3. \A x \in Threads : flags[x] \subseteq flags'[x]
        <5>1. \/ flags' = flags
              \/ flags' = [flags EXCEPT ![Common] = @ \cup {NO_READY}]
          BY <2>5, <3>2 DEF LaunchNext, Raise
        <5>. QED
          BY <5>1 DEF Types
      <4>. QED
        BY <1>5, <3>1, <4>1, <4>2, <4>3
    <3>3. CASE ready # <<>> /\ Head(ready) = t
      <4>1. Goto(t, "take") /\ UNCHANGED <<evq, awaits, flags>>
        BY <2>5, <3>3 DEF LaunchNext
      <4>. QED
        BY <1>5, <3>1, <4>1
    <3>4. CASE ready # <<>> /\ Head(ready) # t
      <4>1. Goto(t, "wait") /\ Signal(Head(ready))
        BY <2>5, <3>4 DEF LaunchNext
      <4>2. \A x, k : HandledCarrier(x, k)' => HandledCarrier(x, k)
        BY <1>4, <3>1, <4>1 DEF HandledCarrier, Goto
      <4>3. Head(ready) \in Threads /\ evq[Head(ready)] # <<>>
        BY <3>4, <4>1, Launches
      <4>. QED
        BY <1>11, <3>1, <4>1, <4>2, <4>3
    <3>. QED
      BY <3>2, <3>3, <3>4
  <2>6. CASE LaunchAndWait(t)
    <3>1. /\ pc[t] = "call" /\ pc[t] \in Active /\ Goto(t, "blocked")
          /\ UNCHANGED <<current, cookies, handling, delayed, isrQueue>>
      BY <2>6 DEF LaunchAndWait, Active
    <3>2. CASE ready = <<>>
      <4>1. UNCHANGED <<evq, awaits, flags>>
        BY <2>6, <3>2 DEF LaunchAndWait
      <4>. QED
        BY <1>5, <3>1, <4>1
    <3>3. CASE ready # <<>>
      <4>1. Signal(Head(ready))
        BY <2>6, <3>3 DEF LaunchAndWait
      <4>2. \A x, k : HandledCarrier(x, k)' => HandledCarrier(x, k)
        BY <1>4, <3>1 DEF HandledCarrier, Goto
      <4>3. Head(ready) \in Threads /\ evq[Head(ready)] # <<>>
        BY <3>3, <4>1, Launches
      <4>. QED
        BY <1>11, <3>1, <4>1, <4>2, <4>3
    <3>. QED
      BY <3>2, <3>3
  <2>7. CASE Resume(t)
    <3>1. /\ pc[t] = "blocked" /\ PROCESSED \in flags[t]
          /\ pc' = [pc EXCEPT ![t] = "handle"]
          /\ flags' = [flags EXCEPT ![t] = @ \ {PROCESSED}]
          /\ awaits' = [awaits EXCEPT ![t] = None] /\ current' = t
          /\ UNCHANGED <<evq, cookies, handling, delayed, isrQueue>>
      BY <2>7 DEF Resume, Goto
    <3>2. \A x, k : HandledCarrier(x, k)' => HandledCarrier(x, k)
      BY <1>4, <3>1 DEF HandledCarrier
    <3>3. CarrierInv' /\ Settles
      BY <3>1, <3>2, CarriersTaken
    <3>4. awaits'[t] = None
          /\ \A x \in Threads \ {t} :
               awaits'[x] = awaits[x] /\ flags'[x] = flags[x]
      BY <3>1 DEF Types
    <3>5. ASSUME NEW x \in Threads PROVE AwaitOK(x)'
      BY <3>1, <3>4 DEF AwaitInv, AwaitOK
    <3>6. awaits[t].answer # None
      BY <3>1 DEF PlaceInv, PlaceOf
    <3>7. ASSUME NEW x \in Threads, NEW i \in DOMAIN evq[x], evq[x][i].wake
          PROVE  WakeOK(x, i)'
      <4>1. /\ awaits[x] # None /\ awaits[x].answer = None /\ i = 1
            /\ evq[x][i].request = awaits[x].cookie
            /\ ~Carried(awaits[x].cookie) /\ awaits[x].cookie < cookies
        BY <3>7 DEF AwaitInv, WakeOK, AwaitOK
      <4>2. x # t
        BY <3>6, <4>1
      <4>3. PICK k : k = awaits[x].cookie
        OBVIOUS
      <4>4. ~Carried(k)'
        BY <3>3, <4>1, <4>3 DEF Settles, Types, Await
      <4>. QED
        BY <3>1, <3>4, <4>1, <4>2, <4>3, <4>4 DEF WakeOK
    <3>8. AwaitInv'
      BY <3>1, <3>5, <3>7 DEF AwaitInv, WakeOK
    <3>. QED
      BY <3>3, <3>8
  <2>. QED
    BY <1>12, <2>1, <2>2, <2>3, <2>4, <2>5, <2>6, <2>7 DEF RunStep
<1>13. \A w \in usage.flags : w \in BOOLEAN
  BY MultiThreadAssumption DEF Types
<1>14. CASE PutRequest
  <2>1. PICK src \in Sources, tgt \in Entities, want \in usage.flags :
          /\ MayPut
          /\ Enqueue(ThreadOf(tgt), NewEvent(src, tgt, want))
          /\ UNCHANGED <<isrQueue, handling, delayed, pc, flags, awaits,
                         current>>
    BY <1>14 DEF PutRequest
  <2>2. PICK e : e = NewEvent(src, tgt, want)
    OBVIOUS
  <2>3. Sources \subseteq Entities
    BY DEF Sources, Types, Event
  <2>4. e \in Event /\ ~e.response
    BY <1>13, <2>2, <2>3, NewType DEF NewEvent
  <2>5. Queues(ThreadOf(tgt), e) /\ ThreadOf(tgt) \in Threads
    BY <2>1, <2>2, <2>4, ThreadKnown, EnqueueQueues
  <2>6. \A x, k : HandledCarrier(x, k)' => HandledCarrier(x, k)
    BY <2>1 DEF HandledCarrier
  <2>7. CarrierInv' /\ Settles
    BY <2>1, <2>4, <2>5, <2>6, CarriersAsked
  <2>8. PICK a \in Threads : pc[a] \in {"boot", "handle"} /\ pc[a] \in Active
    BY <2>1, Putting
  <2>. QED
    BY <2>1, <2>4, <2>5, <2>7, <2>8, AwaitPut
<1>15. CASE PutDelayed
  <2>1. PICK a \in Threads, x \in Entities, d \in Event :
          /\ pc[a] = "handle" /\ d \in delayed[x] /\ ~d.sent
          /\ delayed' = [delayed EXCEPT ![d.src] = @ \ {d}]
          /\ Enqueue(ThreadOf(d.tgt), d)
          /\ UNCHANGED <<isrQueue, handling, pc, flags, awaits, current>>
    BY <1>15 DEF PutDelayed, GetDelayedResponse, Types
  <2>2. d.response /\ d.src = x /\ d.request = d.cookie
    BY <2>1 DEF EventInv, StoredInv, StoredOK
  <2>3. Queues(ThreadOf(d.tgt), d) /\ ThreadOf(d.tgt) \in Threads
    BY <2>1, ThreadKnown, EnqueueQueues DEF Event
  <2>4. CarrierInv' /\ Settles /\ ~Carried(d.cookie)'
    BY <2>1, <2>2, <2>3, StoredAnswered
  <2>5. Carried(d.cookie)
    BY <2>1 DEF Carried, Carries, StoredCarrier
  <2>. QED
    BY <2>1, <2>2, <2>3, <2>4, <2>5, AwaitPut DEF Active
<1>16. ASSUME NEW t \in Threads, PutEventAndWait(t)
       PROVE  CarrierInv' /\ AwaitInv'
  <2>1. PICK tgt \in Entities :
          /\ pc[t] = "handle" /\ ThreadOf(tgt) # current
          /\ Enqueue(ThreadOf(tgt), NewEvent(currentEvent.tgt, tgt, TRUE))
          /\ awaits' = [awaits EXCEPT ![t] = [cookie |-> cookies,
                                   asked |-> cookies, answer |-> None]]
          /\ pc' = [pc EXCEPT ![t] = "call"]
          /\ UNCHANGED <<isrQueue, handling, delayed, flags, current>>
    BY <1>16 DEF PutEventAndWait, Goto
  <2>2. PICK e : e = NewEvent(currentEvent.tgt, tgt, TRUE)
    OBVIOUS
  <2>3. currentEvent \in Event /\ current = t
    BY <2>1 DEF PlaceInv, PlaceOf, Types
  <2>4. e \in Event /\ ~e.response
    BY <2>2, <2>3, NewType DEF NewEvent, Event
  <2>5. Queues(ThreadOf(tgt), e) /\ ThreadOf(tgt) \in Threads \ {t}
    BY <2>1, <2>2, <2>3, <2>4, ThreadKnown, EnqueueQueues
  <2>6. \A x, k : HandledCarrier(x, k)' => HandledCarrier(x, k)
    BY <1>4, <2>1 DEF HandledCarrier
  <2>7. CarrierInv' /\ Settles
    BY <2>1, <2>4, <2>5, <2>6, CarriersAsked
  <2>. QED
    BY <2>1, <2>4, <2>5, <2>7, AwaitAsked
<1>17. ASSUME NEW e \in Event, PutIsrEvent(e)
       PROVE  /\ isrQueue' = Append(isrQueue, e)
              /\ \A t \in Threads : flags[t] \subseteq flags'[t]
  BY <1>17 DEF PutIsrEvent, Types
<1>18. CASE IsrPutRequest
  <2>1. PICK src \in Entities, tgt \in Entities, want \in usage.flags :
          /\ PutIsrEvent([NewEvent(src, tgt, want) EXCEPT !.early = FALSE])
          /\ UNCHANGED <<evq, cookies, handling, delayed, pc, awaits, current>>
    BY <1>18 DEF IsrPutRequest
  <2>2. PICK e : e = [NewEvent(src, tgt, want) EXCEPT !.early = FALSE]
    OBVIOUS
  <2>3. e \in Event /\ ~e.response
    BY <1>13, <2>2, NewType DEF NewEvent
  <2>4. CarrierInv' /\ Settles
    BY <1>17, <2>1, <2>2, <2>3, CarrierIsr
  <2>. QED
    BY <1>17, <2>1, <2>2, <2>3, <2>4, AwaitKept
<1>19. CASE IsrPutResponse
  <2>1. PICK d \in UNION {delayed[e] : e \in Entities} :
          /\ PutIsrEvent(d) /\ ~d.sent
          /\ delayed' = [delayed EXCEPT ![d.src] =
                          (@ \ {d}) \cup {[d EXCEPT !.sent = TRUE]}]
          /\ UNCHANGED <<evq, cookies, handling, pc, awaits, current>>
    BY <1>19 DEF IsrPutResponse
  <2>2. d \in Event /\ d.src \in Entities /\ d \in delayed[d.src]
    BY <2>1 DEF Types, EventInv, StoredInv
  <2>3. CarrierInv' /\ Settles
    BY <1>17, <2>1, <2>2, CarrierSent
  <2>. QED
    BY <1>17, <2>1, <2>2, <2>3, AwaitKept
<1>. QED
  BY <1>3, <1>6, <1>7, <1>8, <1>9, <1>10, <1>12, <1>14, <1>15, <1>16, <1>18,
     <1>19 DEF Next, ThreadStep, ModuleStep

(***************************************************************************)
(* Readiness: the queue of ready threads and the threads that can go on.   *)
(***************************************************************************)
LEMMA ReadySame ==
  ASSUME Types, ReadyInv, ready' = ready,
         \A x \in Threads : CanGoOn(x)' <=> CanGoOn(x),
         \A x \in Threads : CanGoOn(x) =>
            (awaits'[x] = None <=> awaits[x] = None),
         \A t \in Threads : (pc'[t] = "take" \/ TO_PROCESS \in flags'[t]) =>
            \E s \in Threads : pc[s] = "take" \/ TO_PROCESS \in flags[s]
  PROVE  ReadyInv'
<1>1. \A i \in DOMAIN ready : ready[i] \in Threads /\ CanGoOn(ready[i])
  BY DEF Types, ReadyInv, ReadyOnce, ToSet
<1>2. ReadyOnce'
  BY DEF ReadyInv, ReadyOnce
<1>3. WaitersFirst'
  BY <1>1 DEF ReadyInv, WaitersFirst
<1>4. NoWaiterLeft'
  BY <1>1 DEF ReadyInv, NoWaiterLeft
<1>. QED
  BY <1>2, <1>3, <1>4 DEF ReadyInv

LEMMA ReadyTail ==
  ASSUME Types, ReadyInv, ready # <<>>, ready' = Tail(ready),
         NEW n, n = Head(ready), ~CanGoOn(n)',
         \A x \in Threads \ {n} : CanGoOn(x)' <=> CanGoOn(x),
         \A x \in Threads : awaits'[x] = None <=> awaits[x] = None,
         \A t \in Threads : (pc'[t] = "take" \/ TO_PROCESS \in flags'[t]) =>
            awaits[n] = None
  PROVE  ReadyInv'
<1>1. ReadyOnce
  BY DEF ReadyInv
<1>2. /\ n \in Threads /\ CanGoOn(n)
      /\ n = ready[1] /\ 1 \in DOMAIN ready
      /\ ready' \in Seq(Threads) /\ Len(ready') = Len(ready) - 1
      /\ \A i \in DOMAIN ready' :
           ready'[i] = ready[i + 1] /\ i + 1 \in DOMAIN ready
  BY <1>1, FirstReady
<1>3. ready \in Seq(Threads) /\ DOMAIN ready = 1..Len(ready)
      /\ DOMAIN ready' = 1..Len(ready')
  BY <1>2 DEF Types
<1>4. \A i \in DOMAIN ready' : i \in Nat /\ i + 1 \in Nat /\ i + 1 # 1
  BY <1>3
<1>5. IsInjective(ready')
  <2>1. ASSUME NEW i \in DOMAIN ready', NEW j \in DOMAIN ready',
               ready'[i] = ready'[j]
        PROVE  i = j
    <3>1. i + 1 = j + 1
      BY <1>1, <1>2, <2>1 DEF ReadyOnce, IsInjective
    <3>. QED
      BY <1>4, <3>1
  <2>. QED
    BY <2>1 DEF IsInjective
<1>6. n \notin ToSet(ready')
  BY <1>1, <1>2, <1>4 DEF ReadyOnce, IsInjective, ToSet
<1>7. \A x \in Threads \ {n} : x \in ToSet(ready') <=> x \in ToSet(ready)
  <2>1. ASSUME NEW x \in Threads \ {n}, x \in ToSet(ready)
        PROVE  x \in ToSet(ready')
    <3>1. PICK i \in DOMAIN ready : x = ready[i]
      BY <2>1 DEF ToSet
    <3>2. i # 1 /\ i \in 1..Len(ready)
      BY <1>2, <1>3, <2>1, <3>1
    <3>3. PICK j \in DOMAIN ready' : j + 1 = i
      <4>1. i - 1 \in DOMAIN ready' /\ (i - 1) + 1 = i
        BY <1>2, <1>3, <3>2
      <4>. QED
        BY <4>1
    <3>. QED
      BY <1>2, <3>1, <3>3 DEF ToSet
  <2>. QED
    BY <1>2, <2>1 DEF ToSet
<1>8. ReadyOnce'
  BY <1>1, <1>2, <1>5, <1>6, <1>7 DEF ReadyOnce
<1>9. \A i \in DOMAIN ready : ready[i] \in Threads
  BY <1>3
<1>10. WaitersFirst'
  <2>1. ASSUME NEW i \in DOMAIN ready', NEW j \in DOMAIN ready', i < j,
               awaits'[ready'[j]] # None
        PROVE  awaits'[ready'[i]] # None
    <3>1. i + 1 < j + 1
      BY <1>4, <2>1
    <3>2. awaits[ready[j + 1]] # None
      BY <1>2, <1>9, <2>1
    <3>3. awaits[ready[i + 1]] # None
      BY <1>2, <3>1, <3>2 DEF ReadyInv, WaitersFirst
    <3>. QED
      BY <1>2, <1>9, <3>3
  <2>. QED
    BY <2>1 DEF WaitersFirst
<1>11. NoWaiterLeft'
  <2>1. ASSUME awaits[n] = None, NEW i \in DOMAIN ready'
        PROVE  awaits'[ready'[i]] = None
    <3>1. 1 < i + 1
      BY <1>3
    <3>2. awaits[ready[i + 1]] = None
      BY <1>2, <2>1, <3>1 DEF ReadyInv, WaitersFirst
    <3>. QED
      BY <1>2, <1>9, <3>2
  <2>. QED
    BY <2>1 DEF NoWaiterLeft
<1>. QED
  BY <1>8, <1>10, <1>11 DEF ReadyInv

(* A thread joins the queue, first if it waits for a response.             *)
LEMMA ReadyJoined ==
  ASSUME Types, ReadyInv, NEW n \in Threads, ~CanGoOn(n), CanGoOn(n)',
         \/ ready' = Append(ready, n) /\ awaits[n] = None
         \/ ready' = <<n>> \o ready /\ awaits[n] # None
         \/ ready' = <<n>> \o ready /\ ready = <<>>,
         \A x \in Threads \ {n} : CanGoOn(x)' <=> CanGoOn(x),
         \A x \in Threads : CanGoOn(x)' =>
            (awaits'[x] = None <=> awaits[x] = None),
         \A t \in Threads : pc'[t] # "take" /\ TO_PROCESS \notin flags'[t]
  PROVE  ReadyInv'
<1>1. ready \in Seq(Threads) /\ DOMAIN ready = 1..Len(ready)
      /\ \A i \in DOMAIN ready : ready[i] \in Threads
  BY DEF Types
<1>2. n \notin ToSet(ready)
  BY DEF ReadyInv, ReadyOnce
<1>3. IsInjective(ready)
  BY DEF ReadyInv, ReadyOnce
<1>4. NoWaiterLeft'
  BY DEF NoWaiterLeft
<1>5. \A i \in DOMAIN ready : /\ ready[i] # n
                              /\ (awaits'[ready[i]] = None
                                    <=> awaits[ready[i]] = None)
  <2>1. ASSUME NEW i \in DOMAIN ready
        PROVE  /\ ready[i] # n
               /\ (awaits'[ready[i]] = None <=> awaits[ready[i]] = None)
    <3>1. PICK x : x = ready[i]
      OBVIOUS
    <3>2. x \in ToSet(ready) /\ x \in Threads
      BY <1>1, <3>1 DEF ToSet
    <3>3. x # n /\ CanGoOn(x)
      BY <1>2, <3>2 DEF ReadyInv, ReadyOnce
    <3>4. CanGoOn(x)'
      BY <3>2, <3>3
    <3>5. awaits'[x] = None <=> awaits[x] = None
      BY <3>2, <3>4
    <3>. QED
      BY <3>1, <3>3, <3>5
  <2>. QED
    BY <2>1
<1>6. CASE ready' = Append(ready, n) /\ awaits[n] = None
  <2>1. /\ ready' \in Seq(Threads) /\ Len(ready') = Len(ready) + 1
        /\ DOMAIN ready' = 1..(Len(ready) + 1)
        /\ ready'[Len(ready) + 1] = n
        /\ \A i \in DOMAIN ready : ready'[i] = ready[i]
    BY <1>1, <1>6
  <2>2. \A i \in DOMAIN ready' : i \in DOMAIN ready \/ i = Len(ready) + 1
    BY <1>1, <2>1
  <2>3. IsInjective(ready')
    BY <1>2, <1>3, <2>1, <2>2 DEF IsInjective, ToSet
  <2>4. ToSet(ready') = ToSet(ready) \cup {n}
    BY <1>1, <2>1, <2>2 DEF ToSet
  <2>5. ReadyOnce'
    BY <2>3, <2>4 DEF ReadyInv, ReadyOnce
  <2>6. awaits'[n] = None
    BY <1>6
  <2>7. WaitersFirst'
    <3>1. ASSUME NEW i \in DOMAIN ready', NEW j \in DOMAIN ready', i < j,
                 awaits'[ready'[j]] # None
          PROVE  awaits'[ready'[i]] # None
      <4>1. j \in DOMAIN ready
        BY <2>1, <2>2, <2>6, <3>1
      <4>2. i \in DOMAIN ready
        BY <1>1, <2>1, <3>1, <4>1
      <4>. QED
        BY <1>5, <2>1, <3>1, <4>1, <4>2 DEF ReadyInv, WaitersFirst
    <3>. QED
      BY <3>1 DEF WaitersFirst
  <2>. QED
    BY <1>4, <2>5, <2>7 DEF ReadyInv
<1>7. CASE ready' = <<n>> \o ready /\ (awaits[n] # None \/ ready = <<>>)
  <2>1. /\ ready' \in Seq(Threads) /\ Len(ready') = Len(ready) + 1
        /\ DOMAIN ready' = 1..(Len(ready) + 1)
        /\ ready'[1] = n
        /\ \A i \in DOMAIN ready : ready'[i + 1] = ready[i]
    BY <1>1, <1>7
  <2>2. ASSUME NEW i \in DOMAIN ready', i # 1
        PROVE  \E j \in DOMAIN ready : i = j + 1 /\ ready'[i] = ready[j]
    <3>1. i - 1 \in DOMAIN ready /\ i = (i - 1) + 1
      BY <1>1, <2>1, <2>2
    <3>. QED
      BY <2>1, <3>1
  <2>3. IsInjective(ready')
    <3>1. ASSUME NEW i \in DOMAIN ready', NEW j \in DOMAIN ready',
                 ready'[i] = ready'[j]
          PROVE  i = j
      BY <1>2, <1>3, <2>1, <2>2, <3>1 DEF IsInjective, ToSet
    <3>. QED
      BY <3>1 DEF IsInjective
  <2>4. ToSet(ready') = ToSet(ready) \cup {n}
    <3>1. \A i \in DOMAIN ready : i + 1 \in DOMAIN ready'
      BY <1>1, <2>1
    <3>2. 1 \in DOMAIN ready'
      BY <1>1, <2>1
    <3>3. \A x \in ToSet(ready) \cup {n} : x \in ToSet(ready')
      BY <2>1, <3>1, <3>2 DEF ToSet
    <3>4. \A i \in DOMAIN ready' : ready'[i] \in ToSet(ready) \cup {n}
      BY <2>1, <2>2 DEF ToSet
    <3>5. \A x \in ToSet(ready') : x \in ToSet(ready) \cup {n}
      BY <3>4 DEF ToSet
    <3>. QED
      BY <3>3, <3>5
  <2>5. ReadyOnce'
    BY <2>3, <2>4 DEF ReadyInv, ReadyOnce
  <2>6. WaitersFirst'
    <3>1. ASSUME NEW i \in DOMAIN ready', NEW j \in DOMAIN ready', i < j,
                 awaits'[ready'[j]] # None
          PROVE  awaits'[ready'[i]] # None
      <4>1. i \in Nat \ {0} /\ j \in Nat \ {0}
        BY <1>1, <2>1
      <4>2. PICK l \in DOMAIN ready : j = l + 1 /\ ready'[j] = ready[l]
        BY <2>2, <3>1, <4>1
      <4>3. CASE i = 1
        <5>1. ready # <<>>
          BY <4>2
        <5>. QED
          BY <1>7, <2>1, <4>3, <5>1
      <4>4. CASE i # 1
        <5>1. PICK k \in DOMAIN ready : i = k + 1 /\ ready'[i] = ready[k]
          BY <2>2, <4>4
        <5>2. k < l
          BY <1>1, <3>1, <4>2, <5>1
        <5>. QED
          BY <1>5, <3>1, <4>2, <5>1, <5>2 DEF ReadyInv, WaitersFirst
      <4>. QED
        BY <4>3, <4>4
    <3>. QED
      BY <3>1 DEF WaitersFirst
  <2>. QED
    BY <1>4, <2>5, <2>6 DEF ReadyInv
<1>. QED
  BY <1>6, <1>7

(* What decides whether a thread can go on.                                *)
LEMMA GoesOnSame ==
  ASSUME NEW x \in Threads, evq'[x] = evq[x], awaits'[x] = awaits[x],
         flags'[x] = flags[x], pc'[x] = "take" <=> pc[x] = "take",
         current' = x <=> current = x
  PROVE  CanGoOn(x)' <=> CanGoOn(x)
BY DEF CanGoOn

LEMMA HeadAfter ==
  ASSUME Types, NEW t \in Threads, NEW e \in Event, Queues(t, e)
  PROVE  /\ evq'[t] # <<>> /\ Stamped(t, e).wake = IsWake(t, e)
         /\ Head(evq'[t]) = IF IsWake(t, e) \/ evq[t] = <<>> THEN Stamped(t, e)
                            ELSE Head(evq[t])
<1>. DEFINE s == Stamped(t, e)
<1>1. s.wake = IsWake(t, e)
  BY StampedType
<1>. HIDE DEF s
<1>2. /\ evq[t] \in Seq(Event) /\ evq'[t] \in Seq(Event)
      /\ Len(evq'[t]) = Len(evq[t]) + 1
      /\ IF IsWake(t, e) THEN evq'[t][1] = s
         ELSE /\ evq'[t][Len(evq[t]) + 1] = s
              /\ \A i \in 1..Len(evq[t]) : evq'[t][i] = evq[t][i]
  BY QueuesEffect DEF Types, s
<1>3. evq'[t] # <<>> /\ Head(evq'[t]) = evq'[t][1]
  BY <1>2
<1>4. CASE evq[t] = <<>>
  BY <1>1, <1>2, <1>3, <1>4 DEF s
<1>5. CASE evq[t] # <<>>
  <2>1. 1 \in 1..Len(evq[t]) /\ Head(evq[t]) = evq[t][1]
    BY <1>2, <1>5
  <2>. QED
    BY <1>1, <1>2, <1>3, <1>5, <2>1 DEF s
<1>. QED
  BY <1>4, <1>5

(* A thread whose turn it is not, and that is current, has waited and not  *)
(* got its response yet: it cannot go on, whatever is current next.        *)
LEMMA OldCurrent ==
  ASSUME Types, PlaceInv, AwaitInv, NEW x \in Threads, current = x,
         pc[x] \in Waiting, evq'[x] = evq[x], awaits'[x] = awaits[x]
  PROVE  ~CanGoOn(x)'
<1>1. awaits[x] # None
  BY NullAssumption, MultiThreadAssumption
     DEF PlaceInv, PlaceOf, CurrentPlace, Waiting
<1>2. ASSUME evq[x] # <<>> PROVE ~Head(evq[x]).wake
  BY <1>2, FirstQueued DEF AwaitInv, WakeOK
<1>. QED
  BY <1>1, <1>2 DEF CanGoOn

(* An event is put by the code of a handler or a start callback.           *)
LEMMA ReadyPut ==
  ASSUME Types, TurnInv, PlaceInv, AwaitInv, ReadyInv, AwaitInv',
         NEW r \in Threads, pc[r] \in {"boot", "handle"},
         NEW p \in Active \ {"take"},
         pc' = pc \/ pc' = [pc EXCEPT ![r] = p],
         flags' = flags, current' = current,
         NEW t \in Threads, NEW e \in Event, Enqueue(t, e),
         \/ awaits' = awaits
         \/ /\ current = r /\ t # r
            /\ \A x \in Threads \ {r} : awaits'[x] = awaits[x]
  PROVE  ReadyInv'
<1>. DEFINE s == Stamped(t, e)
<1>1. /\ Queues(t, e)
      /\ ready' = IF s.wake THEN <<t>> \o ready
                  ELSE IF evq[t] = <<>> /\ t # current /\ awaits[t] = None
                  THEN Append(ready, t) ELSE ready
  BY EnqueueQueues
<1>2. /\ evq'[t] # <<>> /\ s.wake = IsWake(t, e)
      /\ Head(evq'[t]) = IF s.wake \/ evq[t] = <<>> THEN s ELSE Head(evq[t])
  BY <1>1, HeadAfter
<1>3. \A x \in Threads \ {t} : evq'[x] = evq[x]
  BY <1>1, QueuesEffect
<1>4. /\ pc[r] \in Active /\ pc[r] # "take" /\ awaits[r] = None
      /\ r # t => pc[t] \in {"wait", "blocked"}
      /\ \A x \in Threads : flags[x] = {}
      /\ \A x \in Threads \ {r} : pc[x] # "take"
  <2>1. pc[r] \in Active /\ pc[r] # "take"
    BY DEF Active
  <2>2. awaits[r] = None
    BY DEF PlaceInv, PlaceOf
  <2>. QED
    BY <2>1, <2>2, Rest
<1>5. \A x \in Threads : pc'[x] # "take" /\ pc[x] # "take"
  BY <1>4 DEF Types
<1>6. \A x \in Threads : flags'[x] = {} /\ pc'[x] # "take"
                         /\ TO_PROCESS \notin flags'[x]
  BY <1>4, <1>5
<1>7. \A x \in Threads : x = r \/ awaits'[x] = awaits[x]
  OBVIOUS
<1>8. awaits'[t] = awaits[t]
  OBVIOUS
<1>9. \A x \in Threads \ {t} : CanGoOn(x)' <=> CanGoOn(x)
  BY <1>3, <1>4, <1>5 DEF CanGoOn
<1>10. \A x \in Threads : CanGoOn(x) \/ CanGoOn(x)'
                            => (awaits'[x] = None <=> awaits[x] = None)
  BY DEF CanGoOn
<1>. HIDE DEF s
<1>11. CASE s.wake
  <2>1. /\ WakeOK(t, 1)'
        /\ \A i \in 1..Len(evq[t]) : WakeOK(t, i + 1)'
        /\ evq'[t][1] = s
        /\ \A i \in 1..Len(evq[t]) : evq'[t][i + 1] = evq[t][i]
    <3>1. /\ evq'[t] \in Seq(Event) /\ Len(evq'[t]) = Len(evq[t]) + 1
          /\ Len(evq[t]) \in Nat
          /\ evq'[t][1] = s
          /\ \A i \in 1..Len(evq[t]) : evq'[t][i + 1] = evq[t][i]
      <4>1. IsWake(t, e)
        BY <1>2, <1>11
      <4>2. /\ Len(evq'[t]) = Len(evq[t]) + 1
            /\ evq'[t][1] = s
            /\ \A i \in 1..Len(evq[t]) : evq'[t][i + 1] = evq[t][i]
        BY <1>1, <4>1, QueuesEffect DEF s
      <4>3. evq'[t] \in Seq(Event) /\ evq[t] \in Seq(Event)
        BY <1>1, QueuesEffect DEF Types
      <4>. QED
        BY <4>2, <4>3
    <3>2. 1 \in DOMAIN evq'[t]
          /\ \A i \in 1..Len(evq[t]) : i + 1 \in DOMAIN evq'[t]
      BY <3>1
    <3>. QED
      BY <3>1, <3>2 DEF AwaitInv
  <2>2. awaits[t] # None /\ t # current
    BY <1>8, <1>11, <2>1 DEF WakeOK
  <2>3. \A i \in 1..Len(evq[t]) : ~evq[t][i].wake
    BY <2>1 DEF WakeOK
  <2>4. evq[t] # <<>> => ~Head(evq[t]).wake
    BY <2>3 DEF Types
  <2>5. ~CanGoOn(t)
    BY <2>2, <2>4 DEF CanGoOn
  <2>6. CanGoOn(t)'
    BY <1>2, <1>6, <1>11, <2>2 DEF CanGoOn
  <2>7. ready' = <<t>> \o ready
    BY <1>1, <1>11 DEF s
  <2>. QED
    BY <1>6, <1>9, <1>10, <2>2, <2>5, <2>6, <2>7, ReadyJoined
<1>12. CASE ~s.wake /\ evq[t] = <<>> /\ t # current /\ awaits[t] = None
  <2>1. ~CanGoOn(t)
    BY <1>12 DEF CanGoOn
  <2>2. CanGoOn(t)'
    BY <1>2, <1>6, <1>8, <1>12 DEF CanGoOn
  <2>3. ready' = Append(ready, t)
    BY <1>1, <1>12 DEF s
  <2>. QED
    BY <1>6, <1>9, <1>10, <1>12, <2>1, <2>2, <2>3, ReadyJoined
<1>13. CASE ~s.wake /\ ~(evq[t] = <<>> /\ t # current /\ awaits[t] = None)
  <2>1. CanGoOn(t)' <=> CanGoOn(t)
    BY <1>2, <1>4, <1>5, <1>6, <1>8, <1>13 DEF CanGoOn
  <2>2. ready' = ready
    BY <1>1, <1>13 DEF s
  <2>. QED
    BY <1>6, <1>9, <1>10, <2>1, <2>2, ReadySame
<1>. QED
  BY <1>11, <1>12, <1>13

(* The first of the threads that are ready is told so.                     *)
LEMMA ReadyTold ==
  ASSUME Types, TurnInv, PlaceInv, AwaitInv, ReadyInv,
         NEW t \in Threads, pc[t] \in Active, pc[t] # "take",
         pc'[t] # "take", \A x \in Threads \ {t} : pc'[x] = pc[x],
         ready # <<>>, ready' = Tail(ready), Head(ready) # t,
         Signal(Head(ready)), current' = current,
         handling' = handling
  PROVE  ReadyInv'
<1>1. PICK n : n = Head(ready)
  OBVIOUS
<1>2. n \in Threads \ {t} /\ CanGoOn(n) /\ Signal(n) /\ evq[n] # <<>>
      /\ (Head(evq[n]).wake => awaits[n] # None)
  BY <1>1, Launches
<1>3. /\ (awaits'[n] # None) <=> (awaits[n] # None)
      /\ \A x \in Threads \ {n} : /\ evq'[x] = evq[x] /\ awaits'[x] = awaits[x]
                                  /\ flags'[x] = flags[x]
  BY <1>2, SignalledPlace
<1>4. /\ flags[n] = {} /\ flags'[n] # {}
      /\ TO_PROCESS \in flags'[n] => awaits[n] = None
      /\ pc[n] # "take"
  <2>1. IF Head(evq[n]).wake THEN flags'[n] = flags[n] \cup {PROCESSED}
        ELSE flags'[n] = flags[n] \cup {TO_PROCESS}
    BY <1>2, SignalEffect
  <2>2. /\ flags[n] = {} /\ pc[n] # "take"
        /\ awaits[n] = None \/ Head(evq[n]).wake
    BY <1>2 DEF CanGoOn
  <2>. QED
    BY <2>1, <2>2, Places
<1>5. ~CanGoOn(n)'
  BY <1>4 DEF CanGoOn
<1>6. \A x \in Threads \ {n} : CanGoOn(x)' <=> CanGoOn(x)
  BY <1>3 DEF CanGoOn
<1>7. \A x \in Threads \ {t} : flags[x] = {} /\ pc[x] # "take"
  BY Rest
<1>8. flags[t] = {}
  BY Rest
<1>9. \A x \in Threads : (pc'[x] = "take" \/ TO_PROCESS \in flags'[x]) =>
        awaits[n] = None
  BY <1>2, <1>3, <1>4, <1>7, <1>8
<1>10. \A x \in Threads : awaits'[x] = None <=> awaits[x] = None
  BY <1>3
<1>. QED
  BY <1>1, <1>2, <1>5, <1>6, <1>9, <1>10, ReadyTail

(* An event of an interrupt changes the turn only when nothing is ready.   *)
LEMMA ReadyOfIsr ==
  ASSUME Types, TurnInv, PlaceInv, ReadyInv, NEW e \in Event, PutIsrEvent(e),
         UNCHANGED <<pc, awaits, current, ready, evq>>
  PROVE  ReadyInv'
<1>1. \A x \in Threads \ {Common} : flags'[x] = flags[x]
  BY DEF PutIsrEvent, Types
<1>2. flags'[Common] = flags[Common] \/ evq[Common] = <<>>
  BY DEF PutIsrEvent, PlaceInv, CommonPlace
<1>3. \A x \in Threads : TO_PROCESS \in flags'[x] => TO_PROCESS \in flags[x]
  BY <1>1, Places DEF PutIsrEvent, Types
<1>4. \A x \in Threads : CanGoOn(x)' <=> CanGoOn(x)
  BY <1>1, <1>2 DEF CanGoOn
<1>. QED
  BY <1>3, <1>4, ReadySame

(* Every step keeps the queue of ready threads.                            *)
LEMMA ReadyStep ==
  ASSUME Types, TurnInv, PlaceInv, EventInv, AwaitInv, ReadyInv,
         AwaitInv', [Next]_vars
  PROVE  ReadyInv'
<1>. USE DEF isrVars, osVars, contextVars, queueVars
<1>1. ASSUME ready' = ready, evq' = evq, awaits' = awaits, flags' = flags,
             current' = current,
             \A x \in Threads : pc'[x] = "take" <=> pc[x] = "take"
      PROVE  ReadyInv'
  <2>1. \A x \in Threads : CanGoOn(x)' <=> CanGoOn(x)
    BY <1>1 DEF CanGoOn
  <2>. QED
    BY <1>1, <2>1, ReadySame
<1>2. SUFFICES ASSUME Next PROVE ReadyInv'
  BY <1>1 DEF vars
<1>3. ASSUME NEW t \in Threads, NEW p, pc[t] # "take", p # "take", Goto(t, p)
      PROVE  \A x \in Threads : pc'[x] = "take" <=> pc[x] = "take"
  BY <1>3 DEF Goto, Types
<1>4. ASSUME NEW e \in Entities, CreateThread(e) PROVE ReadyInv'
  BY <1>1, <1>4 DEF CreateThread
<1>5. CASE Start
  BY <1>1, <1>3, <1>5, Places DEF Start
<1>6. CASE IsrWait
  BY <1>1, <1>3, <1>6, Places DEF IsrWait
<1>7. CASE IsrWake
  <2>1. /\ pc[Common] = "isrwait" /\ Goto(Common, "isrcheck")
        /\ UNCHANGED <<ready, evq, awaits, current>>
        /\ flags' = [flags EXCEPT ![Common] = @ \ {ISR_EVENT}]
    BY <1>7 DEF IsrWake
  <2>2. /\ \A x \in Threads : pc'[x] = "take" <=> pc[x] = "take"
        /\ evq[Common] = <<>>
    BY <1>3, <2>1, Places DEF PlaceInv, CommonPlace
  <2>3. /\ \A x \in Threads \ {Common} : flags'[x] = flags[x]
        /\ \A x \in Threads : TO_PROCESS \in flags'[x] => TO_PROCESS \in flags[x]
    BY <2>1 DEF Types
  <2>4. \A x \in Threads : CanGoOn(x)' <=> CanGoOn(x)
    BY <2>1, <2>2, <2>3 DEF CanGoOn
  <2>. QED
    BY <2>1, <2>2, <2>3, <2>4, ReadySame
<1>8. CASE IsrDispatch
  <2>1. PICK e : e = Head(isrQueue)
    OBVIOUS
  <2>2. PICK t : t = ThreadOf(e.tgt)
    OBVIOUS
  <2>3. PICK s : s = Stamped(t, e)
    OBVIOUS
  <2>4. /\ pc[Common] = "isrcheck" /\ isrQueue # <<>>
        /\ UNCHANGED <<current, flags, awaits>>
        /\ ready' = IF awaits[t] = None \/ s.wake THEN <<t>> \o ready ELSE ready
        /\ Goto(Common, IF awaits[t] = None \/ s.wake THEN "launch"
                        ELSE "isrcheck")
        /\ Queues(t, e)
    BY <1>8, <2>1, <2>2, <2>3 DEF IsrDispatch, Queues
  <2>5. e \in Event
    BY <2>1, <2>4 DEF Types
  <2>6. t \in Threads
    BY <2>2, <2>5, ThreadKnown DEF Event
  <2>7. /\ evq'[t] # <<>> /\ s.wake = IsWake(t, e)
        /\ Head(evq'[t]) = IF s.wake \/ evq[t] = <<>> THEN s ELSE Head(evq[t])
    BY <2>3, <2>4, <2>5, <2>6, HeadAfter
  <2>8. \A x \in Threads \ {t} : evq'[x] = evq[x]
    BY <2>4, <2>5, <2>6, QueuesEffect
  <2>9. /\ \A x \in Threads : pc[x] # "take" /\ flags[x] = {}
        /\ ready = <<>> /\ current = None
    <3>1. pc[Common] \in Active
      BY <2>4 DEF Active
    <3>2. ready = <<>> /\ current = None
      BY <2>4, Places DEF PlaceInv, PlaceOf, CommonPlace
    <3>. QED
      BY <2>4, <3>1, <3>2, Rest, Places
  <2>10. \A x \in Threads : pc'[x] # "take"
    BY <2>4, <2>9 DEF Goto, Types
  <2>11. /\ \A x \in Threads : pc'[x] # "take" /\ flags'[x] = {}
                               /\ TO_PROCESS \notin flags'[x]
         /\ \A x \in Threads : pc'[x] = "take" <=> pc[x] = "take"
    BY <2>4, <2>9, <2>10
  <2>12. ToSet(ready) = {}
    BY <2>9 DEF ToSet
  <2>13. \A x \in Threads : ~CanGoOn(x)
    BY <2>12 DEF ReadyInv, ReadyOnce
  <2>14. \A x \in Threads \ {t} : CanGoOn(x)' <=> CanGoOn(x)
    BY <2>4, <2>8, <2>9, <2>11 DEF CanGoOn
  <2>15. CASE awaits[t] = None \/ s.wake
    <3>1. CanGoOn(t)'
      BY <2>4, <2>6, <2>7, <2>9, <2>11, <2>15, MultiThreadAssumption
         DEF CanGoOn
    <3>2. ready' = <<t>> \o ready
      BY <2>4, <2>15
    <3>. QED
      BY <2>4, <2>6, <2>9, <2>11, <2>13, <2>14, <3>1, <3>2, ReadyJoined
  <2>16. CASE ~(awaits[t] = None \/ s.wake)
    <3>1. CanGoOn(t)' <=> CanGoOn(t)
      BY <2>4, <2>6, <2>7, <2>9, <2>11, <2>16 DEF CanGoOn
    <3>2. ready' = ready
      BY <2>4, <2>16
    <3>. QED
      BY <2>4, <2>6, <2>11, <2>14, <3>1, <3>2, ReadySame
  <2>. QED
    BY <2>15, <2>16
<1>9. ASSUME NEW t \in Threads, RunStep(t) PROVE ReadyInv'
  <2>1. CASE Wake(t)
    <3>1. UNCHANGED <<ready, evq, awaits, current>>
      BY <2>1 DEF Wake
    <3>2. /\ pc[t] = "wait" /\ flags' = [flags EXCEPT ![t] = {}]
          /\ \A x \in Threads : pc[x] \in Waiting
      BY <2>1, WakeEffect
    <3>3. /\ flags[t] # {} /\ flags'[t] = {}
          /\ \A x \in Threads \ {t} : flags'[x] = flags[x]
      BY <2>1, <3>2, WakeEffect DEF Types
    <3>4. \A x \in Threads \ {t} : pc'[x] = pc[x]
      <4>1. \/ pc' = [pc EXCEPT ![t] = "take"]
            \/ pc' = [pc EXCEPT ![t] = "isrcheck"]
        BY <2>1, WakeEffect
      <4>. QED
        BY <4>1 DEF Types
    <3>5. \/ TO_PROCESS \in flags[t] /\ pc'[t] = "take"
          \/ evq[t] = <<>> /\ pc'[t] = "isrcheck"
      BY <2>1, WakeEffect DEF Types, PlaceInv, PlaceOf
    <3>6. \A x \in Threads : pc[x] # "take"
      BY <3>2 DEF Waiting
    <3>7. \A x \in Threads : CanGoOn(x)' <=> CanGoOn(x)
      BY <3>1, <3>3, <3>4, <3>5 DEF CanGoOn
    <3>8. \A x \in Threads : (pc'[x] = "take" \/ TO_PROCESS \in flags'[x]) =>
            TO_PROCESS \in flags[x]
      BY <3>3, <3>4, <3>5, <3>6
    <3>. QED
      BY <3>1, <3>7, <3>8, ReadySame
  <2>2. ASSUME InTurn(t), ~CanGoOn(t), pc'[t] = "handle",
               TO_PROCESS \notin flags'[t], current' = t, ready' = ready,
               \A x \in Threads \ {t} :
                  /\ pc'[x] = pc[x] /\ flags'[x] = flags[x]
                  /\ evq'[x] = evq[x] /\ awaits'[x] = awaits[x]
        PROVE  ReadyInv'
    <3>1. ~CanGoOn(t)'
      BY <2>2 DEF CanGoOn
    <3>2. \A x \in Threads \ {t} : pc[x] \notin Active /\ flags[x] = {}
      BY <2>2 DEF TurnInv, InTurn
    <3>3. \A x \in Threads \ {t} : pc[x] \in Waiting /\ pc[x] # "take"
      BY <3>2 DEF Types, Active
    <3>4. ASSUME NEW x \in Threads \ {t} PROVE CanGoOn(x)' <=> CanGoOn(x)
      <4>1. CASE current = x
        BY <2>2, <3>3, <4>1, OldCurrent DEF CanGoOn
      <4>2. CASE current # x
        BY <2>2, <4>2 DEF CanGoOn
      <4>. QED
        BY <4>1, <4>2
    <3>5. \A x \in Threads : CanGoOn(x) => awaits'[x] = awaits[x]
      BY <2>2
    <3>6. \A x \in Threads : pc'[x] # "take" /\ TO_PROCESS \notin flags'[x]
      BY <2>2, <3>2, <3>3
    <3>. QED
      BY <2>2, <3>1, <3>4, <3>5, <3>6, ReadySame
  <2>3. CASE TakeEvent(t)
    <3>1. /\ pc[t] = "take" /\ current' = t /\ Goto(t, "handle")
          /\ evq' = [evq EXCEPT ![t] = Tail(@)]
          /\ UNCHANGED <<ready, flags, awaits>>
      BY <2>3 DEF TakeEvent
    <3>2. pc[t] \in Active /\ pc[t] \notin Waiting
      BY <3>1, Places DEF Active
    <3>3. InTurn(t) /\ flags[t] = {} /\ ~CanGoOn(t)
      BY <3>1, <3>2, Alone DEF InTurn, CanGoOn
    <3>4. /\ pc'[t] = "handle" /\ \A x \in Threads \ {t} : pc'[x] = pc[x]
          /\ evq'[t] = Tail(evq[t])
          /\ \A x \in Threads \ {t} : evq'[x] = evq[x]
      BY <3>1 DEF Goto, Types
    <3>. QED
      BY <2>2, <3>1, <3>2, <3>3, <3>4
  <2>4. CASE HandlerReturns(t)
    <3>1. PICK e : e = handling[t]
      OBVIOUS
    <3>2. PICK r : r = Response(e)
      OBVIOUS
    <3>3. /\ pc[t] = "handle" /\ Goto(t, "finish")
          /\ UNCHANGED <<flags, current, awaits>>
          /\ UNCHANGED <<ready, evq>> \/ Enqueue(ThreadOf(r.tgt), r)
      BY <2>4, <3>1, <3>2 DEF HandlerReturns
    <3>4. CASE UNCHANGED <<ready, evq>>
      BY <1>1, <1>3, <3>3, <3>4
    <3>5. CASE Enqueue(ThreadOf(r.tgt), r)
      <4>1. e \in Event
        BY <3>1, <3>3 DEF PlaceInv, PlaceOf, Types
      <4>2. r \in Event
        BY <3>2, <4>1, ResponseType
      <4>3. ThreadOf(r.tgt) \in Threads
        BY <4>2, ThreadKnown DEF Event
      <4>4. "finish" \in Active \ {"take"}
        BY DEF Active
      <4>. QED
        BY <3>3, <3>5, <4>2, <4>3, <4>4, ReadyPut DEF Goto
    <3>. QED
      BY <3>3, <3>4, <3>5
  <2>5. CASE Finish(t)
    <3>1. /\ pc[t] = "finish" /\ Goto(t, "launch") /\ current' = None
          /\ ready' = IF evq[t] = <<>> THEN ready ELSE Append(ready, t)
          /\ UNCHANGED <<evq, flags, awaits>>
      BY <2>5 DEF Finish
    <3>2. current = t /\ awaits[t] = None
      BY <3>1 DEF PlaceInv, PlaceOf
    <3>3. pc[t] \in Active
      BY <3>1 DEF Active
    <3>4. \A x \in Threads : pc[x] # "take" /\ flags[x] = {}
      BY <3>1, <3>3, Rest
    <3>5. \A x \in Threads : pc'[x] = "take" <=> pc[x] = "take"
      BY <1>3, <3>1
    <3>6. \A x \in Threads : pc'[x] # "take" /\ flags'[x] = {}
                             /\ TO_PROCESS \notin flags'[x]
      BY <3>1, <3>4, <3>5
    <3>7. \A x \in Threads \ {t} : CanGoOn(x)' <=> CanGoOn(x)
      BY <3>1, <3>2, <3>4, <3>6, MultiThreadAssumption DEF CanGoOn
    <3>8. ~CanGoOn(t)
      BY <3>2 DEF CanGoOn
    <3>9. CASE evq[t] = <<>>
      <4>1. ~CanGoOn(t)'
        BY <3>1, <3>9 DEF CanGoOn
      <4>. QED
        BY <3>1, <3>6, <3>7, <3>8, <3>9, <4>1, ReadySame
    <3>10. CASE evq[t] # <<>>
      <4>1. CanGoOn(t)'
        BY <3>1, <3>2, <3>6, <3>10, MultiThreadAssumption DEF CanGoOn
      <4>. QED
        BY <3>1, <3>2, <3>6, <3>7, <3>8, <3>10, <4>1, ReadyJoined
    <3>. QED
      BY <3>9, <3>10
  <2>6. CASE LaunchNext(t)
    <3>1. /\ pc[t] = "launch" /\ UNCHANGED <<current, handling>>
      BY <2>6 DEF LaunchNext
    <3>2. pc[t] \in Active
      BY <3>1 DEF Active
    <3>3. \A x \in Threads : flags[x] = {} /\ pc[x] # "take"
      BY <3>1, <3>2, Rest
    <3>4. CASE ready = <<>> /\ t = Common
      <4>1. Goto(t, "isrcheck") /\ UNCHANGED <<flags, ready, awaits, evq>>
        BY <2>6, <3>4 DEF LaunchNext
      <4>. QED
        BY <1>1, <1>3, <3>1, <4>1
    <3>5. CASE ready = <<>> /\ t # Common
      <4>1. /\ Goto(t, "wait") /\ UNCHANGED <<ready, awaits, evq>>
            /\ flags' = [flags EXCEPT ![Common] = @ \cup {NO_READY}]
        BY <2>6, <3>5 DEF LaunchNext, Raise
      <4>2. \A x \in Threads : pc'[x] # "take"
        BY <1>3, <3>1, <3>3, <4>1
      <4>3. /\ flags'[Common] = {NO_READY}
            /\ \A x \in Threads \ {Common} : flags'[x] = {}
        BY <3>3, <4>1, Places DEF Types
      <4>4. NoWaiterLeft'
        BY <4>2, <4>3, Places DEF NoWaiterLeft
      <4>5. ToSet(ready) = {}
        BY <3>5 DEF ToSet
      <4>6. \A x \in Threads : ~CanGoOn(x)
        BY <4>5 DEF ReadyInv, ReadyOnce
      <4>7. \A x \in Threads : ~CanGoOn(x)'
        BY <3>1, <3>3, <4>1, <4>2, <4>3, <4>6 DEF CanGoOn
      <4>8. ReadyOnce'
        BY <4>1, <4>6, <4>7 DEF ReadyInv, ReadyOnce
      <4>9. WaitersFirst'
        BY <4>1 DEF ReadyInv, WaitersFirst
      <4>. QED
        BY <4>4, <4>8, <4>9 DEF ReadyInv
    <3>6. CASE ready # <<>> /\ Head(ready) = t
      <4>1. /\ Goto(t, "take") /\ ready' = Tail(ready)
            /\ UNCHANGED <<flags, awaits, evq>>
        BY <2>6, <3>6 DEF LaunchNext
      <4>2. pc'[t] = "take" /\ \A x \in Threads \ {t} : pc'[x] = pc[x]
        BY <4>1 DEF Goto, Types
      <4>3. ~CanGoOn(t)'
        BY <4>2 DEF CanGoOn
      <4>4. \A x \in Threads \ {t} : CanGoOn(x)' <=> CanGoOn(x)
        BY <3>1, <4>1, <4>2 DEF CanGoOn
      <4>5. awaits[t] = None
        BY <3>1 DEF PlaceInv, PlaceOf
      <4>. QED
        BY <3>6, <4>1, <4>3, <4>4, <4>5, ReadyTail
    <3>7. CASE ready # <<>> /\ Head(ready) # t
      <4>1. /\ Goto(t, "wait") /\ ready' = Tail(ready) /\ Signal(Head(ready))
        BY <2>6, <3>7 DEF LaunchNext
      <4>2. pc'[t] # "take" /\ \A x \in Threads \ {t} : pc'[x] = pc[x]
        BY <4>1 DEF Goto, Types
      <4>. QED
        BY <3>1, <3>2, <3>7, <4>1, <4>2, ReadyTold
    <3>. QED
      BY <3>4, <3>5, <3>6, <3>7
  <2>7. CASE LaunchAndWait(t)
    <3>1. /\ pc[t] = "call" /\ UNCHANGED <<current, handling>>
          /\ Goto(t, "blocked") /\ pc[t] # "take"
      BY <2>7 DEF LaunchAndWait
    <3>2. pc[t] \in Active /\ current = t
      BY <3>1 DEF Active, PlaceInv, PlaceOf
    <3>3. CASE ready = <<>>
      <4>1. UNCHANGED <<flags, ready, awaits, evq>>
        BY <2>7, <3>3 DEF LaunchAndWait
      <4>. QED
        BY <1>1, <1>3, <3>1, <4>1
    <3>4. CASE ready # <<>>
      <4>1. ready' = Tail(ready) /\ Signal(Head(ready))
        BY <2>7, <3>4 DEF LaunchAndWait
      <4>2. Head(ready) # t
        BY <3>2, <3>4, FirstReady DEF ReadyInv, CanGoOn
      <4>3. pc'[t] # "take" /\ \A x \in Threads \ {t} : pc'[x] = pc[x]
        BY <3>1 DEF Goto, Types
      <4>. QED
        BY <3>1, <3>2, <3>4, <4>1, <4>2, <4>3, ReadyTold
    <3>. QED
      BY <3>3, <3>4
  <2>8. CASE Resume(t)
    <3>1. /\ pc[t] = "blocked" /\ PROCESSED \in flags[t]
          /\ flags' = [flags EXCEPT ![t] = @ \ {PROCESSED}]
          /\ awaits' = [awaits EXCEPT ![t] = None]
          /\ current' = t /\ Goto(t, "handle") /\ UNCHANGED <<ready, evq>>
      BY <2>8 DEF Resume
    <3>2. InTurn(t) /\ flags[t] # {} /\ ~CanGoOn(t)
      BY <3>1 DEF InTurn, CanGoOn
    <3>3. flags'[t] = {}
      BY <3>1 DEF TurnInv, Types
    <3>4. /\ pc'[t] = "handle"
          /\ \A x \in Threads \ {t} : /\ pc'[x] = pc[x] /\ flags'[x] = flags[x]
                                      /\ awaits'[x] = awaits[x]
      BY <3>1 DEF Goto, Types
    <3>. QED
      BY <2>2, <3>1, <3>2, <3>3, <3>4
  <2>. QED
    BY <1>9, <2>1, <2>3, <2>4, <2>5, <2>6, <2>7, <2>8 DEF RunStep
<1>10. ASSUME UNCHANGED <<pc, flags, current, awaits>>,
              NEW r \in Threads, pc[r] \in {"boot", "handle"},
              NEW e \in Event, NEW t, t = ThreadOf(e.tgt), Enqueue(t, e)
       PROVE  ReadyInv'
  <2>1. t \in Threads
    BY <1>10, ThreadKnown DEF Event
  <2>2. "handle" \in Active \ {"take"}
    BY DEF Active
  <2>. QED
    BY <1>10, <2>1, <2>2, ReadyPut
<1>11. \A w \in usage.flags : w \in BOOLEAN
  BY MultiThreadAssumption DEF Types
<1>12. \A s \in Sources : s \in Entities
  BY DEF Sources, Types, Event
<1>13. CASE PutRequest
  <2>1. PICK src \in Sources, tgt \in Entities, want \in usage.flags :
          /\ MayPut
          /\ Enqueue(ThreadOf(tgt), NewEvent(src, tgt, want))
          /\ UNCHANGED <<pc, flags, current, awaits>>
    BY <1>13 DEF PutRequest
  <2>2. PICK e : e = NewEvent(src, tgt, want)
    OBVIOUS
  <2>3. e \in Event /\ e.tgt = tgt
    BY <1>11, <1>12, <2>2, NewType DEF NewEvent
  <2>4. PICK r \in Threads : pc[r] \in {"boot", "handle"}
    BY <2>1 DEF MayPut
  <2>. QED
    BY <1>10, <2>1, <2>2, <2>3, <2>4
<1>14. CASE PutDelayed
  <2>1. PICK r \in Threads, e \in Entities, cookie \in 0..cookies :
          \E d \in GetDelayedResponse(e, cookie) :
             /\ pc[r] = "handle" /\ Enqueue(ThreadOf(d.tgt), d)
             /\ UNCHANGED <<pc, flags, current, awaits>>
    BY <1>14 DEF PutDelayed
  <2>2. PICK d \in GetDelayedResponse(e, cookie) :
             /\ pc[r] = "handle" /\ Enqueue(ThreadOf(d.tgt), d)
             /\ UNCHANGED <<pc, flags, current, awaits>>
    BY <2>1
  <2>3. d \in Event
    BY <2>2 DEF GetDelayedResponse, Types
  <2>. QED
    BY <1>10, <2>2, <2>3
<1>15. ASSUME NEW t \in Threads, PutEventAndWait(t) PROVE ReadyInv'
  <2>1. PICK tgt \in Entities :
          /\ pc[t] = "handle" /\ ThreadOf(tgt) # current
          /\ Enqueue(ThreadOf(tgt), NewEvent(currentEvent.tgt, tgt, TRUE))
          /\ \E a : awaits' = [awaits EXCEPT ![t] = a]
          /\ Goto(t, "call") /\ UNCHANGED <<flags, current>>
    BY <1>15 DEF PutEventAndWait
  <2>2. current = t /\ currentEvent \in Event
    BY <2>1 DEF PlaceInv, PlaceOf, Types
  <2>3. PICK e : e = NewEvent(currentEvent.tgt, tgt, TRUE)
    OBVIOUS
  <2>4. e \in Event
    BY <2>2, <2>3, NewType DEF Event
  <2>5. PICK to : to = ThreadOf(tgt)
    OBVIOUS
  <2>6. to \in Threads /\ to # t
    BY <2>1, <2>2, <2>5, ThreadKnown
  <2>7. /\ \A x \in Threads \ {t} : awaits'[x] = awaits[x]
        /\ "call" \in Active \ {"take"}
    BY <2>1 DEF Types, Active
  <2>. QED
    BY <2>1, <2>2, <2>3, <2>4, <2>5, <2>6, <2>7, ReadyPut DEF Goto
<1>16. CASE IsrPutRequest
  BY <1>11, <1>16, NewType, ReadyOfIsr DEF IsrPutRequest
<1>17. CASE IsrPutResponse
  <2>1. \A d \in UNION {delayed[e] : e \in Entities} : d \in Event
    BY DEF Types
  <2>. QED
    BY <1>17, <2>1, ReadyOfIsr DEF IsrPutResponse
<1>. QED
  BY <1>2, <1>4, <1>5, <1>6, <1>7, <1>8, <1>9, <1>13, <1>14, <1>15, <1>16,
     <1>17 DEF Next, ThreadStep, ModuleStep

(***************************************************************************)
(* Homes: an event is handled by the thread of the entity it is for.       *)
(***************************************************************************)
Later == /\ pc[Common] # "boot" => pc'[Common] # "boot"
         /\ owners' = owners \/ pc[Common] = "boot"

LEMMA HomeKept ==
  ASSUME Types, HomeInv, Later, NEW n, NEW m, HomeOK(m, n)',
         \A x \in Threads : \A i \in DOMAIN evq'[x] :
            \/ x = n /\ evq'[x][i] = m
            \/ \E j \in DOMAIN evq[x] : evq'[x][i] = evq[x][j],
         \A x \in Threads : \/ handling'[x] \in {handling[x], None}
                            \/ \E j \in DOMAIN evq[x] : handling'[x] = evq[x][j]
  PROVE  HomeInv'
<1>1. ASSUME NEW e, NEW x, HomeOK(e, x) PROVE HomeOK(e, x)'
  <2>1. CASE e.early
    BY <2>1 DEF HomeOK
  <2>2. CASE ~e.early
    <3>1. pc[Common] # "boot" /\ x = ThreadOf(e.tgt)
      BY <1>1, <2>2 DEF HomeOK
    <3>2. pc'[Common] # "boot" /\ owners' = owners
      BY <3>1 DEF Later
    <3>3. ThreadOf(e.tgt)' = ThreadOf(e.tgt)
      BY <3>2 DEF ThreadOf
    <3>. QED
      BY <3>1, <3>2, <3>3 DEF HomeOK
  <2>. QED
    BY <2>1, <2>2
<1>2. ASSUME NEW x \in Threads, NEW i \in DOMAIN evq'[x],
             NEW e, e = evq'[x][i]
      PROVE  HomeOK(e, x)'
  <2>1. CASE x = n /\ e = m
    BY <2>1
  <2>2. CASE \E j \in DOMAIN evq[x] : e = evq[x][j]
    BY <1>1, <2>2 DEF HomeInv
  <2>. QED
    BY <1>2, <2>1, <2>2
<1>3. ASSUME NEW x \in Threads, NEW e, e = handling'[x], e # None
      PROVE  HomeOK(e, x)'
  BY <1>1, <1>3 DEF HomeInv
<1>4. \A x \in Threads : /\ \A i \in DOMAIN evq'[x] : HomeOK(evq[x][i], x)'
                         /\ handling'[x] # None => HomeOK(handling[x], x)'
  BY <1>2, <1>3 DEF HomeOK, ThreadOf
<1>. QED
  BY <1>4 DEF HomeInv

(* An event is put in the queue of the thread of the entity it is for.     *)
LEMMA HomePut ==
  ASSUME Types, HomeInv, Later, owners' = owners, handling' = handling,
         NEW t \in Threads, NEW e \in Event, Queues(t, e),
         t = ThreadOf(e.tgt), ~e.early => pc[Common] # "boot"
  PROVE  HomeInv'
<1>1. PICK s : s = Stamped(t, e)
  OBVIOUS
<1>2. s.early = e.early /\ s.tgt = e.tgt
  BY <1>1, StampedType
<1>3. PICK g : g = e.tgt
  OBVIOUS
<1>4. ThreadOf(g)' = ThreadOf(g)
  BY DEF ThreadOf
<1>5. HomeOK(s, t)'
  BY <1>2, <1>3, <1>4 DEF HomeOK, Later
<1>. QED
  BY <1>1, <1>5, QueuesMembers, HomeKept

(* Nothing is put.                                                         *)
LEMMA HomeTaken ==
  ASSUME Types, HomeInv, Later, NEW t \in Threads,
         evq' = evq \/ (evq[t] # <<>> /\ evq' = [evq EXCEPT ![t] = Tail(@)]),
         \A x \in Threads : \/ handling'[x] \in {handling[x], None}
                            \/ \E j \in DOMAIN evq[x] : handling'[x] = evq[x][j]
  PROVE  HomeInv'
<1>1. PICK m : m = [early |-> TRUE]
  OBVIOUS
<1>2. HomeOK(m, t)'
  BY <1>1 DEF HomeOK
<1>3. \A x \in Threads : \A i \in DOMAIN evq'[x] :
        \E j \in DOMAIN evq[x] : evq'[x][i] = evq[x][j]
  <2>1. CASE evq' = evq
    BY <2>1
  <2>2. CASE evq[t] # <<>> /\ evq' = [evq EXCEPT ![t] = Tail(@)]
    BY <2>2, TailMembers
  <2>. QED
    BY <2>1, <2>2
<1>. QED
  BY <1>2, <1>3, HomeKept

(* Every step keeps the events where they belong.                          *)
LEMMA HomeStep ==
  ASSUME Types, TurnInv, PlaceInv, EventInv, AwaitInv, ReadyInv, HomeInv,
         [Next]_vars
  PROVE  HomeInv'
<1>. USE DEF isrVars, osVars, contextVars, queueVars, fixed
<1>1. ASSUME UNCHANGED <<evq, handling>>, Later PROVE HomeInv'
  BY <1>1, HomeTaken, Places
<1>2. SUFFICES ASSUME Next PROVE HomeInv'
  BY <1>1 DEF vars, Later
<1>3. ASSUME NEW t \in Threads, NEW p, p # "boot", Goto(t, p), owners' = owners
      PROVE  Later
  BY <1>3, Places DEF Later, Goto, Types
<1>4. ASSUME NEW e \in Entities, CreateThread(e) PROVE HomeInv'
  BY <1>1, <1>4 DEF CreateThread, Later
<1>5. CASE Start
  BY <1>1, <1>3, <1>5, Places DEF Start
<1>6. CASE IsrWait
  BY <1>1, <1>3, <1>6, Places DEF IsrWait
<1>7. CASE IsrWake
  BY <1>1, <1>3, <1>7, Places DEF IsrWake
<1>8. CASE IsrDispatch
  <2>1. PICK e : e = Head(isrQueue)
    OBVIOUS
  <2>2. e \in Event
    BY <1>8, <2>1 DEF IsrDispatch, Types
  <2>3. PICK t : t = ThreadOf(e.tgt)
    OBVIOUS
  <2>4. t \in Threads
    BY <2>2, <2>3, ThreadKnown DEF Event
  <2>5. /\ Queues(t, e) /\ UNCHANGED <<handling, owners>>
        /\ pc[Common] = "isrcheck"
        /\ Goto(Common, "launch") \/ Goto(Common, "isrcheck")
    BY <1>8, <2>1, <2>3 DEF IsrDispatch, Queues
  <2>6. Later
    BY <1>3, <2>5, Places
  <2>. QED
    BY <2>2, <2>3, <2>4, <2>5, <2>6, HomePut
<1>9. ASSUME NEW t \in Threads, RunStep(t) PROVE HomeInv'
  <2>1. CASE Wake(t)
    <3>1. UNCHANGED <<evq, handling, owners>>
      BY <2>1 DEF Wake
    <3>2. Goto(t, "take") \/ Goto(t, "isrcheck")
      BY <2>1, WakeEffect DEF Goto
    <3>. QED
      BY <1>1, <1>3, <3>1, <3>2
  <2>2. CASE TakeEvent(t)
    <3>1. /\ evq[t] # <<>> /\ evq' = [evq EXCEPT ![t] = Tail(@)]
          /\ handling' = [handling EXCEPT ![t] = Head(evq[t])]
          /\ Goto(t, "handle") /\ UNCHANGED owners
      BY <2>2 DEF TakeEvent, PlaceInv, PlaceOf
    <3>2. \E j \in DOMAIN evq[t] : handling'[t] = evq[t][j]
      BY <3>1, FirstQueued DEF Types
    <3>3. \A x \in Threads \ {t} : handling'[x] = handling[x]
      BY <3>1 DEF Types
    <3>4. Later
      BY <1>3, <3>1
    <3>. QED
      BY <3>1, <3>2, <3>3, <3>4, HomeTaken
  <2>3. CASE HandlerReturns(t)
    <3>1. PICK e : e = handling[t]
      OBVIOUS
    <3>2. e \in Event /\ pc[Common] # "boot"
      BY <2>3, <3>1 DEF HandlerReturns, PlaceInv, PlaceOf, CommonPlace, Types
    <3>3. PICK r : r = Response(e)
      OBVIOUS
    <3>4. r \in Event
      BY <3>2, <3>3, ResponseType
    <3>5. /\ UNCHANGED <<handling, owners>> /\ Goto(t, "finish")
          /\ evq' = evq \/ Enqueue(ThreadOf(r.tgt), r)
      BY <2>3, <3>1, <3>3 DEF HandlerReturns
    <3>6. Later
      BY <1>3, <3>5
    <3>7. CASE evq' = evq
      BY <1>1, <3>5, <3>6, <3>7
    <3>8. CASE Enqueue(ThreadOf(r.tgt), r)
      <4>1. PICK to : to = ThreadOf(r.tgt)
        OBVIOUS
      <4>2. to \in Threads
        BY <3>4, <4>1, ThreadKnown DEF Event
      <4>3. Queues(to, r)
        BY <3>4, <3>8, <4>1, <4>2, EnqueueQueues
      <4>. QED
        BY <3>2, <3>4, <3>5, <3>6, <4>1, <4>2, <4>3, HomePut
    <3>. QED
      BY <3>5, <3>7, <3>8
  <2>4. CASE Finish(t)
    <3>1. /\ UNCHANGED <<evq, owners>> /\ Goto(t, "launch")
          /\ handling' = [handling EXCEPT ![t] = None]
      BY <2>4 DEF Finish
    <3>2. \A x \in Threads : handling'[x] \in {handling[x], None}
      BY <3>1 DEF Types
    <3>3. Later
      BY <1>3, <3>1
    <3>. QED
      BY <3>1, <3>2, <3>3, HomeTaken
  <2>5. CASE LaunchNext(t)
    <3>1. UNCHANGED <<handling, owners>>
      BY <2>5 DEF LaunchNext
    <3>2. Later
      <4>1. Goto(t, "isrcheck") \/ Goto(t, "wait") \/ Goto(t, "take")
        BY <2>5 DEF LaunchNext
      <4>. QED
        BY <1>3, <3>1, <4>1
    <3>3. CASE ready = <<>> \/ Head(ready) = t
      BY <1>1, <2>5, <3>1, <3>2, <3>3 DEF LaunchNext
    <3>4. CASE ready # <<>> /\ Head(ready) # t
      BY <2>5, <3>1, <3>2, <3>4, Launches, SignalTail, HomeTaken DEF LaunchNext
    <3>. QED
      BY <3>3, <3>4
  <2>6. CASE LaunchAndWait(t)
    <3>1. UNCHANGED <<handling, owners>>
      BY <2>6 DEF LaunchAndWait
    <3>2. Later
      BY <1>3, <2>6, <3>1 DEF LaunchAndWait
    <3>3. CASE ready = <<>>
      BY <1>1, <2>6, <3>1, <3>2, <3>3 DEF LaunchAndWait
    <3>4. CASE ready # <<>>
      BY <2>6, <3>1, <3>2, <3>4, Launches, SignalTail, HomeTaken
         DEF LaunchAndWait
    <3>. QED
      BY <3>3, <3>4
  <2>7. CASE Resume(t)
    BY <1>1, <1>3, <2>7 DEF Resume
  <2>. QED
    BY <1>9, <2>1, <2>2, <2>3, <2>4, <2>5, <2>6, <2>7 DEF RunStep
<1>10. ASSUME UNCHANGED <<handling, owners>>, Later, NEW e \in Event, NEW t,
              t = ThreadOf(e.tgt), Enqueue(t, e),
              ~e.early => pc[Common] # "boot"
       PROVE  HomeInv'
  <2>1. t \in Threads
    BY <1>10, ThreadKnown DEF Event
  <2>2. Queues(t, e)
    BY <1>10, <2>1, EnqueueQueues
  <2>. QED
    BY <1>10, <2>1, <2>2, HomePut
<1>11. \A w \in usage.flags : w \in BOOLEAN
  BY MultiThreadAssumption DEF Types
<1>12. CASE PutRequest
  <2>1. PICK src \in Sources, tgt \in Entities, want \in usage.flags :
          /\ Enqueue(ThreadOf(tgt), NewEvent(src, tgt, want))
          /\ UNCHANGED <<pc, owners, handling>>
    BY <1>12 DEF PutRequest
  <2>2. PICK e : e = NewEvent(src, tgt, want)
    OBVIOUS
  <2>3. Sources \subseteq Entities
    BY DEF Sources, Types, Event
  <2>4. e \in Event /\ e.tgt = tgt /\ (~e.early => pc[Common] # "boot")
    BY <1>11, <2>2, <2>3, NewType DEF NewEvent
  <2>. QED
    BY <1>10, <2>1, <2>2, <2>4 DEF Later
<1>13. CASE PutDelayed
  <2>1. PICK r \in Threads, e \in Entities, cookie \in 0..cookies :
          \E d \in GetDelayedResponse(e, cookie) :
             /\ pc[r] = "handle" /\ Enqueue(ThreadOf(d.tgt), d)
             /\ UNCHANGED <<pc, owners, handling>>
    BY <1>13 DEF PutDelayed
  <2>2. PICK d \in GetDelayedResponse(e, cookie) :
             /\ pc[r] = "handle" /\ Enqueue(ThreadOf(d.tgt), d)
             /\ UNCHANGED <<pc, owners, handling>>
    BY <2>1
  <2>3. d \in Event
    BY <2>2 DEF GetDelayedResponse, Types
  <2>4. pc[Common] # "boot"
    BY <2>2 DEF PlaceInv, CommonPlace
  <2>. QED
    BY <1>10, <2>2, <2>3, <2>4 DEF Later
<1>14. ASSUME NEW t \in Threads, PutEventAndWait(t) PROVE HomeInv'
  <2>1. PICK tgt \in Entities :
          /\ pc[t] = "handle"
          /\ Enqueue(ThreadOf(tgt), NewEvent(currentEvent.tgt, tgt, TRUE))
          /\ Goto(t, "call") /\ UNCHANGED <<owners, handling>>
    BY <1>14 DEF PutEventAndWait
  <2>2. currentEvent \in Event
    BY <2>1 DEF PlaceInv, PlaceOf, Types
  <2>3. PICK e : e = NewEvent(currentEvent.tgt, tgt, TRUE)
    OBVIOUS
  <2>4. e \in Event /\ e.tgt = tgt /\ (~e.early => pc[Common] # "boot")
    BY <2>2, <2>3, NewType DEF NewEvent, Event
  <2>5. Later
    BY <1>3, <2>1
  <2>. QED
    BY <1>10, <2>1, <2>3, <2>4, <2>5
<1>15. CASE IsrPutRequest
  BY <1>1, <1>15 DEF IsrPutRequest, Later
<1>16. CASE IsrPutResponse
  BY <1>1, <1>16 DEF IsrPutResponse, Later
<1>. QED
  BY <1>2, <1>4, <1>5, <1>6, <1>7, <1>8, <1>9, <1>12, <1>13, <1>14, <1>15,
     <1>16 DEF Next, ThreadStep, ModuleStep

(***************************************************************************)
(* The pool: a structure is held in one place at a time.                   *)
(***************************************************************************)
PoolInv == IsFiniteSet(Held) /\ free + Cardinality(Held) = usage.events

LEMMA PoolAdd ==
  ASSUME Types, PoolInv, NEW p, p \notin Held, Held' = Held \cup {p},
         free' = free - 1, usage' = usage
  PROVE  PoolInv'
<1>1. /\ IsFiniteSet(Held \cup {p})
      /\ Cardinality(Held \cup {p}) = Cardinality(Held) + 1
  BY FS_AddElement DEF PoolInv
<1>2. Cardinality(Held) \in Nat
  BY FS_CardinalityType DEF PoolInv
<1>3. /\ free \in Nat
      /\ free + Cardinality(Held) = (free - 1) + (Cardinality(Held) + 1)
  BY <1>2 DEF Types
<1>. QED
  BY <1>1, <1>3 DEF PoolInv

LEMMA PoolRemove ==
  ASSUME Types, PoolInv, NEW p, p \in Held, Held' = Held \ {p},
         free' = free + 1, usage' = usage
  PROVE  PoolInv'
<1>1. /\ IsFiniteSet(Held \ {p})
      /\ Cardinality(Held \ {p}) = Cardinality(Held) - 1
  BY FS_RemoveElement DEF PoolInv
<1>2. Cardinality(Held) \in Nat
  BY FS_CardinalityType DEF PoolInv
<1>3. free + Cardinality(Held) = (free + 1) + (Cardinality(Held) - 1)
  BY <1>2 DEF Types
<1>. QED
  BY <1>1, <1>3 DEF PoolInv

LEMMA PoolMove ==
  ASSUME Types, PoolInv, NEW p, NEW q, p \in Held, q \notin Held,
         Held' = (Held \ {p}) \cup {q}, free' = free, usage' = usage
  PROVE  PoolInv'
<1>1. /\ IsFiniteSet(Held \ {p})
      /\ Cardinality(Held \ {p}) = Cardinality(Held) - 1
  BY FS_RemoveElement DEF PoolInv
<1>2. /\ IsFiniteSet((Held \ {p}) \cup {q})
      /\ Cardinality((Held \ {p}) \cup {q}) = Cardinality(Held \ {p}) + 1
  BY <1>1, FS_AddElement
<1>3. Cardinality(Held) \in Nat
  BY FS_CardinalityType DEF PoolInv
<1>4. (Cardinality(Held) - 1) + 1 = Cardinality(Held)
  BY <1>3
<1>. QED
  BY <1>1, <1>2, <1>4 DEF PoolInv

LEMMA PoolSame ==
  ASSUME PoolInv, Held' = Held, free' = free, usage' = usage
  PROVE  PoolInv'
BY DEF PoolInv

(* Places of the four kinds.                                               *)
LEMMA IsrPlace ==
  \A p : p \in IsrPlaces <=> \E i \in DOMAIN isrQueue : p = <<"isr", 0, i>>
BY DEF IsrPlaces

LEMMA QueuedPlace ==
  \A p : p \in QueuedPlaces <=>
    \E t \in Threads : \E i \in DOMAIN evq[t] : p = <<"queued", t, i>>
BY DEF QueuedPlaces

LEMMA StoredPlace ==
  \A p : p \in StoredPlaces <=>
    \E e \in Entities : \E d \in delayed[e] : p = <<"stored", e, d>>
BY DEF StoredPlaces

LEMMA HandledPlace ==
  \A p : p \in HandledPlaces <=>
    \E t \in Threads : handling[t] # None /\ p = <<"handled", t, 0>>
BY DEF HandledPlaces

LEMMA Apart ==
  /\ \A p \in IsrPlaces : p[1] = "isr"
  /\ \A p \in QueuedPlaces : p[1] = "queued"
  /\ \A p \in StoredPlaces : p[1] = "stored"
  /\ \A p \in HandledPlaces : p[1] = "handled"
  /\ "isr" # "queued" /\ "isr" # "stored" /\ "isr" # "handled"
  /\ "queued" # "stored" /\ "queued" # "handled" /\ "stored" # "handled"
<1>1. \A p \in IsrPlaces : p[1] = "isr"
  BY IsrPlace
<1>2. \A p \in QueuedPlaces : p[1] = "queued"
  BY QueuedPlace
<1>3. \A p \in StoredPlaces : p[1] = "stored"
  BY StoredPlace
<1>4. \A p \in HandledPlaces : p[1] = "handled"
  BY HandledPlace
<1>. QED
  BY <1>1, <1>2, <1>3, <1>4

(* A place that is filled was free; the others of its kind stay.           *)
LEMMA IsrFilled ==
  ASSUME Types, NEW e \in Event, isrQueue' = Append(isrQueue, e),
         NEW p, p = <<"isr", 0, Len(isrQueue) + 1>>
  PROVE  /\ p \notin IsrPlaces /\ p[1] = "isr"
         /\ IsrPlaces' = IsrPlaces \cup {p}
<1>1. /\ isrQueue \in Seq(Event) /\ Len(isrQueue) + 1 \notin DOMAIN isrQueue
      /\ \A i : i \in DOMAIN isrQueue' <=>
           i \in DOMAIN isrQueue \/ i = Len(isrQueue) + 1
  BY DEF Types
<1>2. p \notin IsrPlaces
  BY <1>1, IsrPlace
<1>3. \A q : q \in IsrPlaces' <=>
        \E i \in DOMAIN isrQueue' : q = <<"isr", 0, i>>
  BY DEF IsrPlaces
<1>4. \A q : q \in IsrPlaces' <=> q \in IsrPlaces \cup {p}
  BY <1>1, <1>3, IsrPlace
<1>. QED
  BY <1>2, <1>4

LEMMA IsrEmptied ==
  ASSUME Types, isrQueue # <<>>, isrQueue' = Tail(isrQueue),
         NEW p, p = <<"isr", 0, Len(isrQueue)>>
  PROVE  p \in IsrPlaces /\ IsrPlaces' = IsrPlaces \ {p}
<1>1. isrQueue \in Seq(Event)
  BY DEF Types
<1>2. /\ Len(isrQueue) \in DOMAIN isrQueue
      /\ \A i : i \in DOMAIN isrQueue' <=>
           i \in DOMAIN isrQueue /\ i # Len(isrQueue)
  BY <1>1
<1>3. p \in IsrPlaces
  BY <1>2, IsrPlace
<1>4. \A q : q \in IsrPlaces' <=>
        \E i \in DOMAIN isrQueue' : q = <<"isr", 0, i>>
  BY DEF IsrPlaces
<1>5. \A q : q \in IsrPlaces' <=> q \in IsrPlaces \ {p}
  BY <1>2, <1>4, IsrPlace
<1>. QED
  BY <1>3, <1>5

LEMMA QueuedFilled ==
  ASSUME Types, NEW t \in Threads, NEW e \in Event, Queues(t, e),
         NEW p, p = <<"queued", t, Len(evq[t]) + 1>>
  PROVE  /\ p \notin QueuedPlaces /\ p[1] = "queued"
         /\ QueuedPlaces' = QueuedPlaces \cup {p}
<1>1. /\ evq[t] \in Seq(Event) /\ evq'[t] \in Seq(Event)
      /\ Len(evq'[t]) = Len(evq[t]) + 1
      /\ \A x \in Threads \ {t} : evq'[x] = evq[x]
  BY QueuesEffect DEF Types
<1>2. /\ Len(evq[t]) + 1 \notin DOMAIN evq[t]
      /\ \A i : i \in DOMAIN evq'[t] <=>
           i \in DOMAIN evq[t] \/ i = Len(evq[t]) + 1
  BY <1>1
<1>3. p \notin QueuedPlaces
  BY <1>2, QueuedPlace
<1>4. \A q : q \in QueuedPlaces' <=>
        \E x \in Threads : \E i \in DOMAIN evq'[x] : q = <<"queued", x, i>>
  BY DEF QueuedPlaces
<1>5. ASSUME NEW q \in QueuedPlaces' PROVE q \in QueuedPlaces \cup {p}
  <2>1. PICK x, i : /\ x \in Threads /\ i \in DOMAIN evq'[x]
                   /\ q = <<"queued", x, i>>
    BY <1>4
  <2>. QED
    BY <1>1, <1>2, <2>1, QueuedPlace
<1>6. ASSUME NEW q \in QueuedPlaces PROVE q \in QueuedPlaces'
  <2>1. PICK x, i : /\ x \in Threads /\ i \in DOMAIN evq[x]
                   /\ q = <<"queued", x, i>>
    BY QueuedPlace
  <2>. QED
    BY <1>1, <1>2, <1>4, <2>1
<1>7. p \in QueuedPlaces'
  BY <1>2, <1>4
<1>8. QueuedPlaces' = QueuedPlaces \cup {p}
  BY <1>5, <1>6, <1>7
<1>. QED
  BY <1>3, <1>8

LEMMA QueuedEmptied ==
  ASSUME Types, NEW t \in Threads, evq[t] # <<>>,
         evq' = [evq EXCEPT ![t] = Tail(@)],
         NEW p, p = <<"queued", t, Len(evq[t])>>
  PROVE  p \in QueuedPlaces /\ QueuedPlaces' = QueuedPlaces \ {p}
<1>1. /\ evq[t] \in Seq(Event) /\ evq'[t] = Tail(evq[t])
      /\ \A x \in Threads \ {t} : evq'[x] = evq[x]
  BY DEF Types
<1>2. /\ Len(evq[t]) \in DOMAIN evq[t]
      /\ \A i : i \in DOMAIN evq'[t] <=> i \in DOMAIN evq[t] /\ i # Len(evq[t])
  <2>1. PICK s \in Seq(Event) : s = evq[t] /\ s # <<>>
    BY <1>1
  <2>2. /\ Len(s) \in DOMAIN s
        /\ \A i : i \in DOMAIN Tail(s) <=> i \in DOMAIN s /\ i # Len(s)
    BY <2>1
  <2>. QED
    BY <1>1, <2>1, <2>2
<1>3. p \in QueuedPlaces
  BY <1>2, QueuedPlace
<1>4. \A q : q \in QueuedPlaces' <=>
        \E x \in Threads : \E i \in DOMAIN evq'[x] : q = <<"queued", x, i>>
  BY DEF QueuedPlaces
<1>5. ASSUME NEW q \in QueuedPlaces' PROVE q \in QueuedPlaces \ {p}
  <2>1. PICK x, i : /\ x \in Threads /\ i \in DOMAIN evq'[x]
                   /\ q = <<"queued", x, i>>
    BY <1>4
  <2>. QED
    BY <1>1, <1>2, <2>1, QueuedPlace
<1>6. ASSUME NEW q \in QueuedPlaces \ {p} PROVE q \in QueuedPlaces'
  <2>1. PICK x, i : /\ x \in Threads /\ i \in DOMAIN evq[x]
                   /\ q = <<"queued", x, i>>
    BY QueuedPlace
  <2>. QED
    BY <1>1, <1>2, <1>4, <2>1
<1>7. QueuedPlaces' = QueuedPlaces \ {p}
  BY <1>5, <1>6
<1>. QED
  BY <1>3, <1>7

LEMMA HandledFilled ==
  ASSUME Types, NEW t \in Threads, handling[t] = None, NEW e \in Event,
         handling' = [handling EXCEPT ![t] = e],
         NEW p, p = <<"handled", t, 0>>
  PROVE  /\ p \notin HandledPlaces /\ p[1] = "handled"
         /\ HandledPlaces' = HandledPlaces \cup {p}
<1>1. /\ handling'[t] # None
      /\ \A x \in Threads \ {t} : handling'[x] = handling[x]
  BY NullAssumption DEF Types
<1>2. p \notin HandledPlaces
  BY HandledPlace
<1>3. \A q : q \in HandledPlaces' <=>
        \E x \in Threads : handling'[x] # None /\ q = <<"handled", x, 0>>
  BY DEF HandledPlaces
<1>4. \A q : q \in HandledPlaces' <=> q \in HandledPlaces \cup {p}
  BY <1>1, <1>3, HandledPlace
<1>. QED
  BY <1>2, <1>4

LEMMA HandledEmptied ==
  ASSUME Types, NEW t \in Threads, handling[t] # None,
         handling' = [handling EXCEPT ![t] = None],
         NEW p, p = <<"handled", t, 0>>
  PROVE  p \in HandledPlaces /\ HandledPlaces' = HandledPlaces \ {p}
<1>1. /\ handling'[t] = None
      /\ \A x \in Threads \ {t} : handling'[x] = handling[x]
  BY DEF Types
<1>2. p \in HandledPlaces
  BY HandledPlace
<1>3. \A q : q \in HandledPlaces' <=>
        \E x \in Threads : handling'[x] # None /\ q = <<"handled", x, 0>>
  BY DEF HandledPlaces
<1>4. \A q : q \in HandledPlaces' <=> q \in HandledPlaces \ {p}
  BY <1>1, <1>3, HandledPlace
<1>. QED
  BY <1>2, <1>4

LEMMA StoredFilled ==
  ASSUME Types, NEW e \in Entities, NEW d, d \notin delayed[e],
         delayed' = [delayed EXCEPT ![e] = @ \cup {d}],
         NEW p, p = <<"stored", e, d>>
  PROVE  /\ p \notin StoredPlaces /\ p[1] = "stored"
         /\ StoredPlaces' = StoredPlaces \cup {p}
<1>1. /\ delayed'[e] = delayed[e] \cup {d}
      /\ \A x \in Entities \ {e} : delayed'[x] = delayed[x]
  BY DEF Types
<1>2. p \notin StoredPlaces
  BY StoredPlace
<1>3. \A q : q \in StoredPlaces' <=>
        \E x \in Entities : \E c \in delayed'[x] : q = <<"stored", x, c>>
  BY DEF StoredPlaces
<1>4. \A q : q \in StoredPlaces' <=> q \in StoredPlaces \cup {p}
  BY <1>1, <1>3, StoredPlace
<1>. QED
  BY <1>2, <1>4

LEMMA StoredEmptied ==
  ASSUME Types, NEW e \in Entities, NEW d \in delayed[e],
         delayed' = [delayed EXCEPT ![e] = @ \ {d}],
         NEW p, p = <<"stored", e, d>>
  PROVE  p \in StoredPlaces /\ StoredPlaces' = StoredPlaces \ {p}
<1>1. /\ delayed'[e] = delayed[e] \ {d}
      /\ \A x \in Entities \ {e} : delayed'[x] = delayed[x]
  BY DEF Types
<1>2. p \in StoredPlaces
  BY StoredPlace
<1>3. \A q : q \in StoredPlaces' <=>
        \E x \in Entities : \E c \in delayed'[x] : q = <<"stored", x, c>>
  BY DEF StoredPlaces
<1>4. \A q : q \in StoredPlaces' <=> q \in StoredPlaces \ {p}
  BY <1>1, <1>3, StoredPlace
<1>. QED
  BY <1>2, <1>4

(* The mark of a stored response changes its place's name.                 *)
LEMMA StoredMarked ==
  ASSUME Types, NEW e \in Entities, NEW d \in delayed[e], NEW c,
         c \notin delayed[e], delayed' = [delayed EXCEPT ![e] = (@ \ {d}) \cup {c}],
         NEW p, p = <<"stored", e, d>>, NEW q, q = <<"stored", e, c>>
  PROVE  /\ p \in StoredPlaces /\ q \notin StoredPlaces /\ q[1] = "stored"
         /\ StoredPlaces' = (StoredPlaces \ {p}) \cup {q}
<1>1. /\ delayed'[e] = (delayed[e] \ {d}) \cup {c}
      /\ \A x \in Entities \ {e} : delayed'[x] = delayed[x]
  BY DEF Types
<1>2. p \in StoredPlaces /\ q \notin StoredPlaces
  BY StoredPlace
<1>3. \A r : r \in StoredPlaces' <=>
        \E x \in Entities : \E b \in delayed'[x] : r = <<"stored", x, b>>
  BY DEF StoredPlaces
<1>4. ASSUME NEW r \in StoredPlaces' PROVE r \in (StoredPlaces \ {p}) \cup {q}
  <2>1. PICK x, b : /\ x \in Entities /\ b \in delayed'[x]
                   /\ r = <<"stored", x, b>>
    BY <1>3
  <2>. QED
    BY <1>1, <2>1, StoredPlace
<1>5. ASSUME NEW r \in StoredPlaces \ {p} PROVE r \in StoredPlaces'
  <2>1. PICK x, b : /\ x \in Entities /\ b \in delayed[x]
                   /\ r = <<"stored", x, b>>
    BY StoredPlace
  <2>. QED
    BY <1>1, <1>3, <2>1
<1>6. q \in StoredPlaces'
  BY <1>1, <1>3
<1>7. StoredPlaces' = (StoredPlaces \ {p}) \cup {q}
  BY <1>4, <1>5, <1>6
<1>. QED
  BY <1>2, <1>7

LEMMA PlacesSame ==
  /\ isrQueue' = isrQueue => IsrPlaces' = IsrPlaces
  /\ evq' = evq => QueuedPlaces' = QueuedPlaces
  /\ delayed' = delayed => StoredPlaces' = StoredPlaces
  /\ handling' = handling => HandledPlaces' = HandledPlaces
BY DEF IsrPlaces, QueuedPlaces, StoredPlaces, HandledPlaces

(* A structure is taken for an event that is put, or given back when its   *)
(* event leaves a queue.                                                   *)
LEMMA PoolPut ==
  ASSUME Types, PoolInv, NEW t \in Threads, NEW e \in Event, Queues(t, e),
         UNCHANGED <<isrQueue, delayed, handling, usage>>, free' = free - 1
  PROVE  PoolInv'
<1>1. PICK p : p = <<"queued", t, Len(evq[t]) + 1>>
  OBVIOUS
<1>2. /\ p \notin QueuedPlaces /\ p[1] = "queued"
      /\ QueuedPlaces' = QueuedPlaces \cup {p}
  BY <1>1, QueuedFilled
<1>3. p \notin Held
  BY <1>2, Apart DEF Held
<1>4. Held' = Held \cup {p}
  BY <1>2, PlacesSame DEF Held
<1>. QED
  BY <1>3, <1>4, PoolAdd

LEMMA PoolTaken ==
  ASSUME Types, PoolInv, NEW t \in Threads, evq[t] # <<>>,
         evq' = [evq EXCEPT ![t] = Tail(@)],
         UNCHANGED <<isrQueue, delayed, handling, usage>>, free' = free + 1
  PROVE  PoolInv'
<1>1. PICK p : p = <<"queued", t, Len(evq[t])>>
  OBVIOUS
<1>2. p \in QueuedPlaces /\ QueuedPlaces' = QueuedPlaces \ {p}
  BY <1>1, QueuedEmptied
<1>3. p[1] = "queued"
  BY <1>1
<1>4. p \in Held /\ Held' = Held \ {p}
  BY <1>2, <1>3, Apart, PlacesSame DEF Held
<1>. QED
  BY <1>4, PoolRemove

LEMMA PoolSignal ==
  ASSUME Types, PoolInv, AwaitInv, ReadyInv, ready # <<>>,
         Signal(Head(ready)),
         UNCHANGED <<isrQueue, delayed, handling, usage>>
  PROVE  PoolInv'
<1>1. PICK n : n = Head(ready)
  OBVIOUS
<1>2. n \in Threads /\ evq[n] # <<>> /\ Signal(n)
  BY <1>1, Launches
<1>3. CASE Head(evq[n]).wake
  <2>1. evq' = [evq EXCEPT ![n] = Tail(@)] /\ free' = free + 1
    BY <1>2, <1>3 DEF Signal
  <2>. QED
    BY <1>2, <2>1, PoolTaken
<1>4. CASE ~Head(evq[n]).wake
  <2>1. evq' = evq /\ free' = free
    BY <1>2, <1>4 DEF Signal
  <2>2. Held' = Held
    BY <2>1, PlacesSame DEF Held
  <2>. QED
    BY <2>1, <2>2, PoolSame
<1>. QED
  BY <1>3, <1>4

LEMMA PoolOfIsr ==
  ASSUME Types, PoolInv, NEW e \in Event, PutIsrEvent(e),
         UNCHANGED <<evq, handling, usage>>, StoredPlaces' = StoredPlaces
  PROVE  PoolInv'
<1>1. PICK p : p = <<"isr", 0, Len(isrQueue) + 1>>
  OBVIOUS
<1>2. isrQueue' = Append(isrQueue, e) /\ free' = free - 1
  BY DEF PutIsrEvent
<1>3. p \notin IsrPlaces /\ p[1] = "isr" /\ IsrPlaces' = IsrPlaces \cup {p}
  BY <1>1, <1>2, IsrFilled
<1>4. p \notin Held
  BY <1>3, Apart DEF Held
<1>5. Held' = Held \cup {p}
  BY <1>3, PlacesSame DEF Held
<1>. QED
  BY <1>2, <1>4, <1>5, PoolAdd

(* Every step keeps the pool.                                              *)
LEMMA PoolStep ==
  ASSUME Types, PlaceInv, EventInv, CarrierInv, AwaitInv, ReadyInv, PoolInv,
         [Next]_vars
  PROVE  PoolInv'
<1>. USE DEF isrVars, osVars, contextVars, queueVars, fixed
<1>1. ASSUME UNCHANGED <<free, isrQueue, evq, handling, delayed, usage>>
      PROVE  PoolInv'
  <2>1. Held' = Held
    BY <1>1, PlacesSame DEF Held
  <2>. QED
    BY <1>1, <2>1, PoolSame
<1>2. SUFFICES ASSUME Next PROVE PoolInv'
  BY <1>1 DEF vars
<1>3. ASSUME NEW e \in Entities, CreateThread(e) PROVE PoolInv'
  BY <1>1, <1>3 DEF CreateThread
<1>4. CASE Start
  BY <1>1, <1>4 DEF Start
<1>5. CASE IsrWait
  BY <1>1, <1>5 DEF IsrWait
<1>6. CASE IsrWake
  BY <1>1, <1>6 DEF IsrWake
<1>7. CASE IsrDispatch
  <2>1. PICK e : e = Head(isrQueue)
    OBVIOUS
  <2>2. e \in Event
    BY <1>7, <2>1 DEF IsrDispatch, Types
  <2>3. PICK t : t = ThreadOf(e.tgt)
    OBVIOUS
  <2>4. t \in Threads
    BY <2>2, <2>3, ThreadKnown DEF Event
  <2>5. /\ Queues(t, e) /\ UNCHANGED <<handling, delayed, free, usage>>
        /\ isrQueue # <<>> /\ isrQueue' = Tail(isrQueue)
    BY <1>7, <2>1, <2>3 DEF IsrDispatch, Queues
  <2>6. PICK p : p = <<"isr", 0, Len(isrQueue)>>
    OBVIOUS
  <2>7. PICK q : q = <<"queued", t, Len(evq[t]) + 1>>
    OBVIOUS
  <2>8. p \in IsrPlaces /\ IsrPlaces' = IsrPlaces \ {p} /\ p[1] = "isr"
    BY <2>5, <2>6, IsrEmptied
  <2>9. /\ q \notin QueuedPlaces /\ q[1] = "queued"
        /\ QueuedPlaces' = QueuedPlaces \cup {q}
    BY <2>2, <2>4, <2>5, <2>7, QueuedFilled
  <2>10. p \in Held /\ q \notin Held
    BY <2>8, <2>9, Apart DEF Held
  <2>11. Held' = (Held \ {p}) \cup {q}
    BY <2>5, <2>8, <2>9, Apart, PlacesSame DEF Held
  <2>. QED
    BY <2>5, <2>10, <2>11, PoolMove
<1>8. ASSUME NEW t \in Threads, RunStep(t) PROVE PoolInv'
  <2>1. CASE Wake(t)
    BY <1>1, <2>1 DEF Wake
  <2>2. CASE TakeEvent(t)
    <3>1. PICK e : e = Head(evq[t])
      OBVIOUS
    <3>2. /\ evq[t] # <<>> /\ evq' = [evq EXCEPT ![t] = Tail(@)]
          /\ handling' = [handling EXCEPT ![t] = e] /\ handling[t] = None
          /\ UNCHANGED <<free, delayed, isrQueue, usage>>
      BY <2>2, <3>1 DEF TakeEvent, PlaceInv, PlaceOf
    <3>3. e \in Event
      BY <3>1, <3>2, FirstQueued
    <3>4. PICK p : p = <<"queued", t, Len(evq[t])>>
      OBVIOUS
    <3>5. PICK q : q = <<"handled", t, 0>>
      OBVIOUS
    <3>6. p \in QueuedPlaces /\ QueuedPlaces' = QueuedPlaces \ {p}
      BY <3>2, <3>4, QueuedEmptied
    <3>7. /\ q \notin HandledPlaces /\ q[1] = "handled"
          /\ HandledPlaces' = HandledPlaces \cup {q}
      BY <3>2, <3>3, <3>5, HandledFilled
    <3>8. p[1] = "queued"
      BY <3>4
    <3>9. p \in Held /\ q \notin Held
      BY <3>6, <3>7, Apart DEF Held
    <3>10. Held' = (Held \ {p}) \cup {q}
      BY <3>2, <3>6, <3>7, <3>8, Apart, PlacesSame DEF Held
    <3>. QED
      BY <3>2, <3>9, <3>10, PoolMove
  <2>3. CASE HandlerReturns(t)
    <3>1. PICK e : e = handling[t]
      OBVIOUS
    <3>2. e \in Event /\ pc[t] = "handle"
      BY <2>3, <3>1 DEF HandlerReturns, PlaceInv, PlaceOf, Types
    <3>3. PICK r : r = Response(e)
      OBVIOUS
    <3>4. r \in Event /\ r.cookie = e.cookie
      BY <3>2, <3>3, ResponseType
    <3>5. UNCHANGED <<handling, isrQueue, usage>>
      BY <2>3 DEF HandlerReturns
    <3>6. CASE UNCHANGED <<free, queueVars, delayed>>
      BY <1>1, <3>5, <3>6
    <3>7. CASE /\ Enqueue(ThreadOf(r.tgt), r) /\ UNCHANGED delayed
               /\ free' = free - 1
      <4>1. PICK to : to = ThreadOf(r.tgt)
        OBVIOUS
      <4>2. to \in Threads
        BY <3>4, <4>1, ThreadKnown DEF Event
      <4>3. Queues(to, r)
        BY <3>4, <3>7, <4>1, <4>2, EnqueueQueues
      <4>. QED
        BY <3>4, <3>5, <3>7, <4>2, <4>3, PoolPut
    <3>8. CASE /\ e.want /\ UNCHANGED queueVars /\ free' = free - 1
               /\ delayed' = [delayed EXCEPT ![e.tgt] = @ \cup {r}]
      <4>1. PICK x : x = e.tgt
        OBVIOUS
      <4>2. x \in Entities
        BY <3>2, <4>1 DEF Event
      <4>3. r \notin delayed[x]
        BY <3>1, <3>2, <3>4, <3>8, <4>2, NotStoredYet
      <4>4. PICK p : p = <<"stored", x, r>>
        OBVIOUS
      <4>5. /\ p \notin StoredPlaces /\ p[1] = "stored"
            /\ StoredPlaces' = StoredPlaces \cup {p}
        BY <3>8, <4>1, <4>2, <4>3, <4>4, StoredFilled
      <4>6. p \notin Held
        BY <4>5, Apart DEF Held
      <4>7. Held' = Held \cup {p}
        BY <3>5, <3>8, <4>5, PlacesSame DEF Held
      <4>. QED
        BY <3>5, <3>8, <4>6, <4>7, PoolAdd
    <3>. QED
      BY <2>3, <3>1, <3>3, <3>6, <3>7, <3>8 DEF HandlerReturns
  <2>4. CASE Finish(t)
    <3>1. /\ UNCHANGED <<evq, delayed, isrQueue, usage>> /\ free' = free + 1
          /\ handling' = [handling EXCEPT ![t] = None] /\ handling[t] # None
      BY <2>4 DEF Finish, PlaceInv, PlaceOf
    <3>2. PICK p : p = <<"handled", t, 0>>
      OBVIOUS
    <3>3. p \in HandledPlaces /\ HandledPlaces' = HandledPlaces \ {p}
      BY <3>1, <3>2, HandledEmptied
    <3>4. p[1] = "handled"
      BY <3>2
    <3>5. p \in Held /\ Held' = Held \ {p}
      BY <3>1, <3>3, <3>4, Apart, PlacesSame DEF Held
    <3>. QED
      BY <3>1, <3>5, PoolRemove
  <2>5. CASE LaunchNext(t)
    <3>1. UNCHANGED <<handling, delayed, isrQueue, usage>>
      BY <2>5 DEF LaunchNext
    <3>2. CASE ready = <<>> \/ Head(ready) = t
      BY <1>1, <2>5, <3>1, <3>2 DEF LaunchNext
    <3>3. CASE ready # <<>> /\ Head(ready) # t
      BY <2>5, <3>1, <3>3, PoolSignal DEF LaunchNext
    <3>. QED
      BY <3>2, <3>3
  <2>6. CASE LaunchAndWait(t)
    <3>1. UNCHANGED <<handling, delayed, isrQueue, usage>>
      BY <2>6 DEF LaunchAndWait
    <3>2. CASE ready = <<>>
      BY <1>1, <2>6, <3>1, <3>2 DEF LaunchAndWait
    <3>3. CASE ready # <<>>
      BY <2>6, <3>1, <3>3, PoolSignal DEF LaunchAndWait
    <3>. QED
      BY <3>2, <3>3
  <2>7. CASE Resume(t)
    BY <1>1, <2>7 DEF Resume
  <2>. QED
    BY <1>8, <2>1, <2>2, <2>3, <2>4, <2>5, <2>6, <2>7 DEF RunStep
<1>9. ASSUME UNCHANGED <<isrQueue, delayed, handling, usage>>, free' = free - 1,
             NEW e \in Event, NEW t, t = ThreadOf(e.tgt), Enqueue(t, e)
      PROVE  PoolInv'
  <2>1. t \in Threads
    BY <1>9, ThreadKnown DEF Event
  <2>2. Queues(t, e)
    BY <1>9, <2>1, EnqueueQueues
  <2>. QED
    BY <1>9, <2>1, <2>2, PoolPut
<1>10. \A w \in usage.flags : w \in BOOLEAN
  BY MultiThreadAssumption DEF Types
<1>11. CASE PutRequest
  <2>1. PICK src \in Sources, tgt \in Entities, want \in usage.flags :
          /\ Enqueue(ThreadOf(tgt), NewEvent(src, tgt, want))
          /\ UNCHANGED <<isrQueue, delayed, handling, usage>>
          /\ free' = free - 1
    BY <1>11 DEF PutRequest
  <2>2. PICK e : e = NewEvent(src, tgt, want)
    OBVIOUS
  <2>3. Sources \subseteq Entities
    BY DEF Sources, Types, Event
  <2>4. e \in Event /\ e.tgt = tgt
    BY <1>10, <2>2, <2>3, NewType DEF NewEvent
  <2>. QED
    BY <1>9, <2>1, <2>2, <2>4
<1>12. CASE PutDelayed
  <2>1. PICK x \in Threads, e \in Entities, cookie \in 0..cookies :
          \E d \in GetDelayedResponse(e, cookie) :
             /\ delayed' = [delayed EXCEPT ![d.src] = @ \ {d}]
             /\ Enqueue(ThreadOf(d.tgt), d)
             /\ UNCHANGED <<free, isrQueue, handling, usage>>
    BY <1>12 DEF PutDelayed
  <2>2. PICK d \in GetDelayedResponse(e, cookie) :
             /\ delayed' = [delayed EXCEPT ![d.src] = @ \ {d}]
             /\ Enqueue(ThreadOf(d.tgt), d)
             /\ UNCHANGED <<free, isrQueue, handling, usage>>
    BY <2>1
  <2>3. d \in Event /\ d \in delayed[e] /\ d.src = e
    BY <2>2 DEF GetDelayedResponse, Types, EventInv, StoredInv
  <2>4. PICK t : t = ThreadOf(d.tgt)
    OBVIOUS
  <2>5. t \in Threads
    BY <2>3, <2>4, ThreadKnown DEF Event
  <2>6. Queues(t, d)
    BY <2>2, <2>3, <2>4, <2>5, EnqueueQueues
  <2>7. PICK p : p = <<"stored", e, d>>
    OBVIOUS
  <2>8. PICK q : q = <<"queued", t, Len(evq[t]) + 1>>
    OBVIOUS
  <2>9. p \in StoredPlaces /\ StoredPlaces' = StoredPlaces \ {p}
    BY <2>2, <2>3, <2>7, StoredEmptied
  <2>10. /\ q \notin QueuedPlaces /\ q[1] = "queued"
         /\ QueuedPlaces' = QueuedPlaces \cup {q}
    BY <2>3, <2>5, <2>6, <2>8, QueuedFilled
  <2>11. p[1] = "stored"
    BY <2>7
  <2>12. p \in Held /\ q \notin Held
    BY <2>9, <2>10, Apart DEF Held
  <2>13. Held' = (Held \ {p}) \cup {q}
    BY <2>2, <2>9, <2>10, <2>11, Apart, PlacesSame DEF Held
  <2>. QED
    BY <2>2, <2>12, <2>13, PoolMove
<1>13. ASSUME NEW t \in Threads, PutEventAndWait(t) PROVE PoolInv'
  <2>1. PICK tgt \in Entities :
          /\ pc[t] = "handle"
          /\ Enqueue(ThreadOf(tgt), NewEvent(currentEvent.tgt, tgt, TRUE))
          /\ UNCHANGED <<isrQueue, delayed, handling, usage>>
          /\ free' = free - 1
    BY <1>13 DEF PutEventAndWait
  <2>2. currentEvent \in Event
    BY <2>1 DEF PlaceInv, PlaceOf, Types
  <2>3. PICK e : e = NewEvent(currentEvent.tgt, tgt, TRUE)
    OBVIOUS
  <2>4. e \in Event /\ e.tgt = tgt
    BY <2>2, <2>3, NewType DEF NewEvent, Event
  <2>. QED
    BY <1>9, <2>1, <2>3, <2>4
<1>14. CASE IsrPutRequest
  <2>1. UNCHANGED <<evq, handling, usage, delayed>>
    BY <1>14 DEF IsrPutRequest
  <2>. QED
    BY <1>10, <1>14, <2>1, NewType, PlacesSame, PoolOfIsr DEF IsrPutRequest
<1>15. CASE IsrPutResponse
  <2>1. PICK d \in UNION {delayed[e] : e \in Entities} :
          /\ ~d.sent /\ PutIsrEvent(d)
          /\ delayed' = [delayed EXCEPT ![d.src] =
                           (@ \ {d}) \cup {[d EXCEPT !.sent = TRUE]}]
          /\ UNCHANGED <<evq, handling, usage>>
    BY <1>15 DEF IsrPutResponse
  <2>2. PICK e \in Entities : d \in delayed[e]
    BY <2>1
  <2>3. d \in Event /\ d.src = e
    BY <2>2 DEF Types, EventInv, StoredInv
  <2>4. PICK c : c = [d EXCEPT !.sent = TRUE]
    OBVIOUS
  <2>5. c.sent /\ c.cookie = d.cookie
    BY <2>3, <2>4 DEF Event
  <2>6. c \notin delayed[e]
    BY <2>1, <2>2, <2>5 DEF CarrierInv, StoredOnce
  <2>7. PICK p : p = <<"stored", e, d>>
    OBVIOUS
  <2>8. PICK q : q = <<"stored", e, c>>
    OBVIOUS
  <2>9. /\ p \in StoredPlaces /\ q \notin StoredPlaces /\ q[1] = "stored"
        /\ StoredPlaces' = (StoredPlaces \ {p}) \cup {q}
    <3>1. delayed' = [delayed EXCEPT ![e] = (@ \ {d}) \cup {c}]
      BY <2>1, <2>3, <2>4
    <3>. QED
      BY <2>2, <2>6, <2>7, <2>8, <3>1, StoredMarked
  <2>10. PICK r : r = <<"isr", 0, Len(isrQueue) + 1>>
    OBVIOUS
  <2>11. isrQueue' = Append(isrQueue, d) /\ free' = free - 1
    BY <2>1 DEF PutIsrEvent
  <2>12. r \notin IsrPlaces /\ r[1] = "isr" /\ IsrPlaces' = IsrPlaces \cup {r}
    BY <2>3, <2>10, <2>11, IsrFilled
  <2>13. p[1] = "stored"
    BY <2>7
  <2>14. p \in Held /\ q \notin Held /\ r \notin Held /\ q # r
    BY <2>9, <2>12, Apart DEF Held
  <2>15. Held' = ((Held \ {p}) \cup {q}) \cup {r}
    BY <2>1, <2>9, <2>12, <2>13, Apart, PlacesSame DEF Held
  <2>16. PICK H : H = (Held \ {p}) \cup {q}
    OBVIOUS
  <2>17. IsFiniteSet(H) /\ Cardinality(H) = Cardinality(Held)
    <3>1. /\ IsFiniteSet(Held \ {p})
          /\ Cardinality(Held \ {p}) = Cardinality(Held) - 1
      BY <2>14, FS_RemoveElement DEF PoolInv
    <3>2. q \notin Held \ {p}
      BY <2>14
    <3>3. IsFiniteSet(H) /\ Cardinality(H) = Cardinality(Held \ {p}) + 1
      BY <2>16, <3>1, <3>2, FS_AddElement
    <3>4. Cardinality(Held) \in Nat
      BY FS_CardinalityType DEF PoolInv
    <3>. QED
      BY <3>1, <3>3, <3>4
  <2>18. r \notin H
    BY <2>14, <2>16
  <2>19. Held' = H \cup {r}
    BY <2>15, <2>16
  <2>20. IsFiniteSet(Held') /\ Cardinality(Held') = Cardinality(Held) + 1
    BY <2>17, <2>18, <2>19, FS_AddElement
  <2>21. free + Cardinality(Held) = (free - 1) + (Cardinality(Held) + 1)
    <3>1. Cardinality(Held) \in Nat
      BY FS_CardinalityType DEF PoolInv
    <3>. QED
      BY <3>1 DEF Types
  <2>. QED
    BY <2>1, <2>11, <2>20, <2>21 DEF PoolInv
<1>. QED
  BY <1>2, <1>3, <1>4, <1>5, <1>6, <1>7, <1>8, <1>11, <1>12, <1>13, <1>14,
     <1>15 DEF Next, ThreadStep, ModuleStep

(***************************************************************************)
(* The invariant.                                                          *)
(***************************************************************************)
Inv == /\ Types /\ TurnInv /\ PlaceInv /\ EventInv /\ CarrierInv /\ AwaitInv
       /\ ReadyInv /\ HomeInv /\ PoolInv

LEMMA InitInv == Init => Inv
<1>1. SUFFICES ASSUME Init PROVE Inv
  OBVIOUS
<1>2. /\ usage \in Usages /\ usage.events \in Nat /\ free = usage.events
      /\ owners = {} /\ isrQueue = <<>> /\ waitingIsr = FALSE
      /\ ready = <<>> /\ current = None /\ currentEvent = None /\ cookies = 0
      /\ posts = 0
  BY <1>1, MultiThreadAssumption DEF Init
<1>3. \A t \in Threads : /\ evq[t] = <<>> /\ awaits[t] = None /\ flags[t] = {}
                         /\ pc[t] = IF t = Common THEN "boot" ELSE "wait"
                         /\ handling[t] = None
  BY <1>1 DEF Init
<1>4. \A e \in Entities : delayed[e] = {}
  BY <1>1 DEF Init
<1>5. Types
  <2>1. pc \in [Threads -> Active \cup Waiting]
    BY <1>1 DEF Init, Active, Waiting
  <2>2. posts \in 0..MaxPosts
    BY <1>2, MultiThreadAssumption
  <2>3. /\ evq \in [Threads -> Seq(Event)]
        /\ isrQueue \in Seq(Event) /\ ready \in Seq(Threads)
    BY <1>1 DEF Init
  <2>4. /\ awaits \in [Threads -> Await \cup {None}]
        /\ handling \in [Threads -> Event \cup {None}]
        /\ flags \in [Threads -> SUBSET Signals]
        /\ delayed \in [Entities -> SUBSET Event]
    BY <1>1 DEF Init
  <2>. QED
    BY <1>2, <2>1, <2>2, <2>3, <2>4 DEF Types
<1>6. \A t \in Threads : InTurn(t) => t = Common
  BY <1>3 DEF InTurn, Active
<1>7. TurnInv
  BY <1>2, <1>3, <1>6 DEF TurnInv
<1>8. PlaceInv
  <2>1. \A t \in Threads : PlaceOf(t)
    BY <1>2, <1>3 DEF PlaceOf
  <2>2. CommonPlace
    BY <1>2, <1>3, Places DEF CommonPlace
  <2>. QED
    BY <1>2, <2>1, <2>2 DEF PlaceInv, CurrentPlace
<1>9. EventInv
  BY <1>2, <1>3, <1>4 DEF EventInv, QueuedInv, HandledInv, StoredInv, IsrInv
<1>10. CarrierInv
  <2>1. \A kind, x, i, k : ~Carries(kind, x, i, k)
    BY <1>2, <1>3, <1>4 DEF Carries, QueuedCarrier, HandledCarrier,
                            StoredCarrier, IsrCarrier
  <2>. QED
    BY <1>4, <2>1 DEF CarrierInv, Unique, StoredOnce, SentGone
<1>11. AwaitInv
  BY <1>3 DEF AwaitInv, AwaitOK, WakeOK
<1>12. ReadyInv
  <2>1. ToSet(ready) = {} /\ IsInjective(ready)
    BY <1>2 DEF ToSet, IsInjective
  <2>2. \A t \in Threads : ~CanGoOn(t)
    BY <1>3 DEF CanGoOn
  <2>. QED
    BY <1>2, <2>1, <2>2 DEF ReadyInv, ReadyOnce, WaitersFirst, NoWaiterLeft
<1>13. HomeInv
  BY <1>3 DEF HomeInv
<1>14. PoolInv
  <2>1. \A p : p \notin Held
    BY <1>2, <1>3, <1>4, IsrPlace, QueuedPlace, StoredPlace, HandledPlace
       DEF Held
  <2>2. Held = {}
    BY <2>1
  <2>3. IsFiniteSet(Held) /\ Cardinality(Held) = 0
    BY <2>2, FS_EmptySet
  <2>. QED
    BY <1>2, <2>3 DEF PoolInv
<1>. QED
  BY <1>5, <1>7, <1>8, <1>9, <1>10, <1>11, <1>12, <1>13, <1>14 DEF Inv

LEMMA InvStep == Inv /\ [Next]_vars => Inv'
<1>1. SUFFICES ASSUME Inv, [Next]_vars PROVE Inv'
  OBVIOUS
<1>2. Types'
  BY <1>1, TypesStep DEF Inv
<1>3. TurnInv'
  BY <1>1, <1>2, TurnStep DEF Inv
<1>4. PlaceInv'
  BY <1>1, <1>2, PlaceStep DEF Inv
<1>5. EventInv'
  BY <1>1, <1>2, EventStep DEF Inv
<1>6. CarrierInv' /\ AwaitInv'
  BY <1>1, <1>2, WaitStep DEF Inv
<1>7. ReadyInv'
  BY <1>1, <1>6, ReadyStep DEF Inv
<1>8. HomeInv'
  BY <1>1, HomeStep DEF Inv
<1>9. PoolInv'
  BY <1>1, PoolStep DEF Inv
<1>. QED
  BY <1>2, <1>3, <1>4, <1>5, <1>6, <1>7, <1>8, <1>9 DEF Inv

LEMMA Invariance == Spec => []Inv
BY InitInv, InvStep, PTL DEF Spec

(***************************************************************************)
(* What the runtime promises.                                              *)
(***************************************************************************)

(* One thread runs or is told to run, never two: of threads that a flag    *)
(* hands the processor to and threads between two waits there is one.      *)
THEOREM OneThreadRuns == Spec => []OneRuns
<1>1. Inv => OneRuns
  <2>1. SUFFICES ASSUME Inv PROVE OneRuns
    OBVIOUS
  <2>2. PICK S : S = Running \cup Signalled
    OBVIOUS
  <2>3. \A s \in S : s \in Threads /\ InTurn(s)
    BY <2>2 DEF Running, Signalled, InTurn
  <2>4. \A s, t \in S : s = t
    BY <2>1, <2>3 DEF Inv, TurnInv
  <2>5. Cardinality(S) <= 1
    <3>1. CASE S = {}
      BY <3>1, FS_EmptySet
    <3>2. CASE S # {}
      <4>1. PICK s : s \in S
        BY <3>2
      <4>2. S = {s}
        BY <2>4, <4>1
      <4>. QED
        BY <4>2, FS_Singleton
    <3>. QED
      BY <3>1, <3>2
  <2>6. ASSUME NEW t \in Threads PROVE Cardinality(flags[t]) <= 1
    <3>1. CASE flags[t] = {}
      BY <3>1, FS_EmptySet
    <3>2. CASE \E f \in Signals : flags[t] = {f}
      <4>1. PICK f : flags[t] = {f}
        BY <3>2
      <4>2. Cardinality({f}) = 1
        BY FS_Singleton
      <4>. QED
        BY <4>1, <4>2
    <3>. QED
      BY <2>1, <3>1, <3>2 DEF Inv, TurnInv
  <2>. QED
    BY <2>2, <2>5, <2>6 DEF OneRuns
<1>. QED
  BY <1>1, Invariance, PTL

(* The queue of ready threads holds each thread that can go on, once: a    *)
(* thread with an event that neither runs nor waits, and one whose awaited *)
(* response has come.                                                      *)
THEOREM ThreadsReadyOnce == Spec => []ReadyOnce
<1>1. Inv => ReadyOnce
  BY DEF Inv, ReadyInv
<1>. QED
  BY <1>1, Invariance, PTL

(* While a handler runs, also after it has waited for others, the runtime  *)
(* knows its thread and its event; the thread is the one created for the   *)
(* entity the event is for, or for its module.                             *)
THEOREM ContextKnown == Spec => []ContextRestored
<1>1. Inv => ContextRestored
  <2>1. SUFFICES ASSUME Inv, NEW t \in Threads
        PROVE  /\ pc[t] = "handle" =>
                    current = t /\ currentEvent = handling[t]
               /\ (handling[t] # None /\ ~handling[t].early) =>
                    LET own == owners
                                 \cap {handling[t].tgt, Parent[handling[t].tgt]}
                    IN /\ own = {} => t = Common
                       /\ own # {} => \E e \in own : t = NewThread[e]
    BY DEF ContextRestored
  <2>2. pc[t] = "handle" => current = t /\ currentEvent = handling[t]
    BY <2>1 DEF Inv, PlaceInv, PlaceOf
  <2>3. (handling[t] # None /\ ~handling[t].early) =>
          t = ThreadOf(handling[t].tgt)
    BY <2>1 DEF Inv, HomeInv, HomeOK
  <2>. QED
    BY <2>2, <2>3 DEF ThreadOf
<1>. QED
  BY <1>1, Invariance, PTL

(* A thread that waits gets the response to what it asked: events get a    *)
(* new cookie each time they are queued, and yet no other response matches *)
(* the one its context holds.                                              *)
THEOREM CallsAnswered == Spec => []AnswersTheCall
<1>1. Inv => AnswersTheCall
  BY DEF Inv, AwaitInv, AwaitOK, AnswersTheCall
<1>. QED
  BY <1>1, Invariance, PTL

(* Each structure of the pool is free or held in one place: none is lost   *)
(* and none is given back twice, whatever is put, delayed or waited for.   *)
THEOREM StructuresConserved == Spec => []PoolConserved
<1>1. Inv => PoolConserved
  <2>1. SUFFICES ASSUME Inv PROVE PoolConserved
    OBVIOUS
  <2>2. PoolInv /\ Types
    BY <2>1 DEF Inv
  <2>3. Cardinality(Held) \in Nat
    BY <2>2, FS_CardinalityType DEF PoolInv
  <2>4. usage.events \in Nat
    BY <2>2, MultiThreadAssumption DEF Types
  <2>5. free \in 0..usage.events
    BY <2>2, <2>3, <2>4 DEF PoolInv, Types
  <2>6. TypeOK
    BY <2>2, <2>5 DEF Types, TypeOK
  <2>. QED
    BY <2>2, <2>6 DEF PoolConserved, PoolInv
<1>. QED
  BY <1>1, Invariance, PTL

(* No thread takes an event while a thread whose response has come is yet  *)
(* to go on.                                                               *)
THEOREM WaitersFirstServed == Spec => ResumedImmediately
<1>. DEFINE Undisturbed == handling' # handling /\ current' # None
                             => \A t \in Threads : ~AnswerPending(t)
<1>1. ASSUME Inv, NEW t \in Threads, TakeEvent(t), NEW x \in Threads,
             AnswerPending(x)
      PROVE  FALSE
  <2>1. /\ Types /\ TurnInv /\ PlaceInv /\ AwaitInv /\ ReadyInv
        /\ pc[t] = "take" /\ pc[t] \in Active
    BY <1>1 DEF Inv, TakeEvent, Active
  <2>2. \A y \in Threads : flags[y] = {} /\ (y # t => pc[y] # "take")
    BY <2>1, Rest
  <2>3. awaits[x] # None /\ awaits[t] = None /\ x # t
    BY <1>1, <2>1 DEF AnswerPending, PlaceInv, PlaceOf
  <2>4. awaits[x].answer = None
    BY <2>1, <2>2, <2>3 DEF AwaitInv, AwaitOK
  <2>5. evq[x] # <<>> /\ Head(evq[x]).wake
    BY <1>1, <2>4 DEF AnswerPending
  <2>6. current # x
    BY <2>1, <2>5, FirstQueued DEF AwaitInv, WakeOK
  <2>7. CanGoOn(x)
    BY <2>2, <2>3, <2>5, <2>6 DEF CanGoOn
  <2>8. x \in ToSet(ready)
    BY <2>1, <2>7 DEF ReadyInv, ReadyOnce
  <2>9. PICK i \in DOMAIN ready : x = ready[i]
    BY <2>8 DEF ToSet
  <2>. QED
    BY <2>1, <2>3, <2>9 DEF ReadyInv, NoWaiterLeft
<1>2. Inv /\ [Next]_vars => [Undisturbed]_vars
  <2>1. SUFFICES ASSUME Inv, Next PROVE Undisturbed
    OBVIOUS
  <2>2. CASE \E t \in Threads : TakeEvent(t)
    BY <1>1, <2>1, <2>2
  <2>3. CASE \E t \in Threads : Finish(t)
    BY <2>3 DEF Finish
  <2>4. CASE handling' = handling
    BY <2>4
  <2>5. (\E t \in Threads : TakeEvent(t) \/ Finish(t)) \/ handling' = handling
    <3>1. ASSUME NEW t \in Threads, RunStep(t)
          PROVE  TakeEvent(t) \/ Finish(t) \/ handling' = handling
      BY <3>1 DEF RunStep, Wake, HandlerReturns, LaunchNext, LaunchAndWait,
                  Resume
    <3>2. ASSUME ThreadStep
          PROVE  (\E t \in Threads : RunStep(t)) \/ handling' = handling
      BY <3>2 DEF ThreadStep, CreateThread, Start, IsrWait, IsrWake,
                  IsrDispatch
    <3>3. ASSUME ModuleStep PROVE handling' = handling
      BY <3>3 DEF ModuleStep, PutRequest, PutDelayed, PutEventAndWait,
                  IsrPutRequest, IsrPutResponse
    <3>. QED
      BY <2>1, <3>1, <3>2, <3>3 DEF Next
  <2>. QED
    BY <2>2, <2>3, <2>4, <2>5
<1>. QED
  BY <1>2, Invariance, PTL DEF Spec, ResumedImmediately
=============================================================================
