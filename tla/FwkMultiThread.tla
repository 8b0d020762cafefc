--------------------------- MODULE FwkMultiThread ---------------------------
(***************************************************************************)
(* The multi-threaded event runtime, framework/src/fwk_multi_thread.c.     *)
(*                                                                         *)
(* Modules and elements may own a thread; the others share the common      *)
(* thread.  Threads have one priority and are not time-sliced, so that a   *)
(* thread runs until it waits for a flag; before it waits it raises the    *)
(* flag of the one thread to run next.  An interrupt handler may put       *)
(* events between any two steps.  The common thread fetches those events,  *)
(* when it is told that no thread is ready.                                *)
(***************************************************************************)
EXTENDS Integers, Sequences, FiniteSets, SequencesExt

CONSTANTS
  Threads, Common,  (* thread contexts, with ctx.common_thread_ctx         *)
  Entities,         (* modules and elements                                *)
  Parent,           (* the module of an element; a module is its own       *)
  NewThread,        (* the threads of the entities that may create one     *)
  Usages,           (* bound: systems, by the structures they have, who    *)
                    (* waits for whom, who delays responses, whether       *)
                    (* interrupts send those, response_requested flags,    *)
                    (* who gets a thread, how many events are put earlier  *)
  MaxPosts,         (* bound: the events modules put that are no responses *)
  None

ASSUME MultiThreadAssumption ==
  /\ Common \in Threads /\ IsFiniteSet(Threads)
  /\ Parent \in [Entities -> Entities]
  /\ DOMAIN NewThread \subseteq Entities /\ IsInjective(NewThread)
  /\ \A e \in DOMAIN NewThread : NewThread[e] \in Threads \ {Common}
  /\ None \notin Threads \cup Entities
  /\ MaxPosts \in Nat
  /\ \A u \in Usages :
       /\ u.events \in Nat /\ u.waits \subseteq Threads \X Entities
       /\ u.delays \subseteq Entities /\ u.isrAnswers \in BOOLEAN
       /\ u.flags \subseteq BOOLEAN /\ u.early \in 0..MaxPosts
       /\ u.owners \subseteq DOMAIN NewThread

VARIABLES
  usage,        (* the system                                              *)
  owners,       (* the entities whose thread_ctx is set                    *)
  free,         (* how many structures ctx.event_free_queue holds          *)
  isrQueue,     (* ctx.event_isr_queue                                     *)
  waitingIsr,   (* ctx.waiting_for_isr_event                               *)
  ready,        (* ctx.thread_ready_queue                                  *)
  current,      (* ctx.current_thread_ctx                                  *)
  currentEvent, (* ctx.current_event                                       *)
  cookies,      (* ctx.event_cookie_counter                                *)
  evq,          (* event_queue of a thread                                 *)
  awaits,       (* waiting_event_processing_completion, response_event     *)
  flags,        (* the flags raised for a thread                           *)
  pc,           (* where a thread is                                       *)
  handling,     (* the event process_next_thread_event holds, per thread   *)
  delayed,      (* delayed_response_list of an entity                      *)
  posts         (* history: how many requests were put                     *)

osVars == <<flags, pc>>
isrVars == <<isrQueue, waitingIsr>>
contextVars == <<current, currentEvent>>
queueVars == <<ready, evq, cookies>>
fixed == <<usage, owners>>
vars == <<fixed, free, isrVars, contextVars, queueVars, osVars, awaits,
          handling, delayed, posts>>

TO_PROCESS == "SIGNAL_EVENT_TO_PROCESS"
PROCESSED == "SIGNAL_EVENT_PROCESSED"
NO_READY == "SIGNAL_NO_READY_THREAD"
ISR_EVENT == "SIGNAL_ISR_EVENT"
Signals == {TO_PROCESS, PROCESSED, NO_READY, ISR_EVENT}

(* A thread waits in "wait" (thread_function), "blocked" (in               *)
(* fwk_thread_put_event_and_wait) or "isrwait" (get_next_isr_event).       *)
Active == {"boot", "launch", "take", "handle", "finish", "call", "isrcheck"}
Waiting == {"wait", "blocked", "isrwait"}

(* struct fwk_event.  request, the cookie of the request a response        *)
(* answers, is history, and so are sent, set when an interrupt handler has *)
(* sent the delayed response, and early, set when the event was put before *)
(* the kernel was started.                                                 *)
Event == [src : Entities, tgt : Entities, response : BOOLEAN, want : BOOLEAN,
          cookie : Nat, wake : BOOLEAN, request : Nat, sent : BOOLEAN,
          early : BOOLEAN]

(* awaits of a thread that waits: the cookie its context holds, the one of *)
(* the request it put (history) and the response, when it has come.        *)
Await == [cookie : Nat, asked : Nat, answer : Event \cup {None}]

(* The null pointer is no event.                                           *)
ASSUME NullAssumption == None \notin Event /\ None \notin Await

NewEvent(src, tgt, want) ==
  [src |-> src, tgt |-> tgt, response |-> FALSE, want |-> want,
   cookie |-> 0, wake |-> FALSE, request |-> 0, sent |-> FALSE,
   early |-> pc[Common] = "boot"]

Init ==
  /\ usage \in Usages /\ free = usage.events /\ owners = {}
  /\ isrQueue = <<>> /\ waitingIsr = FALSE
  /\ ready = <<>> /\ current = None /\ currentEvent = None /\ cookies = 0
  /\ evq = [t \in Threads |-> <<>>]
  /\ awaits = [t \in Threads |-> None]
  /\ flags = [t \in Threads |-> {}]
  /\ pc = [t \in Threads |-> IF t = Common THEN "boot" ELSE "wait"]
  /\ handling = [t \in Threads |-> None]
  /\ delayed = [e \in Entities |-> {}]
  /\ posts = 0

(***************************************************************************)
(* Helpers.                                                                *)
(***************************************************************************)

(* Mutant: an element without a thread gets the common one.                *)
ThreadOfOwn(e) == IF e \in owners THEN NewThread[e] ELSE Common

(* thread_get_ctx: the thread of the element, or that of its module.       *)
ThreadOf(e) ==
  IF e \in owners THEN NewThread[e]
  ELSE IF Parent[e] \in owners THEN NewThread[Parent[e]]
  ELSE Common

(* Mutant: any response wakes the thread.                                  *)
IsWakeOfAny(t, e) == awaits[t] # None /\ e.response

(* is_thread_wakeup_event                                                  *)
IsWake(t, e) ==
  awaits[t] # None /\ e.response /\ awaits[t].cookie = e.cookie

(* The event as put_event or get_next_isr_event queues it: with its wake   *)
(* flag and a new cookie.                                                  *)
Stamped(t, e) ==
  [e EXCEPT !.wake = IsWake(t, e), !.cookie = cookies,
            !.request = IF e.response THEN @ ELSE cookies]

(* Mutant: a thread that waits for a response is ready too.                *)
EnqueueReadiesWaiting(t, e) ==
  LET s == Stamped(t, e) IN
  /\ cookies' = cookies + 1
  /\ evq' = [evq EXCEPT ![t] = IF s.wake THEN <<s>> \o @ ELSE Append(@, s)]
  /\ ready' = IF s.wake THEN <<t>> \o ready
              ELSE IF evq[t] = <<>> /\ t # current THEN Append(ready, t)
              ELSE ready

(* Mutant: a woken thread takes its turn.                                  *)
EnqueueWakesLast(t, e) ==
  LET s == Stamped(t, e) IN
  /\ cookies' = cookies + 1
  /\ evq' = [evq EXCEPT ![t] = IF s.wake THEN <<s>> \o @ ELSE Append(@, s)]
  /\ ready' = IF s.wake \/ (evq[t] = <<>> /\ t # current /\ awaits[t] = None)
              THEN Append(ready, t) ELSE ready

(* put_event, but for where the structure comes from: the response a       *)
(* thread waits for goes first in its queue, and its thread runs next.     *)
Enqueue(t, e) ==
  LET s == Stamped(t, e) IN
  /\ cookies' = cookies + 1
  /\ evq' = [evq EXCEPT ![t] = IF s.wake THEN <<s>> \o @ ELSE Append(@, s)]
  /\ ready' = IF s.wake THEN <<t>> \o ready
              ELSE IF evq[t] = <<>> /\ t # current /\ awaits[t] = None
              THEN Append(ready, t) ELSE ready

Raise(t, flag) == flags' = [flags EXCEPT ![t] = @ \cup {flag}]
Goto(t, place) == pc' = [pc EXCEPT ![t] = place]

(* The OS runs a thread only when the one that runs waits.                 *)
Idle == \A t \in Threads : pc[t] \in Waiting

(***************************************************************************)
(* Boot: callbacks create threads, once for an entity, and put events;     *)
(* then the kernel and with it the common thread are started.  The other   *)
(* threads start by waiting.                                               *)
(***************************************************************************)
CreateThread(e) ==
  /\ pc[Common] = "boot" /\ e \in usage.owners \ owners
  /\ owners' = owners \cup {e}
  /\ UNCHANGED <<usage, free, isrVars, contextVars, queueVars, osVars, awaits,
                 handling, delayed, posts>>

Start ==
  /\ pc[Common] = "boot" /\ owners = usage.owners
  /\ Goto(Common, "launch")
  /\ UNCHANGED <<fixed, free, isrVars, contextVars, queueVars, flags, awaits,
                 handling, delayed, posts>>

(***************************************************************************)
(* What the code of modules does: in start callbacks and in the handler    *)
(* that runs.                                                              *)
(***************************************************************************)
MayPut == \E t \in Threads : pc[t] \in {"boot", "handle"}
Bounded ==
  posts < (IF owners = usage.owners THEN MaxPosts ELSE usage.early)
Sources == IF currentEvent = None THEN Entities ELSE {currentEvent.tgt}

(* fwk_thread_put_event of a request and __fwk_thread_put_notification,    *)
(* from a thread.                                                          *)
PutRequest ==
  \E src \in Sources, tgt \in Entities, want \in usage.flags :
    /\ MayPut /\ Bounded /\ free > 0
    /\ free' = free - 1 /\ posts' = posts + 1
    /\ Enqueue(ThreadOf(tgt), NewEvent(src, tgt, want))
    /\ UNCHANGED <<fixed, isrVars, contextVars, osVars, awaits, handling,
                   delayed>>

(* fwk_thread_get_delayed_response: the responses an entity delayed, by    *)
(* the cookie of the request.                                              *)
GetDelayedResponse(e, cookie) ==
  {d \in delayed[e] : d.cookie = cookie /\ ~d.sent}

(* Mutant: a delayed response takes a second structure.                    *)
PutDelayedCopies ==
  \E t \in Threads, e \in Entities, cookie \in 0..cookies :
   \E d \in GetDelayedResponse(e, cookie) :
    /\ pc[t] = "handle" /\ currentEvent.tgt = e
    /\ free > 0 /\ free' = free - 1
    /\ delayed' = [delayed EXCEPT ![d.src] = @ \ {d}]
    /\ Enqueue(ThreadOf(d.tgt), d)
    /\ UNCHANGED <<fixed, isrVars, contextVars, osVars, awaits, handling,
                   posts>>

(* fwk_thread_put_event of a delayed response, from a handler of the       *)
(* entity that stored it: the stored structure moves to the queue.         *)
PutDelayed ==
  \E t \in Threads, e \in Entities, cookie \in 0..cookies :
   \E d \in GetDelayedResponse(e, cookie) :
    /\ pc[t] = "handle" /\ currentEvent.tgt = e
    /\ delayed' = [delayed EXCEPT ![d.src] = @ \ {d}]
    /\ Enqueue(ThreadOf(d.tgt), d)
    /\ UNCHANGED <<fixed, free, isrVars, contextVars, osVars, awaits, handling,
                   posts>>

(* fwk_thread_put_event_and_wait, down to the launch of the next event.    *)
PutEventAndWait(t) ==
  \E tgt \in Entities :
    LET to == ThreadOf(tgt) IN
    /\ pc[t] = "handle" /\ current # Common /\ to # current
    /\ <<t, tgt>> \in usage.waits
    /\ Bounded /\ free > 0
    /\ free' = free - 1 /\ posts' = posts + 1
    /\ Enqueue(to, NewEvent(currentEvent.tgt, tgt, TRUE))
    /\ awaits' = [awaits EXCEPT ![t] =
                    [cookie |-> cookies, asked |-> cookies, answer |-> None]]
    /\ Goto(t, "call")
    /\ UNCHANGED <<fixed, isrVars, contextVars, flags, handling, delayed>>

(***************************************************************************)
(* thread_function                                                         *)
(***************************************************************************)

(* Mutant: the flags stay raised.                                          *)
WakeKeepsFlags(t) ==
  LET expected == IF t = Common THEN {TO_PROCESS, NO_READY} ELSE {TO_PROCESS}
  IN /\ Idle /\ pc[t] = "wait" /\ flags[t] \cap expected # {}
     /\ Goto(t, IF Cardinality(flags[t]) > 1 THEN "wait"
                ELSE IF flags[t] = {TO_PROCESS} THEN "take" ELSE "isrcheck")
     /\ UNCHANGED <<fixed, free, isrVars, contextVars, queueVars, flags,
                    awaits, handling, delayed, posts>>

(* Flags are raised: an event to process, or for the common thread that no *)
(* thread is ready.  More than one at once is an error, and both are       *)
(* forgotten.                                                              *)
Wake(t) ==
  LET expected == IF t = Common THEN {TO_PROCESS, NO_READY} ELSE {TO_PROCESS}
  IN /\ Idle /\ pc[t] = "wait" /\ flags[t] \cap expected # {}
     /\ Goto(t, IF Cardinality(flags[t]) > 1 THEN "wait"
                ELSE IF flags[t] = {TO_PROCESS} THEN "take" ELSE "isrcheck")
     /\ flags' = [flags EXCEPT ![t] = @ \ expected]
     /\ UNCHANGED <<fixed, free, isrVars, contextVars, queueVars, awaits,
                    handling, delayed, posts>>

(* process_next_thread_event, up to the call of the handler.               *)
TakeEvent(t) ==
  /\ pc[t] = "take"
  /\ current' = t /\ currentEvent' = Head(evq[t])
  /\ handling' = [handling EXCEPT ![t] = Head(evq[t])]
  /\ evq' = [evq EXCEPT ![t] = Tail(@)]
  /\ Goto(t, "handle")
  /\ UNCHANGED <<fixed, free, isrVars, ready, cookies, flags, awaits, delayed,
                 posts>>

Response(e) == [e EXCEPT !.src = e.tgt, !.tgt = e.src, !.early = FALSE,
                         !.response = TRUE, !.want = FALSE]

(* The handler returns.  process_event_requiring_response puts the         *)
(* response, or stores a copy of it if the handler delayed it; it is lost  *)
(* when no structure is free.                                              *)
HandlerReturns(t) ==
  LET e == handling[t]
      r == Response(e)
  IN /\ pc[t] = "handle"
     /\ Goto(t, "finish")
     /\ \/ /\ ~e.want \/ free = 0
           /\ UNCHANGED <<free, queueVars, delayed>>
        \/ /\ e.want /\ free > 0 /\ free' = free - 1
           /\ Enqueue(ThreadOf(r.tgt), r)
           /\ UNCHANGED delayed
        \/ /\ e.want /\ free > 0 /\ free' = free - 1
           /\ e.tgt \in usage.delays
           /\ delayed' = [delayed EXCEPT ![e.tgt] = @ \cup {r}]
           /\ UNCHANGED queueVars
     /\ UNCHANGED <<fixed, isrVars, contextVars, flags, awaits, handling,
                    posts>>

(* The rest of process_next_thread_event: the structure is freed and the   *)
(* thread is ready again if its queue is not empty.                        *)
Finish(t) ==
  /\ pc[t] = "finish"
  /\ current' = None /\ currentEvent' = None
  /\ free' = free + 1
  /\ handling' = [handling EXCEPT ![t] = None]
  /\ ready' = IF evq[t] = <<>> THEN ready ELSE Append(ready, t)
  /\ Goto(t, "launch")
  /\ UNCHANGED <<fixed, isrVars, evq, cookies, flags, awaits, delayed, posts>>

(* Mutant: a thread that waits is told that it has an event to process.    *)
SignalToProcess(n) ==
  LET e == Head(evq[n]) IN
  IF e.wake
  THEN /\ awaits' = [awaits EXCEPT ![n] = [@ EXCEPT !.cookie = e.cookie,
                                                     !.answer = e]]
       /\ evq' = [evq EXCEPT ![n] = Tail(@)]
       /\ free' = free + 1
       /\ Raise(n, TO_PROCESS)
  ELSE Raise(n, TO_PROCESS) /\ UNCHANGED <<awaits, evq, free>>

(***************************************************************************)
(* launch_next_event_processing.  The first ready thread n gets the        *)
(* response it waits for, or is told that it has an event to process.      *)
(* osThreadFlagsSet fails only for a thread that does not exist.           *)
(***************************************************************************)
Signal(n) ==
  LET e == Head(evq[n]) IN
  IF e.wake
  THEN /\ awaits' = [awaits EXCEPT ![n] = [@ EXCEPT !.cookie = e.cookie,
                                                     !.answer = e]]
       /\ evq' = [evq EXCEPT ![n] = Tail(@)]
       /\ free' = free + 1
       /\ Raise(n, PROCESSED)
  ELSE Raise(n, TO_PROCESS) /\ UNCHANGED <<awaits, evq, free>>

(* A thread that has finished an event launches the next: it goes on       *)
(* itself, or another is signalled, or nobody is ready.  Then the common   *)
(* thread gets the next event of an interrupt, and a specific thread has   *)
(* the common thread do so.                                                *)
LaunchNext(t) ==
  /\ pc[t] = "launch"
  /\ IF ready = <<>>
     THEN /\ Goto(t, IF t = Common THEN "isrcheck" ELSE "wait")
          /\ IF t = Common THEN UNCHANGED flags ELSE Raise(Common, NO_READY)
          /\ UNCHANGED <<ready, awaits, evq, free>>
     ELSE /\ ready' = Tail(ready)
          /\ Goto(t, IF Head(ready) = t THEN "take" ELSE "wait")
          /\ IF Head(ready) = t THEN UNCHANGED <<flags, awaits, evq, free>>
             ELSE Signal(Head(ready))
  /\ UNCHANGED <<fixed, isrVars, contextVars, cookies, handling, delayed,
                 posts>>

(* A thread in fwk_thread_put_event_and_wait launches the next event and   *)
(* waits, whether or not there was one.                                    *)
LaunchAndWait(t) ==
  /\ pc[t] = "call"
  /\ Goto(t, "blocked")
  /\ IF ready = <<>> THEN UNCHANGED <<ready, flags, awaits, evq, free>>
     ELSE ready' = Tail(ready) /\ Signal(Head(ready))
  /\ UNCHANGED <<fixed, isrVars, contextVars, cookies, handling, delayed,
                 posts>>

(* Mutant: the event whose handler waited is forgotten.                    *)
ResumeForgetsEvent(t) ==
  /\ Idle /\ pc[t] = "blocked" /\ PROCESSED \in flags[t]
  /\ flags' = [flags EXCEPT ![t] = @ \ {PROCESSED}]
  /\ awaits' = [awaits EXCEPT ![t] = None]
  /\ current' = t
  /\ Goto(t, "handle")
  /\ UNCHANGED <<fixed, free, isrVars, currentEvent, queueVars, handling,
                 delayed, posts>>

(* The end of fwk_thread_put_event_and_wait: the handler goes on.          *)
Resume(t) ==
  /\ Idle /\ pc[t] = "blocked" /\ PROCESSED \in flags[t]
  /\ flags' = [flags EXCEPT ![t] = @ \ {PROCESSED}]
  /\ awaits' = [awaits EXCEPT ![t] = None]
  /\ current' = t /\ currentEvent' = handling[t]
  /\ Goto(t, "handle")
  /\ UNCHANGED <<fixed, free, isrVars, queueVars, handling, delayed, posts>>

(***************************************************************************)
(* Events of interrupt handlers.                                           *)
(***************************************************************************)

(* Mutant: the common thread does not say that it waits.                   *)
IsrSilentWait ==
  /\ pc[Common] = "isrcheck" /\ isrQueue = <<>>
  /\ Goto(Common, "isrwait")
  /\ UNCHANGED <<fixed, free, isrVars, contextVars, queueVars, flags, awaits,
                 handling, delayed, posts>>

(* get_next_isr_event finds no event: in one masked section it says so.    *)
IsrWait ==
  /\ pc[Common] = "isrcheck" /\ isrQueue = <<>>
  /\ waitingIsr' = TRUE
  /\ Goto(Common, "isrwait")
  /\ UNCHANGED <<fixed, free, isrQueue, contextVars, queueVars, flags, awaits,
                 handling, delayed, posts>>

IsrWake ==
  /\ Idle /\ pc[Common] = "isrwait" /\ ISR_EVENT \in flags[Common]
  /\ flags' = [flags EXCEPT ![Common] = @ \ {ISR_EVENT}]
  /\ Goto(Common, "isrcheck")
  /\ UNCHANGED <<fixed, free, isrVars, contextVars, queueVars, awaits,
                 handling, delayed, posts>>

(* get_next_isr_event moves an event to the queue of its thread.  It goes  *)
(* on unless that thread is now ready.                                     *)
IsrDispatch ==
  LET e == Head(isrQueue)
      t == ThreadOf(e.tgt)
      s == Stamped(t, e)
      runs == awaits[t] = None \/ s.wake
  IN /\ pc[Common] = "isrcheck" /\ isrQueue # <<>>
     /\ isrQueue' = Tail(isrQueue)
     /\ cookies' = cookies + 1
     /\ evq' = [evq EXCEPT ![t] = IF s.wake THEN <<s>> \o @ ELSE Append(@, s)]
     /\ ready' = IF runs THEN <<t>> \o ready ELSE ready
     /\ Goto(Common, IF runs THEN "launch" ELSE "isrcheck")
     /\ UNCHANGED <<fixed, free, waitingIsr, contextVars, flags, awaits,
                    handling, delayed, posts>>

(* put_isr_event                                                           *)
PutIsrEvent(e) ==
  /\ free > 0 /\ free' = free - 1
  /\ isrQueue' = Append(isrQueue, e)
  /\ waitingIsr' = FALSE
  /\ flags' = IF waitingIsr
              THEN [flags EXCEPT ![Common] = @ \cup {ISR_EVENT}] ELSE flags

(* An interrupt handler puts a request or a notification.                  *)
IsrPutRequest ==
  \E src, tgt \in Entities, want \in usage.flags :
    /\ Bounded /\ posts' = posts + 1
    /\ PutIsrEvent([NewEvent(src, tgt, want) EXCEPT !.early = FALSE])
    /\ UNCHANGED <<fixed, contextVars, queueVars, pc, awaits, handling,
                   delayed>>

(* An interrupt handler sends a delayed response: a copy, while the stored *)
(* structure stays where it is.                                            *)
IsrPutResponse ==
  \E d \in UNION {delayed[e] : e \in Entities} :
    /\ usage.isrAnswers /\ ~d.sent
    /\ PutIsrEvent(d)
    /\ delayed' = [delayed EXCEPT ![d.src] =
                     (@ \ {d}) \cup {[d EXCEPT !.sent = TRUE]}]
    /\ UNCHANGED <<fixed, contextVars, queueVars, pc, awaits, handling, posts>>

(***************************************************************************)
RunStep(t) ==
  \/ Wake(t) \/ TakeEvent(t) \/ HandlerReturns(t) \/ Finish(t)
  \/ LaunchNext(t) \/ LaunchAndWait(t) \/ Resume(t)
ThreadStep ==
  \/ \E e \in Entities : CreateThread(e)
  \/ Start \/ IsrWait \/ IsrWake \/ IsrDispatch
  \/ \E t \in Threads : RunStep(t)
ModuleStep ==
  \/ PutRequest \/ PutDelayed \/ \E t \in Threads : PutEventAndWait(t)
  \/ IsrPutRequest \/ IsrPutResponse

Next == ThreadStep \/ ModuleStep

Spec == Init /\ [][Next]_vars

(* The processor never stops; callbacks create the threads they want and   *)
(* return, and so do handlers.  Nothing is assumed of what modules put.    *)
FairSpec == Spec /\ WF_vars(ThreadStep)

(***************************************************************************)
(* Properties                                                              *)
(***************************************************************************)
TypeOK ==
  /\ usage \in Usages /\ owners \subseteq usage.owners
  /\ free \in 0..usage.events
  /\ isrQueue \in Seq(Event) /\ waitingIsr \in BOOLEAN
  /\ ready \in Seq(Threads)
  /\ current \in Threads \cup {None} /\ currentEvent \in Event \cup {None}
  /\ cookies \in Nat /\ posts \in 0..MaxPosts
  /\ evq \in [Threads -> Seq(Event)]
  /\ awaits \in [Threads -> Await \cup {None}]
  /\ flags \in [Threads -> SUBSET Signals]
  /\ pc \in [Threads -> Active \cup Waiting]
  /\ handling \in [Threads -> Event \cup {None}]
  /\ delayed \in [Entities -> SUBSET Event]

(* Where structures of the pool are held: in queues, by threads and as     *)
(* delayed responses.                                                      *)
IsrPlaces == {<<"isr", 0, i>> : i \in DOMAIN isrQueue}
QueuedPlaces ==
  UNION {{<<"queued", t, i>> : i \in DOMAIN evq[t]} : t \in Threads}
StoredPlaces ==
  UNION {{<<"stored", e, d>> : d \in delayed[e]} : e \in Entities}
HandledPlaces ==
  {<<"handled", t, 0>> : t \in {x \in Threads : handling[x] # None}}
Held == IsrPlaces \cup QueuedPlaces \cup StoredPlaces \cup HandledPlaces

(* Every structure of the pool is free or held in one place, on any path,  *)
(* and none is given back twice.  (One that is stored for a delayed        *)
(* response is held; when an interrupt handler sends the response it stays *)
(* so, and nothing gives it back.)  All variables have their types.        *)
PoolConserved ==
  /\ TypeOK
  /\ IsFiniteSet(Held) /\ free + Cardinality(Held) = usage.events

(* One thread runs or is told to run, never two: the context of the        *)
(* runtime (ctx) is not protected in any other way.                        *)
Signalled == {t \in Threads : flags[t] # {}}
Running == {t \in Threads : pc[t] \in Active}
OneRuns == /\ Cardinality(Running \cup Signalled) <= 1
           /\ \A t \in Threads : Cardinality(flags[t]) <= 1

(* The queue of ready threads, a list of nodes inside the threads, holds   *)
(* each of the threads that can go on once: those with an event that do    *)
(* not run and do not wait, and those whose awaited response has come.     *)
CanGoOn(t) ==
  /\ evq[t] # <<>> /\ t # current
  /\ pc[t] # "take" /\ flags[t] = {}
  /\ awaits[t] = None \/ Head(evq[t]).wake
ReadyOnce ==
  /\ IsInjective(ready)
  /\ \A t \in Threads : (t \in ToSet(ready)) <=> CanGoOn(t)

(* While a handler runs the runtime knows its thread and its event, also   *)
(* after it has waited for other threads: the source of what it puts is    *)
(* taken from there.  Its thread is the one created for the entity or for  *)
(* its module, unless the event was put before the thread was there.       *)
ContextRestored ==
  \A t \in Threads :
    /\ pc[t] = "handle" => current = t /\ currentEvent = handling[t]
    /\ (handling[t] # None /\ ~handling[t].early)
         => LET own == owners \cap {handling[t].tgt, Parent[handling[t].tgt]}
            IN /\ own = {} => t = Common
               /\ own # {} => \E e \in own : t = NewThread[e]

(* A thread that waits gets the response to what it asked.                 *)
AnswersTheCall ==
  \A t \in Threads :
    (awaits[t] # None /\ awaits[t].answer # None)
      => awaits[t].answer.request = awaits[t].asked

(* "The execution of the thread is then resumed immediately: no other      *)
(* event processing occurs between the end of the event processing and the *)
(* waiting thread execution being resumed": no event is taken while the    *)
(* awaited response of some thread is there.                               *)
AnswerPending(t) ==
  awaits[t] # None /\ \/ awaits[t].answer # None
                      \/ evq[t] # <<>> /\ Head(evq[t]).wake
ResumedImmediately ==
  [][handling' # handling /\ current' # None
       => \A t \in Threads : ~AnswerPending(t)]_vars

(* When nobody runs or is about to, the common thread waits for an event   *)
(* of an interrupt: the system never sleeps for good.                      *)
IdleListens ==
  Running \cup Signalled = {} => pc[Common] = "isrwait"

(* A thread that is ready gets its turn, and the events of interrupts      *)
(* reach their threads.                                                    *)
ReadyServed ==
  /\ \A t \in Threads : (t \in ToSet(ready)) ~> (t \notin ToSet(ready))
  /\ (isrQueue # <<>>) ~> (isrQueue = <<>>)

(* Where no response is delayed and structures suffice, a thread that      *)
(* waits for the answer of another one gets it.  (The answer goes to the   *)
(* thread of the entity that asked: it is lost on an entity that asks      *)
(* while it runs elsewhere, for an event put before it had its thread.)    *)
WaitsEnd ==
  \A t \in Threads :
    (/\ awaits[t] # None /\ ThreadOf(handling[t].tgt) = t
     /\ usage.delays = {} /\ usage.events > 2 * MaxPosts)
      ~> (awaits[t] = None)
=============================================================================
