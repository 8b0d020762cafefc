------------------------------ MODULE EventPool ------------------------------
(***************************************************************************)
(* The three event lists of framework/src/fwk_thread.c at the level of     *)
(* their pointers, with interrupts between the memory accesses of the      *)
(* thread.                                                                 *)
(*                                                                         *)
(* put_event of the single-thread framework pops the free queue with       *)
(* interrupts enabled, so its accesses are steps of their own.  The other  *)
(* operations that share a list with the interrupt handlers are masked,    *)
(* and the event queue belongs to the thread alone: those are one step.    *)
(* duplicate_event of the multi-thread framework pops the same kind of     *)
(* queue with interrupts masked.  A build is one of the two pops, with or  *)
(* without an interrupt handler that puts events.                          *)
(***************************************************************************)
EXTENDS Integers, Sequences, FiniteSets

CONSTANTS
  Slots,        (* the event structures                                    *)
  FreeQ,        (* ctx.free_event_queue                                    *)
  EventQ,       (* ctx.event_queue                                         *)
  IsrQ,         (* ctx.isr_event_queue                                     *)
  Nil,
  Builds        (* the builds to look at                                   *)

ASSUME PoolAssumption ==
  /\ IsFiniteSet(Slots)
  /\ Cardinality({FreeQ, EventQ, IsrQ, Nil}) = 4
  /\ Slots \cap {FreeQ, EventQ, IsrQ, Nil} = {}
  /\ Builds \subseteq [maskedPop : BOOLEAN, isrPuts : BOOLEAN]

VARIABLES
  build,    (* the build, one of Builds                                    *)
  links,    (* the pointers of structures and lists                        *)
  pc,       (* where the thread is                                         *)
  popped,   (* the local variable of fwk_list_pop_head                     *)
  inHand    (* event, free_event or isr_event of the thread                *)

poolVars == <<build, links, pc, popped, inHand>>

Queues == {FreeQ, EventQ, IsrQ}
List == INSTANCE FwkList WITH
          Nodes <- Slots, Lists <- Queues, Null <- Nil,
          Debug <- FALSE

N == Cardinality(Slots) + 2

(* __fwk_thread_init: every structure is pushed on the free queue.         *)
Filled(q) ==
  LET pushed[k \in 0..Len(q)] ==
        IF k = 0 THEN List!EmptyMemory
        ELSE List!SPushTail(pushed[k - 1], FreeQ, q[k])
  IN pushed[Len(q)]

PoolInit ==
  /\ build \in Builds
  /\ \E q \in [1..Cardinality(Slots) -> Slots] :
       /\ \A i, j \in DOMAIN q : q[i] = q[j] => i = j
       /\ links = Filled(q)
  /\ pc = "idle" /\ popped = Nil /\ inHand = Nil

Moves(from, to) == pc = from /\ pc' = to /\ build' = build

PopIsEmpty ==
  /\ Moves("idle", IF List!IsEmpty(links, FreeQ) THEN "idle" ELSE "load")
  /\ UNCHANGED <<links, popped, inHand>>

PopLoadHead ==
  /\ Moves("load", "tail")
  /\ popped' = links.next[FreeQ]
  /\ UNCHANGED <<links, inHand>>

(* Mutant: the tail is not reset when the last structure leaves.           *)
PopSkipsTail ==
  /\ Moves("tail", "head")
  /\ UNCHANGED <<links, popped, inHand>>

PopFixTail ==
  /\ Moves("tail", "head")
  /\ links' = IF links.next[popped] = FreeQ
            THEN List!SetPrev(links, FreeQ, FreeQ) ELSE links
  /\ UNCHANGED <<popped, inHand>>

(* Mutant: the structure is not unlinked.                                  *)
PopKeepsHead ==
  /\ Moves("head", "push")
  /\ inHand' = popped
  /\ UNCHANGED <<links, popped>>

PopStoreHead ==
  /\ Moves("head", "push")
  /\ links' = List!SetNext(links, FreeQ, links.next[popped])
  /\ inHand' = popped
  /\ UNCHANGED popped

(* The rest of put_event: copy the event, link it to the event queue.      *)
PushEvent ==
  /\ Moves("push", "idle")
  /\ links' = List!SPushTail(links, EventQ, inHand)
  /\ inHand' = Nil
  /\ UNCHANGED popped

(***************************************************************************)
(* process_next_event takes an event and gives its structure back;         *)
(* process_isr takes one from the interrupt queue and hands it on.         *)
(***************************************************************************)
TakeEvent ==
  /\ ~List!IsEmpty(links, EventQ)
  /\ Moves("idle", "free")
  /\ inHand' = List!HeadOf(links, EventQ)
  /\ links' = List!SPopHead(links, EventQ)
  /\ UNCHANGED popped

FreeEvent ==
  /\ Moves("free", "idle")
  /\ links' = List!SPushTail(links, FreeQ, inHand)
  /\ inHand' = Nil
  /\ UNCHANGED popped

TakeIsrEvent ==
  /\ List!IsEmpty(links, EventQ) /\ ~List!IsEmpty(links, IsrQ)
  /\ Moves("idle", "push")
  /\ inHand' = List!HeadOf(links, IsrQ)
  /\ links' = List!SPopHead(links, IsrQ)
  /\ UNCHANGED popped

(***************************************************************************)
(* put_event in an interrupt handler: nothing of the thread runs meanwhile *)
(***************************************************************************)
Popping == pc \in {"load", "tail", "head"}

IsrPutEvent ==
  /\ build.isrPuts
  /\ ~(build.maskedPop /\ Popping)
  /\ ~List!IsEmpty(links, FreeQ)
  /\ links' = List!SPushTail(List!SPopHead(links, FreeQ), IsrQ,
                           List!HeadOf(links, FreeQ))
  /\ UNCHANGED <<build, pc, popped, inHand>>

PoolNext ==
  \/ PopIsEmpty \/ PopLoadHead \/ PopFixTail \/ PopStoreHead \/ PushEvent
  \/ TakeEvent \/ FreeEvent \/ TakeIsrEvent \/ IsrPutEvent

PoolSpec == PoolInit /\ [][PoolNext]_poolVars

(***************************************************************************)
PoolTypeOK ==
  /\ build \in Builds
  /\ links \in List!Memory
  /\ pc \in {"idle", "load", "tail", "head", "push", "free"}
  /\ popped \in Slots \cup Queues \cup {Nil}
  /\ inHand \in Slots \cup {Nil}

ChainOf(L) == List!Chain(links, L, N)
Members(L) == {ChainOf(L)[i] : i \in DOMAIN ChainOf(L)}

(* What __fwk_thread_init says of its parameter, event_count: it is the    *)
(* maximum number of events in all queues at all time.                     *)
WithinEventCount ==
  Len(ChainOf(FreeQ)) + Len(ChainOf(EventQ)) + Len(ChainOf(IsrQ))
    <= Cardinality(Slots)

(* Every event structure is linked in exactly one list or in the hand of   *)
(* the thread between any two accesses, and outside the pop all three      *)
(* lists are well formed, tails included: the next put_event, by the       *)
(* thread or by an interrupt handler, finds a list it can work on.  (So    *)
(* are the types of all variables.)                                        *)
PoolPartition ==
  /\ PoolTypeOK
  /\ \A L \in Queues : Members(L) \subseteq Slots
  /\ \A L, M \in Queues : L # M => Members(L) \cap Members(M) = {}
  /\ Slots \ UNION {Members(L) : L \in Queues} = {inHand} \ {Nil}
  /\ ~Popping => \A L \in Queues : List!Represents(links, L, ChainOf(L))
=============================================================================
