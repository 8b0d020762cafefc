------------------------------ MODULE FwkList ------------------------------
(***************************************************************************)
(* The intrusive circular lists of the framework at the level of their     *)
(* pointers, framework/src/fwk_slist.c and fwk_dlist.c.                    *)
(*                                                                         *)
(* A memory m has two pointer fields, m.next and m.prev, for every node    *)
(* and every list.  A list is its own end marker: its head is aligned with *)
(* next and its tail with prev, as the static assertions at the end of the *)
(* two source files require, so m.next[L] is the head of list L and        *)
(* m.prev[L] its tail.  A singly-linked node only uses next.               *)
(***************************************************************************)
EXTENDS Integers, Sequences

CONSTANTS
  Nodes,   (* the nodes that can be linked                                 *)
  Lists,   (* the list heads                                               *)
  Null,    (* the NULL pointer                                             *)
  Debug    (* BUILD_MODE_DEBUG: unlinked nodes get their pointers cleared  *)

Cells == Nodes \cup Lists
Memory == [next : [Cells -> Cells \cup {Null}],
           prev : [Cells -> Cells \cup {Null}]]

(* All lists initialised by __fwk_slist_init, all nodes zeroed.            *)
Unlinked == [c \in Cells |-> IF c \in Lists THEN c ELSE Null]
EmptyMemory == [next |-> Unlinked, prev |-> Unlinked]

SetNext(m, c, v) == [m EXCEPT !.next[c] = v]
SetPrev(m, c, v) == [m EXCEPT !.prev[c] = v]

(***************************************************************************)
(* Singly-linked lists                                                     *)
(***************************************************************************)
IsEmpty(m, L) == m.next[L] = L

HeadOf(m, L) == IF IsEmpty(m, L) THEN Null ELSE m.next[L]

SPushHead(m, L, n) ==
  LET linked == SetNext(SetNext(m, n, m.next[L]), L, n)
  IN IF m.prev[L] = L THEN SetPrev(linked, L, n) ELSE linked

SPushTail(m, L, n) ==
  SetPrev(SetNext(SetNext(m, n, L), m.prev[L], n), L, n)

(* pop_head returns HeadOf and leaves this memory.                         *)
SPopHead(m, L) ==
  LET popped == m.next[L]
      tailed == IF m.next[popped] = L THEN SetPrev(m, L, L) ELSE m
      unlinked == SetNext(tailed, L, m.next[popped])
  IN IF IsEmpty(m, L) THEN m
     ELSE IF Debug THEN SetNext(unlinked, popped, Null) ELSE unlinked

(* The node a walk from list L has reached after k steps; the bound N on   *)
(* k is one more than a well-formed list needs.                            *)
Walk(m, L, N) ==
  LET at[k \in 0..N] == IF k = 0 THEN L ELSE m.next[at[k - 1]] IN at

(* The nodes of list L from head to tail.                                  *)
Chain(m, L, N) ==
  LET at == Walk(m, L, N)
      ends == {k \in 1..N : at[k] = L}
      len == IF ends = {} THEN N
             ELSE (CHOOSE k \in ends : \A j \in ends : k <= j) - 1
  IN [k \in 1..len |-> at[k]]

SContains(m, L, n, N) == \E k \in DOMAIN Chain(m, L, N) : Chain(m, L, N)[k] = n

NextOf(m, L, n) == IF m.next[n] = L THEN Null ELSE m.next[n]

(* The cell whose next is n, searched from the list: node_iter.            *)
Before(m, L, n, N) ==
  LET at == Walk(m, L, N)
  IN at[CHOOSE k \in 0..(N - 1) :
          /\ at[k + 1] = n
          /\ \A j \in 0..(k - 1) : at[j + 1] # n]

(* Mutant: the tail stays when the last node is removed.                   *)
SRemoveKeepsTail(m, L, n, N) ==
  LET bridged == SetNext(m, Before(m, L, n, N), m.next[n])
  IN IF Debug THEN SetNext(bridged, n, Null) ELSE bridged

(* Mutant: the removed node keeps its pointer.                             *)
SRemoveKeepsPointer(m, L, n, N) ==
  LET before == Before(m, L, n, N)
      bridged == SetNext(m, before, m.next[n])
  IN IF m.next[n] = L THEN SetPrev(bridged, L, before) ELSE bridged

SRemove(m, L, n, N) ==
  LET before == Before(m, L, n, N)
      bridged == SetNext(m, before, m.next[n])
      tailed == IF m.next[n] = L THEN SetPrev(bridged, L, before) ELSE bridged
  IN IF Debug THEN SetNext(tailed, n, Null) ELSE tailed

(***************************************************************************)
(* Doubly-linked lists: the backward pointer is set first and the forward  *)
(* half is left to the singly-linked operation.                            *)
(***************************************************************************)
DPushHead(m, L, n) ==
  SPushHead(SetPrev(SetPrev(m, n, L), m.next[L], n), L, n)

DPushTail(m, L, n) == SPushTail(SetPrev(m, n, m.prev[L]), L, n)

(* Mutant: the popped node keeps its backward pointer.                     *)
DPopHeadKeepsPrev(m, L) ==
  LET rest == SPopHead(m, L) IN SetPrev(rest, rest.next[L], L)

DPopHead(m, L) ==
  LET popped == HeadOf(m, L)
      rest == SPopHead(m, L)
      backed == SetPrev(rest, rest.next[L], L)
  IN IF Debug /\ popped # Null THEN SetPrev(backed, popped, Null) ELSE backed

(* Mutant: the backward pointer of the next node is not moved.             *)
DRemoveForward(m, L, n) ==
  LET bridged == SetNext(m, m.prev[n], m.next[n])
  IN IF Debug THEN SetNext(SetPrev(bridged, n, Null), n, Null) ELSE bridged

DRemove(m, L, n) ==
  LET bridged == SetPrev(SetNext(m, m.prev[n], m.next[n]), m.next[n], m.prev[n])
  IN IF Debug THEN SetNext(SetPrev(bridged, n, Null), n, Null) ELSE bridged

(* Mutant: the node before the inserted one keeps its forward pointer.     *)
DInsertUnlinked(m, L, new, node) ==
  IF node = Null THEN DPushTail(m, L, new)
  ELSE SetPrev(SetNext(SetPrev(m, new, m.prev[node]), new, node), node, new)

(* Insert new in front of node, at the tail when node is Null.             *)
DInsert(m, L, new, node) ==
  IF node = Null THEN DPushTail(m, L, new)
  ELSE LET before == m.prev[node]
       IN SetPrev(SetNext(SetPrev(SetNext(m, before, new), new, before),
                          new, node), node, new)

(***************************************************************************)
(* What a list means: memory m represents the sequence s as list L.        *)
(***************************************************************************)
After(L, s, i) == IF i = Len(s) THEN L ELSE s[i + 1]
Prior(L, s, i) == IF i = 1 THEN L ELSE s[i - 1]

Represents(m, L, s) ==
  /\ m.next[L] = After(L, s, 0)
  /\ m.prev[L] = Prior(L, s, Len(s) + 1)
  /\ \A i \in 1..Len(s) : m.next[s[i]] = After(L, s, i)

RepresentsBothWays(m, L, s) ==
  /\ Represents(m, L, s)
  /\ \A i \in 1..Len(s) : m.prev[s[i]] = Prior(L, s, i)
=============================================================================
