--------------------------- MODULE EventPool_proofs ---------------------------
(***************************************************************************)
(* The pool of event structures is partitioned in every build whose pop is *)
(* masked or whose interrupt handlers put no event, for any number of      *)
(* structures.                                                             *)
(***************************************************************************)
EXTENDS EventPool, FiniteSetTheorems, TLAPS

Lp == INSTANCE FwkList_proofs WITH
        Nodes <- Slots, Lists <- Queues, Null <- Nil, Debug <- FALSE

(***************************************************************************)
(* The operations of EventPool are those the lemmas are about.             *)
(***************************************************************************)
LEMMA SameOperations ==
  ASSUME NEW m, NEW L, NEW n
  PROVE  /\ List!SPushTail(m, L, n) = Lp!SPushTail(m, L, n)
         /\ List!SPopHead(m, L) = Lp!SPopHead(m, L)
         /\ List!HeadOf(m, L) = Lp!HeadOf(m, L)
         /\ List!IsEmpty(m, L) = Lp!IsEmpty(m, L)
         /\ List!SetNext(m, L, n) = Lp!SetNext(m, L, n)
         /\ List!SetPrev(m, L, n) = Lp!SetPrev(m, L, n)
         /\ List!Memory = Lp!Memory /\ List!Cells = Lp!Cells
         /\ List!EmptyMemory = Lp!EmptyMemory
         /\ List!Chain(m, L, n) = Lp!Chain(m, L, n)
<1>1. /\ List!SetNext(m, L, n) = Lp!SetNext(m, L, n)
      /\ List!SetPrev(m, L, n) = Lp!SetPrev(m, L, n)
  BY DEF List!SetNext, Lp!SetNext, List!SetPrev, Lp!SetPrev
<1>2. List!SPushTail(m, L, n) = Lp!SPushTail(m, L, n)
  BY Zenon DEF List!SPushTail, Lp!SPushTail, List!SetNext, Lp!SetNext,
               List!SetPrev, Lp!SetPrev
<1>3. /\ List!IsEmpty(m, L) = Lp!IsEmpty(m, L)
      /\ List!HeadOf(m, L) = Lp!HeadOf(m, L)
  BY Zenon DEF List!IsEmpty, Lp!IsEmpty, List!HeadOf, Lp!HeadOf
<1>4. List!SPopHead(m, L) = Lp!SPopHead(m, L)
  BY Zenon DEF List!SPopHead, Lp!SPopHead, List!SetNext, Lp!SetNext,
               List!SetPrev, Lp!SetPrev, List!IsEmpty, Lp!IsEmpty
<1>5. /\ List!Memory = Lp!Memory /\ List!Cells = Lp!Cells
      /\ List!EmptyMemory = Lp!EmptyMemory
  BY Zenon DEF List!Memory, Lp!Memory, List!Cells, Lp!Cells,
               List!EmptyMemory, Lp!EmptyMemory, List!Unlinked, Lp!Unlinked
<1>6. List!Chain(m, L, n) = Lp!Chain(m, L, n)
  BY Zenon DEF List!Chain, Lp!Chain, List!Walk, Lp!Walk
<1> QED BY <1>1, <1>2, <1>3, <1>4, <1>5, <1>6

LEMMA FourApart ==
  ASSUME NEW a, NEW b, NEW c, NEW d, Cardinality({a, b, c, d}) = 4
  PROVE  a \notin {b, c, d} /\ b \notin {c, d} /\ c # d
<1>1. IsFiniteSet({d}) /\ Cardinality({d}) = 1
  BY FS_Singleton
<1> PICK D, C, B : D = {d} /\ C = D \cup {c} /\ B = C \cup {b}
  OBVIOUS
<1>2. /\ IsFiniteSet(C)
      /\ Cardinality(C) = IF c \in D THEN Cardinality(D) ELSE Cardinality(D) + 1
  BY <1>1, FS_AddElement
<1>3. /\ IsFiniteSet(B)
      /\ Cardinality(B) = IF b \in C THEN Cardinality(C) ELSE Cardinality(C) + 1
  BY <1>2, FS_AddElement
<1>4. Cardinality(B \cup {a})
        = IF a \in B THEN Cardinality(B) ELSE Cardinality(B) + 1
  BY <1>3, FS_AddElement
<1>5. B \cup {a} = {a, b, c, d}
  OBVIOUS
<1>6. a \notin B /\ b \notin C /\ c \notin D
  <2> PICK x, y, z : x = Cardinality(D) /\ y = Cardinality(C) /\ z = Cardinality(B)
    OBVIOUS
  <2>1. x = 1 /\ y = (IF c \in D THEN x ELSE x + 1)
        /\ z = (IF b \in C THEN y ELSE y + 1)
        /\ 4 = (IF a \in B THEN z ELSE z + 1)
    BY <1>1, <1>2, <1>3, <1>4, <1>5
  <2> QED BY <2>1
<1> QED BY <1>6

LEMMA PlacesApart ==
  /\ FreeQ # EventQ /\ FreeQ # IsrQ /\ EventQ # IsrQ /\ Nil \notin Queues
  /\ Slots \cap Queues = {} /\ Nil \notin Slots
  /\ Lp!Apart
<1>1. FreeQ \notin {EventQ, IsrQ, Nil} /\ EventQ \notin {IsrQ, Nil} /\ IsrQ # Nil
  BY FourApart, PoolAssumption
<1>2. Slots \cap Queues = {} /\ Nil \notin Slots
  BY PoolAssumption DEF Queues
<1> QED BY <1>1, <1>2 DEF Queues, Lp!Apart

(* A sequence of different structures is no longer than the pool.          *)
LEMMA SequenceFits ==
  ASSUME NEW s, Lp!Sequence(s)
  PROVE  Len(s) <= Cardinality(Slots) /\ N \in Nat /\ Len(s) < N
<1>1. IsFiniteSet(Slots) /\ Cardinality(Slots) \in Nat
  BY PoolAssumption, FS_CardinalityType
<1>2. s \in Injection(1..Len(s), Slots)
  BY DEF Lp!Sequence, Lp!Distinct, Injection, IsInjective
<1>3. Cardinality(1..Len(s)) <= Cardinality(Slots)
  BY <1>1, <1>2, FS_Injection
<1>4. Len(s) \in Nat /\ Cardinality(1..Len(s)) = Len(s)
  <2>1. Len(s) \in Nat
    BY DEF Lp!Sequence
  <2> QED BY <2>1, FS_Interval
<1> QED BY <1>1, <1>3, <1>4 DEF N

(***************************************************************************)
(* The pool                                                                *)
(***************************************************************************)

(* Memory m represents s[q] as each queue q, no structure is in two of     *)
(* them, and those of h are in none.                                       *)
Holds(m, s, h) ==
  /\ m \in Lp!Memory
  /\ \A q \in Queues : Lp!Spells(m, q, s[q])
  /\ \A p, q \in Queues : p # q => Lp!Elems(s[p]) \cap Lp!Elems(s[q]) = {}
  /\ \A n \in Slots : n \in h <=> \A q \in Queues : n \notin Lp!Elems(s[q])
  /\ h \subseteq Slots

(* s with queue q replaced by r.                                           *)
With(s, q, r) == [x \in Queues |-> IF x = q THEN r ELSE s[x]]

LEMMA SpelledSlots ==
  ASSUME NEW m, NEW q, NEW r, Lp!Spells(m, q, r)
  PROVE  Lp!Elems(r) \subseteq Slots
BY DEF Lp!Spells, Lp!Sequence, Lp!Elems

(* An operation on the pointers of queue q and of free structures leaves   *)
(* the other queues alone.                                                 *)
LEMMA OthersStay ==
  ASSUME NEW m, NEW s, NEW h, Holds(m, s, h), NEW q \in Queues,
         NEW t, Lp!Touches(t, m, {q} \cup h \cup Lp!Elems(s[q]), {q}),
         NEW p \in Queues, p # q
  PROVE  Lp!Spells(t, p, s[p])
<1> PICK r : r = s[p]
  OBVIOUS
<1>1. /\ Lp!Spells(m, p, r) /\ Lp!Elems(r) \subseteq Slots
      /\ Lp!Elems(r) \cap Lp!Elems(s[q]) = {} /\ Lp!Elems(r) \cap h = {}
      /\ q \notin Slots /\ p \notin Slots /\ Lp!Elems(s[q]) \subseteq Slots
  <2>1. Lp!Spells(m, p, r) /\ Lp!Spells(m, q, s[q])
    BY DEF Holds
  <2>2. Lp!Elems(r) \subseteq Slots /\ Lp!Elems(s[q]) \subseteq Slots
    BY <2>1, SpelledSlots
  <2>3. Lp!Elems(r) \cap Lp!Elems(s[q]) = {} /\ Lp!Elems(r) \cap h = {}
    BY <2>2 DEF Holds
  <2> QED BY <2>1, <2>2, <2>3, PlacesApart
<1>2. /\ \A c \in Lp!Cells \ ({q} \cup h \cup Lp!Elems(s[q])) : t.next[c] = m.next[c]
      /\ \A c \in Lp!Cells \ {q} : t.prev[c] = m.prev[c]
  BY DEF Lp!Touches
<1>3. /\ t.next[p] = m.next[p] /\ t.prev[p] = m.prev[p]
      /\ \A n \in Lp!Elems(r) : t.next[n] = m.next[n]
  BY <1>1, <1>2 DEF Lp!Cells, Holds
<1>4. Lp!Spells(t, p, r)
  BY <1>1, <1>3, Lp!SameList
<1> QED BY <1>4

(* Unlinking and linking, whatever the structures that are out.            *)
LEMMA PopHolds ==
  ASSUME NEW m, NEW s, NEW h, Holds(m, s, h), NEW q \in Queues, s[q] # <<>>
  PROVE  /\ List!HeadOf(m, q) = s[q][1] /\ s[q][1] \in Slots \ h
         /\ Holds(List!SPopHead(m, q), With(s, q, Tail(s[q])), h \cup {s[q][1]})
<1> PICK t : t = List!SPopHead(m, q)
  OBVIOUS
<1> PICK r : r = s[q]
  OBVIOUS
<1> PICK n : n = r[1]
  OBVIOUS
<1> PICK z : z = Tail(r)
  OBVIOUS
<1> PICK w : w = With(s, q, z)
  OBVIOUS
<1>1. Lp!Apart /\ m \in Lp!Memory /\ Lp!Spells(m, q, r) /\ r # <<>>
  BY PlacesApart DEF Holds
<1>2. t = Lp!SPopHead(m, q) /\ List!HeadOf(m, q) = Lp!HeadOf(m, q)
  BY SameOperations
<1>3. /\ Lp!HeadOf(m, q) = n /\ Lp!Spells(t, q, z)
      /\ Lp!Touches(t, m, {q} \cup Lp!Elems(r), {q})
  <2>1. /\ Lp!HeadOf(m, q) = r[1] /\ Lp!Spells(Lp!SPopHead(m, q), q, Tail(r))
        /\ Lp!Touches(Lp!SPopHead(m, q), m, {q} \cup Lp!Elems(r), {q})
    BY ONLY <1>1, Lp!SPopHeadLinks
  <2> QED BY <2>1, <1>2
<1>4. Lp!Sequence(r) /\ r \in Seq(Slots) /\ Lp!Removed(z, r, 1)
  BY <1>1, Lp!TailRemoves DEF Lp!Spells, Lp!Sequence
<1>5. Lp!Elems(z) = Lp!Elems(r) \ {n}
  BY <1>4, Lp!RemovedSequence
<1>6. n \in Lp!Elems(r) /\ n \in Slots /\ n \notin h
  <2>1. n \in Lp!Elems(r)
    BY <1>1, <1>4 DEF Lp!Elems
  <2>2. n \in Slots
    BY <2>1, <1>1, SpelledSlots
  <2> QED BY <2>1, <2>2 DEF Holds
<1>7. Lp!Touches(t, m, {q} \cup h \cup Lp!Elems(r), {q})
  BY <1>3 DEF Lp!Touches
<1>8. \A p \in Queues : w[p] = IF p = q THEN z ELSE s[p]
  BY DEF With
<1>9. ASSUME NEW p \in Queues PROVE Lp!Spells(t, p, w[p])
  <2>1. CASE p = q
    BY <2>1, <1>3, <1>8
  <2>2. CASE p # q
    <3>1. Lp!Spells(t, p, s[p])
      BY <2>2, <1>7, OthersStay
    <3> QED BY <2>2, <3>1, <1>8
  <2> QED BY <2>1, <2>2
<1>10. \A p \in Queues : Lp!Elems(w[p]) = Lp!Elems(s[p]) \ {n}
  <2> SUFFICES ASSUME NEW p \in Queues
               PROVE  Lp!Elems(w[p]) = Lp!Elems(s[p]) \ {n}
    OBVIOUS
  <2>1. CASE p = q
    BY <2>1, <1>5, <1>8
  <2>2. CASE p # q
    <3>1. n \notin Lp!Elems(s[p]) /\ w[p] = s[p]
      BY <2>2, <1>6, <1>8 DEF Holds
    <3> QED BY <3>1
  <2> QED BY <2>1, <2>2
<1>11. Holds(t, w, h \cup {n})
  <2>1. t \in Lp!Memory
    BY <1>3 DEF Lp!Touches
  <2>2. \A x, y \in Queues :
          x # y => Lp!Elems(w[x]) \cap Lp!Elems(w[y]) = {}
    BY <1>10 DEF Holds
  <2>3. ASSUME NEW x \in Slots
        PROVE  x \in h \cup {n} <=> \A p \in Queues : x \notin Lp!Elems(w[p])
    <3>1. x \in h <=> \A p \in Queues : x \notin Lp!Elems(s[p])
      BY DEF Holds
    <3>2. x # n => \A p \in Queues : x \in Lp!Elems(w[p]) <=> x \in Lp!Elems(s[p])
      BY <1>10
    <3>3. \A p \in Queues : n \notin Lp!Elems(w[p])
      BY <1>10
    <3> QED BY <3>1, <3>2, <3>3, Zenon
  <2>4. h \cup {n} \subseteq Slots
    BY <1>6 DEF Holds
  <2> QED BY <2>1, <2>2, <2>3, <2>4, <1>9 DEF Holds
<1> QED BY <1>2, <1>3, <1>6, <1>11

LEMMA PushHolds ==
  ASSUME NEW m, NEW s, NEW h, Holds(m, s, h), NEW q \in Queues, NEW n \in h
  PROVE  Holds(List!SPushTail(m, q, n), With(s, q, Append(s[q], n)), h \ {n})
<1> PICK t : t = List!SPushTail(m, q, n)
  OBVIOUS
<1> PICK r : r = s[q]
  OBVIOUS
<1> PICK z : z = Append(r, n)
  OBVIOUS
<1> PICK w : w = With(s, q, z)
  OBVIOUS
<1>1. /\ Lp!Apart /\ m \in Lp!Memory /\ Lp!Spells(m, q, r)
      /\ n \in Slots /\ n \notin Lp!Elems(r)
  BY PlacesApart DEF Holds
<1>2. t = Lp!SPushTail(m, q, n)
  BY SameOperations
<1>3. /\ Lp!Spells(t, q, z)
      /\ Lp!Touches(t, m, {q, n} \cup Lp!Elems(r), {q})
  <2>1. /\ Lp!Spells(Lp!SPushTail(m, q, n), q, Append(r, n))
        /\ Lp!Touches(Lp!SPushTail(m, q, n), m, {q, n} \cup Lp!Elems(r), {q})
    BY ONLY <1>1, Lp!SPushTailLinks
  <2> QED BY <2>1, <1>2
<1>4. Lp!Sequence(r) /\ Lp!Inserted(z, r, Len(r) + 1, n)
  BY <1>1, Lp!AppendInserts DEF Lp!Spells, Lp!Sequence
<1>5. Lp!Elems(z) = Lp!Elems(r) \cup {n}
  BY <1>1, <1>4, Lp!InsertedSequence
<1>7. Lp!Touches(t, m, {q} \cup h \cup Lp!Elems(s[q]), {q})
  BY <1>3 DEF Lp!Touches
<1>8. \A p \in Queues : w[p] = IF p = q THEN z ELSE s[p]
  BY DEF With
<1>9. ASSUME NEW p \in Queues PROVE Lp!Spells(t, p, w[p])
  <2>1. CASE p = q
    BY <2>1, <1>3, <1>8
  <2>2. CASE p # q
    <3>1. Lp!Spells(t, p, s[p])
      BY ONLY <2>2, <1>7, Holds(m, s, h), OthersStay
    <3> QED BY <2>2, <3>1, <1>8
  <2> QED BY <2>1, <2>2
<1>10. \A p \in Queues :
         Lp!Elems(w[p]) = IF p = q THEN Lp!Elems(s[p]) \cup {n} ELSE Lp!Elems(s[p])
  BY <1>5, <1>8
<1>11. Holds(t, w, h \ {n})
  <2>1. t \in Lp!Memory
    BY <1>3 DEF Lp!Touches
  <2>2. ASSUME NEW x \in Queues, NEW y \in Queues, x # y
        PROVE  Lp!Elems(w[x]) \cap Lp!Elems(w[y]) = {}
    <3>1. /\ Lp!Elems(s[x]) \cap Lp!Elems(s[y]) = {}
          /\ n \notin Lp!Elems(s[x]) /\ n \notin Lp!Elems(s[y])
      BY <1>1, <2>2 DEF Holds
    <3>2. CASE x = q
      BY <3>1, <3>2, <2>2, <1>10
    <3>3. CASE x # q
      BY <3>1, <3>3, <2>2, <1>10
    <3> QED BY <3>2, <3>3
  <2>3. \A x \in Slots : x \in h \ {n}
                           <=> \A p \in Queues : x \notin Lp!Elems(w[p])
    BY <1>10 DEF Holds
  <2>4. h \ {n} \subseteq Slots
    BY DEF Holds
  <2> QED BY <2>1, <2>2, <2>3, <2>4, <1>9 DEF Holds
<1> QED BY <1>11

(***************************************************************************)
(* The pool after initialisation                                           *)
(***************************************************************************)
Unused == [p \in Queues |-> <<>>]

LEMMA EmptyHolds == Holds(List!EmptyMemory, Unused, Slots)
<1> PICK t : t = Lp!EmptyMemory
  OBVIOUS
<1>1. t = List!EmptyMemory
  BY SameOperations
<1>2. /\ t.next = Lp!Unlinked /\ t.prev = Lp!Unlinked
      /\ t = [next |-> Lp!Unlinked, prev |-> Lp!Unlinked]
  BY DEF Lp!EmptyMemory
<1>3. /\ Lp!Unlinked \in [Lp!Cells -> Lp!Cells \cup {Nil}]
      /\ \A q \in Queues : Lp!Unlinked[q] = q
  BY DEF Lp!Unlinked, Lp!Cells
<1>4. t \in Lp!Memory
  BY <1>2, <1>3 DEF Lp!Memory
<1>5. ASSUME NEW q \in Queues
      PROVE  Unused[q] = <<>> /\ Lp!Spells(t, q, <<>>) /\ Lp!Elems(<<>>) = {}
  BY <1>2, <1>3 DEF Unused, Lp!Spells, Lp!Sequence, Lp!Distinct, Lp!Represents,
                    Lp!After, Lp!Prior, Lp!Elems
<1>6. \A q \in Queues : Lp!Spells(t, q, Unused[q]) /\ Lp!Elems(Unused[q]) = {}
  BY <1>5
<1> QED BY <1>1, <1>4, <1>6 DEF Holds

(* The memory after k pushes of the structures of q.                       *)
PushedOf(f, q, l) ==
  f = [k \in 0..l |-> IF k = 0 THEN List!EmptyMemory
                      ELSE List!SPushTail(f[k - 1], FreeQ, q[k])]

LEMMA PushedExists ==
  ASSUME NEW q
  PROVE  \A l \in Nat : \E f : PushedOf(f, q, l)
<1> DEFINE T == {l \in Nat : ~ \E f : PushedOf(f, q, l)}
           Push(x, k) == List!SPushTail(x, FreeQ, q[k])
<1> SUFFICES ASSUME T # {} PROVE FALSE
  OBVIOUS
<1>1. PICK l \in T : \A y \in T : l <= y
  BY Lp!LeastNumber
<1>2. l # 0
  <2> SUFFICES ASSUME l = 0 PROVE FALSE
    OBVIOUS
  <2> DEFINE f == [k \in 0..0 |-> List!EmptyMemory]
  <2>1. PushedOf(f, q, 0)
    BY DEF PushedOf
  <2> QED BY <2>1
<1>3. l - 1 \in Nat /\ l - 1 \notin T
  BY <1>1, <1>2
<1>4. PICK f : PushedOf(f, q, l - 1)
  BY <1>3
<1> DEFINE g == [k \in 0..l |-> IF k = 0 THEN List!EmptyMemory
                                ELSE List!SPushTail(f[k - 1], FreeQ, q[k])]
<1>5. \A k \in 0..(l - 1) : g[k] = f[k]
  BY <1>3, <1>4 DEF PushedOf
<1>6. g = [k \in 0..l |-> IF k = 0 THEN List!EmptyMemory
                          ELSE List!SPushTail(g[k - 1], FreeQ, q[k])]
  <2>1. \A k \in 0..l : k # 0 => g[k - 1] = f[k - 1]
    <3> SUFFICES ASSUME NEW k \in 0..l, k # 0 PROVE g[k - 1] = f[k - 1]
      OBVIOUS
    <3>1. k - 1 \in 0..(l - 1)
      BY <1>3
    <3> QED BY <3>1, <1>5
  <2>2. g = [k \in 0..l |-> IF k = 0 THEN List!EmptyMemory
                            ELSE List!SPushTail(f[k - 1], FreeQ, q[k])]
    OBVIOUS
  <2> HIDE DEF g
  <2> QED BY <2>1, <2>2
<1>7. PushedOf(g, q, l)
  BY <1>6, Zenon DEF PushedOf
<1> QED BY <1>7

LEMMA FilledSteps ==
  ASSUME NEW q, Len(q) \in Nat
  PROVE  \E f : /\ Filled(q) = f[Len(q)] /\ f[0] = List!EmptyMemory
                /\ \A k \in 1..Len(q) :
                     f[k] = List!SPushTail(f[k - 1], FreeQ, q[k])
<1> DEFINE f == CHOOSE g : PushedOf(g, q, Len(q))
<1>1. PushedOf(f, q, Len(q))
  BY PushedExists
<1>2. Filled(q) = f[Len(q)]
  BY Zenon DEF Filled, PushedOf
<1> HIDE DEF f
<1> PICK l : l = Len(q)
  OBVIOUS
<1>3. f = [k \in 0..l |-> IF k = 0 THEN List!EmptyMemory
                          ELSE List!SPushTail(f[k - 1], FreeQ, q[k])]
  BY <1>1 DEF PushedOf
<1>4. f[0] = List!EmptyMemory
      /\ \A k \in 1..l : f[k] = List!SPushTail(f[k - 1], FreeQ, q[k])
  BY <1>3
<1> QED BY <1>2, <1>4

(* The free queue holds every structure, in the order of q.                *)
LEMMA FilledHolds ==
  ASSUME NEW q \in [1..Cardinality(Slots) -> Slots],
         \A i, j \in DOMAIN q : q[i] = q[j] => i = j
  PROVE  \E s : Holds(Filled(q), s, {})
<1> PICK l : l = Cardinality(Slots)
  OBVIOUS
<1>1. /\ l \in Nat /\ q \in [1..l -> Slots] /\ q \in Seq(Slots) /\ Len(q) = l
  BY PoolAssumption, FS_CardinalityType
<1>2. \A n \in Slots : \E i \in 1..l : q[i] = n
  <2>1. q \in Injection(1..l, Slots)
    BY <1>1 DEF Injection, IsInjective
  <2>2. Cardinality(1..l) = l
    BY <1>1, FS_Interval
  <2>3. q \in Surjection(1..l, Slots)
    BY <2>1, <2>2, PoolAssumption, FS_Injection
  <2> QED BY <2>3 DEF Surjection
<1>3. PICK f : /\ Filled(q) = f[l] /\ f[0] = List!EmptyMemory
               /\ \A k \in 1..l : f[k] = List!SPushTail(f[k - 1], FreeQ, q[k])
  BY <1>1, FilledSteps
<1> DEFINE Rest(k) == {q[j] : j \in (k + 1)..l}
           T == {k \in 0..l : ~ \E s : Holds(f[k], s, Rest(k))}
<1>4. T = {}
  <2> SUFFICES ASSUME T # {} PROVE FALSE
    OBVIOUS
  <2>1. PICK k \in T : \A y \in T : k <= y
    <3>1. T \subseteq Nat
      BY <1>1
    <3> QED BY <3>1, Lp!LeastNumber
  <2>2. k \in 0..l /\ ~ \E s : Holds(f[k], s, Rest(k))
    OBVIOUS
  <2>3. k # 0
    <3> SUFFICES ASSUME k = 0 PROVE FALSE
      OBVIOUS
    <3>1. Rest(0) = Slots
      BY <1>1, <1>2
    <3> QED BY <3>1, <2>2, <1>3, EmptyHolds
  <2>4. k \in 1..l /\ k - 1 \in 0..l /\ k - 1 \notin T
    <3>1. k \in 1..l /\ k - 1 \in 0..l /\ ~ (k <= k - 1)
      BY <1>1, <2>2, <2>3
    <3> HIDE DEF T
    <3> QED BY <2>1, <3>1
  <2>5. PICK s : Holds(f[k - 1], s, Rest(k - 1))
    BY <2>4
  <2>6. q[k] \in Rest(k - 1) /\ Rest(k) = Rest(k - 1) \ {q[k]}
    <3>1. k \in ((k - 1) + 1)..l
      BY <1>1, <2>4
    <3>2. \A j \in ((k - 1) + 1)..l : j # k => j \in (k + 1)..l
      BY <1>1, <2>4
    <3>3. \A j \in (k + 1)..l : j \in ((k - 1) + 1)..l /\ j # k /\ j \in 1..l
      BY <1>1, <2>4
    <3>4. \A j \in (k + 1)..l : q[j] # q[k]
      BY <3>3, <1>1, <2>4
    <3> QED BY <3>1, <3>2, <3>3, <3>4
  <2> HIDE DEF Rest
  <2>7. FreeQ \in Queues
    BY DEF Queues
  <2>8. Holds(List!SPushTail(f[k - 1], FreeQ, q[k]),
              With(s, FreeQ, Append(s[FreeQ], q[k])), Rest(k - 1) \ {q[k]})
    BY <2>5, <2>6, <2>7, PushHolds
  <2> QED BY <2>2, <2>4, <2>6, <2>8, <1>3
<1>5. \E s : Holds(f[l], s, Rest(l))
  <2>1. l \in 0..l
    BY <1>1
  <2> QED BY <2>1, <1>4
<1>6. Rest(l) = {}
  BY <1>1
<1> QED BY <1>3, <1>5, <1>6

(***************************************************************************)
(* The inductive invariant.  Between the store to the tail and the store   *)
(* to the head, memory is a well-formed pool but for the tail of the free  *)
(* queue.                                                                  *)
(***************************************************************************)
TailFixed(m, n) ==
  IF m.next[n] = FreeQ THEN List!SetPrev(m, FreeQ, FreeQ) ELSE m

PoolInvariant ==
  /\ build \in Builds
  /\ pc \in {"idle", "load", "tail", "head", "push", "free"}
  /\ popped \in Slots \cup Queues \cup {Nil}
  /\ inHand \in Slots \cup {Nil}
  /\ inHand # Nil <=> pc \in {"push", "free"}
  /\ \E m, s :
       /\ Holds(m, s, {inHand} \ {Nil})
       /\ Popping => s[FreeQ] # <<>>
       /\ pc \in {"tail", "head"} => popped = s[FreeQ][1]
       /\ links = IF pc = "head" THEN TailFixed(m, popped) ELSE m

(* A build with a masked pop, or without events from interrupt handlers.   *)
SoundBuilds == \A b \in Builds : b.maskedPop \/ ~ b.isrPuts

(* The queues at rest: m is the memory.                                    *)
LEMMA FreeHead ==
  ASSUME NEW m, NEW s, NEW h, Holds(m, s, h), NEW q \in Queues
  PROVE  /\ List!IsEmpty(m, q) <=> s[q] = <<>>
         /\ s[q] # <<>> => /\ m.next[q] = s[q][1]
                           /\ List!HeadOf(m, q) = s[q][1]
                           /\ s[q][1] \in Slots \ h
<1>3. s[q] # <<>> => List!HeadOf(m, q) = s[q][1] /\ s[q][1] \in Slots \ h
  <2> SUFFICES ASSUME s[q] # <<>>
               PROVE  List!HeadOf(m, q) = s[q][1] /\ s[q][1] \in Slots \ h
    OBVIOUS
  <2>1. /\ List!HeadOf(m, q) = s[q][1] /\ s[q][1] \in Slots \ h
        /\ Holds(List!SPopHead(m, q), With(s, q, Tail(s[q])), h \cup {s[q][1]})
    BY PopHolds
  <2> QED BY <2>1
<1> PICK r : r = s[q]
  OBVIOUS
<1>1. Lp!Apart /\ Lp!Spells(m, q, r)
  BY PlacesApart DEF Holds
<1>2. /\ r = <<>> => m.next[q] = q
      /\ r # <<>> => m.next[q] = r[1] /\ m.next[q] # q
  BY ONLY <1>1, Lp!Ends
<1>4. List!IsEmpty(m, q) <=> m.next[q] = q
  BY DEF List!IsEmpty
<1>5. r = <<>> <=> m.next[q] = q
  BY <1>2
<1>6. r # <<>> => m.next[q] = s[q][1]
  BY <1>2
<1> QED BY <1>3, <1>4, <1>5, <1>6

LEMMA InitPool == PoolInit => PoolInvariant
<1> SUFFICES ASSUME PoolInit PROVE PoolInvariant
  OBVIOUS
<1>1. PICK q \in [1..Cardinality(Slots) -> Slots] :
        /\ \A i, j \in DOMAIN q : q[i] = q[j] => i = j
        /\ links = Filled(q)
  BY DEF PoolInit
<1>2. PICK s : Holds(links, s, {})
  BY <1>1, FilledHolds
<1>3. pc = "idle" /\ popped = Nil /\ inHand = Nil /\ build \in Builds
  BY DEF PoolInit
<1>4. {inHand} \ {Nil} = {}
  BY <1>3
<1> QED BY <1>2, <1>3, <1>4 DEF PoolInvariant, Popping

LEMMA NextPool ==
  ASSUME SoundBuilds, PoolInvariant, [PoolNext]_poolVars
  PROVE  PoolInvariant'
<1> USE DEF Popping
<1>1. PICK m, s : /\ Holds(m, s, {inHand} \ {Nil})
                  /\ Popping => s[FreeQ] # <<>>
                  /\ pc \in {"tail", "head"} => popped = s[FreeQ][1]
                  /\ links = IF pc = "head" THEN TailFixed(m, popped) ELSE m
  BY DEF PoolInvariant
<1>2. FreeQ \in Queues /\ EventQ \in Queues /\ IsrQ \in Queues
  BY DEF Queues
<1>3. /\ inHand = Nil => {inHand} \ {Nil} = {}
      /\ inHand # Nil => {inHand} \ {Nil} = {inHand}
      /\ Nil \notin Slots
  BY PlacesApart
<1>4. CASE UNCHANGED poolVars
  BY <1>4 DEF PoolInvariant, poolVars
<1>5. CASE PopIsEmpty
  <2>1. List!IsEmpty(m, FreeQ) <=> s[FreeQ] = <<>>
    BY <1>1, <1>2, FreeHead
  <2> QED BY <1>1, <1>5, <2>1 DEF PopIsEmpty, Moves, PoolInvariant
<1>6. CASE PopLoadHead
  <2>1. m.next[FreeQ] = s[FreeQ][1] /\ s[FreeQ][1] \in Slots
    BY <1>1, <1>2, <1>6, FreeHead DEF PopLoadHead, Moves
  <2> QED BY <1>1, <1>6, <2>1 DEF PopLoadHead, Moves, PoolInvariant
<1>7. CASE PopFixTail
  BY <1>1, <1>7 DEF PopFixTail, Moves, PoolInvariant, TailFixed
<1>8. CASE PopStoreHead
  <2> PICK n : n = s[FreeQ][1]
    OBVIOUS
  <2>1. pc = "head" /\ popped = n /\ inHand = Nil /\ s[FreeQ] # <<>>
    BY <1>1, <1>8 DEF PopStoreHead, Moves, PoolInvariant
  <2>2. Holds(m, s, {}) /\ links = TailFixed(m, n)
    BY <1>1, <1>3, <2>1
  <2>3. links' = List!SetNext(links, FreeQ, links.next[n])
    BY <1>8, <2>1 DEF PopStoreHead
  <2>4. m.next[FreeQ] = n /\ n \in Slots /\ ~ List!IsEmpty(m, FreeQ)
    BY <1>2, <2>1, <2>2, FreeHead
  <2>5. links.next[n] = m.next[n]
    BY <2>2 DEF TailFixed, List!SetPrev
  <2>6. links' = List!SPopHead(m, FreeQ)
    BY <2>2, <2>3, <2>4, <2>5, Zenon DEF List!SPopHead, TailFixed
  <2>7. Holds(List!SPopHead(m, FreeQ), With(s, FreeQ, Tail(s[FreeQ])), {} \cup {n})
    BY <1>2, <2>1, <2>2, PopHolds
  <2>8. pc' = "push" /\ inHand' = n /\ popped' = popped /\ build' = build
    BY <1>8, <2>1 DEF PopStoreHead, Moves
  <2>9. {n} \ {Nil} = {} \cup {n} /\ n # Nil
    BY <1>3, <2>4
  <2> QED BY <2>4, <2>6, <2>7, <2>8, <2>9 DEF PoolInvariant
<1>9. CASE PushEvent \/ FreeEvent
  <2> PICK h : h = {inHand} \ {Nil}
    OBVIOUS
  <2> PICK q \in Queues : links' = List!SPushTail(links, q, inHand)
    BY <1>2, <1>9 DEF PushEvent, FreeEvent
  <2>1. /\ pc \in {"push", "free"} /\ pc' = "idle" /\ inHand' = Nil
        /\ popped' = popped /\ build' = build
    BY <1>9 DEF PushEvent, FreeEvent, Moves
  <2>2. inHand # Nil /\ h = {inHand} /\ links = m /\ Holds(m, s, h)
    BY <1>1, <1>3, <2>1 DEF PoolInvariant
  <2>3. Holds(links', With(s, q, Append(s[q], inHand)), h \ {inHand})
    BY <2>2, PushHolds
  <2>4. h \ {inHand} = {inHand'} \ {Nil}
    BY <2>1, <2>2
  <2> QED BY <2>1, <2>3, <2>4 DEF PoolInvariant
<1>10. CASE TakeEvent \/ TakeIsrEvent
  <2> PICK q \in Queues : /\ ~ List!IsEmpty(links, q)
                          /\ links' = List!SPopHead(links, q)
                          /\ inHand' = List!HeadOf(links, q)
    BY <1>2, <1>10 DEF TakeEvent, TakeIsrEvent
  <2> PICK n : n = s[q][1]
    OBVIOUS
  <2>1. /\ pc = "idle" /\ pc' \in {"push", "free"}
        /\ popped' = popped /\ build' = build
    BY <1>10 DEF TakeEvent, TakeIsrEvent, Moves
  <2>2. links = m /\ inHand = Nil /\ Holds(m, s, {})
    BY <1>1, <1>3, <2>1 DEF PoolInvariant
  <2>3. inHand' = n /\ n \in Slots /\ s[q] # <<>>
    BY <2>2, FreeHead
  <2>4. Holds(links', With(s, q, Tail(s[q])), {} \cup {n})
    BY <2>2, <2>3, PopHolds
  <2>5. {} \cup {n} = {inHand'} \ {Nil} /\ n # Nil
    BY <1>3, <2>3
  <2> QED BY <2>1, <2>3, <2>4, <2>5 DEF PoolInvariant
<1>11. CASE IsrPutEvent
  <2> PICK h : h = {inHand} \ {Nil}
    OBVIOUS
  <2> PICK n : n = s[FreeQ][1]
    OBVIOUS
  <2>1. /\ ~ List!IsEmpty(links, FreeQ)
        /\ links' = List!SPushTail(List!SPopHead(links, FreeQ), IsrQ,
                                 List!HeadOf(links, FreeQ))
        /\ pc' = pc /\ popped' = popped /\ build' = build /\ inHand' = inHand
    BY <1>11 DEF IsrPutEvent
  <2>2. pc \notin {"load", "tail", "head"}
    BY <1>11 DEF IsrPutEvent, SoundBuilds, PoolInvariant
  <2>3. links = m /\ Holds(m, s, h)
    BY <1>1, <2>2
  <2>4. s[FreeQ] # <<>> /\ List!HeadOf(m, FreeQ) = n /\ n \in Slots \ h
    BY <1>2, <2>1, <2>3, FreeHead
  <2>5. Holds(List!SPopHead(m, FreeQ), With(s, FreeQ, Tail(s[FreeQ])),
              h \cup {s[FreeQ][1]})
    BY <1>2, <2>3, <2>4, PopHolds
  <2> PICK t, r : t = List!SPopHead(m, FreeQ) /\ r = With(s, FreeQ, Tail(s[FreeQ]))
    OBVIOUS
  <2>6. Holds(t, r, h \cup {n})
    BY <2>5
  <2>7. Holds(List!SPushTail(t, IsrQ, n), With(r, IsrQ, Append(r[IsrQ], n)),
              (h \cup {n}) \ {n})
    BY <1>2, <2>6, PushHolds
  <2>8. (h \cup {n}) \ {n} = {inHand'} \ {Nil}
    BY <2>1, <2>4
  <2> QED BY <2>1, <2>2, <2>3, <2>4, <2>7, <2>8 DEF PoolInvariant
<1> QED BY <1>4, <1>5, <1>6, <1>7, <1>8, <1>9, <1>10, <1>11 DEF PoolNext

LEMMA PoolRead == PoolInvariant => PoolPartition
<1> SUFFICES ASSUME PoolInvariant PROVE PoolPartition
  OBVIOUS
<1>1. PICK m, s : /\ Holds(m, s, {inHand} \ {Nil})
                  /\ pc \in {"tail", "head"} => popped = s[FreeQ][1]
                  /\ Popping => s[FreeQ] # <<>>
                  /\ links = IF pc = "head" THEN TailFixed(m, popped) ELSE m
  BY DEF PoolInvariant
<1>2. links.next = m.next /\ links \in List!Memory
  <2>1. m \in Lp!Memory /\ FreeQ \in Lp!Cells
    BY <1>1 DEF Holds, Queues, Lp!Cells
  <2> PICK t : t = Lp!SetPrev(m, FreeQ, FreeQ)
    OBVIOUS
  <2>2. t \in Lp!Memory /\ t.next = m.next
    <3> PICK c : c = FreeQ
      OBVIOUS
    <3>1. Lp!PrevSet(Lp!SetPrev(m, c, c), m, c, c)
      BY <2>1, Lp!SetPrevEffect
    <3> QED BY <3>1 DEF Lp!PrevSet
  <2>3. links = m \/ links = t
    <3>1. List!SetPrev(m, FreeQ, FreeQ) = t
      BY SameOperations
    <3> QED BY <1>1, <3>1 DEF TailFixed
  <2>4. List!Memory = Lp!Memory
    BY SameOperations
  <2> QED BY <2>1, <2>2, <2>3, <2>4
<1>3. ASSUME NEW q \in Queues PROVE ChainOf(q) = s[q]
  <2> PICK r : r = s[q]
    OBVIOUS
  <2>1. Lp!Apart /\ Lp!Spells(m, q, r) /\ Lp!Sequence(r)
    BY <1>1, PlacesApart DEF Holds, Lp!Spells
  <2>2. N \in Nat /\ Len(r) < N
    BY ONLY <2>1, SequenceFits
  <2>3. Lp!Leads(m, q, r)
    BY <2>1, Lp!SpellsLeads
  <2>4. Lp!Leads(links, q, r)
    BY <1>2, <2>3 DEF Lp!Leads
  <2>5. Lp!Chain(links, q, N) = r
    BY <2>1, <2>2, <2>4, Lp!ChainReads
  <2> QED BY <2>5, SameOperations DEF ChainOf
<1>4. \A q \in Queues : Members(q) = Lp!Elems(s[q])
  BY <1>3 DEF Members, Lp!Elems
<1>5. \A q \in Queues : Members(q) \subseteq Slots
  BY <1>1, <1>4, SpelledSlots DEF Holds
<1>6. \A p, q \in Queues : p # q => Members(p) \cap Members(q) = {}
  BY <1>1, <1>4 DEF Holds
<1>7. Slots \ UNION {Members(q) : q \in Queues} = {inHand} \ {Nil}
  BY <1>1, <1>4 DEF Holds
<1>8. ~ Popping => \A q \in Queues : List!Represents(links, q, ChainOf(q))
  BY <1>1, <1>3 DEF Holds, Popping, Lp!Spells, Lp!Represents, List!Represents,
       List!After, Lp!After, List!Prior, Lp!Prior
<1>9. PoolTypeOK
  BY <1>2 DEF PoolInvariant, PoolTypeOK
<1> QED BY <1>5, <1>6, <1>7, <1>8, <1>9 DEF PoolPartition

(* In a build that masks interrupts while it pops, or whose interrupt      *)
(* handlers put no event, every event structure is linked in exactly one   *)
(* queue or in the hand of the thread between any two memory accesses, and *)
(* outside the pop all three queues are well formed.                       *)
THEOREM PoolStaysPartitioned ==
  ASSUME SoundBuilds
  PROVE  PoolSpec => []PoolPartition
<1>1. PoolInvariant /\ [PoolNext]_poolVars => PoolInvariant'
  BY NextPool
<1> QED BY <1>1, InitPool, PoolRead, PTL DEF PoolSpec
=============================================================================
