---------------------------- MODULE FwkList_proofs ----------------------------
(***************************************************************************)
(* What the pointer operations of fwk_slist.c and fwk_dlist.c do to the    *)
(* sequences that memory represents, for any nodes, any number of lists    *)
(* and sequences of any length, in release and debug builds.  A walk along *)
(* the pointers (Walk, Chain) reads the sequence back.                     *)
(***************************************************************************)
EXTENDS FwkList, WellFoundedInduction, TLAPS

(* Every set of natural numbers has a least element.                       *)
LEMMA LeastNumber ==
  ASSUME NEW T, T \subseteq Nat, T # {}
  PROVE  \E x \in T : \A y \in T : x <= y
<1>1. PICK R : R = OpToRel(<, Nat)
  OBVIOUS
<1>2. IsWellFoundedOn(R, Nat)
  BY <1>1, NatLessThanWellFounded
<1>3. \A x, y \in Nat : x < y => <<x, y>> \in R
  BY <1>1 DEF OpToRel
<1>4. PICK x \in T : \A y \in T : ~ (<<y, x>> \in R)
  BY <1>2, WFMin
<1>5. ASSUME NEW y \in T PROVE x <= y
  <2>1. ~ (y < x)
    BY <1>3, <1>4, Zenon
  <2> QED BY <2>1
<1> QED BY <1>5

(***************************************************************************)
(* Walks                                                                   *)
(***************************************************************************)
WalkOf(at, m, L, N) ==
  at = [k \in 0..N |-> IF k = 0 THEN L ELSE m.next[at[k - 1]]]

(* A walk of any length exists: a walk of k steps can be continued by one. *)
LEMMA WalkExists ==
  ASSUME NEW m, NEW L
  PROVE  \A N \in Nat : \E at : WalkOf(at, m, L, N)
<1> DEFINE T == {N \in Nat : ~ \E at : WalkOf(at, m, L, N)}
<1> SUFFICES ASSUME T # {} PROVE FALSE
  OBVIOUS
<1>1. PICK N \in T : \A y \in T : N <= y
  BY LeastNumber
<1>2. N # 0
  <2> SUFFICES ASSUME N = 0 PROVE FALSE
    OBVIOUS
  <2> DEFINE at == [k \in 0..0 |-> L]
  <2>1. WalkOf(at, m, L, 0)
    BY DEF WalkOf
  <2> QED BY <2>1
<1>3. N - 1 \in Nat /\ N - 1 \notin T
  BY <1>1, <1>2
<1>4. PICK at : WalkOf(at, m, L, N - 1)
  BY <1>3
<1> DEFINE on == [k \in 0..N |-> IF k = 0 THEN L ELSE m.next[at[k - 1]]]
<1>5. \A k \in 0..(N - 1) : on[k] = at[k]
  BY <1>3, <1>4 DEF WalkOf
<1>6. on = [k \in 0..N |-> IF k = 0 THEN L ELSE m.next[on[k - 1]]]
  <2>1. \A k \in 0..N : k # 0 => on[k - 1] = at[k - 1]
    <3> SUFFICES ASSUME NEW k \in 0..N, k # 0 PROVE on[k - 1] = at[k - 1]
      OBVIOUS
    <3>1. k - 1 \in 0..(N - 1)
      BY <1>3
    <3> QED BY <3>1, <1>5
  <2>2. on = [k \in 0..N |-> IF k = 0 THEN L ELSE m.next[at[k - 1]]]
    OBVIOUS
  <2> HIDE DEF on
  <2> QED BY <2>1, <2>2
<1>7. WalkOf(on, m, L, N)
  BY <1>6, Zenon DEF WalkOf
<1> QED BY <1>7

LEMMA WalkSteps ==
  ASSUME NEW m, NEW L, NEW N \in Nat
  PROVE  /\ Walk(m, L, N)[0] = L
         /\ \A k \in 1..N :
              Walk(m, L, N)[k] = m.next[Walk(m, L, N)[k - 1]]
<1>1. \E at : WalkOf(at, m, L, N)
  BY WalkExists
<1>2. WalkOf(Walk(m, L, N), m, L, N)
  BY <1>1, Zenon DEF Walk, WalkOf
<1>3. PICK at : at = Walk(m, L, N)
  OBVIOUS
<1>4. at = [k \in 0..N |-> IF k = 0 THEN L ELSE m.next[at[k - 1]]]
  BY <1>2, <1>3 DEF WalkOf
<1>5. at[0] = L /\ \A k \in 1..N : at[k] = m.next[at[k - 1]]
  BY <1>4
<1> QED BY <1>3, <1>5

(***************************************************************************)
(* Lists and the sequences they represent                                  *)
(***************************************************************************)
Apart == Nodes \cap Lists = {} /\ Null \notin Nodes \cup Lists

Elems(s) == {s[i] : i \in DOMAIN s}
Distinct(s) == \A i, j \in DOMAIN s : s[i] = s[j] => i = j
Sequence(s) == s \in Seq(Nodes) /\ Distinct(s)

(* List L is well formed and holds the nodes of s, each once.              *)
Spells(m, L, s) == Sequence(s) /\ L \in Lists /\ Represents(m, L, s)

(* The same but for the tail.                                              *)
Leads(m, L, s) ==
  /\ Sequence(s) /\ L \in Lists
  /\ m.next[L] = After(L, s, 0)
  /\ \A i \in 1..Len(s) : m.next[s[i]] = After(L, s, i)

LEMMA SpellsLeads ==
  ASSUME NEW m, NEW L, NEW s, Spells(m, L, s)
  PROVE  Leads(m, L, s)
BY DEF Spells, Leads, Represents

(* Following the pointers from the list head leads through s and back.     *)
LEMMA WalkReads ==
  ASSUME NEW m, NEW L, NEW s, Leads(m, L, s), NEW N \in Nat, Len(s) < N
  PROVE  /\ \A k \in 1..Len(s) : Walk(m, L, N)[k] = s[k]
         /\ Walk(m, L, N)[Len(s) + 1] = L
<1> PICK at : at = Walk(m, L, N)
  OBVIOUS
<1> PICK n : n = Len(s)
  OBVIOUS
<1>1. n \in Nat /\ s \in Seq(Nodes) /\ n < N
  BY DEF Leads, Sequence
<1>2. at[0] = L /\ \A k \in 1..N : at[k] = m.next[at[k - 1]]
  BY WalkSteps
<1>3. /\ m.next[L] = IF n = 0 THEN L ELSE s[1]
      /\ \A k \in 1..n : m.next[s[k]] = IF k = n THEN L ELSE s[k + 1]
  BY <1>1 DEF Leads, After
<1> DEFINE T == {k \in 1..n : at[k] # s[k]}
<1>4. T = {}
  <2> SUFFICES ASSUME T # {} PROVE FALSE
    OBVIOUS
  <2>1. PICK k \in T : \A y \in T : k <= y
    <3>1. T \subseteq Nat
      BY <1>1
    <3> QED BY <3>1, LeastNumber
  <2>2. k \in 1..n /\ k \in 1..N /\ at[k] # s[k]
    BY <1>1
  <2>3. CASE k = 1
    BY <2>2, <2>3, <1>1, <1>2, <1>3
  <2>4. CASE k # 1
    <3>1. k - 1 \in 1..n /\ k - 1 # n /\ (k - 1) + 1 = k /\ ~(k <= k - 1)
      BY <2>2, <2>4, <1>1
    <3>2. at[k - 1] = s[k - 1]
      BY <2>1, <3>1
    <3> QED BY <2>2, <3>1, <3>2, <1>2, <1>3
  <2> QED BY <2>3, <2>4
<1>5. at[n + 1] = L
  <2>1. n + 1 \in 1..N /\ (n + 1) - 1 = n
    BY <1>1
  <2>2. CASE n = 0
    BY <2>1, <2>2, <1>2, <1>3
  <2>3. CASE n # 0
    <3>1. n \in 1..n
      BY <1>1, <2>3
    <3>2. at[n] = s[n]
      BY <3>1, <1>4
    <3> QED BY <2>1, <3>1, <3>2, <1>2, <1>3
  <2> QED BY <2>2, <2>3
<1> QED BY <1>4, <1>5

(* The nodes a walk finds are those of the sequence, in order.             *)
LEMMA ChainReads ==
  ASSUME Apart, NEW m, NEW L, NEW s, Leads(m, L, s),
         NEW N \in Nat, Len(s) < N
  PROVE  Chain(m, L, N) = s
<1> PICK at : at = Walk(m, L, N)
  OBVIOUS
<1> PICK n : n = Len(s)
  OBVIOUS
<1>1. /\ n \in Nat /\ n < N /\ s \in Seq(Nodes) /\ L \notin Nodes
      /\ \A k \in 1..n : s[k] \in Nodes
  BY DEF Leads, Sequence, Apart
<1>2. (\A k \in 1..n : at[k] = s[k]) /\ at[n + 1] = L
  BY WalkReads
<1> DEFINE ends == {k \in 1..N : at[k] = L}
           first == CHOOSE k \in ends : \A j \in ends : k <= j
<1>3. /\ n + 1 \in ends
      /\ \A j \in ends : n + 1 <= j
  <2>1. n + 1 \in 1..N
    BY <1>1
  <2>2. ASSUME NEW j \in 1..N, at[j] = L PROVE n + 1 <= j
    <3>1. j \notin 1..n
      BY <2>2, <1>1, <1>2
    <3> QED BY <3>1, <1>1
  <2> QED BY <2>1, <2>2, <1>2
<1>4. first \in ends /\ \A j \in ends : first <= j
  BY <1>3
<1>5. first = n + 1
  <2>1. first <= n + 1 /\ n + 1 <= first /\ first \in 1..N
    BY <1>3, <1>4
  <2> HIDE DEF first
  <2> QED BY <2>1, <1>1
<1>6. ends # {}
  BY <1>3
<1>7. Chain(m, L, N) = [k \in 1..(IF ends = {} THEN N ELSE first - 1) |-> at[k]]
  BY Zenon DEF Chain
<1>8. Chain(m, L, N) = [k \in 1..n |-> at[k]]
  <2>1. (IF ends = {} THEN N ELSE first - 1) = n
    <3> HIDE DEF first, ends
    <3> QED BY <1>1, <1>5, <1>6
  <2> QED BY <1>7, <2>1, Zenon
<1>9. s = [k \in 1..n |-> s[k]]
  BY <1>1
<1> QED BY <1>2, <1>8, <1>9

LEMMA ContainsReads ==
  ASSUME Apart, NEW m, NEW L, NEW s, Spells(m, L, s),
         NEW N \in Nat, Len(s) < N, NEW n
  PROVE  SContains(m, L, n, N) <=> n \in Elems(s)
<1>1. Chain(m, L, N) = s
  BY ChainReads, SpellsLeads
<1> QED BY <1>1 DEF SContains, Elems

(* The cell that points to a node of the list is its predecessor.          *)
LEMMA BeforeReads ==
  ASSUME Apart, NEW m, NEW L, NEW s, Spells(m, L, s),
         NEW N \in Nat, Len(s) < N, NEW i \in 1..Len(s)
  PROVE  Before(m, L, s[i], N) = Prior(L, s, i)
<1> PICK at : at = Walk(m, L, N)
  OBVIOUS
<1> PICK n : n = Len(s)
  OBVIOUS
<1>1. /\ n \in Nat /\ n < N /\ DOMAIN s = 1..n /\ i \in 1..n
      /\ \A k \in 1..n : at[k] = s[k]
      /\ at[0] = L
  BY SpellsLeads, WalkReads, WalkSteps DEF Spells, Sequence
<1>2. \A j, k \in 1..n : s[j] = s[k] => j = k
  BY <1>1 DEF Spells, Sequence, Distinct
<1> DEFINE Finds(k) == /\ at[k + 1] = s[i]
                       /\ \A j \in 0..(k - 1) : at[j + 1] # s[i]
           found == CHOOSE k \in 0..(N - 1) : Finds(k)
<1>3. i - 1 \in 0..(N - 1) /\ Finds(i - 1)
  <2>1. i - 1 \in 0..(N - 1) /\ (i - 1) + 1 = i
    BY <1>1
  <2>2. ASSUME NEW j \in 0..((i - 1) - 1) PROVE at[j + 1] # s[i]
    <3>1. j + 1 \in 1..n /\ j + 1 # i
      BY <1>1
    <3> QED BY <3>1, <1>1, <1>2
  <2> QED BY <2>1, <2>2, <1>1
<1>4. found \in 0..(N - 1) /\ Finds(found)
  BY <1>3
<1> HIDE DEF found
<1>5. found = i - 1
  <2>1. CASE found < i - 1
    <3>1. found + 1 \in 1..n /\ found + 1 # i
      BY <2>1, <1>1, <1>4
    <3> QED BY <3>1, <1>1, <1>2, <1>4
  <2>2. CASE i - 1 < found
    <3>1. i - 1 \in 0..(found - 1) /\ (i - 1) + 1 = i
      BY <2>2, <1>1, <1>4
    <3>2. at[i] # s[i]
      BY <3>1, <1>4
    <3> QED BY <3>2, <1>1
  <2> QED BY <2>1, <2>2, <1>1, <1>4
<1>6. Before(m, L, s[i], N) = at[found]
  BY Zenon DEF Before, found
<1>7. i # 1 => i - 1 \in 1..n
  BY <1>1
<1>8. i = 1 => i - 1 = 0
  OBVIOUS
<1> QED BY <1>1, <1>5, <1>6, <1>7, <1>8 DEF Prior

(***************************************************************************)
(* Memory                                                                  *)
(***************************************************************************)

(* Memory t differs from m in the next pointer of c, or the prev pointer.  *)
NextSet(t, m, c, v) ==
  /\ t \in Memory /\ t.prev = m.prev /\ t.next[c] = v
  /\ \A d \in Cells \ {c} : t.next[d] = m.next[d]
PrevSet(t, m, c, v) ==
  /\ t \in Memory /\ t.next = m.next /\ t.prev[c] = v
  /\ \A d \in Cells \ {c} : t.prev[d] = m.prev[d]

LEMMA SetNextEffect ==
  ASSUME NEW m \in Memory, NEW c \in Cells, NEW v \in Cells \cup {Null}
  PROVE  NextSet(SetNext(m, c, v), m, c, v)
<1> DEFINE f == [m.next EXCEPT ![c] = v]
<1>1. /\ m.next \in [Cells -> Cells \cup {Null}]
      /\ m.prev \in [Cells -> Cells \cup {Null}]
      /\ m = [next |-> m.next, prev |-> m.prev]
  BY DEF Memory
<1>2. SetNext(m, c, v) = [next |-> f, prev |-> m.prev]
  BY <1>1 DEF SetNext
<1>3. /\ f \in [Cells -> Cells \cup {Null}]
      /\ f[c] = v /\ \A d \in Cells \ {c} : f[d] = m.next[d]
  BY <1>1
<1> HIDE DEF f
<1>4. SetNext(m, c, v) \in Memory
  BY <1>1, <1>2, <1>3 DEF Memory
<1> QED BY <1>2, <1>3, <1>4 DEF NextSet

LEMMA SetPrevEffect ==
  ASSUME NEW m \in Memory, NEW c \in Cells, NEW v \in Cells \cup {Null}
  PROVE  PrevSet(SetPrev(m, c, v), m, c, v)
<1> DEFINE f == [m.prev EXCEPT ![c] = v]
<1>1. /\ m.next \in [Cells -> Cells \cup {Null}]
      /\ m.prev \in [Cells -> Cells \cup {Null}]
      /\ m = [next |-> m.next, prev |-> m.prev]
  BY DEF Memory
<1>2. SetPrev(m, c, v) = [next |-> m.next, prev |-> f]
  BY <1>1 DEF SetPrev
<1>3. /\ f \in [Cells -> Cells \cup {Null}]
      /\ f[c] = v /\ \A d \in Cells \ {c} : f[d] = m.prev[d]
  BY <1>1
<1> HIDE DEF f
<1>4. SetPrev(m, c, v) \in Memory
  BY <1>1, <1>2, <1>3 DEF Memory
<1> QED BY <1>2, <1>3, <1>4 DEF PrevSet

(* An operation that leaves the pointers of a list alone leaves the list   *)
(* alone.                                                                  *)
LEMMA SameList ==
  ASSUME NEW m, NEW t, NEW L, NEW s, Spells(m, L, s),
         t.next[L] = m.next[L], t.prev[L] = m.prev[L],
         \A n \in Elems(s) : t.next[n] = m.next[n]
  PROVE  Spells(t, L, s)
<1>1. \A i \in 1..Len(s) : s[i] \in Elems(s)
  BY DEF Elems, Spells, Sequence
<1> QED BY <1>1 DEF Spells, Represents

(* The backward pointers of a doubly-linked list.                          *)
SpellsBack(m, L, s) == \A i \in 1..Len(s) : m.prev[s[i]] = Prior(L, s, i)

LEMMA SameBack ==
  ASSUME NEW m, NEW t, NEW L, NEW s, SpellsBack(m, L, s), s \in Seq(Nodes),
         \A n \in Elems(s) : t.prev[n] = m.prev[n]
  PROVE  SpellsBack(t, L, s)
<1>1. \A i \in 1..Len(s) : s[i] \in Elems(s)
  BY DEF Elems
<1> QED BY <1>1 DEF SpellsBack

(* The ends of a list.                                                     *)
LEMMA Ends ==
  ASSUME Apart, NEW m, NEW L, NEW s, Spells(m, L, s)
  PROVE  /\ s = <<>> => m.next[L] = L /\ m.prev[L] = L
         /\ s # <<>> => /\ Len(s) \in 1..Len(s) /\ 1 \in 1..Len(s)
                        /\ m.next[L] = s[1] /\ s[1] \in Nodes
                        /\ m.prev[L] = s[Len(s)] /\ s[Len(s)] \in Nodes
                        /\ m.next[L] # L /\ m.prev[L] # L
                        /\ m.next[L] = Head(s)
         /\ m.next[L] \in Cells /\ m.prev[L] \in Cells
         /\ L \in Cells /\ L \notin Nodes
         /\ Len(s) \in Nat /\ DOMAIN s = 1..Len(s)
         /\ \A i \in 1..Len(s) : s[i] \in Nodes /\ s[i] \in Elems(s)
<1>1. /\ s \in Seq(Nodes) /\ Len(s) \in Nat /\ DOMAIN s = 1..Len(s)
      /\ L \in Lists
  BY DEF Spells, Sequence
<1>2. s # <<>> => /\ Len(s) \in 1..Len(s) /\ 1 \in 1..Len(s)
                  /\ Head(s) = s[1] /\ Len(s) # 0
                  /\ (Len(s) + 1) - 1 = Len(s) /\ Len(s) + 1 # 1
  BY <1>1
<1>3. s = <<>> => Len(s) = 0
  BY <1>1
<1>4. /\ m.next[L] = IF 0 = Len(s) THEN L ELSE s[0 + 1]
      /\ m.prev[L] = IF Len(s) + 1 = 1 THEN L ELSE s[Len(s) + 1 - 1]
  BY DEF Spells, Represents, After, Prior
<1>5. \A i \in 1..Len(s) : s[i] \in Nodes /\ s[i] \in Elems(s)
  BY <1>1 DEF Elems
<1> QED BY <1>1, <1>2, <1>3, <1>4, <1>5 DEF Apart, Cells

(***************************************************************************)
(* A node is linked or unlinked, whatever the operation and the place      *)
(***************************************************************************)

(* r is s with n as its i-th node, or without its i-th node.               *)
Inserted(r, s, i, n) ==
  /\ r \in Seq(Nodes) /\ Len(r) = Len(s) + 1 /\ i \in 1..(Len(s) + 1)
  /\ \A j \in 1..(Len(s) + 1) :
       r[j] = IF j < i THEN s[j] ELSE IF j = i THEN n ELSE s[j - 1]
Removed(r, s, i) ==
  /\ r \in Seq(Nodes) /\ Len(r) = Len(s) - 1 /\ i \in 1..Len(s)
  /\ \A j \in 1..(Len(s) - 1) : r[j] = IF j < i THEN s[j] ELSE s[j + 1]

LEMMA InsertedSequence ==
  ASSUME NEW s, Sequence(s), NEW n \in Nodes, n \notin Elems(s),
         NEW r, NEW i, Inserted(r, s, i, n)
  PROVE  Sequence(r) /\ Elems(r) = Elems(s) \cup {n}
<1> PICK l : l = Len(s)
  OBVIOUS
<1>1. /\ l \in Nat /\ DOMAIN s = 1..l /\ DOMAIN r = 1..(l + 1)
      /\ i \in 1..(l + 1)
      /\ \A j \in 1..(l + 1) :
           r[j] = IF j < i THEN s[j] ELSE IF j = i THEN n ELSE s[j - 1]
  BY DEF Sequence, Inserted
<1>2. \A j \in 1..l : s[j] # n
  BY <1>1 DEF Elems
<1>3. \A j, k \in 1..l : s[j] = s[k] => j = k
  BY <1>1 DEF Sequence, Distinct
<1>4. ASSUME NEW j \in 1..(l + 1), NEW k \in 1..(l + 1), r[j] = r[k]
      PROVE  j = k
  <2> DEFINE from(x) == IF x < i THEN x ELSE x - 1
  <2>1. \A x \in 1..(l + 1) : x # i => from(x) \in 1..l /\ r[x] = s[from(x)]
    BY <1>1
  <2>2. r[i] = n
    BY <1>1
  <2>3. CASE j # i /\ k # i
    <3>1. from(j) = from(k)
      BY <2>1, <2>3, <1>3, <1>4
    <3> QED BY <3>1, <2>3, <1>1
  <2>4. CASE j = i \/ k = i
    BY <2>1, <2>2, <2>4, <1>2, <1>4
  <2> QED BY <2>3, <2>4
<1>5. \A j \in 1..(l + 1) : r[j] \in Elems(s) \cup {n}
  <2> SUFFICES ASSUME NEW j \in 1..(l + 1), j # i PROVE r[j] \in Elems(s)
    BY <1>1
  <2>1. CASE j < i
    <3>1. j \in 1..l /\ r[j] = s[j]
      BY <2>1, <1>1
    <3> QED BY <3>1, <1>1 DEF Elems
  <2>2. CASE i < j
    <3>1. j - 1 \in 1..l /\ r[j] = s[j - 1]
      BY <2>2, <1>1
    <3> QED BY <3>1, <1>1 DEF Elems
  <2> QED BY <2>1, <2>2, <1>1
<1>6. n \in Elems(r) /\ \A j \in 1..l : s[j] \in Elems(r)
  <2>1. r[i] = n
    BY <1>1
  <2>2. ASSUME NEW j \in 1..l PROVE s[j] \in Elems(r)
    <3>1. CASE j < i
      <4>1. j \in 1..(l + 1) /\ r[j] = s[j]
        BY <3>1, <1>1
      <4> QED BY <4>1, <1>1 DEF Elems
    <3>2. CASE i <= j
      <4>1. j + 1 \in 1..(l + 1) /\ (j + 1) - 1 = j /\ ~(j + 1 < i)
            /\ j + 1 # i
        BY <3>2, <1>1
      <4>2. r[j + 1] = s[j]
        BY <4>1, <1>1
      <4> QED BY <4>1, <4>2, <1>1 DEF Elems
    <3> QED BY <3>1, <3>2, <1>1
  <2> QED BY <2>1, <2>2, <1>1 DEF Elems
<1>7. Elems(r) = Elems(s) \cup {n}
  <2>1. Elems(r) \subseteq Elems(s) \cup {n}
    BY <1>1, <1>5 DEF Elems
  <2>2. Elems(s) \subseteq Elems(r)
    BY <1>1, <1>6 DEF Elems
  <2> QED BY <2>1, <2>2, <1>6
<1>8. Sequence(r)
  BY <1>1, <1>4 DEF Sequence, Distinct, Inserted
<1> QED BY <1>7, <1>8

LEMMA RemovedSequence ==
  ASSUME NEW s, Sequence(s), NEW r, NEW i, Removed(r, s, i)
  PROVE  Sequence(r) /\ Elems(r) = Elems(s) \ {s[i]}
<1> PICK l : l = Len(s)
  OBVIOUS
<1>1. /\ l \in Nat /\ DOMAIN s = 1..l /\ DOMAIN r = 1..(l - 1)
      /\ i \in 1..l
      /\ \A j \in 1..(l - 1) : r[j] = IF j < i THEN s[j] ELSE s[j + 1]
  BY DEF Sequence, Removed
<1>2. \A j, k \in 1..l : s[j] = s[k] => j = k
  BY <1>1 DEF Sequence, Distinct
<1> DEFINE from(x) == IF x < i THEN x ELSE x + 1
<1>3. \A x \in 1..(l - 1) :
        from(x) \in 1..l /\ from(x) # i /\ r[x] = s[from(x)]
  BY <1>1
<1>4. ASSUME NEW j \in 1..(l - 1), NEW k \in 1..(l - 1), r[j] = r[k]
      PROVE  j = k
  <2>1. from(j) = from(k)
    BY <1>2, <1>3, <1>4
  <2> QED BY <2>1, <1>1
<1>5. \A j \in 1..(l - 1) : r[j] \in Elems(s) \ {s[i]}
  BY <1>1, <1>2, <1>3 DEF Elems
<1>6. ASSUME NEW j \in 1..l, j # i PROVE s[j] \in Elems(r)
  <2>1. CASE j < i
    <3>1. j \in 1..(l - 1) /\ r[j] = s[j]
      BY <2>1, <1>1
    <3> QED BY <3>1, <1>1 DEF Elems
  <2>2. CASE i < j
    <3>1. j - 1 \in 1..(l - 1) /\ (j - 1) + 1 = j /\ ~(j - 1 < i)
      BY <2>2, <1>1
    <3>2. r[j - 1] = s[j]
      BY <3>1, <1>1
    <3> QED BY <3>1, <3>2, <1>1 DEF Elems
  <2> QED BY <2>1, <2>2, <1>6, <1>1
<1>7. Elems(r) = Elems(s) \ {s[i]}
  <2>1. Elems(r) \subseteq Elems(s) \ {s[i]}
    BY <1>1, <1>5 DEF Elems
  <2>2. Elems(s) \ {s[i]} \subseteq Elems(r)
    BY <1>1, <1>6 DEF Elems
  <2> QED BY <2>1, <2>2
<1>8. Sequence(r)
  BY <1>1, <1>4 DEF Sequence, Distinct, Removed
<1> QED BY <1>7, <1>8

(* The cell before the i-th place of a list is the list or a node of it,   *)
(* and no other node is the cell before that place.                        *)
LEMMA PriorCell ==
  ASSUME Apart, NEW m, NEW L, NEW s, Spells(m, L, s),
         NEW i \in 1..(Len(s) + 1)
  PROVE  /\ i = 1 => Prior(L, s, i) = L
         /\ i # 1 => /\ i - 1 \in 1..Len(s)
                     /\ Prior(L, s, i) = s[i - 1] /\ Prior(L, s, i) # L
         /\ Prior(L, s, i) \in {L} \cup Elems(s)
         /\ \A j \in 1..Len(s) : j # i - 1 => s[j] # Prior(L, s, i)
<1>1. /\ Len(s) \in Nat /\ DOMAIN s = 1..Len(s) /\ L \notin Nodes
      /\ \A j \in 1..Len(s) : s[j] \in Nodes /\ s[j] \in Elems(s)
      /\ \A j, k \in 1..Len(s) : s[j] = s[k] => j = k
  BY Ends DEF Spells, Sequence, Distinct
<1>2. i # 1 => i - 1 \in 1..Len(s)
  BY <1>1
<1> QED BY <1>1, <1>2 DEF Prior

(* The pointers to set to link n as the i-th node.                         *)
LEMMA LinkInsert ==
  ASSUME Apart, NEW m, NEW L, NEW s, Spells(m, L, s),
         NEW n \in Nodes, n \notin Elems(s),
         NEW r, NEW i, Inserted(r, s, i, n), NEW t,
         t.next[Prior(L, s, i)] = n, t.next[n] = After(L, s, i - 1),
         \A c \in {L} \cup Elems(s) :
           c # Prior(L, s, i) => t.next[c] = m.next[c],
         t.prev[L] = IF i = Len(s) + 1 THEN n ELSE m.prev[L]
  PROVE  Spells(t, L, r)
<1> PICK l : l = Len(s)
  OBVIOUS
<1> PICK p : p = Prior(L, s, i)
  OBVIOUS
<1>1. /\ l \in Nat /\ Len(r) = l + 1 /\ i \in 1..(l + 1)
      /\ \A j \in 1..(l + 1) :
           r[j] = IF j < i THEN s[j] ELSE IF j = i THEN n ELSE s[j - 1]
      /\ \A j \in 1..l : s[j] \in Elems(s)
  BY Ends DEF Inserted
<1>2. /\ i = 1 => p = L
      /\ i # 1 => i - 1 \in 1..l /\ p = s[i - 1] /\ p # L
      /\ \A j \in 1..l : j # i - 1 => s[j] # p
  BY <1>1, PriorCell
<1>3. /\ m.next[L] = IF 0 = l THEN L ELSE s[1]
      /\ m.prev[L] = IF l + 1 = 1 THEN L ELSE s[l]
      /\ \A j \in 1..l : m.next[s[j]] = IF j = l THEN L ELSE s[j + 1]
  BY <1>1 DEF Spells, Represents, After, Prior
<1>4. t.next[n] = IF i - 1 = l THEN L ELSE s[i]
  BY <1>1 DEF After
<1>5. t.next[L] = r[1]
  <2>1. CASE i = 1
    BY <2>1, <1>1, <1>2
  <2>2. CASE i # 1
    <3>1. 1 < i /\ l # 0 /\ 1 \in 1..(l + 1)
      BY <2>2, <1>1
    <3> QED BY <3>1, <1>1, <1>2, <1>3
  <2> QED BY <2>1, <2>2
<1>6. t.prev[L] = r[l + 1]
  <2>1. CASE i = l + 1
    BY <2>1, <1>1
  <2>2. CASE i # l + 1
    <3>1. /\ ~(l + 1 < i) /\ l + 1 # i /\ (l + 1) - 1 = l /\ l + 1 # 1
          /\ l + 1 \in 1..(l + 1)
      BY <2>2, <1>1
    <3> QED BY <2>2, <3>1, <1>1, <1>3
  <2> QED BY <2>1, <2>2
<1>7. ASSUME NEW j \in 1..(l + 1)
      PROVE  t.next[r[j]] = IF j = l + 1 THEN L ELSE r[j + 1]
  <2>1. CASE j + 1 < i
    <3>1. /\ j \in 1..l /\ j < i /\ j # i - 1 /\ j # l /\ j # l + 1
          /\ j + 1 \in 1..(l + 1)
      BY <2>1, <1>1
    <3>2. t.next[s[j]] = m.next[s[j]]
      BY <3>1, <1>1, <1>2
    <3> QED BY <2>1, <3>1, <3>2, <1>1, <1>3
  <2>2. CASE j + 1 = i
    <3>1. /\ j < i /\ j = i - 1 /\ i # 1 /\ j # l + 1
          /\ j + 1 \in 1..(l + 1)
      BY <2>2, <1>1
    <3> QED BY <2>2, <3>1, <1>1, <1>2
  <2>3. CASE j = i
    <3>1. r[j] = n
      BY <2>3, <1>1
    <3>2. CASE j = l + 1
      BY <2>3, <3>1, <3>2, <1>1, <1>4
    <3>3. CASE j # l + 1
      <4>1. /\ j + 1 \in 1..(l + 1) /\ ~(j + 1 < i) /\ j + 1 # i
            /\ (j + 1) - 1 = j /\ i - 1 # l
        BY <2>3, <3>3, <1>1
      <4> QED BY <2>3, <3>1, <3>3, <4>1, <1>1, <1>4
    <3> QED BY <3>2, <3>3
  <2>4. CASE i < j
    <3>1. /\ j - 1 \in 1..l /\ j - 1 # i - 1 /\ ~(j < i) /\ j # i
          /\ (j - 1) + 1 = j /\ (j - 1 = l <=> j = l + 1)
      BY <2>4, <1>1
    <3>2. r[j] = s[j - 1] /\ t.next[s[j - 1]] = m.next[s[j - 1]]
      BY <3>1, <1>1, <1>2
    <3>3. t.next[r[j]] = IF j = l + 1 THEN L ELSE s[j]
      BY <3>1, <3>2, <1>3
    <3>4. j # l + 1 => /\ j + 1 \in 1..(l + 1) /\ ~(j + 1 < i) /\ j + 1 # i
                       /\ (j + 1) - 1 = j
      BY <2>4, <1>1
    <3> QED BY <3>3, <3>4, <1>1
  <2> QED BY <2>1, <2>2, <2>3, <2>4, <1>1
<1>8. Represents(t, L, r)
  <2>1. /\ 0 # l + 1 /\ (l + 1) + 1 # 1 /\ ((l + 1) + 1) - 1 = l + 1
        /\ 0 + 1 = 1
    BY <1>1
  <2> QED BY <2>1, <1>1, <1>5, <1>6, <1>7 DEF Represents, After, Prior
<1>9. Sequence(r)
  BY InsertedSequence DEF Spells
<1> QED BY <1>8, <1>9 DEF Spells

(* The pointers to set to unlink the i-th node.                            *)
LEMMA LinkRemove ==
  ASSUME Apart, NEW m, NEW L, NEW s, Spells(m, L, s),
         NEW r, NEW i, Removed(r, s, i), NEW t,
         t.next[Prior(L, s, i)] = After(L, s, i),
         \A c \in {L} \cup Elems(s) :
           c # Prior(L, s, i) /\ c # s[i] => t.next[c] = m.next[c],
         t.prev[L] = IF i = Len(s) THEN Prior(L, s, i) ELSE m.prev[L]
  PROVE  Spells(t, L, r)
<1> PICK l : l = Len(s)
  OBVIOUS
<1> PICK p : p = Prior(L, s, i)
  OBVIOUS
<1>1. /\ l \in Nat /\ Len(r) = l - 1 /\ i \in 1..l /\ i \in 1..(l + 1)
      /\ \A j \in 1..(l - 1) : r[j] = IF j < i THEN s[j] ELSE s[j + 1]
      /\ \A j \in 1..l : s[j] \in Elems(s) /\ s[j] # L
      /\ \A j, k \in 1..l : s[j] = s[k] => j = k
  <2>1. /\ l \in Nat /\ DOMAIN s = 1..l /\ L \notin Nodes
        /\ \A j \in 1..l : s[j] \in Elems(s) /\ s[j] \in Nodes
    BY Ends
  <2>2. \A j, k \in 1..l : s[j] = s[k] => j = k
    BY <2>1 DEF Spells, Sequence, Distinct
  <2>3. /\ Len(r) = l - 1 /\ i \in 1..l
        /\ \A j \in 1..(l - 1) : r[j] = IF j < i THEN s[j] ELSE s[j + 1]
    BY DEF Removed
  <2>4. i \in 1..(l + 1)
    BY <2>1, <2>3
  <2> QED BY <2>1, <2>2, <2>3, <2>4
<1>2. /\ i = 1 => p = L
      /\ i # 1 => i - 1 \in 1..l /\ p = s[i - 1] /\ p # L
      /\ \A j \in 1..l : j # i - 1 => s[j] # p
  BY <1>1, PriorCell
<1>3. /\ m.next[L] = IF 0 = l THEN L ELSE s[1]
      /\ m.prev[L] = IF l + 1 = 1 THEN L ELSE s[l]
      /\ \A j \in 1..l : m.next[s[j]] = IF j = l THEN L ELSE s[j + 1]
  BY <1>1 DEF Spells, Represents, After, Prior
<1>4. t.next[p] = IF i = l THEN L ELSE s[i + 1]
  BY <1>1 DEF After
<1>5. \A j \in 1..l : j # i - 1 /\ j # i => t.next[s[j]] = m.next[s[j]]
  BY <1>1, <1>2
<1>6. t.next[L] = IF l - 1 = 0 THEN L ELSE r[1]
  <2>1. CASE i = 1
    <3>1. l - 1 # 0 => 1 \in 1..(l - 1) /\ ~(1 < i) /\ i # l
      BY <2>1, <1>1
    <3>2. l - 1 = 0 <=> i = l
      BY <2>1, <1>1
    <3>3. p = L
      BY <2>1, <1>2
    <3>4. CASE l - 1 = 0
      BY <3>2, <3>3, <3>4, <1>4
    <3>5. CASE l - 1 # 0
      <4>1. r[1] = s[i + 1]
        BY <2>1, <3>1, <3>5, <1>1
      <4> QED BY <3>2, <3>3, <3>5, <4>1, <1>4
    <3> QED BY <3>4, <3>5
  <2>2. CASE i # 1
    <3>1. l - 1 # 0 /\ l # 0 /\ 1 \in 1..(l - 1) /\ 1 < i
      BY <2>2, <1>1
    <3>2. t.next[L] = m.next[L]
      BY <2>2, <1>1, <1>2
    <3> QED BY <3>1, <3>2, <1>1, <1>3
  <2> QED BY <2>1, <2>2
<1>7. t.prev[L] = IF l - 1 = 0 THEN L ELSE r[l - 1]
  <2>1. CASE i = l
    <3>1. l - 1 = 0 <=> i = 1
      BY <2>1, <1>1
    <3>2. i # 1 => l - 1 \in 1..(l - 1) /\ l - 1 < i /\ i - 1 = l - 1
      BY <2>1, <1>1
    <3> QED BY <2>1, <3>1, <3>2, <1>1, <1>2
  <2>2. CASE i # l
    <3>1. /\ l - 1 # 0 /\ l + 1 # 1 /\ l - 1 \in 1..(l - 1)
          /\ ~(l - 1 < i) /\ (l - 1) + 1 = l
      BY <2>2, <1>1
    <3> QED BY <2>2, <3>1, <1>1, <1>3
  <2> QED BY <2>1, <2>2
<1>8. ASSUME NEW j \in 1..(l - 1)
      PROVE  t.next[r[j]] = IF j = l - 1 THEN L ELSE r[j + 1]
  <2>1. CASE j + 1 < i
    <3>1. /\ j \in 1..l /\ j < i /\ j # i - 1 /\ j # i /\ j # l /\ j # l - 1
          /\ j + 1 \in 1..(l - 1)
      BY <2>1, <1>1
    <3>2. t.next[s[j]] = m.next[s[j]]
      BY <3>1, <1>5
    <3> QED BY <2>1, <3>1, <3>2, <1>1, <1>3
  <2>2. CASE j + 1 = i
    <3>1. j < i /\ j = i - 1 /\ i # 1 /\ (j = l - 1 <=> i = l)
      BY <2>2, <1>1
    <3>2. j # l - 1 => j + 1 \in 1..(l - 1) /\ ~(j + 1 < i)
      BY <2>2, <1>1
    <3>3. r[j] = p
      BY <3>1, <1>1, <1>2
    <3>4. j # l - 1 => r[j + 1] = s[i + 1]
      BY <2>2, <3>2, <1>1
    <3> QED BY <3>1, <3>3, <3>4, <1>4
  <2>3. CASE i <= j
    <3>1. /\ j + 1 \in 1..l /\ j + 1 # i - 1 /\ j + 1 # i /\ ~(j < i)
          /\ (j + 1 = l <=> j = l - 1)
      BY <2>3, <1>1
    <3>2. r[j] = s[j + 1] /\ t.next[s[j + 1]] = m.next[s[j + 1]]
      BY <3>1, <1>1, <1>5
    <3>3. t.next[r[j]] = IF j = l - 1 THEN L ELSE s[j + 1 + 1]
      BY <3>1, <3>2, <1>3
    <3>4. j # l - 1 => j + 1 \in 1..(l - 1) /\ ~(j + 1 < i)
      BY <2>3, <1>1
    <3> QED BY <3>3, <3>4, <1>1
  <2> QED BY <2>1, <2>2, <2>3, <1>1
<1>9. Represents(t, L, r)
  <2>1. /\ (0 = l - 1 <=> l - 1 = 0) /\ ((l - 1) + 1 = 1 <=> l - 1 = 0)
        /\ ((l - 1) + 1) - 1 = l - 1 /\ 0 + 1 = 1
    BY <1>1
  <2> QED BY <2>1, <1>1, <1>6, <1>7, <1>8 DEF Represents, After, Prior
<1>10. Sequence(r)
  BY RemovedSequence DEF Spells
<1> QED BY <1>9, <1>10 DEF Spells

(* The backward pointers to set to link n as the i-th node.                *)
LEMMA BackInsert ==
  ASSUME Apart, NEW m, NEW L, NEW s, Spells(m, L, s), SpellsBack(m, L, s),
         NEW n \in Nodes, n \notin Elems(s),
         NEW r, NEW i, Inserted(r, s, i, n), NEW t,
         t.prev[n] = Prior(L, s, i), i <= Len(s) => t.prev[s[i]] = n,
         \A j \in 1..Len(s) : j # i => t.prev[s[j]] = m.prev[s[j]]
  PROVE  SpellsBack(t, L, r)
<1> PICK l : l = Len(s)
  OBVIOUS
<1>1. /\ l \in Nat /\ Len(r) = l + 1 /\ i \in 1..(l + 1)
      /\ \A j \in 1..(l + 1) :
           r[j] = IF j < i THEN s[j] ELSE IF j = i THEN n ELSE s[j - 1]
  BY Ends DEF Inserted
<1>2. /\ t.prev[n] = IF i = 1 THEN L ELSE s[i - 1]
      /\ \A j \in 1..l : m.prev[s[j]] = IF j = 1 THEN L ELSE s[j - 1]
  BY DEF SpellsBack, Prior
<1>3. ASSUME NEW k \in 1..(l + 1)
      PROVE  t.prev[r[k]] = IF k = 1 THEN L ELSE r[k - 1]
  <2>0. k # 1 => k - 1 \in 1..(l + 1)
    BY <1>1
  <2>1. CASE k < i
    <3>1. k \in 1..l /\ k # i /\ (k # 1 => k - 1 < i) /\ r[k] = s[k]
      BY <2>1, <1>1
    <3> QED BY <3>1, <2>0, <1>1, <1>2
  <2>2. CASE k = i
    <3>1. r[k] = n /\ (k # 1 => k - 1 < i)
      BY <2>2, <1>1
    <3> QED BY <2>2, <3>1, <2>0, <1>1, <1>2
  <2>3. CASE i < k
    <3>1. /\ k - 1 \in 1..l /\ k # 1 /\ ~(k < i) /\ k # i
          /\ r[k] = s[k - 1]
      BY <2>3, <1>1
    <3>2. CASE k - 1 = i
      <4>1. i <= l /\ r[k - 1] = n
        BY <3>1, <3>2, <1>1
      <4> QED BY <3>1, <3>2, <4>1
    <3>3. CASE k - 1 # i
      <4>1. ~(k - 1 < i) /\ k - 1 # 1
        BY <2>3, <3>1, <3>3, <1>1
      <4>2. r[k - 1] = s[(k - 1) - 1]
        BY <4>1, <3>3, <3>1, <2>0, <1>1
      <4> QED BY <3>1, <3>3, <4>1, <4>2, <1>2
    <3> QED BY <3>2, <3>3
  <2> QED BY <2>1, <2>2, <2>3, <1>1
<1> QED BY <1>1, <1>3 DEF SpellsBack, Prior

(* The backward pointers to set to unlink the i-th node.                   *)
LEMMA BackRemove ==
  ASSUME Apart, NEW m, NEW L, NEW s, Spells(m, L, s), SpellsBack(m, L, s),
         NEW r, NEW i, Removed(r, s, i), NEW t,
         i < Len(s) => t.prev[s[i + 1]] = Prior(L, s, i),
         \A j \in 1..Len(s) :
           j # i /\ j # i + 1 => t.prev[s[j]] = m.prev[s[j]]
  PROVE  SpellsBack(t, L, r)
<1> PICK l : l = Len(s)
  OBVIOUS
<1>1. /\ l \in Nat /\ Len(r) = l - 1 /\ i \in 1..l
      /\ \A j \in 1..(l - 1) : r[j] = IF j < i THEN s[j] ELSE s[j + 1]
  BY Ends DEF Removed
<1>2. /\ i < l => t.prev[s[i + 1]] = IF i = 1 THEN L ELSE s[i - 1]
      /\ \A j \in 1..l : m.prev[s[j]] = IF j = 1 THEN L ELSE s[j - 1]
  BY DEF SpellsBack, Prior
<1>3. ASSUME NEW k \in 1..(l - 1)
      PROVE  t.prev[r[k]] = IF k = 1 THEN L ELSE r[k - 1]
  <2>0. k # 1 => k - 1 \in 1..(l - 1)
    BY <1>1
  <2>1. CASE k < i
    <3>1. /\ k \in 1..l /\ k # i /\ k # i + 1 /\ (k # 1 => k - 1 < i)
          /\ r[k] = s[k]
      BY <2>1, <1>1
    <3> QED BY <3>1, <2>0, <1>1, <1>2
  <2>2. CASE k = i
    <3>1. r[k] = s[i + 1] /\ (k # 1 => k - 1 < i) /\ i < l
      BY <2>2, <1>1
    <3> QED BY <2>2, <3>1, <2>0, <1>1, <1>2
  <2>3. CASE i < k
    <3>1. /\ k + 1 \in 1..l /\ k # 1 /\ ~(k < i) /\ k + 1 # i
          /\ k + 1 # i + 1 /\ ~(k - 1 < i) /\ (k - 1) + 1 = k
          /\ k + 1 # 1 /\ (k + 1) - 1 = k
      BY <2>3, <1>1
    <3>2. r[k] = s[k + 1] /\ r[k - 1] = s[k]
      BY <3>1, <2>0, <1>1
    <3> QED BY <3>1, <3>2, <1>2
  <2> QED BY <2>1, <2>2, <2>3, <1>1
<1> QED BY <1>1, <1>3 DEF SpellsBack, Prior

(***************************************************************************)
(* The operations                                                          *)
(***************************************************************************)

(* Memory t is m but for some next pointers and some prev pointers.        *)
Touches(t, m, nexts, prevs) ==
  /\ t \in Memory
  /\ \A c \in Cells \ nexts : t.next[c] = m.next[c]
  /\ \A c \in Cells \ prevs : t.prev[c] = m.prev[c]

LEMMA AppendInserts ==
  ASSUME NEW s \in Seq(Nodes), NEW n \in Nodes
  PROVE  Inserted(Append(s, n), s, Len(s) + 1, n)
BY DEF Inserted

LEMMA ConsInserts ==
  ASSUME NEW s \in Seq(Nodes), NEW n \in Nodes
  PROVE  Inserted(<<n>> \o s, s, 1, n)
BY DEF Inserted

LEMMA TailRemoves ==
  ASSUME NEW s \in Seq(Nodes), s # <<>>
  PROVE  Removed(Tail(s), s, 1)
BY DEF Removed

LEMMA SPushTailLinks ==
  ASSUME Apart, NEW m \in Memory, NEW L, NEW s, Spells(m, L, s),
         NEW n \in Nodes, n \notin Elems(s)
  PROVE  /\ Spells(SPushTail(m, L, n), L, Append(s, n))
         /\ Touches(SPushTail(m, L, n), m, {L, n} \cup Elems(s), {L})
         /\ SPushTail(m, L, n).prev[L] = n
<1> DEFINE p == m.prev[L]
           a == SetNext(m, n, L)
           b == SetNext(a, p, n)
           t == SetPrev(b, L, n)
           i == Len(s) + 1
<1>1. L \in Cells /\ n \in Cells /\ n # L /\ p \in Cells /\ s \in Seq(Nodes)
  BY Ends DEF Cells, Spells, Sequence
<1>2. NextSet(a, m, n, L)
  BY <1>1, SetNextEffect
<1>3. NextSet(b, a, p, n)
  <2>1. a \in Memory
    BY <1>2 DEF NextSet
  <2> HIDE DEF a, p
  <2> QED BY <1>1, <2>1, SetNextEffect
<1>4. PrevSet(t, b, L, n)
  <2>1. b \in Memory
    BY <1>3 DEF NextSet
  <2> HIDE DEF b
  <2> QED BY <1>1, <2>1, SetPrevEffect
<1>5. t = SPushTail(m, L, n)
  BY DEF SPushTail
<1> HIDE DEF a, b, t, p
<1>6. i \in 1..(Len(s) + 1) /\ i - 1 = Len(s)
  BY <1>1
<1>7. Prior(L, s, i) = p /\ After(L, s, i - 1) = L
  BY <1>6 DEF Spells, Represents, After, p
<1>8. p \in {L} \cup Elems(s) /\ p # n
  BY <1>1, <1>6, <1>7, PriorCell
<1>9. /\ t \in Memory
      /\ t.next[p] = n /\ t.next[n] = L /\ t.prev[L] = n
      /\ \A c \in Cells : c # p /\ c # n => t.next[c] = m.next[c]
      /\ \A c \in Cells : c # L => t.prev[c] = m.prev[c]
  BY <1>1, <1>2, <1>3, <1>4, <1>8 DEF NextSet, PrevSet
<1>10. Elems(s) \subseteq Cells
  BY <1>1 DEF Elems, Cells
<1>11. Touches(t, m, {L, n} \cup Elems(s), {L})
  BY <1>8, <1>9 DEF Touches
<1>12. \A c \in {L} \cup Elems(s) :
         c # Prior(L, s, i) => t.next[c] = m.next[c]
  BY <1>1, <1>7, <1>9, <1>10
<1>13. Spells(t, L, Append(s, n))
  <2>1. Inserted(Append(s, n), s, i, n)
    BY <1>1, AppendInserts
  <2> HIDE DEF i
  <2>2. t.prev[L] = IF i = Len(s) + 1 THEN n ELSE m.prev[L]
    BY <1>9 DEF i
  <2> QED BY <2>1, <2>2, <1>7, <1>9, <1>12, LinkInsert
<1> QED BY <1>5, <1>9, <1>11, <1>13

LEMMA SPushHeadLinks ==
  ASSUME Apart, NEW m \in Memory, NEW L, NEW s, Spells(m, L, s),
         NEW n \in Nodes, n \notin Elems(s)
  PROVE  /\ Spells(SPushHead(m, L, n), L, <<n>> \o s)
         /\ Touches(SPushHead(m, L, n), m, {L, n}, {L})
<1> DEFINE h == m.next[L]
           a == SetNext(m, n, h)
           b == SetNext(a, L, n)
           t == IF m.prev[L] = L THEN SetPrev(b, L, n) ELSE b
<1>1. /\ L \in Cells /\ n \in Cells /\ n # L /\ h \in Cells
      /\ s \in Seq(Nodes) /\ m.prev[L] \in Cells
      /\ m.prev[L] = L <=> s = <<>>
  <2>1. m.prev[L] = L <=> s = <<>>
    BY Ends
  <2> QED BY <2>1, Ends DEF Cells, Spells, Sequence
<1>2. NextSet(a, m, n, h)
  BY <1>1, SetNextEffect
<1>3. NextSet(b, a, L, n)
  BY <1>1, <1>2, SetNextEffect DEF NextSet
<1>4. PrevSet(SetPrev(b, L, n), b, L, n)
  BY <1>1, <1>3, SetPrevEffect DEF NextSet
<1>5. t = SPushHead(m, L, n)
  BY DEF SPushHead
<1> HIDE DEF a, b, h
<1>6. /\ t \in Memory
      /\ t.next[L] = n /\ t.next[n] = h
      /\ \A c \in Cells : c # L /\ c # n => t.next[c] = m.next[c]
      /\ \A c \in Cells : c # L => t.prev[c] = m.prev[c]
      /\ t.prev[L] = IF s = <<>> THEN n ELSE m.prev[L]
  <2>1. CASE s = <<>>
    <3>1. PrevSet(t, b, L, n)
      BY <2>1, <1>1, <1>4
    <3> QED BY <3>1, <2>1, <1>1, <1>2, <1>3 DEF NextSet, PrevSet
  <2>2. CASE s # <<>>
    <3>1. t = b
      BY <2>2, <1>1
    <3> QED BY <3>1, <2>2, <1>1, <1>2, <1>3 DEF NextSet
  <2> QED BY <2>1, <2>2
<1> HIDE DEF t
<1>7. Touches(t, m, {L, n}, {L})
  BY <1>6 DEF Touches
<1>8. Prior(L, s, 1) = L /\ After(L, s, 1 - 1) = h
  BY DEF Spells, Represents, Prior, h
<1>9. Elems(s) \subseteq Cells
  BY <1>1 DEF Elems, Cells
<1>10. \A c \in {L} \cup Elems(s) :
         c # Prior(L, s, 1) => t.next[c] = m.next[c]
  BY <1>1, <1>6, <1>8, <1>9
<1>11. t.prev[L] = IF 1 = Len(s) + 1 THEN n ELSE m.prev[L]
  <2>1. 1 = Len(s) + 1 <=> s = <<>>
    BY <1>1
  <2> QED BY <2>1, <1>6
<1>12. Spells(t, L, <<n>> \o s)
  <2>1. Inserted(<<n>> \o s, s, 1, n)
    BY <1>1, ConsInserts
  <2> QED BY <2>1, <1>6, <1>8, <1>10, <1>11, LinkInsert
<1> QED BY <1>5, <1>7, <1>12

LEMMA EmptyPop ==
  ASSUME Apart, NEW m, NEW L, Spells(m, L, <<>>)
  PROVE  SPopHead(m, L) = m /\ HeadOf(m, L) = Null
<1>1. IsEmpty(m, L)
  BY Ends DEF IsEmpty
<1> QED BY <1>1 DEF SPopHead, HeadOf

(* Unlinking in a singly-linked list: the cell before n gets its pointer,  *)
(* the tail moves if n was the last node, and in a debug build n is        *)
(* cleared; t is the memory then.                                          *)
Cut(t, m, L, n, before) ==
  LET bridged == SetNext(m, before, m.next[n])
      tailed == IF m.next[n] = L THEN SetPrev(bridged, L, before) ELSE bridged
  IN t = IF Debug THEN SetNext(tailed, n, Null) ELSE tailed

LEMMA CutLinks ==
  ASSUME Apart, NEW m \in Memory, NEW L, NEW s, Spells(m, L, s),
         NEW i, NEW r, Removed(r, s, i), NEW t,
         Cut(t, m, L, s[i], Prior(L, s, i))
  PROVE  /\ Spells(t, L, r)
         /\ Touches(t, m, {L} \cup Elems(s), {L})
         /\ Debug => t.next[s[i]] = Null
<1> PICK n : n = s[i]
  OBVIOUS
<1> PICK p : p = Prior(L, s, i)
  OBVIOUS
<1> DEFINE v == m.next[n]
           a == SetNext(m, p, v)
           b == IF v = L THEN SetPrev(a, L, p) ELSE a
<1>1. /\ Len(s) \in Nat /\ i \in 1..Len(s) /\ i \in 1..(Len(s) + 1)
      /\ L \in Cells /\ L \notin Nodes
      /\ \A j \in 1..Len(s) : s[j] \in Nodes
  <2>1. i \in 1..Len(s) /\ Len(s) \in Nat
    BY Ends DEF Removed
  <2> QED BY <2>1, Ends
<1>2. n \in Nodes /\ n \in Cells /\ n \in Elems(s) /\ n # L
  BY <1>1, Ends DEF Cells
<1>3. p \in {L} \cup Elems(s) /\ p # n /\ p \in Cells
  <2>1. p \in {L} \cup Elems(s) /\ p # n
    BY <1>1, PriorCell
  <2> QED BY <2>1, <1>1 DEF Elems, Cells, Spells, Sequence
<1>4. v = After(L, s, i) /\ v \in Cells
  <2>1. v = IF i = Len(s) THEN L ELSE s[i + 1]
    BY <1>1 DEF Spells, Represents, After
  <2>2. i # Len(s) => i + 1 \in 1..Len(s)
    BY <1>1
  <2> QED BY <2>1, <2>2, <1>1 DEF After, Cells
<1>5. v = L <=> i = Len(s)
  <2>1. i # Len(s) => i + 1 \in 1..Len(s)
    BY <1>1
  <2> QED BY <2>1, <1>1, <1>4 DEF After
<1>6. NextSet(a, m, p, v)
  BY <1>3, <1>4, SetNextEffect
<1>7. /\ b \in Memory
      /\ b.next[p] = v
      /\ \A c \in Cells : c # p => b.next[c] = m.next[c]
      /\ \A c \in Cells : c # L => b.prev[c] = m.prev[c]
      /\ b.prev[L] = IF i = Len(s) THEN p ELSE m.prev[L]
  <2>1. CASE v = L
    <3>1. a \in Memory
      BY <1>6 DEF NextSet
    <3> HIDE DEF a
    <3>2. PrevSet(SetPrev(a, L, p), a, L, p)
      BY <3>1, <1>1, <1>3, SetPrevEffect
    <3>3. b = SetPrev(a, L, p)
      BY <2>1
    <3> HIDE DEF b
    <3>4. PrevSet(b, a, L, p)
      BY <3>2, <3>3
    <3> QED BY <2>1, <3>4, <1>5, <1>6 DEF NextSet, PrevSet
  <2>2. CASE v # L
    <3>1. b = a
      BY <2>2
    <3> HIDE DEF a, b
    <3> QED BY <2>2, <3>1, <1>5, <1>6 DEF NextSet
  <2> QED BY <2>1, <2>2
<1>8. t = IF Debug THEN SetNext(b, n, Null) ELSE b
  BY DEF Cut
<1> HIDE DEF a, b
<1>9. /\ t \in Memory
      /\ t.next[p] = v
      /\ \A c \in Cells : c # p /\ c # n => t.next[c] = m.next[c]
      /\ \A c \in Cells : c # L => t.prev[c] = m.prev[c]
      /\ t.prev[L] = IF i = Len(s) THEN p ELSE m.prev[L]
      /\ Debug => t.next[n] = Null
  <2>1. CASE Debug
    <3>1. t = SetNext(b, n, Null)
      BY <2>1, <1>8
    <3>2. NextSet(t, b, n, Null)
      BY <3>1, <1>2, <1>7, SetNextEffect
    <3> QED BY <3>2, <1>2, <1>3, <1>7, <1>1 DEF NextSet
  <2>2. CASE ~Debug
    BY <2>2, <1>7, <1>8
  <2> QED BY <2>1, <2>2
<1>10. Elems(s) \subseteq Cells
  BY <1>1 DEF Elems, Cells, Spells, Sequence
<1>11. Touches(t, m, {L} \cup Elems(s), {L})
  BY <1>2, <1>3, <1>9 DEF Touches
<1>12. \A c \in {L} \cup Elems(s) : c # p /\ c # n => t.next[c] = m.next[c]
  BY <1>1, <1>9, <1>10
<1>13. Spells(t, L, r)
  BY <1>4, <1>9, <1>12, LinkRemove
<1> QED BY <1>9, <1>11, <1>13

LEMMA SPopHeadLinks ==
  ASSUME Apart, NEW m \in Memory, NEW L, NEW s, Spells(m, L, s), s # <<>>
  PROVE  /\ HeadOf(m, L) = s[1]
         /\ Spells(SPopHead(m, L), L, Tail(s))
         /\ Touches(SPopHead(m, L), m, {L} \cup Elems(s), {L})
         /\ Debug => SPopHead(m, L).next[s[1]] = Null
<1>1. m.next[L] = s[1] /\ m.next[L] # L
  BY Ends
<1>2. HeadOf(m, L) = s[1]
  BY <1>1 DEF HeadOf, IsEmpty
<1>3. Prior(L, s, 1) = L
  BY DEF Prior
<1>4. Removed(Tail(s), s, 1)
  BY TailRemoves DEF Spells, Sequence
<1>5. Cut(SPopHead(m, L), m, L, s[1], L)
  <2> DEFINE n == s[1]
             v == m.next[n]
             x == SetNext(IF v = L THEN SetPrev(m, L, L) ELSE m, L, v)
             y == IF v = L THEN SetPrev(SetNext(m, L, v), L, L)
                           ELSE SetNext(m, L, v)
  <2>1. x = y
    <3>1. CASE v = L
      <4>1. SetNext(SetPrev(m, L, L), L, v) = SetPrev(SetNext(m, L, v), L, L)
        BY DEF SetNext, SetPrev, Memory
      <4> QED BY <3>1, <4>1
    <3>2. CASE v # L
      BY <3>2
    <3> QED BY <3>1, <3>2
  <2>2. SPopHead(m, L) = IF Debug THEN SetNext(x, n, Null) ELSE x
    BY <1>1, Zenon DEF SPopHead, IsEmpty
  <2>3. SPopHead(m, L) = IF Debug THEN SetNext(y, n, Null) ELSE y
    BY <2>1, <2>2
  <2> QED BY <2>3, Zenon DEF Cut
<1> PICK t : t = SPopHead(m, L)
  OBVIOUS
<1> PICK i, r : i = 1 /\ r = Tail(s)
  OBVIOUS
<1>6. Removed(r, s, i) /\ Cut(t, m, L, s[i], Prior(L, s, i))
  BY <1>3, <1>4, <1>5
<1>7. /\ Spells(t, L, r) /\ Touches(t, m, {L} \cup Elems(s), {L})
      /\ Debug => t.next[s[i]] = Null
  BY ONLY <1>6, CutLinks, Apart, m \in Memory, Spells(m, L, s)
<1> QED BY <1>2, <1>7

LEMMA SRemoveLinks ==
  ASSUME Apart, NEW m \in Memory, NEW L, NEW s, Spells(m, L, s),
         NEW N \in Nat, Len(s) < N, NEW i, NEW r, Removed(r, s, i)
  PROVE  /\ Spells(SRemove(m, L, s[i], N), L, r)
         /\ Touches(SRemove(m, L, s[i], N), m, {L} \cup Elems(s), {L})
         /\ Debug => SRemove(m, L, s[i], N).next[s[i]] = Null
<1>1. Before(m, L, s[i], N) = Prior(L, s, i)
  BY BeforeReads DEF Removed
<1>2. Cut(SRemove(m, L, s[i], N), m, L, s[i], Prior(L, s, i))
  BY <1>1, Zenon DEF Cut, SRemove
<1> PICK t : t = SRemove(m, L, s[i], N)
  OBVIOUS
<1>3. /\ Spells(t, L, r) /\ Touches(t, m, {L} \cup Elems(s), {L})
      /\ Debug => t.next[s[i]] = Null
  BY <1>2, CutLinks
<1> QED BY <1>3

(***************************************************************************)
(* Doubly-linked lists: an operation links or unlinks one node n between   *)
(* its neighbours, before and after it, in both directions.                *)
(***************************************************************************)
LinkedIn(t, m, n, before, after) ==
  /\ t \in Memory
  /\ t.next[before] = n /\ t.next[n] = after
  /\ t.prev[n] = before /\ t.prev[after] = n
  /\ \A c \in Cells : c # before /\ c # n => t.next[c] = m.next[c]
  /\ \A c \in Cells : c # after /\ c # n => t.prev[c] = m.prev[c]

LinkedOut(t, m, n, before, after) ==
  /\ t \in Memory
  /\ t.next[before] = after /\ t.prev[after] = before
  /\ \A c \in Cells : c # before /\ c # n => t.next[c] = m.next[c]
  /\ \A c \in Cells : c # after /\ c # n => t.prev[c] = m.prev[c]

LEMMA Neighbours ==
  ASSUME Apart, NEW m, NEW L, NEW s, Spells(m, L, s),
         NEW i \in 1..(Len(s) + 1)
  PROVE  /\ L \in Cells /\ Elems(s) \subseteq Cells /\ Elems(s) \subseteq Nodes
         /\ L \notin Elems(s) /\ L \notin Nodes
         /\ Prior(L, s, i) \in {L} \cup Elems(s)
         /\ After(L, s, i - 1) = IF i = Len(s) + 1 THEN L ELSE s[i]
         /\ i # Len(s) + 1 => i \in 1..Len(s) /\ s[i] \in Elems(s)
         /\ \A j \in 1..Len(s) : s[j] \in Elems(s)
         /\ \A j, k \in 1..Len(s) : s[j] = s[k] => j = k
<1>1. /\ Len(s) \in Nat /\ DOMAIN s = 1..Len(s) /\ s \in Seq(Nodes)
      /\ \A j, k \in 1..Len(s) : s[j] = s[k] => j = k
      /\ L \in Lists
  BY DEF Spells, Sequence, Distinct
<1>2. L \in Cells /\ L \notin Nodes
  BY <1>1 DEF Apart, Cells
<1>3. Elems(s) \subseteq Nodes /\ \A j \in 1..Len(s) : s[j] \in Elems(s)
  BY <1>1 DEF Elems
<1>4. After(L, s, i - 1) = IF i = Len(s) + 1 THEN L ELSE s[i]
  <2>1. (i - 1 = Len(s) <=> i = Len(s) + 1) /\ (i - 1) + 1 = i
    BY <1>1
  <2> QED BY <2>1 DEF After
<1>5. i # Len(s) + 1 => i \in 1..Len(s)
  BY <1>1
<1>6. Prior(L, s, i) \in {L} \cup Elems(s)
  BY PriorCell
<1> QED BY <1>1, <1>2, <1>3, <1>4, <1>5, <1>6 DEF Cells

LEMMA DInsertLinks ==
  ASSUME Apart, NEW m, NEW L, NEW s, Spells(m, L, s), SpellsBack(m, L, s),
         NEW n \in Nodes, n \notin Elems(s),
         NEW r, NEW i, Inserted(r, s, i, n), NEW t,
         LinkedIn(t, m, n, Prior(L, s, i), After(L, s, i - 1))
  PROVE  /\ Spells(t, L, r) /\ SpellsBack(t, L, r)
         /\ Touches(t, m, {L, n} \cup Elems(s), {L, n} \cup Elems(s))
<1> PICK p, v : p = Prior(L, s, i) /\ v = After(L, s, i - 1)
  OBVIOUS
<1>1. i \in 1..(Len(s) + 1)
  BY DEF Inserted
<1>2. /\ L \in Cells /\ Elems(s) \subseteq Cells /\ L \notin Elems(s) /\ L # n
      /\ p \in {L} \cup Elems(s)
      /\ v = IF i = Len(s) + 1 THEN L ELSE s[i]
      /\ i # Len(s) + 1 => i \in 1..Len(s) /\ s[i] \in Elems(s)
      /\ \A j \in 1..Len(s) : s[j] \in Elems(s)
      /\ \A j, k \in 1..Len(s) : s[j] = s[k] => j = k
  BY <1>1, Neighbours
<1>3. LinkedIn(t, m, n, p, v)
  OBVIOUS
<1>4. v \in {L} \cup Elems(s)
  BY <1>2
<1>5. Touches(t, m, {L, n} \cup Elems(s), {L, n} \cup Elems(s))
  BY <1>2, <1>3, <1>4 DEF Touches, LinkedIn
<1>6. Spells(t, L, r)
  <2>1. t.next[p] = n /\ t.next[n] = v
    BY <1>3 DEF LinkedIn
  <2>2. \A c \in {L} \cup Elems(s) : c # p => t.next[c] = m.next[c]
    BY <1>2, <1>3 DEF LinkedIn
  <2>3. t.prev[L] = IF i = Len(s) + 1 THEN n ELSE m.prev[L]
    BY <1>2, <1>3 DEF LinkedIn
  <2> QED BY <2>1, <2>2, <2>3, LinkInsert
<1>7. SpellsBack(t, L, r)
  <2>1. t.prev[n] = p
    BY <1>3 DEF LinkedIn
  <2>2. i <= Len(s) => t.prev[s[i]] = n
    <3>1. i <= Len(s) => i # Len(s) + 1
      BY <1>1
    <3> QED BY <3>1, <1>2, <1>3 DEF LinkedIn
  <2>3. ASSUME NEW j \in 1..Len(s), j # i PROVE t.prev[s[j]] = m.prev[s[j]]
    <3>1. s[j] \in Cells /\ s[j] # n /\ s[j] # v
      BY <2>3, <1>2
    <3> QED BY <3>1, <1>3 DEF LinkedIn
  <2> QED BY <2>1, <2>2, <2>3, BackInsert
<1> QED BY <1>5, <1>6, <1>7

LEMMA DRemoveLinks ==
  ASSUME Apart, NEW m, NEW L, NEW s, Spells(m, L, s), SpellsBack(m, L, s),
         NEW r, NEW i, Removed(r, s, i), NEW t,
         LinkedOut(t, m, s[i], Prior(L, s, i), After(L, s, i))
  PROVE  /\ Spells(t, L, r) /\ SpellsBack(t, L, r)
         /\ Touches(t, m, {L} \cup Elems(s), {L} \cup Elems(s))
<1> PICK p, v, n : p = Prior(L, s, i) /\ v = After(L, s, i) /\ n = s[i]
  OBVIOUS
<1>1. /\ Len(s) \in Nat /\ i \in 1..Len(s) /\ i \in 1..(Len(s) + 1)
      /\ i + 1 \in 1..(Len(s) + 1) /\ (i + 1) - 1 = i
      /\ i + 1 = Len(s) + 1 <=> i = Len(s)
  <2>1. Len(s) \in Nat /\ i \in 1..Len(s)
    BY DEF Removed, Spells, Sequence
  <2> QED BY <2>1
<1>2. /\ L \in Cells /\ Elems(s) \subseteq Cells /\ L \notin Elems(s)
      /\ p \in {L} \cup Elems(s)
      /\ \A j \in 1..Len(s) : s[j] \in Elems(s)
      /\ \A j, k \in 1..Len(s) : s[j] = s[k] => j = k
  BY <1>1, Neighbours
<1>3. /\ v = IF i = Len(s) THEN L ELSE s[i + 1]
      /\ i # Len(s) => i + 1 \in 1..Len(s) /\ s[i + 1] \in Elems(s)
  BY <1>1, <1>2 DEF After
<1>4. LinkedOut(t, m, n, p, v)
  OBVIOUS
<1>5. v \in {L} \cup Elems(s) /\ n \in Elems(s)
  BY <1>1, <1>2, <1>3
<1>6. Touches(t, m, {L} \cup Elems(s), {L} \cup Elems(s))
  BY <1>2, <1>4, <1>5 DEF Touches, LinkedOut
<1>7. Spells(t, L, r)
  <2>1. t.next[p] = v
    BY <1>4 DEF LinkedOut
  <2>2. \A c \in {L} \cup Elems(s) : c # p /\ c # n => t.next[c] = m.next[c]
    BY <1>2, <1>4 DEF LinkedOut
  <2>3. t.prev[L] = IF i = Len(s) THEN p ELSE m.prev[L]
    BY <1>2, <1>3, <1>4, <1>5 DEF LinkedOut
  <2> QED BY <2>1, <2>2, <2>3, LinkRemove
<1>8. SpellsBack(t, L, r)
  <2>1. i < Len(s) => t.prev[s[i + 1]] = p
    BY <1>1, <1>3, <1>4 DEF LinkedOut
  <2>2. ASSUME NEW j \in 1..Len(s), j # i, j # i + 1
        PROVE  t.prev[s[j]] = m.prev[s[j]]
    <3>1. s[j] \in Cells /\ s[j] # n /\ s[j] # v
      BY <2>2, <1>1, <1>2, <1>3
    <3> QED BY <3>1, <1>4 DEF LinkedOut
  <2> QED BY <2>1, <2>2, BackRemove
<1> QED BY <1>6, <1>7, <1>8

LEMMA DPushHeadLinks ==
  ASSUME Apart, NEW m \in Memory, NEW L, NEW s,
         Spells(m, L, s), SpellsBack(m, L, s),
         NEW n \in Nodes, n \notin Elems(s)
  PROVE  LinkedIn(DPushHead(m, L, n), m, n, L, m.next[L])
<1> DEFINE h == m.next[L]
           a == SetPrev(m, n, L)
           b == SetPrev(a, h, n)
           d == SetNext(b, n, h)
           t == SetNext(d, L, n)
<1>1. /\ L \in Cells /\ n \in Cells /\ n # L /\ h \in Cells /\ h # n
      /\ m.prev[L] = L => h = L
  <2>1. L \in Cells /\ n \in Cells /\ n # L
    BY Ends DEF Cells
  <2>2. CASE s = <<>>
    BY <2>1, <2>2, Ends
  <2>3. CASE s # <<>>
    BY <2>1, <2>3, Ends DEF Elems, Spells, Sequence
  <2> QED BY <2>1, <2>2, <2>3
<1>2. PrevSet(a, m, n, L)
  BY <1>1, SetPrevEffect
<1>3. PrevSet(b, a, h, n)
  <2>1. a \in Memory
    BY <1>2 DEF PrevSet
  <2> HIDE DEF a, h
  <2> QED BY <1>1, <2>1, SetPrevEffect
<1>4. b.next = m.next /\ b.prev[L] # L
  <2> HIDE DEF a, b, h
  <2>1. b.prev[L] = IF L = h THEN n ELSE m.prev[L]
    BY <1>1, <1>2, <1>3 DEF PrevSet
  <2> QED BY <2>1, <1>1, <1>2, <1>3 DEF PrevSet
<1>5. t = DPushHead(m, L, n)
  <2> HIDE DEF b
  <2>1. t = SPushHead(b, L, n)
    BY <1>4, Zenon DEF SPushHead
  <2> QED BY <2>1, Zenon DEF DPushHead, b
<1> HIDE DEF a, b, h
<1>6. NextSet(d, b, n, h)
  BY <1>1, <1>3, SetNextEffect DEF PrevSet
<1> HIDE DEF d
<1>7. NextSet(t, d, L, n)
  BY <1>1, <1>6, SetNextEffect DEF NextSet
<1> HIDE DEF t
<1>8. LinkedIn(t, m, n, L, h)
  BY <1>1, <1>2, <1>3, <1>6, <1>7 DEF LinkedIn, NextSet, PrevSet
<1> QED BY <1>5, <1>8 DEF h

LEMMA DPushTailLinks ==
  ASSUME Apart, NEW m \in Memory, NEW L, NEW s,
         Spells(m, L, s), SpellsBack(m, L, s),
         NEW n \in Nodes, n \notin Elems(s)
  PROVE  LinkedIn(DPushTail(m, L, n), m, n, m.prev[L], L)
<1> DEFINE p == m.prev[L]
           a == SetPrev(m, n, p)
           b == SetNext(a, n, L)
           d == SetNext(b, p, n)
           t == SetPrev(d, L, n)
<1>1. L \in Cells /\ n \in Cells /\ n # L /\ p \in Cells /\ p # n
  <2>1. L \in Cells /\ n \in Cells /\ n # L
    BY Ends DEF Cells
  <2>2. CASE s = <<>>
    BY <2>1, <2>2, Ends
  <2>3. CASE s # <<>>
    BY <2>1, <2>3, Ends DEF Elems, Spells, Sequence
  <2> QED BY <2>1, <2>2, <2>3
<1>2. PrevSet(a, m, n, p)
  BY <1>1, SetPrevEffect
<1>3. a.prev[L] = p
  <2> HIDE DEF a
  <2> QED BY <1>1, <1>2 DEF PrevSet
<1>4. t = DPushTail(m, L, n)
  BY <1>3, Zenon DEF DPushTail, SPushTail
<1> HIDE DEF a, p
<1>5. NextSet(b, a, n, L)
  BY <1>1, <1>2, SetNextEffect DEF PrevSet
<1> HIDE DEF b
<1>6. NextSet(d, b, p, n)
  BY <1>1, <1>5, SetNextEffect DEF NextSet
<1> HIDE DEF d
<1>7. PrevSet(t, d, L, n)
  BY <1>1, <1>6, SetPrevEffect DEF NextSet
<1> HIDE DEF t
<1>8. LinkedIn(t, m, n, p, L)
  BY <1>1, <1>2, <1>5, <1>6, <1>7 DEF LinkedIn, NextSet, PrevSet
<1> QED BY <1>4, <1>8 DEF p

LEMMA DInsertBeforeLinks ==
  ASSUME Apart, NEW m \in Memory, NEW L, NEW s,
         Spells(m, L, s), SpellsBack(m, L, s),
         NEW n \in Nodes, n \notin Elems(s), NEW i \in 1..Len(s)
  PROVE  LinkedIn(DInsert(m, L, n, s[i]), m, n, Prior(L, s, i), s[i])
<1> PICK v, p : v = s[i] /\ p = Prior(L, s, i)
  OBVIOUS
<1> DEFINE a == SetNext(m, p, n)
           b == SetPrev(a, n, p)
           d == SetNext(b, n, v)
           t == SetPrev(d, v, n)
<1>1. /\ n \in Cells /\ v \in Cells /\ p \in Cells
      /\ v # n /\ p # n /\ v # Null /\ m.prev[v] = p
  <2>1. i \in 1..(Len(s) + 1) /\ i # Len(s) + 1
    BY DEF Spells, Sequence
  <2>2. /\ L \in Cells /\ Elems(s) \subseteq Cells /\ Elems(s) \subseteq Nodes
        /\ L \notin Nodes /\ p \in {L} \cup Elems(s) /\ v \in Elems(s)
    BY <2>1, Neighbours
  <2>3. m.prev[v] = p
    BY DEF SpellsBack
  <2> QED BY <2>2, <2>3 DEF Apart, Cells
<1>2. t = DInsert(m, L, n, v)
  BY <1>1, Zenon DEF DInsert
<1>3. NextSet(a, m, p, n)
  BY <1>1, SetNextEffect
<1> HIDE DEF a
<1>4. PrevSet(b, a, n, p)
  BY <1>1, <1>3, SetPrevEffect DEF NextSet
<1> HIDE DEF b
<1>5. NextSet(d, b, n, v)
  BY <1>1, <1>4, SetNextEffect DEF PrevSet
<1> HIDE DEF d
<1>6. PrevSet(t, d, v, n)
  BY <1>1, <1>5, SetPrevEffect DEF NextSet
<1> HIDE DEF t
<1>7. LinkedIn(t, m, n, p, v)
  BY <1>1, <1>3, <1>4, <1>5, <1>6 DEF LinkedIn, NextSet, PrevSet
<1> QED BY <1>2, <1>7

LEMMA DRemoveUnlinks ==
  ASSUME Apart, NEW m \in Memory, NEW L, NEW s,
         Spells(m, L, s), SpellsBack(m, L, s), NEW i \in 1..Len(s)
  PROVE  /\ LinkedOut(DRemove(m, L, s[i]), m, s[i],
                      Prior(L, s, i), After(L, s, i))
         /\ Debug => /\ DRemove(m, L, s[i]).next[s[i]] = Null
                     /\ DRemove(m, L, s[i]).prev[s[i]] = Null
<1> PICK n, p, v : n = s[i] /\ p = Prior(L, s, i) /\ v = After(L, s, i)
  OBVIOUS
<1> DEFINE a == SetNext(m, p, v)
           b == SetPrev(a, v, p)
           d == SetPrev(b, n, Null)
           e == SetNext(d, n, Null)
<1>1. /\ n \in Cells /\ v \in Cells /\ p \in Cells
      /\ v # n /\ p # n /\ m.prev[n] = p /\ m.next[n] = v
  <2>1. /\ Len(s) \in Nat /\ i \in 1..(Len(s) + 1) /\ i # i - 1 /\ i # i + 1
        /\ i # Len(s) => i + 1 \in 1..Len(s)
    BY DEF Spells, Sequence
  <2>2. /\ L \in Cells /\ Elems(s) \subseteq Cells /\ L \notin Elems(s)
        /\ p \in {L} \cup Elems(s)
        /\ \A j \in 1..Len(s) : s[j] \in Elems(s)
        /\ \A j, k \in 1..Len(s) : s[j] = s[k] => j = k
    BY <2>1, Neighbours
  <2>3. p # n
    BY <2>1, PriorCell
  <2>4. v \in Cells /\ v # n
    BY <2>1, <2>2 DEF After
  <2>5. m.prev[n] = p /\ m.next[n] = v
    BY DEF SpellsBack, Spells, Represents
  <2> QED BY <2>2, <2>3, <2>4, <2>5
<1>2. DRemove(m, L, n) = IF Debug THEN e ELSE b
  BY <1>1, Zenon DEF DRemove
<1>3. NextSet(a, m, p, v)
  BY <1>1, SetNextEffect
<1> HIDE DEF a
<1>4. PrevSet(b, a, v, p)
  BY <1>1, <1>3, SetPrevEffect DEF NextSet
<1> HIDE DEF b
<1>5. PrevSet(d, b, n, Null)
  <2>1. b \in Memory
    BY <1>4 DEF PrevSet
  <2> QED BY <1>1, <2>1, SetPrevEffect
<1> HIDE DEF d
<1>6. NextSet(e, d, n, Null)
  BY <1>1, <1>5, SetNextEffect DEF PrevSet
<1> HIDE DEF e
<1>7. LinkedOut(b, m, n, p, v)
  BY <1>1, <1>3, <1>4 DEF LinkedOut, NextSet, PrevSet
<1>8. LinkedOut(e, m, n, p, v) /\ e.next[n] = Null /\ e.prev[n] = Null
  BY <1>1, <1>3, <1>4, <1>5, <1>6 DEF LinkedOut, NextSet, PrevSet
<1>9. CASE Debug
  BY <1>2, <1>8, <1>9
<1>10. CASE ~ Debug
  BY <1>2, <1>7, <1>10
<1> QED BY <1>9, <1>10

LEMMA DPopHeadUnlinks ==
  ASSUME Apart, NEW m \in Memory, NEW L, NEW s,
         Spells(m, L, s), SpellsBack(m, L, s), s # <<>>
  PROVE  /\ LinkedOut(DPopHead(m, L), m, s[1], L, After(L, s, 1))
         /\ Debug => /\ DPopHead(m, L).next[s[1]] = Null
                     /\ DPopHead(m, L).prev[s[1]] = Null
<1> PICK n, v, t : n = s[1] /\ v = After(L, s, 1) /\ t = SPopHead(m, L)
  OBVIOUS
<1> DEFINE b == SetPrev(t, v, L)
           d == SetPrev(b, n, Null)
<1>1. /\ L \in Cells /\ n \in Cells /\ v \in Cells /\ n # L /\ v # n
      /\ n # Null /\ m.next[L] = n /\ m.next[n] = v /\ HeadOf(m, L) = n
  <2>1. /\ Len(s) \in Nat /\ 1 \in 1..Len(s) /\ 1 \in 1..(Len(s) + 1)
        /\ 1 # Len(s) => 1 + 1 \in 1..Len(s)
    <3> PICK l : l = Len(s)
      OBVIOUS
    <3>1. l \in Nat /\ 1 \in 1..l
      BY Ends DEF Spells, Sequence
    <3>2. 1 \in 1..(l + 1) /\ (1 # l => 1 + 1 \in 1..l)
      BY ONLY <3>1
    <3> QED BY <3>1, <3>2
  <2>2. /\ L \in Cells /\ Elems(s) \subseteq Cells /\ Elems(s) \subseteq Nodes
        /\ L \notin Elems(s)
        /\ \A j \in 1..Len(s) : s[j] \in Elems(s)
        /\ \A j, k \in 1..Len(s) : s[j] = s[k] => j = k
    BY <2>1, Neighbours
  <2>3. v \in Cells /\ v # n
    BY <2>1, <2>2 DEF After
  <2>4. m.next[L] = n /\ m.next[L] # L
    BY Ends
  <2>5. m.next[n] = v
    BY <2>1 DEF Spells, Represents
  <2> QED BY <2>1, <2>2, <2>3, <2>4, <2>5 DEF Apart, HeadOf, IsEmpty
<1>2. /\ t \in Memory /\ t.next[L] = v
      /\ \A c \in Cells : c # L /\ c # n => t.next[c] = m.next[c]
      /\ \A c \in Cells : c # L => t.prev[c] = m.prev[c]
      /\ t.prev[L] = IF v = L THEN L ELSE m.prev[L]
      /\ Debug => t.next[n] = Null
  <2> DEFINE x == IF v = L THEN SetPrev(m, L, L) ELSE m
             y == SetNext(x, L, v)
             z == SetNext(y, n, Null)
  <2>1. t = IF Debug THEN z ELSE y
    BY <1>1, Zenon DEF SPopHead, IsEmpty
  <2>2. /\ x \in Memory /\ x.next = m.next
        /\ \A c \in Cells : c # L => x.prev[c] = m.prev[c]
        /\ x.prev[L] = IF v = L THEN L ELSE m.prev[L]
    <3>1. PrevSet(SetPrev(m, L, L), m, L, L)
      BY <1>1, SetPrevEffect
    <3>2. CASE v = L
      <4>1. x = SetPrev(m, L, L)
        BY <3>2
      <4> HIDE DEF x
      <4> QED BY <3>1, <3>2, <4>1 DEF PrevSet
    <3>3. CASE v # L
      BY <3>3
    <3> QED BY <3>2, <3>3
  <2> HIDE DEF x
  <2>3. NextSet(y, x, L, v)
    BY <1>1, <2>2, SetNextEffect
  <2> HIDE DEF y
  <2>4. NextSet(z, y, n, Null)
    <3>1. y \in Memory
      BY <2>3 DEF NextSet
    <3> QED BY <1>1, <3>1, SetNextEffect
  <2> HIDE DEF z
  <2>5. CASE Debug
    <3>1. t = z
      BY <2>1, <2>5
    <3> QED BY <1>1, <2>2, <2>3, <2>4, <3>1 DEF NextSet
  <2>6. CASE ~ Debug
    <3>1. t = y
      BY <2>1, <2>6
    <3> QED BY <1>1, <2>2, <2>3, <2>6, <3>1 DEF NextSet
  <2> QED BY <2>5, <2>6
<1>3. DPopHead(m, L) = IF Debug THEN d ELSE b
  BY <1>1, <1>2, Zenon DEF DPopHead
<1>4. PrevSet(b, t, v, L)
  BY <1>1, <1>2, SetPrevEffect
<1> HIDE DEF b
<1>5. PrevSet(d, b, n, Null)
  <2>1. b \in Memory
    BY <1>4 DEF PrevSet
  <2> QED BY <1>1, <2>1, SetPrevEffect
<1> HIDE DEF d
<1>6. LinkedOut(b, m, n, L, v)
  BY <1>1, <1>2, <1>4 DEF LinkedOut, PrevSet
<1>7. /\ LinkedOut(d, m, n, L, v) /\ d.prev[n] = Null
      /\ Debug => d.next[n] = Null
  BY <1>1, <1>2, <1>4, <1>5 DEF LinkedOut, PrevSet
<1>8. CASE Debug
  BY <1>3, <1>7, <1>8
<1>9. CASE ~ Debug
  BY <1>3, <1>6, <1>9
<1> QED BY <1>8, <1>9

LEMMA EmptyDPop ==
  ASSUME Apart, NEW m \in Memory, NEW L, Spells(m, L, <<>>)
  PROVE  DPopHead(m, L) = m /\ HeadOf(m, L) = Null
<1>1. SPopHead(m, L) = m /\ HeadOf(m, L) = Null
  BY EmptyPop
<1>2. m.next[L] = L /\ m.prev[L] = L
  BY Ends
<1>3. SetPrev(m, L, L) = m
  BY <1>2 DEF SetPrev, Memory
<1> QED BY <1>1, <1>2, <1>3, Zenon DEF DPopHead
=============================================================================
