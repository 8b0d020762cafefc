--------------------------- MODULE Library_proofs ---------------------------
(***************************************************************************)
(* Proofs about the libraries and drivers under the runtimes.              *)
(*                                                                         *)
(* Memory manager: for every word size, heap section and sequence of       *)
(* requests, blocks lie in the section and apart until the padding in      *)
(* front of one passes the end of the heap, where the arithmetic of        *)
(* fwk_mm.c wraps.                                                         *)
(*                                                                         *)
(* Lists: for any number of lists and nodes, of both kinds and in both     *)
(* build modes, the pointers spell the sequences the calls describe.  The  *)
(* effect of each operation on the pointers is proved in FwkList_proofs    *)
(* for one list; here the other lists and the loose nodes join it.         *)
(*                                                                         *)
(* UART: whatever clocks and rates are configured, a rate that is accepted *)
(* is the one the registers give.                                          *)
(*                                                                         *)
(* Identifiers: if the indices fit their bit fields, an identifier built   *)
(* in any number of steps names what the calls have asked for.             *)
(*                                                                         *)
(* Endpoints of rpmsg: whatever callers create and destroy at once, the    *)
(* addresses stay apart and a handler that walks the list without the lock *)
(* finds what is registered.                                               *)
(*                                                                         *)
(* Formats of the log: in words of any two sizes whose decimals fit the    *)
(* buffer, what is put for a number reads back as that number; whatever    *)
(* the formats of calls, the walk stays in front of the terminator and     *)
(* refuses none that is made of the documented specifiers.                 *)
(***************************************************************************)
EXTENDS FwkMm, FwkListOps, FwkId, LogFormat, Pl011, Rpmsg,
        FiniteSetTheorems, TLAPS

Lp == INSTANCE FwkList_proofs WITH Debug <- kind.debug

(* What memory means does not depend on the build mode: the invariant uses *)
(* the definitions of a release build, which no variable occurs in.        *)
Pure == INSTANCE FwkList_proofs WITH Debug <- FALSE

(***************************************************************************)
(* The memory manager                                                      *)
(***************************************************************************)
(* Until a block starts beyond it, the free pointer stays between the      *)
(* blocks and the end of the heap.                                         *)
HeapInv ==
  /\ HeapTypeOK
  /\ ~initialized => blocks = <<>>
  /\ initialized =>
       /\ heapEnd <= section[2]
       /\ ~Overran(Len(blocks)) => section[1] <= heapFree /\ heapFree <= heapEnd
  /\ BlocksFit /\ BlocksApart

LEMMA InitHeap == HeapInit => HeapInv
<1> SUFFICES ASSUME HeapInit PROVE HeapInv
  OBVIOUS
<1>1. 0 \in Word
  BY MmAssumption DEF Word, ALIGNMENT
<1>2. blocks = <<>> /\ DOMAIN blocks = {}
  BY DEF HeapInit
<1>3. HeapTypeOK
  <2>1. section \in Word \X Word
    BY <1>1 DEF HeapInit
  <2>2. blocks \in Seq(Block)
    BY <1>2
  <2> QED BY <1>1, <2>1, <2>2 DEF HeapInit, HeapTypeOK
<1> QED BY <1>2, <1>3 DEF HeapInit, HeapInv, BlocksFit, BlocksApart

LEMMA MmInitHeap ==
  ASSUME HeapInv, NEW bounds \in HeapBounds, MmInit(bounds[1], bounds[2])
  PROVE  HeapInv'
<1> DEFINE lo == bounds[1]
           hi == bounds[2]
           start == AlignNext(lo, ALIGNMENT)
           end == AlignPrevious(hi, ALIGNMENT)
<1>1. lo \in Word /\ hi \in Word
  BY MmAssumption
<1>2. /\ blocks' = <<>> /\ initialized' = TRUE /\ locked' = locked
      /\ heapFree' = start /\ section' = <<lo, hi>>
      /\ heapEnd' = Wrap(start + Wrap(end - start))
      /\ lo <= start /\ start < end /\ end <= hi
  BY DEF MmInit, HeapInv
<1>3. start \in Word /\ end \in Word /\ end % ALIGNMENT = 0
  BY <1>1, MmAssumption
     DEF AlignNext, AlignPrevious, Wrap, Word, ALIGNMENT
<1> HIDE DEF lo, hi, start, end
<1>4. heapEnd' = end
  BY <1>2, <1>3, MmAssumption DEF Wrap, Word
<1>5. HeapTypeOK'
  BY <1>1, <1>2, <1>3, <1>4 DEF HeapInv, HeapTypeOK
<1> QED BY <1>1, <1>2, <1>3, <1>4, <1>5
        DEF HeapInv, BlocksFit, BlocksApart, Word

(* A check that passes without wrapping says that the block ends in front  *)
(* of the end of the heap.                                                 *)
LEMMA NoWrap ==
  ASSUME NEW start \in Nat, NEW total \in Nat, NEW end \in Nat,
         end < W, start <= end, total <= Wrap(end - start)
  PROVE  Wrap(start + total) = start + total /\ start + total <= end
<1>1. W \in Nat
  BY MmAssumption
<1>2. Wrap(end - start) = end - start
  BY <1>1 DEF Wrap
<1>3. start + total <= end
  BY <1>2
<1> QED BY <1>1, <1>3 DEF Wrap

LEMMA AllocHeap ==
  ASSUME HeapInv,
         NEW count \in Counts, NEW size \in Sizes,
         NEW alignment \in Alignments, Alloc(count, size, alignment)
  PROVE  HeapInv'
<1> DEFINE start == BlockStart(alignment)
           total == count * size
           block == [start |-> start, size |-> total, alignment |-> alignment]
<1>0. W \in Nat /\ W > 0 /\ \A x \in Word : x \in Nat /\ x < W
  BY MmAssumption DEF Word, ALIGNMENT
<1>1. total \in Word
  <2>1. count \in Nat /\ size \in Nat
    BY MmAssumption DEF Word
  <2>2. count * size \in Nat
    BY <2>1
  <2>3. count * size < W
    BY DEF Alloc, MayAllocate
  <2> QED BY <2>2, <2>3, MmAssumption DEF Word
<1>2. alignment \in Word /\ alignment # 0 /\ heapFree \in Word /\ heapEnd \in Word
  BY MmAssumption DEF Alloc, MayAllocate, HeapInv, HeapTypeOK
<1>3. start \in Word
  <2>1. PICK v : v = Wrap(heapFree + alignment - 1)
    OBVIOUS
  <2>2. v \in Nat /\ v < W
    BY <2>1, <1>0, <1>2 DEF Wrap
  <2>3. start = (v \div alignment) * alignment
    BY <2>1 DEF BlockStart, AlignNext, AlignPrevious
  <2>4. PICK q : q = v \div alignment
    OBVIOUS
  <2>5. alignment \in Nat /\ alignment > 0
    BY <1>0, <1>2
  <2>6. q \in Nat /\ q * alignment <= v /\ q * alignment \in Nat
    BY <2>2, <2>4, <2>5
  <2> QED BY <2>2, <2>3, <2>4, <2>6, <1>0 DEF Word
<1>4. /\ heapFree <= start
      /\ total <= Wrap(heapEnd - start)
      /\ heapFree' = Wrap(start + total)
      /\ blocks' = Append(blocks, block)
      /\ UNCHANGED <<initialized, locked, heapEnd, section>>
      /\ initialized
  BY DEF Alloc, MayAllocate
<1>5. heapFree' \in Word
  <2> HIDE DEF start, total
  <2> QED BY <1>0, <1>1, <1>3, <1>4 DEF Wrap, Word
<1>6. block \in Block
  BY <1>1, <1>2, <1>3 DEF Block
<1> HIDE DEF start, total
<1>7. /\ block.start = start /\ block.size = total
  OBVIOUS
<1> HIDE DEF block
<1>8. HeapTypeOK'
  BY <1>4, <1>5, <1>6 DEF HeapInv, HeapTypeOK
<1>9. /\ Len(blocks) \in Nat /\ DOMAIN blocks = 1..Len(blocks)
      /\ Len(blocks') = Len(blocks) + 1
      /\ DOMAIN blocks' = 1..(Len(blocks) + 1)
      /\ \A i \in DOMAIN blocks : blocks'[i] = blocks[i]
      /\ blocks'[Len(blocks) + 1] = block
      /\ \A i \in DOMAIN blocks : blocks[i] \in Block
  BY <1>4, <1>6 DEF HeapInv, HeapTypeOK
<1> PICK last \in Nat : last = Len(blocks)
  BY <1>9
<1>10. ~Overran(Len(blocks))' => ~Overran(last + 1)'
  BY <1>9 DEF Overran
<1>11. \A n \in DOMAIN blocks : Overran(n)' <=> Overran(n)
  <2> SUFFICES ASSUME NEW n \in DOMAIN blocks PROVE Overran(n)' <=> Overran(n)
    OBVIOUS
  <2>1. \A i \in 1..n : i \in DOMAIN blocks
    BY <1>9
  <2> QED BY <1>4, <1>9, <2>1 DEF Overran
<1>12. ~Overran(last + 1)' => ~Overran(Len(blocks)) /\ start <= heapEnd
  <2> SUFFICES ASSUME ~Overran(last + 1)'
               PROVE  ~Overran(Len(blocks)) /\ start <= heapEnd
    OBVIOUS
  <2>1. \A i \in 1..(last + 1) : ~(blocks'[i].start > heapEnd)
    BY <1>4 DEF Overran
  <2>2. ~Overran(Len(blocks))
    BY <2>1, <1>9 DEF Overran
  <2>3. ~(start > heapEnd)
    BY <2>1, <1>7, <1>9
  <2> QED BY <2>2, <2>3, <1>0, <1>2, <1>3
(* What holds when neither this block nor one before it overran.           *)
<1>13. ASSUME ~Overran(last + 1)'
       PROVE  /\ start \in Nat /\ total \in Nat /\ heapFree \in Nat
              /\ heapEnd \in Nat /\ section[1] \in Nat /\ section[2] \in Nat
              /\ heapFree <= start /\ heapFree' = start + total
              /\ heapFree' <= heapEnd
              /\ section[1] <= heapFree /\ heapEnd <= section[2]
  <2>1. ~Overran(Len(blocks)) /\ start <= heapEnd
    BY <1>12, <1>13
  <2>2. section[1] \in Word /\ section[2] \in Word
    BY DEF HeapInv, HeapTypeOK
  <2>3. section[1] <= heapFree /\ heapEnd <= section[2]
    BY <2>1, <1>4 DEF HeapInv
  <2>4. heapFree' = start + total /\ heapFree' <= heapEnd
    BY <2>1, <1>0, <1>1, <1>2, <1>3, <1>4, NoWrap
  <2> QED BY <2>2, <2>3, <2>4, <1>0, <1>1, <1>2, <1>3, <1>4
<1>14. BlocksFit'
  <2> SUFFICES ASSUME NEW i \in DOMAIN blocks', ~Overran(i)'
               PROVE  /\ section[1] <= blocks'[i].start
                      /\ blocks'[i].start + blocks'[i].size <= section[2]
    BY <1>4 DEF BlocksFit
  <2>1. CASE i \in DOMAIN blocks
    BY <2>1, <1>9, <1>11 DEF HeapInv, BlocksFit
  <2>2. CASE i = Len(blocks) + 1
    <3>1. /\ start \in Nat /\ total \in Nat /\ heapFree \in Nat
          /\ heapEnd \in Nat /\ section[1] \in Nat /\ section[2] \in Nat
          /\ heapFree <= start /\ heapFree' = start + total
          /\ heapFree' <= heapEnd
          /\ section[1] <= heapFree /\ heapEnd <= section[2]
      BY <1>13, <2>2
    <3> QED BY ONLY <2>2, <3>1, <1>7, <1>9
  <2> QED BY <2>1, <2>2, <1>9
<1>15. BlocksApart'
  <2>1. \A i \in DOMAIN blocks :
          blocks[i].start \in Nat /\ blocks[i].size \in Nat
    BY <1>0, <1>9 DEF Block
  <2>2. ASSUME ~Overran(last + 1)'
        PROVE  \A i \in DOMAIN blocks :
                 blocks[i].start + blocks[i].size <= heapFree
    BY <1>12, <2>2 DEF HeapInv, BlocksApart
  <2>3. ASSUME NEW i \in DOMAIN blocks', ~Overran(Len(blocks))'
        PROVE  blocks'[i].start + blocks'[i].size <= heapFree'
    <3>1. /\ start \in Nat /\ total \in Nat /\ heapFree \in Nat
          /\ heapFree <= start /\ heapFree' = start + total
      BY <1>13, <1>10, <2>3
    <3>2. CASE i \in DOMAIN blocks
      <4>1. blocks[i].start + blocks[i].size <= heapFree
        BY <3>2, <1>10, <2>2, <2>3
      <4> QED BY ONLY <3>1, <3>2, <4>1, <2>1, <1>9
    <3>3. CASE i = Len(blocks) + 1
      BY ONLY <3>1, <3>3, <1>7, <1>9
    <3> QED BY <3>2, <3>3, <1>9
  <2>4. ASSUME NEW i \in DOMAIN blocks', NEW j \in DOMAIN blocks',
               i < j, ~Overran(j)'
        PROVE  blocks'[i].start + blocks'[i].size <= blocks'[j].start
    <3>1. i \in DOMAIN blocks
      BY <1>9, <2>4
    <3>2. CASE j \in DOMAIN blocks
      BY <3>1, <3>2, <2>4, <1>9, <1>11 DEF HeapInv, BlocksApart
    <3>3. CASE j = Len(blocks) + 1
      <4>1. /\ start \in Nat /\ heapFree \in Nat /\ heapFree <= start
        BY <1>13, <2>4, <3>3
      <4>2. blocks[i].start + blocks[i].size <= heapFree
        BY <3>1, <3>3, <2>2, <2>4
      <4> QED BY ONLY <3>1, <3>3, <4>1, <4>2, <2>1, <1>7, <1>9
    <3> QED BY <3>2, <3>3, <1>9
  <2> QED BY <2>3, <2>4 DEF BlocksApart
<1>16. ~Overran(Len(blocks))' => section'[1] <= heapFree' /\ heapFree' <= heapEnd'
  <2> SUFFICES ASSUME ~Overran(Len(blocks))'
               PROVE  section[1] <= heapFree' /\ heapFree' <= heapEnd
    BY <1>4
  <2>1. /\ start \in Nat /\ total \in Nat /\ heapFree \in Nat
        /\ section[1] \in Nat
        /\ heapFree <= start /\ heapFree' = start + total
        /\ heapFree' <= heapEnd /\ section[1] <= heapFree
    BY <1>13, <1>10
  <2> QED BY ONLY <2>1
<1>17. heapEnd' <= section'[2] /\ initialized'
  BY <1>4 DEF HeapInv
<1> QED BY <1>8, <1>14, <1>15, <1>16, <1>17 DEF HeapInv

LEMMA NextHeap == HeapInv /\ [HeapNext]_heapVars => HeapInv'
<1> SUFFICES ASSUME HeapInv, [HeapNext]_heapVars PROVE HeapInv'
  OBVIOUS
<1>1. CASE Lock
  BY <1>1 DEF Lock, HeapInv, HeapTypeOK, BlocksFit, BlocksApart, Overran
<1>2. CASE UNCHANGED heapVars
  BY <1>2 DEF heapVars, HeapInv, HeapTypeOK, BlocksFit, BlocksApart, Overran
<1> QED BY <1>1, <1>2, MmInitHeap, AllocHeap DEF HeapNext

(* Whatever is requested, with whatever alignments and in words of any     *)
(* width, every block lies inside the heap section until the padding in    *)
(* front of one passes the end of the heap: there, and nowhere before, the *)
(* arithmetic of fwk_mm_alloc_aligned goes wrong.                          *)
THEOREM BlocksStayInHeap == HeapSpec => []BlocksFit
<1>1. HeapInv => BlocksFit
  BY DEF HeapInv
<1> QED BY InitHeap, NextHeap, <1>1, PTL DEF HeapSpec

(* And until then no two blocks overlap.                                   *)
THEOREM BlocksStayApart == HeapSpec => []BlocksApart
<1>1. HeapInv => BlocksApart
  BY DEF HeapInv
<1> QED BY InitHeap, NextHeap, <1>1, PTL DEF HeapSpec

(***************************************************************************)
(* Lists                                                                   *)
(***************************************************************************)

(* What memory means does not depend on the build mode.                    *)
LEMMA SameMeaning ==
  ASSUME NEW m, NEW L, NEW s
  PROVE  /\ Pure!Apart <=> Lp!Apart
         /\ Pure!Spells(m, L, s) <=> Lp!Spells(m, L, s)
         /\ Pure!SpellsBack(m, L, s) <=> Lp!SpellsBack(m, L, s)
         /\ Pure!Memory = Lp!Memory
         /\ Pure!Cells = Lp!Cells
         /\ Pure!Elems(s) = Lp!Elems(s)
         /\ Pure!Sequence(s) <=> Lp!Sequence(s)
<1>1. Pure!Sequence(s) <=> Lp!Sequence(s)
  BY Zenon DEF Pure!Sequence, Lp!Sequence, Pure!Distinct, Lp!Distinct
<1>2. Pure!Spells(m, L, s) <=> Lp!Spells(m, L, s)
  BY <1>1, Zenon DEF Pure!Spells, Lp!Spells, Pure!Represents, Lp!Represents,
                     Pure!After, Lp!After, Pure!Prior, Lp!Prior
<1>3. Pure!SpellsBack(m, L, s) <=> Lp!SpellsBack(m, L, s)
  BY Zenon DEF Pure!SpellsBack, Lp!SpellsBack, Pure!Prior, Lp!Prior
<1>4. /\ Pure!Memory = Lp!Memory /\ Pure!Cells = Lp!Cells
      /\ Pure!Elems(s) = Lp!Elems(s) /\ (Pure!Apart <=> Lp!Apart)
  BY Zenon DEF Pure!Memory, Lp!Memory, Pure!Cells, Lp!Cells, Pure!Elems,
               Lp!Elems, Pure!Apart, Lp!Apart
<1> QED BY <1>1, <1>2, <1>3, <1>4

LEMMA SameStores ==
  ASSUME NEW m, NEW c, NEW v
  PROVE  /\ SetNext(m, c, v) = Lp!SetNext(m, c, v)
         /\ SetPrev(m, c, v) = Lp!SetPrev(m, c, v)
         /\ IsEmpty(m, c) <=> Lp!IsEmpty(m, c)
         /\ HeadOf(m, c) = Lp!HeadOf(m, c)
BY Zenon DEF SetNext, SetPrev, IsEmpty, HeadOf, Lp!SetNext, Lp!SetPrev,
             Lp!IsEmpty, Lp!HeadOf

(* The operations of FwkListOps are those the lemmas are about.            *)
LEMMA SameCalls ==
  ASSUME NEW m, NEW L, NEW n, NEW x
  PROVE  /\ SPushHead(m, L, n) = Lp!SPushHead(m, L, n)
         /\ SPushTail(m, L, n) = Lp!SPushTail(m, L, n)
         /\ SPopHead(m, L) = Lp!SPopHead(m, L)
         /\ SRemove(m, L, n, x) = Lp!SRemove(m, L, n, x)
         /\ SContains(m, L, n, x) <=> Lp!SContains(m, L, n, x)
         /\ DPushHead(m, L, n) = Lp!DPushHead(m, L, n)
         /\ DPushTail(m, L, n) = Lp!DPushTail(m, L, n)
         /\ DPopHead(m, L) = Lp!DPopHead(m, L)
         /\ DRemove(m, L, n) = Lp!DRemove(m, L, n)
         /\ DInsert(m, L, n, x) = Lp!DInsert(m, L, n, x)
<1> USE DEF SetNext, SetPrev, IsEmpty, Lp!SetNext, Lp!SetPrev, Lp!IsEmpty
<1>1. /\ SPushHead(m, L, n) = Lp!SPushHead(m, L, n)
      /\ SPushTail(m, L, n) = Lp!SPushTail(m, L, n)
      /\ SPopHead(m, L) = Lp!SPopHead(m, L)
  BY Zenon DEF SPushHead, SPushTail, SPopHead,
               Lp!SPushHead, Lp!SPushTail, Lp!SPopHead
<1>2. SRemove(m, L, n, x) = Lp!SRemove(m, L, n, x)
  BY Zenon DEF SRemove, Before, Walk, Lp!SRemove, Lp!Before, Lp!Walk
<1>3. SContains(m, L, n, x) <=> Lp!SContains(m, L, n, x)
  BY Zenon DEF SContains, Chain, Walk, Lp!SContains, Lp!Chain, Lp!Walk
<1>4. /\ DPushHead(m, L, n) = Lp!DPushHead(m, L, n)
      /\ DPushTail(m, L, n) = Lp!DPushTail(m, L, n)
  BY Zenon DEF DPushHead, DPushTail, SPushHead, SPushTail,
               Lp!DPushHead, Lp!DPushTail, Lp!SPushHead, Lp!SPushTail
<1>5. DPopHead(m, L) = Lp!DPopHead(m, L)
  BY Zenon DEF DPopHead, SPopHead, HeadOf, Lp!DPopHead, Lp!SPopHead, Lp!HeadOf
<1>6. DRemove(m, L, n) = Lp!DRemove(m, L, n)
  BY Zenon DEF DRemove, Lp!DRemove
<1>7. DInsert(m, L, n, x) = Lp!DInsert(m, L, n, x)
  BY Zenon DEF DInsert, DPushTail, SPushTail, Lp!DInsert, Lp!DPushTail,
               Lp!SPushTail
<1> QED BY <1>1, <1>2, <1>3, <1>4, <1>5, <1>6, <1>7

LEMMA JoinIs ==
  ASSUME NEW a \in Seq(Nodes), NEW b \in Seq(Nodes), NEW z, z = a \o b,
         NEW x, x = Len(a), NEW y, y = Len(b)
  PROVE  /\ z \in Seq(Nodes) /\ Len(z) = x + y
         /\ \A j \in 1..(x + y) : z[j] = IF j <= x THEN a[j] ELSE b[j - x]
OBVIOUS

LEMMA RemoveAtIs ==
  ASSUME NEW s \in Seq(Nodes), NEW i \in 1..Len(s), NEW r, r = RemoveAt(s, i)
  PROVE  Lp!Removed(r, s, i)
<1> PICK l : l = Len(s)
  OBVIOUS
<1> PICK a, b : a = SubSeq(s, 1, i - 1) /\ b = SubSeq(s, i + 1, Len(s))
  OBVIOUS
<1>0. l \in Nat /\ i \in 1..l /\ s \in Seq(Nodes) /\ DOMAIN s = 1..l
  OBVIOUS
<1>1. a \in Seq(Nodes) /\ Len(a) = i - 1 /\ \A j \in 1..(i - 1) : a[j] = s[j]
  BY <1>0
<1>2. b \in Seq(Nodes) /\ Len(b) = l - i /\ \A j \in 1..(l - i) : b[j] = s[i + j]
  BY <1>0
<1>3. r = a \o b
  BY DEF RemoveAt
<1>z. PICK z : z = a \o b
  OBVIOUS
<1>4. /\ z \in Seq(Nodes) /\ Len(z) = l - 1
      /\ \A j \in 1..(l - 1) : z[j] = IF j < i THEN a[j] ELSE b[j - (i - 1)]
  <2>0. PICK x, y : x = Len(a) /\ y = Len(b)
    OBVIOUS
  <2>s. a \in Seq(Nodes) /\ b \in Seq(Nodes)
    BY <1>1, <1>2
  <2>1. /\ z \in Seq(Nodes) /\ Len(z) = x + y
        /\ \A j \in 1..(x + y) : z[j] = IF j <= x THEN a[j] ELSE b[j - x]
    BY ONLY <2>0, <2>s, <1>z, JoinIs
  <2>2. x = i - 1 /\ y = l - i /\ x + y = l - 1
    BY <1>0, <1>1, <1>2, <2>0
  <2>3. \A j \in 1..(l - 1) : j <= i - 1 <=> j < i
    BY <1>0
  <2> QED BY <2>1, <2>2, <2>3
<1>5. ASSUME NEW j \in 1..(l - 1)
      PROVE  z[j] = IF j < i THEN s[j] ELSE s[j + 1]
  <2>1. CASE j < i
    <3>1. j \in 1..(i - 1)
      BY <2>1, <1>0
    <3> QED BY <3>1, <2>1, <1>1, <1>4
  <2>2. CASE ~ (j < i)
    <3>1. j - (i - 1) \in 1..(l - i) /\ i + (j - (i - 1)) = j + 1
      BY <2>2, <1>0
    <3>2. b[j - (i - 1)] = s[j + 1]
      BY <3>1, <1>2
    <3> QED BY <3>2, <2>2, <1>4
  <2> QED BY <2>1, <2>2
<1>6. r = z /\ l = Len(s)
  BY <1>3, <1>z
<1> QED BY ONLY <1>0, <1>4, <1>5, <1>6 DEF Lp!Removed

LEMMA InsertAtIs ==
  ASSUME NEW s \in Seq(Nodes), NEW i \in 1..Len(s), NEW n \in Nodes,
         NEW r, r = InsertAt(s, i, n)
  PROVE  Lp!Inserted(r, s, i, n)
<1> PICK l : l = Len(s)
  OBVIOUS
<1> PICK a, b : a = SubSeq(s, 1, i - 1) /\ b = SubSeq(s, i, Len(s))
  OBVIOUS
<1>0. l \in Nat /\ i \in 1..l /\ s \in Seq(Nodes) /\ DOMAIN s = 1..l
  OBVIOUS
<1>1. a \in Seq(Nodes) /\ Len(a) = i - 1 /\ \A j \in 1..(i - 1) : a[j] = s[j]
  BY <1>0
<1>2. /\ b \in Seq(Nodes) /\ Len(b) = l - i + 1
      /\ \A j \in 1..(l - i + 1) : b[j] = s[i + j - 1]
  BY <1>0
<1> PICK c : c = a \o <<n>>
  OBVIOUS
<1>z. PICK z : z = c \o b
  OBVIOUS
<1>3. r = z
  BY <1>z DEF InsertAt
<1>4. /\ c \in Seq(Nodes) /\ Len(c) = i /\ c[i] = n
      /\ \A j \in 1..(i - 1) : c[j] = a[j]
  BY <1>0, <1>1
<1>5. /\ z \in Seq(Nodes) /\ Len(z) = l + 1
      /\ \A j \in 1..(l + 1) : z[j] = IF j <= i THEN c[j] ELSE b[j - i]
  <2>0. PICK x, y : x = Len(c) /\ y = Len(b)
    OBVIOUS
  <2>s. c \in Seq(Nodes) /\ b \in Seq(Nodes)
    BY <1>2, <1>4
  <2>1. /\ z \in Seq(Nodes) /\ Len(z) = x + y
        /\ \A j \in 1..(x + y) : z[j] = IF j <= x THEN c[j] ELSE b[j - x]
    BY ONLY <2>0, <2>s, <1>z, JoinIs
  <2>2. x = i /\ y = l - i + 1 /\ x + y = l + 1
    BY <1>0, <1>2, <1>4, <2>0
  <2> QED BY <2>1, <2>2
<1>6. ASSUME NEW j \in 1..(l + 1)
      PROVE  z[j] = IF j < i THEN s[j] ELSE IF j = i THEN n ELSE s[j - 1]
  <2>1. CASE j < i
    <3>1. j \in 1..(i - 1) /\ j <= i
      BY <2>1, <1>0
    <3> QED BY <3>1, <2>1, <1>1, <1>4, <1>5
  <2>2. CASE j = i
    BY <2>2, <1>0, <1>4, <1>5
  <2>3. CASE i < j
    <3>1. j - i \in 1..(l - i + 1) /\ i + (j - i) - 1 = j - 1 /\ ~ (j <= i)
          /\ ~ (j < i) /\ j # i
      BY <2>3, <1>0
    <3>2. b[j - i] = s[j - 1]
      BY <3>1, <1>2
    <3> QED BY <3>1, <3>2, <1>5
  <2> QED BY <2>1, <2>2, <2>3, <1>0
<1>7. l = Len(s) /\ i \in 1..(l + 1)
  BY <1>0
<1> QED BY ONLY <1>3, <1>5, <1>6, <1>7 DEF Lp!Inserted

(* Memory m holds sequence s[L] in each list L, in both directions if the  *)
(* lists are doubly linked; the nodes of h are in no list, with cleared    *)
(* pointers in a debug build.                                              *)
Stored(m, s, h, doubly, debug) ==
  /\ m \in Pure!Memory
  /\ \A L \in Lists : /\ Pure!Spells(m, L, s[L])
                      /\ doubly => Pure!SpellsBack(m, L, s[L])
  /\ \A K, L \in Lists : K # L => Pure!Elems(s[K]) \cap Pure!Elems(s[L]) = {}
  /\ \A n \in Nodes : n \in h <=> \A L \in Lists : n \notin Pure!Elems(s[L])
  /\ h \subseteq Nodes
  /\ debug => \A n \in h : m.next[n] = Null /\ (doubly => m.prev[n] = Null)

LEMMA ListsApart == Pure!Apart /\ Lp!Apart
BY ListAssumption DEF Pure!Apart, Lp!Apart

(* A sequence of different nodes is no longer than the walks.              *)
LEMMA SequenceFits ==
  ASSUME NEW s, Pure!Sequence(s)
  PROVE  WalkBound \in Nat /\ Len(s) < WalkBound
<1>1. IsFiniteSet(Nodes) /\ Cardinality(Nodes) \in Nat
  BY ListAssumption, FS_CardinalityType
<1>2. s \in Injection(1..Len(s), Nodes)
  BY DEF Pure!Sequence, Pure!Distinct, Injection, IsInjective
<1>3. Cardinality(1..Len(s)) <= Cardinality(Nodes)
  BY <1>1, <1>2, FS_Injection
<1>4. Len(s) \in Nat /\ Cardinality(1..Len(s)) = Len(s)
  <2>1. Len(s) \in Nat
    BY DEF Pure!Sequence
  <2>2. 1 \in Int /\ Len(s) \in Int
    BY <2>1
  <2>3. Cardinality(1..Len(s)) = IF 1 > Len(s) THEN 0 ELSE Len(s) - 1 + 1
    BY ONLY <2>2, FS_Interval
  <2> QED BY <2>1, <2>3
<1> QED BY <1>1, <1>3, <1>4 DEF WalkBound

(* The effect of an operation on list L and node n alone.                  *)
Operated(t, m, s, L, r, n, doubly) ==
  /\ L \in Lists /\ n \in Nodes
  /\ Pure!Spells(t, L, r) /\ (doubly => Pure!SpellsBack(t, L, r))
  /\ t \in Pure!Memory
  /\ \A c \in Pure!Cells :
       c # L /\ c # n /\ c \notin Pure!Elems(s[L])
         => t.next[c] = m.next[c] /\ t.prev[c] = m.prev[c]

LEMMA OthersStay ==
  ASSUME NEW m, NEW s, NEW h, NEW doubly, NEW debug,
         Stored(m, s, h, doubly, debug),
         NEW t, NEW L, NEW r, NEW n, Operated(t, m, s, L, r, n, doubly),
         n \in h \cup Pure!Elems(s[L]), NEW K \in Lists, K # L
  PROVE  /\ Pure!Spells(t, K, s[K])
         /\ doubly => Pure!SpellsBack(t, K, s[K])
<1> PICK q, o : q = s[K] /\ o = Pure!Elems(s[L])
  OBVIOUS
<1>1. /\ Pure!Spells(m, K, q) /\ (doubly => Pure!SpellsBack(m, K, q))
      /\ Pure!Elems(q) \cap o = {}
  BY DEF Stored, Operated
<1>2. q \in Seq(Nodes) /\ Pure!Elems(q) \subseteq Nodes
  BY <1>1 DEF Pure!Spells, Pure!Sequence, Pure!Elems
<1>3. L \in Lists /\ n \in Nodes /\ L \notin Nodes /\ K \notin Nodes
  BY ListAssumption DEF Operated
<1>4. n \notin Pure!Elems(q)
  <2>1. n \in h \/ n \in o
    OBVIOUS
  <2>2. n \in h => n \notin Pure!Elems(q)
    BY <1>3 DEF Stored
  <2> QED BY <2>1, <2>2, <1>1
<1>5. ASSUME NEW c \in {K} \cup Pure!Elems(q)
      PROVE  t.next[c] = m.next[c] /\ t.prev[c] = m.prev[c]
  <2>1. c \in Pure!Cells
    BY <1>2 DEF Pure!Cells
  <2>2. c # L /\ c # n
    BY <1>2, <1>3, <1>4
  <2>3. c \notin o
    <3>1. o \subseteq Nodes
      BY <1>3 DEF Stored, Pure!Spells, Pure!Sequence, Pure!Elems
    <3> QED BY <3>1, <1>1, <1>3
  <2> QED BY <2>1, <2>2, <2>3 DEF Operated
<1>6. Pure!Spells(t, K, q)
  BY <1>1, <1>5, Pure!SameList
<1>7. doubly => Pure!SpellsBack(t, K, q)
  BY <1>1, <1>2, <1>5, Pure!SameBack
<1> QED BY <1>6, <1>7

LEMMA InsertStored ==
  ASSUME NEW m, NEW s, NEW h, NEW doubly, NEW debug,
         Stored(m, s, h, doubly, debug),
         NEW t, NEW L, NEW r, NEW n \in h, Operated(t, m, s, L, r, n, doubly),
         Pure!Elems(r) = Pure!Elems(s[L]) \cup {n},
         NEW w, \A K \in Lists : w[K] = IF K = L THEN r ELSE s[K]
  PROVE  Stored(t, w, h \ {n}, doubly, debug)
<1>1. L \in Lists /\ n \in Nodes /\ L \notin Nodes /\ t \in Pure!Memory
  BY ListAssumption DEF Operated
<1>2. ASSUME NEW K \in Lists
      PROVE  Pure!Spells(t, K, w[K]) /\ (doubly => Pure!SpellsBack(t, K, w[K]))
  <2>1. CASE K = L
    BY <2>1 DEF Operated
  <2>2. CASE K # L
    <3>1. /\ Pure!Spells(t, K, s[K])
          /\ doubly => Pure!SpellsBack(t, K, s[K])
      BY <2>2, OthersStay
    <3> QED BY <2>2, <3>1
  <2> QED BY <2>1, <2>2
<1>3. \A K \in Lists : Pure!Elems(w[K]) = IF K = L THEN Pure!Elems(s[K]) \cup {n}
                                           ELSE Pure!Elems(s[K])
  OBVIOUS
<1>4. \A K \in Lists : n \notin Pure!Elems(s[K])
  BY <1>1 DEF Stored
<1>5. ASSUME NEW J \in Lists, NEW K \in Lists, J # K
      PROVE  Pure!Elems(w[J]) \cap Pure!Elems(w[K]) = {}
  <2>1. Pure!Elems(s[J]) \cap Pure!Elems(s[K]) = {}
    BY <1>5 DEF Stored
  <2>2. CASE J = L
    BY <2>1, <2>2, <1>3, <1>4, <1>5
  <2>3. CASE J # L
    BY <2>1, <2>3, <1>3, <1>4, <1>5
  <2> QED BY <2>2, <2>3
<1>6. ASSUME NEW x \in Nodes
      PROVE  x \in h \ {n} <=> \A K \in Lists : x \notin Pure!Elems(w[K])
  <2>1. x \in h <=> \A K \in Lists : x \notin Pure!Elems(s[K])
    BY DEF Stored
  <2>2. CASE x = n
    BY <2>2, <1>1, <1>3
  <2>3. CASE x # n
    <3>1. \A K \in Lists : x \in Pure!Elems(w[K]) <=> x \in Pure!Elems(s[K])
      BY <2>3, <1>3
    <3> QED BY <3>1, <2>1, <2>3
  <2> QED BY <2>2, <2>3
<1>7. ASSUME debug, NEW x \in h \ {n}
      PROVE  t.next[x] = Null /\ (doubly => t.prev[x] = Null)
  <2>1. x \in Pure!Cells /\ x # L /\ x # n /\ x \notin Pure!Elems(s[L])
    BY <1>1 DEF Stored, Pure!Cells
  <2>2. m.next[x] = Null /\ (doubly => m.prev[x] = Null)
    BY <1>7 DEF Stored
  <2> QED BY <2>1, <2>2 DEF Operated
<1>8. h \ {n} \subseteq Nodes
  BY DEF Stored
<1> QED BY <1>1, <1>2, <1>5, <1>6, <1>7, <1>8 DEF Stored

LEMMA RemoveStored ==
  ASSUME NEW m, NEW s, NEW h, NEW doubly, NEW debug,
         Stored(m, s, h, doubly, debug),
         NEW t, NEW L, NEW r, NEW n, Operated(t, m, s, L, r, n, doubly),
         n \in Pure!Elems(s[L]), Pure!Elems(r) = Pure!Elems(s[L]) \ {n},
         debug => t.next[n] = Null /\ (doubly => t.prev[n] = Null),
         NEW w, \A K \in Lists : w[K] = IF K = L THEN r ELSE s[K]
  PROVE  Stored(t, w, h \cup {n}, doubly, debug)
<1>1. L \in Lists /\ n \in Nodes /\ L \notin Nodes /\ t \in Pure!Memory
  BY ListAssumption DEF Operated
<1>2. ASSUME NEW K \in Lists
      PROVE  Pure!Spells(t, K, w[K]) /\ (doubly => Pure!SpellsBack(t, K, w[K]))
  <2>1. CASE K = L
    BY <2>1 DEF Operated
  <2>2. CASE K # L
    <3>1. /\ Pure!Spells(t, K, s[K])
          /\ doubly => Pure!SpellsBack(t, K, s[K])
      BY <2>2, OthersStay
    <3> QED BY <2>2, <3>1
  <2> QED BY <2>1, <2>2
<1>3. \A K \in Lists : Pure!Elems(w[K]) = Pure!Elems(s[K]) \ {n}
  <2> SUFFICES ASSUME NEW K \in Lists
               PROVE  Pure!Elems(w[K]) = Pure!Elems(s[K]) \ {n}
    OBVIOUS
  <2>1. CASE K = L
    BY <2>1
  <2>2. CASE K # L
    <3>1. n \notin Pure!Elems(s[K]) /\ w[K] = s[K]
      BY <2>2, <1>1 DEF Stored
    <3> QED BY <3>1
  <2> QED BY <2>1, <2>2
<1>4. ASSUME NEW J \in Lists, NEW K \in Lists, J # K
      PROVE  Pure!Elems(w[J]) \cap Pure!Elems(w[K]) = {}
  <2>1. Pure!Elems(s[J]) \cap Pure!Elems(s[K]) = {}
    BY <1>4 DEF Stored
  <2> QED BY <2>1, <1>3
<1>5. ASSUME NEW x \in Nodes
      PROVE  x \in h \cup {n} <=> \A K \in Lists : x \notin Pure!Elems(w[K])
  <2>1. x \in h <=> \A K \in Lists : x \notin Pure!Elems(s[K])
    BY DEF Stored
  <2>2. CASE x = n
    BY <2>2, <1>3
  <2>3. CASE x # n
    <3>1. \A K \in Lists : x \in Pure!Elems(w[K]) <=> x \in Pure!Elems(s[K])
      BY <2>3, <1>3
    <3> QED BY <3>1, <2>1, <2>3
  <2> QED BY <2>2, <2>3
<1>6. ASSUME debug, NEW x \in h \cup {n}
      PROVE  t.next[x] = Null /\ (doubly => t.prev[x] = Null)
  <2>1. CASE x = n
    BY <2>1, <1>6
  <2>2. CASE x # n
    <3>1. x \in Pure!Cells /\ x # L /\ x \notin Pure!Elems(s[L])
      BY <2>2, <1>1 DEF Stored, Pure!Cells
    <3>2. m.next[x] = Null /\ (doubly => m.prev[x] = Null)
      BY <2>2, <1>6 DEF Stored
    <3> QED BY <2>2, <3>1, <3>2 DEF Operated
  <2> QED BY <2>1, <2>2
<1>7. h \cup {n} \subseteq Nodes
  BY <1>1 DEF Stored
<1> QED BY <1>1, <1>2, <1>4, <1>5, <1>6, <1>7 DEF Stored

(***************************************************************************)
(* The operations, each on its list and one node.                          *)
(***************************************************************************)
LEMMA ReadStored ==
  ASSUME NEW m, NEW s, NEW h, NEW doubly, NEW debug,
         Stored(m, s, h, doubly, debug), NEW L \in Lists, NEW q, q = s[L]
  PROVE  /\ Lp!Apart /\ m \in Lp!Memory /\ Lp!Spells(m, L, q)
         /\ doubly => Lp!SpellsBack(m, L, q)
         /\ Lp!Sequence(q) /\ q \in Seq(Nodes)
         /\ Lp!Elems(q) = Pure!Elems(q) /\ Lp!Cells = Pure!Cells
         /\ \A n \in h : n \in Nodes /\ n \notin Lp!Elems(q)
<1>1. /\ Pure!Spells(m, L, q) /\ (doubly => Pure!SpellsBack(m, L, q))
      /\ m \in Pure!Memory
      /\ \A n \in h : n \in Nodes /\ n \notin Pure!Elems(q)
  BY DEF Stored
<1>2. Pure!Sequence(q) /\ q \in Seq(Nodes)
  BY <1>1 DEF Pure!Spells, Pure!Sequence
<1> QED BY <1>1, <1>2, SameMeaning, ListsApart

LEMMA TouchesOperate ==
  ASSUME NEW m, NEW s, NEW L \in Lists, NEW n \in Nodes, NEW t, NEW r,
         NEW doubly, Lp!Spells(t, L, r), doubly => Lp!SpellsBack(t, L, r),
         NEW A, NEW B, Lp!Touches(t, m, A, B),
         A \subseteq {L, n} \cup Pure!Elems(s[L]),
         B \subseteq {L, n} \cup Pure!Elems(s[L])
  PROVE  Operated(t, m, s, L, r, n, doubly)
<1>1. /\ Pure!Spells(t, L, r) /\ (doubly => Pure!SpellsBack(t, L, r))
      /\ Pure!Memory = Lp!Memory /\ Pure!Cells = Lp!Cells
  BY SameMeaning
<1>2. /\ t \in Pure!Memory
      /\ \A c \in Pure!Cells \ A : t.next[c] = m.next[c]
      /\ \A c \in Pure!Cells \ B : t.prev[c] = m.prev[c]
  BY <1>1 DEF Lp!Touches
<1> QED BY <1>1, <1>2 DEF Operated

(* Linking a held node in front of position i of a doubly-linked list.     *)
LEMMA LinkOperates ==
  ASSUME NEW m, NEW s, NEW h, NEW debug, Stored(m, s, h, TRUE, debug),
         NEW L \in Lists, NEW n \in h, NEW q, q = s[L],
         NEW i, NEW r, Lp!Inserted(r, q, i, n),
         NEW t, Lp!LinkedIn(t, m, n, Lp!Prior(L, q, i), Lp!After(L, q, i - 1))
  PROVE  Operated(t, m, s, L, r, n, TRUE)
<1>1. /\ Lp!Apart /\ m \in Lp!Memory /\ Lp!Spells(m, L, q)
      /\ Lp!SpellsBack(m, L, q) /\ n \in Nodes /\ n \notin Lp!Elems(q)
      /\ Lp!Elems(q) = Pure!Elems(q)
  BY ReadStored
<1>2. /\ Lp!Spells(t, L, r) /\ Lp!SpellsBack(t, L, r)
      /\ Lp!Touches(t, m, {L, n} \cup Lp!Elems(q), {L, n} \cup Lp!Elems(q))
  BY <1>1, Lp!DInsertLinks
<1> QED BY <1>1, <1>2, TouchesOperate

LEMMA LinkedElems ==
  ASSUME NEW m, NEW s, NEW h, NEW doubly, NEW debug,
         Stored(m, s, h, doubly, debug), NEW L \in Lists, NEW q, q = s[L],
         NEW n \in h, NEW r, NEW i, Lp!Inserted(r, q, i, n)
  PROVE  Pure!Elems(r) = Pure!Elems(s[L]) \cup {n}
<1>1. /\ Lp!Sequence(q) /\ n \in Nodes /\ n \notin Lp!Elems(q)
      /\ Lp!Elems(q) = Pure!Elems(q)
  BY ReadStored
<1>2. Lp!Elems(r) = Lp!Elems(q) \cup {n}
  BY <1>1, Lp!InsertedSequence
<1>3. Lp!Elems(r) = Pure!Elems(r)
  BY SameMeaning
<1> QED BY <1>1, <1>2, <1>3

(* What the history says of an operation: r is q with n in front, with n    *)
(* behind, without its first element n; n is the element of q at i.        *)
Headed(r, q, n) == r = <<n>> \o q
Tailed(r, q, n) == r = Append(q, n)
Popped(r, q, n) == q # <<>> /\ r = Tail(q) /\ n = q[1]
Standing(q, i, n) == i \in 1..Len(q) /\ n = q[i]
Dropped(r, q, i, n) == Standing(q, i, n) /\ r = RemoveAt(q, i)
RemoveCall(t, m, L, n, doubly) ==
  t = IF doubly THEN DRemove(m, L, n) ELSE SRemove(m, L, n, WalkBound)
(* and of the elements of the list L.                                      *)
Gained(s, L, r, n) == Pure!Elems(r) = Pure!Elems(s[L]) \cup {n}
Lost(s, L, r, n) ==
  n \in Pure!Elems(s[L]) /\ Pure!Elems(r) = Pure!Elems(s[L]) \ {n}

LEMMA HeadOperates ==
  ASSUME NEW m, NEW s, NEW h, NEW doubly \in BOOLEAN, NEW debug,
         Stored(m, s, h, doubly, debug), NEW L \in Lists, NEW n \in h,
         NEW q, q = s[L], NEW r, Headed(r, q, n),
         NEW t, t = IF doubly THEN DPushHead(m, L, n) ELSE SPushHead(m, L, n)
  PROVE  /\ Operated(t, m, s, L, r, n, doubly)
         /\ Gained(s, L, r, n)
<1> SUFFICES ASSUME r = <<n>> \o q
              PROVE  /\ Operated(t, m, s, L, r, n, doubly)
               /\ Pure!Elems(r) = Pure!Elems(s[L]) \cup {n}
  BY DEF Gained, Headed
<1>1. /\ Lp!Apart /\ m \in Lp!Memory /\ Lp!Spells(m, L, q)
      /\ doubly => Lp!SpellsBack(m, L, q)
      /\ n \in Nodes /\ n \notin Lp!Elems(q) /\ q \in Seq(Nodes)
      /\ Lp!Elems(q) = Pure!Elems(q)
  BY ReadStored
<1>2. Lp!Inserted(r, q, 1, n)
  BY <1>1, Lp!ConsInserts
<1>3. Pure!Elems(r) = Pure!Elems(s[L]) \cup {n}
  BY ONLY <1>2, Stored(m, s, h, doubly, debug), L \in Lists, q = s[L], n \in h,
          LinkedElems
<1>4. CASE doubly
  <2>1. t = Lp!DPushHead(m, L, n)
    BY <1>4, SameCalls
  <2>2. Lp!LinkedIn(t, m, n, L, m.next[L])
    BY <1>1, <1>4, <2>1, Lp!DPushHeadLinks
  <2>3. Lp!Prior(L, q, 1) = L /\ Lp!After(L, q, 1 - 1) = m.next[L]
    BY <1>1 DEF Lp!Prior, Lp!Spells, Lp!Represents
  <2>4. Lp!LinkedIn(t, m, n, Lp!Prior(L, q, 1), Lp!After(L, q, 1 - 1))
    BY <2>2, <2>3
  <2>5. Stored(m, s, h, TRUE, debug)
    BY <1>4
  <2>6. Operated(t, m, s, L, r, n, TRUE)
    BY <1>2, <2>4, <2>5, LinkOperates
  <2> QED BY <1>3, <1>4, <2>6
<1>5. CASE ~ doubly
  <2>1. t = Lp!SPushHead(m, L, n)
    BY <1>5, SameCalls
  <2>2. /\ Lp!Spells(t, L, r) /\ Lp!Touches(t, m, {L, n}, {L})
    <3>1. /\ Lp!Spells(Lp!SPushHead(m, L, n), L, <<n>> \o q)
          /\ Lp!Touches(Lp!SPushHead(m, L, n), m, {L, n}, {L})
      BY ONLY <1>1, Lp!SPushHeadLinks
    <3> QED BY <2>1, <3>1
  <2>3. Operated(t, m, s, L, r, n, doubly)
    BY <1>1, <1>5, <2>2, TouchesOperate
  <2> QED BY <1>3, <2>3
<1> QED BY <1>4, <1>5

LEMMA TailOperates ==
  ASSUME NEW m, NEW s, NEW h, NEW doubly \in BOOLEAN, NEW debug,
         Stored(m, s, h, doubly, debug), NEW L \in Lists, NEW n \in h,
         NEW q, q = s[L], NEW r, Tailed(r, q, n),
         NEW t, t = IF doubly THEN DPushTail(m, L, n) ELSE SPushTail(m, L, n)
  PROVE  /\ Operated(t, m, s, L, r, n, doubly)
         /\ Gained(s, L, r, n)
<1> SUFFICES ASSUME r = Append(q, n)
              PROVE  /\ Operated(t, m, s, L, r, n, doubly)
               /\ Pure!Elems(r) = Pure!Elems(s[L]) \cup {n}
  BY DEF Gained, Tailed
<1>1. /\ Lp!Apart /\ m \in Lp!Memory /\ Lp!Spells(m, L, q)
      /\ doubly => Lp!SpellsBack(m, L, q)
      /\ n \in Nodes /\ n \notin Lp!Elems(q) /\ q \in Seq(Nodes)
      /\ Lp!Elems(q) = Pure!Elems(q)
  BY ReadStored
<1> PICK i : i = Len(q) + 1
  OBVIOUS
<1>2. Lp!Inserted(r, q, i, n)
  BY <1>1, Lp!AppendInserts
<1>3. Pure!Elems(r) = Pure!Elems(s[L]) \cup {n}
  BY ONLY <1>2, Stored(m, s, h, doubly, debug), L \in Lists, q = s[L], n \in h,
          LinkedElems
<1>4. CASE doubly
  <2>1. t = Lp!DPushTail(m, L, n)
    BY <1>4, SameCalls
  <2>2. Lp!LinkedIn(t, m, n, m.prev[L], L)
    BY <1>1, <1>4, <2>1, Lp!DPushTailLinks
  <2>3. Lp!Prior(L, q, i) = m.prev[L] /\ Lp!After(L, q, i - 1) = L
    <3>1. i - 1 = Len(q)
      BY <1>1
    <3> QED BY <1>1, <3>1 DEF Lp!After, Lp!Spells, Lp!Represents
  <2>4. Lp!LinkedIn(t, m, n, Lp!Prior(L, q, i), Lp!After(L, q, i - 1))
    BY <2>2, <2>3
  <2>5. Stored(m, s, h, TRUE, debug)
    BY <1>4
  <2>6. Operated(t, m, s, L, r, n, TRUE)
    BY <1>2, <2>4, <2>5, LinkOperates
  <2> QED BY <1>3, <1>4, <2>6
<1>5. CASE ~ doubly
  <2>1. t = Lp!SPushTail(m, L, n)
    BY <1>5, SameCalls
  <2>2. /\ Lp!Spells(t, L, r)
        /\ Lp!Touches(t, m, {L, n} \cup Lp!Elems(q), {L})
    <3>1. /\ Lp!Spells(Lp!SPushTail(m, L, n), L, Append(q, n))
          /\ Lp!Touches(Lp!SPushTail(m, L, n), m, {L, n} \cup Lp!Elems(q), {L})
      BY ONLY <1>1, Lp!SPushTailLinks
    <3> QED BY <2>1, <3>1
  <2>3. Operated(t, m, s, L, r, n, doubly)
    BY <1>1, <1>5, <2>2, TouchesOperate
  <2> QED BY <1>3, <2>3
<1> QED BY <1>4, <1>5

(* Insertion in front of a node that is in the list.                       *)
LEMMA InsertOperates ==
  ASSUME NEW m, NEW s, NEW h, NEW debug, Stored(m, s, h, TRUE, debug),
         NEW L \in Lists, NEW n \in h, NEW q, q = s[L],
         NEW i, NEW front, Standing(q, i, front),
         NEW r, r = InsertAt(q, i, n), NEW t, t = DInsert(m, L, n, front)
  PROVE  /\ Operated(t, m, s, L, r, n, TRUE)
         /\ Gained(s, L, r, n)
<1> SUFFICES ASSUME i \in 1..Len(q), front = q[i]
              PROVE  /\ Operated(t, m, s, L, r, n, TRUE)
               /\ Pure!Elems(r) = Pure!Elems(s[L]) \cup {n}
  BY DEF Gained, Standing
<1>1. /\ Lp!Apart /\ m \in Lp!Memory /\ Lp!Spells(m, L, q)
      /\ Lp!SpellsBack(m, L, q)
      /\ n \in Nodes /\ n \notin Lp!Elems(q) /\ q \in Seq(Nodes)
  BY ReadStored
<1> PICK l : l = Len(q)
  OBVIOUS
<1>2. l \in Nat /\ i \in 1..l /\ i \in 1..(l + 1) /\ i # l + 1
  BY <1>1
<1>4. Lp!Inserted(r, q, i, n)
  BY ONLY <1>1, i \in 1..Len(q), r = InsertAt(q, i, n), InsertAtIs
<1>5. Pure!Elems(r) = Pure!Elems(s[L]) \cup {n}
  <2>1. PICK d : d = TRUE
    OBVIOUS
  <2>2. Stored(m, s, h, d, debug)
    BY <2>1
  <2> QED BY ONLY <1>4, <2>2, L \in Lists, q = s[L], n \in h, LinkedElems
<1>6. Lp!LinkedIn(t, m, n, Lp!Prior(L, q, i), front)
  <2>1. Lp!LinkedIn(Lp!DInsert(m, L, n, q[i]), m, n, Lp!Prior(L, q, i), q[i])
    BY ONLY <1>1, i \in 1..Len(q), Lp!DInsertBeforeLinks
  <2>2. t = Lp!DInsert(m, L, n, front)
    BY SameCalls
  <2> QED BY <2>1, <2>2
<1>7. Lp!After(L, q, i - 1) = front
  <2>1. i - 1 # l /\ (i - 1) + 1 = i
    BY <1>2
  <2> QED BY <2>1 DEF Lp!After
<1>8. Lp!LinkedIn(t, m, n, Lp!Prior(L, q, i), Lp!After(L, q, i - 1))
  BY <1>6, <1>7
<1>9. Operated(t, m, s, L, r, n, TRUE)
  BY ONLY <1>4, <1>8, Stored(m, s, h, TRUE, debug), L \in Lists, q = s[L],
          n \in h, LinkOperates
<1> QED BY <1>5, <1>9

(* Unlinking the node at position i.                                       *)
LEMMA UnlinkedElems ==
  ASSUME NEW m, NEW s, NEW h, NEW doubly, NEW debug,
         Stored(m, s, h, doubly, debug), NEW L \in Lists, NEW q, q = s[L],
         NEW r, NEW i, Lp!Removed(r, q, i), NEW n, n = q[i]
  PROVE  /\ n \in Nodes /\ n \in Pure!Elems(s[L])
         /\ Pure!Elems(r) = Pure!Elems(s[L]) \ {n}
<1>1. Lp!Sequence(q) /\ q \in Seq(Nodes) /\ Lp!Elems(q) = Pure!Elems(q)
  BY ReadStored
<1>2. Lp!Elems(r) = Lp!Elems(q) \ {n}
  BY <1>1, Lp!RemovedSequence
<1>3. Lp!Elems(r) = Pure!Elems(r)
  BY SameMeaning
<1>4. i \in 1..Len(q)
  BY DEF Lp!Removed
<1>5. n \in Nodes /\ n \in Pure!Elems(q)
  BY <1>1, <1>4 DEF Pure!Elems
<1> QED BY <1>1, <1>2, <1>3, <1>5

LEMMA UnlinkOperates ==
  ASSUME NEW m, NEW s, NEW h, NEW debug, Stored(m, s, h, TRUE, debug),
         NEW L \in Lists, NEW q, q = s[L], NEW n \in Nodes,
         NEW i, NEW r, Lp!Removed(r, q, i), n = q[i],
         NEW t, Lp!LinkedOut(t, m, n, Lp!Prior(L, q, i), Lp!After(L, q, i))
  PROVE  Operated(t, m, s, L, r, n, TRUE)
<1>1. /\ Lp!Apart /\ m \in Lp!Memory /\ Lp!Spells(m, L, q)
      /\ Lp!SpellsBack(m, L, q) /\ Lp!Elems(q) = Pure!Elems(q)
  BY ReadStored
<1>2. /\ Lp!Spells(t, L, r) /\ Lp!SpellsBack(t, L, r)
      /\ Lp!Touches(t, m, {L} \cup Lp!Elems(q), {L} \cup Lp!Elems(q))
  BY <1>1, Lp!DRemoveLinks
<1> QED BY <1>1, <1>2, TouchesOperate

LEMMA PopOperates ==
  ASSUME NEW m, NEW s, NEW h, NEW doubly \in BOOLEAN, NEW debug,
         Stored(m, s, h, doubly, debug), NEW L \in Lists,
         NEW q, q = s[L], NEW r, NEW n, Popped(r, q, n),
         NEW t, t = IF doubly THEN DPopHead(m, L) ELSE SPopHead(m, L)
  PROVE  /\ HeadOf(m, L) = n
         /\ Operated(t, m, s, L, r, n, doubly)
         /\ Lost(s, L, r, n)
         /\ kind.debug => t.next[n] = Null /\ (doubly => t.prev[n] = Null)
<1>a. q # <<>>
  BY DEF Popped
<1>b. r = Tail(q)
  BY DEF Popped
<1>c. n = q[1]
  BY DEF Popped
<1> USE <1>a, <1>b, <1>c
<1>1. /\ Lp!Apart /\ m \in Lp!Memory /\ Lp!Spells(m, L, q)
      /\ doubly => Lp!SpellsBack(m, L, q)
      /\ q \in Seq(Nodes) /\ q # <<>> /\ Lp!Elems(q) = Pure!Elems(q)
  BY ReadStored
<1> PICK i : i = 1
  OBVIOUS
<1>2. Lp!Removed(r, q, i)
  BY <1>1, Lp!TailRemoves
<1>3. /\ n \in Nodes /\ n \in Pure!Elems(s[L])
      /\ Pure!Elems(r) = Pure!Elems(s[L]) \ {n}
  <2>1. n = q[i]
    OBVIOUS
  <2> QED BY ONLY <1>2, <2>1, Stored(m, s, h, doubly, debug), L \in Lists,
                  q = s[L], UnlinkedElems
<1>4. /\ Lp!HeadOf(m, L) = q[1]
      /\ Lp!Spells(Lp!SPopHead(m, L), L, Tail(q))
      /\ Lp!Touches(Lp!SPopHead(m, L), m, {L} \cup Lp!Elems(q), {L})
      /\ kind.debug => Lp!SPopHead(m, L).next[q[1]] = Null
  BY ONLY <1>1, Lp!SPopHeadLinks
<1>d. Lost(s, L, r, n)
  BY <1>3 DEF Lost
<1>5. HeadOf(m, L) = n
  BY <1>4, SameStores
<1>6. CASE doubly
  <2>1. t = Lp!DPopHead(m, L)
    BY <1>6, SameCalls
  <2>2. /\ Lp!LinkedOut(Lp!DPopHead(m, L), m, q[1], L, Lp!After(L, q, 1))
        /\ kind.debug => /\ Lp!DPopHead(m, L).next[q[1]] = Null
                         /\ Lp!DPopHead(m, L).prev[q[1]] = Null
    BY ONLY <1>1, <1>6, Lp!DPopHeadUnlinks
  <2>3. Lp!LinkedOut(t, m, n, Lp!Prior(L, q, i), Lp!After(L, q, i))
    BY <2>1, <2>2 DEF Lp!Prior
  <2>4. Stored(m, s, h, TRUE, debug) /\ n = q[i]
    BY <1>6
  <2>5. Operated(t, m, s, L, r, n, TRUE)
    BY ONLY <1>2, <1>3, <2>3, <2>4, L \in Lists, q = s[L], UnlinkOperates
  <2> QED BY <1>d, <1>5, <1>6, <2>1, <2>2, <2>5
<1>7. CASE ~ doubly
  <2>1. t = Lp!SPopHead(m, L)
    BY <1>7, SameCalls
  <2>2. Operated(t, m, s, L, r, n, doubly)
    BY <1>1, <1>3, <1>4, <1>7, <2>1, TouchesOperate
  <2> QED BY <1>d, <1>4, <1>5, <1>7, <2>1, <2>2
<1> QED BY <1>6, <1>7

LEMMA EmptyPopOperates ==
  ASSUME NEW m, NEW s, NEW h, NEW doubly \in BOOLEAN, NEW debug,
         Stored(m, s, h, doubly, debug), NEW L \in Lists, s[L] = <<>>
  PROVE  /\ HeadOf(m, L) = Null
         /\ m = IF doubly THEN DPopHead(m, L) ELSE SPopHead(m, L)
<1>1. Lp!Apart /\ m \in Lp!Memory /\ Lp!Spells(m, L, <<>>)
  BY ReadStored
<1>2. /\ Lp!SPopHead(m, L) = m /\ Lp!HeadOf(m, L) = Null
      /\ Lp!DPopHead(m, L) = m
  BY <1>1, Lp!EmptyPop, Lp!EmptyDPop
<1> QED BY <1>2, SameCalls, SameStores

LEMMA RemoveOperates ==
  ASSUME NEW m, NEW s, NEW h, NEW doubly \in BOOLEAN, NEW debug,
         Stored(m, s, h, doubly, debug), NEW L \in Lists,
         NEW q, q = s[L], NEW i, NEW n, NEW r, Dropped(r, q, i, n),
         NEW t, RemoveCall(t, m, L, n, doubly)
  PROVE  /\ Operated(t, m, s, L, r, n, doubly)
         /\ Lost(s, L, r, n)
         /\ kind.debug => t.next[n] = Null /\ (doubly => t.prev[n] = Null)
<1>a. i \in 1..Len(q)
  BY DEF Standing, Dropped
<1>b. n = q[i]
  BY DEF Standing, Dropped
<1>c. r = RemoveAt(q, i)
  BY DEF Dropped
<1> USE <1>a, <1>b, <1>c
<1>1. /\ Lp!Apart /\ m \in Lp!Memory /\ Lp!Spells(m, L, q)
      /\ doubly => Lp!SpellsBack(m, L, q)
      /\ Lp!Sequence(q) /\ q \in Seq(Nodes) /\ Lp!Elems(q) = Pure!Elems(q)
  BY ReadStored
<1>2. Lp!Removed(r, q, i)
  BY ONLY <1>1, <1>a, <1>c, RemoveAtIs
<1>3. /\ n \in Nodes /\ n \in Pure!Elems(s[L])
      /\ Pure!Elems(r) = Pure!Elems(s[L]) \ {n}
  BY ONLY <1>2, <1>b, Stored(m, s, h, doubly, debug), L \in Lists,
          q = s[L], UnlinkedElems
<1>d. Lost(s, L, r, n)
  BY <1>3 DEF Lost
<1>4. CASE doubly
  <2>1. t = Lp!DRemove(m, L, n)
    BY <1>4, SameCalls DEF RemoveCall
  <2>2. /\ Lp!LinkedOut(Lp!DRemove(m, L, q[i]), m, q[i],
                        Lp!Prior(L, q, i), Lp!After(L, q, i))
        /\ kind.debug => /\ Lp!DRemove(m, L, q[i]).next[q[i]] = Null
                         /\ Lp!DRemove(m, L, q[i]).prev[q[i]] = Null
    BY ONLY <1>1, <1>4, <1>a, Lp!DRemoveUnlinks
  <2>3. Lp!LinkedOut(t, m, n, Lp!Prior(L, q, i), Lp!After(L, q, i))
    BY <2>1, <2>2
  <2>4. Stored(m, s, h, TRUE, debug)
    BY <1>4
  <2>5. Operated(t, m, s, L, r, n, TRUE)
    BY ONLY <1>2, <1>3, <2>3, <2>4, <1>b, L \in Lists, q = s[L],
            UnlinkOperates
  <2> QED BY <1>d, <1>4, <2>1, <2>2, <2>5
<1>5. CASE ~ doubly
  <2>1. t = Lp!SRemove(m, L, n, WalkBound)
    BY <1>5, SameCalls DEF RemoveCall
  <2>2. WalkBound \in Nat /\ Len(q) < WalkBound
    BY <1>1, SameMeaning, SequenceFits
  <2>3. /\ Lp!Spells(Lp!SRemove(m, L, q[i], WalkBound), L, r)
        /\ Lp!Touches(Lp!SRemove(m, L, q[i], WalkBound), m,
                      {L} \cup Lp!Elems(q), {L})
        /\ kind.debug => Lp!SRemove(m, L, q[i], WalkBound).next[q[i]] = Null
    BY ONLY <1>1, <1>2, <2>2, Lp!SRemoveLinks
  <2>4. Operated(t, m, s, L, r, n, doubly)
    BY <1>1, <1>3, <1>5, <2>1, <2>3, TouchesOperate
  <2> QED BY <1>d, <1>5, <2>1, <2>3, <2>4
<1> QED BY <1>4, <1>5

(***************************************************************************)
(* The inductive invariant, and its steps                                  *)
(***************************************************************************)
ListsInvariant ==
  /\ kind \in Kinds
  /\ seq \in [Lists -> Seq(Nodes)]
  /\ Stored(mem, seq, held, kind.doubly, kind.debug)

LEMMA InitLists == ListInit => ListsInvariant
<1> SUFFICES ASSUME ListInit PROVE ListsInvariant
  OBVIOUS
<1>1. /\ kind \in Kinds /\ held = Nodes /\ seq = [L \in Lists |-> <<>>]
      /\ mem = EmptyMemory
  BY DEF ListInit
<1> PICK u : u = Unlinked
  OBVIOUS
<1>2. /\ u \in [Pure!Cells -> Pure!Cells \cup {Null}]
      /\ \A L \in Lists : u[L] = L
      /\ \A n \in Nodes : u[n] = Null
  BY ListAssumption DEF Unlinked, Cells, Pure!Cells
<1>3. mem.next = u /\ mem.prev = u /\ mem = [next |-> u, prev |-> u]
  BY <1>1 DEF EmptyMemory
<1>4. mem \in Pure!Memory
  BY <1>2, <1>3 DEF Pure!Memory
<1>5. ASSUME NEW L \in Lists
      PROVE  /\ seq[L] = <<>> /\ Pure!Elems(seq[L]) = {}
             /\ Pure!Spells(mem, L, seq[L]) /\ Pure!SpellsBack(mem, L, seq[L])
  <2>1. seq[L] = <<>>
    BY <1>1
  <2>2. /\ Pure!Elems(<<>>) = {} /\ Pure!Spells(mem, L, <<>>)
        /\ Pure!SpellsBack(mem, L, <<>>)
    BY <1>2, <1>3 DEF Pure!Elems, Pure!Spells, Pure!SpellsBack, Pure!Sequence,
       Pure!Distinct, Pure!Represents, Pure!After, Pure!Prior
  <2> QED BY <2>1, <2>2
<1>6. Stored(mem, seq, held, kind.doubly, kind.debug)
  BY <1>1, <1>2, <1>3, <1>4, <1>5 DEF Stored
<1> QED BY <1>1, <1>6 DEF ListsInvariant

LEMMA ListsRead == ListsInvariant => ListsRepresent
<1> SUFFICES ASSUME ListsInvariant PROVE ListsRepresent
  OBVIOUS
<1>1. Stored(mem, seq, held, kind.doubly, kind.debug)
  BY DEF ListsInvariant
<1>2. ASSUME NEW L \in Lists
      PROVE  IF kind.doubly THEN RepresentsBothWays(mem, L, seq[L])
                            ELSE Represents(mem, L, seq[L])
  <2>1. /\ Pure!Spells(mem, L, seq[L])
        /\ kind.doubly => Pure!SpellsBack(mem, L, seq[L])
    BY <1>1 DEF Stored
  <2>2. Represents(mem, L, seq[L])
    BY <2>1, Zenon DEF Pure!Spells, Pure!Represents, Represents, Pure!After,
                       After, Pure!Prior, Prior
  <2>3. kind.doubly => \A i \in 1..Len(seq[L]) :
                         mem.prev[seq[L][i]] = Prior(L, seq[L], i)
    BY <2>1, Zenon DEF Pure!SpellsBack, Pure!Prior, Prior
  <2> QED BY <2>2, <2>3 DEF RepresentsBothWays
<1>3. ASSUME NEW n \in Nodes, NEW L \in Lists
      PROVE  SContains(mem, L, n, WalkBound) <=> n \in Pure!Elems(seq[L])
  <2> PICK m, s, q : m = mem /\ s = seq /\ q = seq[L]
    OBVIOUS
  <2>1. /\ Lp!Apart /\ Lp!Spells(m, L, q) /\ Lp!Sequence(q)
        /\ Lp!Elems(q) = Pure!Elems(q)
    BY <1>1, ReadStored
  <2>2. WalkBound \in Nat /\ Len(q) < WalkBound
    BY <2>1, SameMeaning, SequenceFits
  <2>3. Lp!SContains(m, L, n, WalkBound) <=> n \in Lp!Elems(q)
    BY <2>1, <2>2, Lp!ContainsReads
  <2> QED BY <2>1, <2>3, SameCalls
<1>4. ASSUME NEW n \in Nodes
      PROVE  (n \notin held) <=> (\E L \in Lists : SContains(mem, L, n, WalkBound))
  BY <1>1, <1>3 DEF Stored
<1>5. kind.debug => \A n \in held :
        mem.next[n] = Null /\ (kind.doubly => mem.prev[n] = Null)
  BY <1>1 DEF Stored
<1> QED BY <1>2, <1>4, <1>5 DEF ListsRepresent

LEMMA PlaceOfIs ==
  ASSUME NEW q \in Seq(Nodes), NEW n, n \in Pure!Elems(q)
  PROVE  PlaceOf(n, q) \in 1..Len(q) /\ q[PlaceOf(n, q)] = n
<1>1. \E i \in DOMAIN q : q[i] = n
  BY DEF Pure!Elems
<1>2. PlaceOf(n, q) \in DOMAIN q /\ q[PlaceOf(n, q)] = n
  BY <1>1, Zenon DEF PlaceOf
<1> QED BY <1>2

LEMMA ContainsElems ==
  ASSUME NEW m, NEW s, NEW h, NEW doubly, NEW debug,
         Stored(m, s, h, doubly, debug), NEW L \in Lists, NEW q, q = s[L],
         NEW n, SContains(m, L, n, WalkBound)
  PROVE  n \in Pure!Elems(q)
<1>1. /\ Lp!Apart /\ Lp!Spells(m, L, q) /\ Lp!Sequence(q)
      /\ Lp!Elems(q) = Pure!Elems(q)
  BY ReadStored
<1>2. WalkBound \in Nat /\ Len(q) < WalkBound
  BY <1>1, SameMeaning, SequenceFits
<1>3. Lp!SContains(m, L, n, WalkBound) <=> n \in Lp!Elems(q)
  BY <1>1, <1>2, Lp!ContainsReads
<1> QED BY <1>1, <1>3, SameCalls

LEMMA NextLists ==
  ASSUME ListsInvariant, [ListNext]_listOpVars
  PROVE  ListsInvariant'
<1>1. CASE UNCHANGED listOpVars
  BY <1>1 DEF ListsInvariant, listOpVars
<1>2. CASE ListNext
  <2>0. PICK m, t, s, w, h, g, doubly, debug :
        /\ m = mem /\ t = mem' /\ s = seq /\ w = seq' /\ h = held /\ g = held'
        /\ doubly = kind.doubly /\ debug = kind.debug
    OBVIOUS
  <2>1. /\ kind \in Kinds /\ kind' = kind /\ doubly \in BOOLEAN
        /\ s \in [Lists -> Seq(Nodes)] /\ Stored(m, s, h, doubly, debug)
    BY <1>2, <2>0, ListAssumption DEF ListsInvariant, ListNext
  <2>a. Stored(m, s, h, doubly, debug) /\ doubly \in BOOLEAN
    BY <2>1
  <2>2. SUFFICES /\ \A L \in Lists : w[L] \in Seq(Nodes)
                 /\ w = [L \in Lists |-> w[L]]
                 /\ Stored(t, w, g, doubly, debug)
    BY <2>0, <2>1, <2>2 DEF ListsInvariant
  <2>3. PICK L \in Lists :
          AtHead(L) \/ AtTail(L) \/ Pop(L) \/ RemoveAny(L) \/ Insert(L)
    BY <1>2 DEF ListNext
  <2>q. PICK q : q = s[L]
    OBVIOUS
  <2>4. ASSUME NEW r, r \in Seq(Nodes), w = [s EXCEPT ![L] = r]
        PROVE  /\ \A K \in Lists : w[K] = IF K = L THEN r ELSE s[K]
               /\ \A K \in Lists : w[K] \in Seq(Nodes)
               /\ w = [K \in Lists |-> w[K]]
    BY <2>1, <2>4
  <2>5. CASE AtHead(L)
    <3>1. PICK n \in h : /\ t = IF doubly THEN DPushHead(m, L, n)
                                ELSE SPushHead(m, L, n)
                         /\ g = h \ {n}
                         /\ w = [s EXCEPT ![L] = <<n>> \o @]
      BY <2>5, <2>0 DEF AtHead
    <3>2. PICK r : r = <<n>> \o q
      OBVIOUS
    <3>3. n \in Nodes /\ q \in Seq(Nodes)
      BY <2>1, <2>q DEF Stored
    <3>4. r \in Seq(Nodes) /\ w = [s EXCEPT ![L] = r]
      BY <2>1, <2>q, <3>1, <3>2, <3>3
    <3>5. Operated(t, m, s, L, r, n, doubly) /\ Gained(s, L, r, n)
      <4>1. t = IF doubly THEN DPushHead(m, L, n) ELSE SPushHead(m, L, n)
        BY <3>1
      <4>2. Headed(r, q, n)
        BY <3>2 DEF Headed
      <4> QED BY ONLY <2>a, <2>q, <4>1, <4>2, L \in Lists, n \in h, HeadOperates
    <3>w. \A K \in Lists : w[K] = IF K = L THEN r ELSE s[K]
      BY <2>4, <3>4
    <3>b. Pure!Elems(r) = Pure!Elems(s[L]) \cup {n}
      BY <3>5 DEF Gained
    <3>6. Stored(t, w, h \ {n}, doubly, debug)
      BY ONLY <2>a, <3>w, <3>b, <3>5, n \in h, InsertStored
    <3> QED BY <2>4, <3>1, <3>4, <3>6
  <2>6. CASE AtTail(L)
    <3>1. PICK n \in h : /\ t = IF doubly THEN DPushTail(m, L, n)
                                ELSE SPushTail(m, L, n)
                         /\ g = h \ {n}
                         /\ w = [s EXCEPT ![L] = Append(@, n)]
      BY <2>6, <2>0 DEF AtTail
    <3>2. PICK r : r = Append(q, n)
      OBVIOUS
    <3>3. n \in Nodes /\ q \in Seq(Nodes)
      BY <2>1, <2>q DEF Stored
    <3>4. r \in Seq(Nodes) /\ w = [s EXCEPT ![L] = r]
      BY <2>1, <2>q, <3>1, <3>2, <3>3
    <3>5. Operated(t, m, s, L, r, n, doubly) /\ Gained(s, L, r, n)
      <4>1. t = IF doubly THEN DPushTail(m, L, n) ELSE SPushTail(m, L, n)
        BY <3>1
      <4>2. Tailed(r, q, n)
        BY <3>2 DEF Tailed
      <4> QED BY ONLY <2>a, <2>q, <4>1, <4>2, L \in Lists, n \in h, TailOperates
    <3>w. \A K \in Lists : w[K] = IF K = L THEN r ELSE s[K]
      BY <2>4, <3>4
    <3>b. Pure!Elems(r) = Pure!Elems(s[L]) \cup {n}
      BY <3>5 DEF Gained
    <3>6. Stored(t, w, h \ {n}, doubly, debug)
      BY ONLY <2>a, <3>w, <3>b, <3>5, n \in h, InsertStored
    <3> QED BY <2>4, <3>1, <3>4, <3>6
  <2>7. CASE Insert(L)
    <3>1. PICK n \in h, front \in Nodes \cup {Null} :
            /\ doubly
            /\ front # Null => SContains(m, L, front, WalkBound)
            /\ t = DInsert(m, L, n, front)
            /\ g = h \ {n}
            /\ w = [s EXCEPT ![L] = IF front = Null THEN Append(@, n)
                                    ELSE InsertAt(@, PlaceOf(front, @), n)]
      BY <2>7, <2>0 DEF Insert
    <3>2. PICK r : r = IF front = Null THEN Append(q, n)
                       ELSE InsertAt(q, PlaceOf(front, q), n)
      OBVIOUS
    <3>3. n \in Nodes /\ q \in Seq(Nodes) /\ Stored(m, s, h, TRUE, debug)
      BY <2>1, <2>q, <3>1 DEF Stored
    <3>4. /\ r \in Seq(Nodes)
          /\ Operated(t, m, s, L, r, n, TRUE)
          /\ Gained(s, L, r, n)
      <4>1. CASE front = Null
        <5>1. t = DPushTail(m, L, n) /\ r = Append(q, n)
          BY <3>1, <3>2, <4>1 DEF DInsert
        <5>2. PICK d : d = TRUE
          OBVIOUS
        <5>3. t = IF d THEN DPushTail(m, L, n) ELSE SPushTail(m, L, n)
          BY <5>1, <5>2
        <5>4. d \in BOOLEAN /\ Stored(m, s, h, d, debug)
          BY <3>3, <5>2
        <5>5. /\ Operated(t, m, s, L, r, n, d)
              /\ Gained(s, L, r, n)
          <6>1. Tailed(r, q, n)
            BY <5>1 DEF Tailed
          <6> QED BY ONLY <6>1, <5>3, <5>4, <2>q,
            L \in Lists, n \in h, TailOperates
        <5>6. Operated(t, m, s, L, r, n, TRUE)
          BY ONLY <5>2, <5>5
        <5>7. r \in Seq(Nodes)
          BY <3>3, <5>1
        <5> QED BY ONLY <5>5, <5>6, <5>7
      <4>2. CASE front # Null
        <5>1. front \in Pure!Elems(q)
          BY <2>a, <2>q, <3>1, <4>2, ContainsElems
        <5>2. PICK i : i = PlaceOf(front, q)
          OBVIOUS
        <5>3. i \in 1..Len(q) /\ front = q[i]
          BY <3>3, <5>1, <5>2, PlaceOfIs
        <5>4. r = InsertAt(q, i, n) /\ t = DInsert(m, L, n, front)
          BY <3>1, <3>2, <4>2, <5>2
        <5>5. /\ Operated(t, m, s, L, r, n, TRUE)
              /\ Gained(s, L, r, n)
          <6>1. Stored(m, s, h, TRUE, debug) /\ Standing(q, i, front)
            BY <3>3, <5>3 DEF Standing
          <6> QED BY ONLY <6>1, <5>3, <5>4, <2>q,
            L \in Lists, n \in h, InsertOperates
        <5>6. Lp!Inserted(r, q, i, n)
          BY ONLY <3>3, <5>3, <5>4, InsertAtIs
        <5> QED BY <5>5, <5>6 DEF Lp!Inserted
      <4> QED BY <4>1, <4>2
    <3>5. w = [s EXCEPT ![L] = r]
      BY <2>1, <2>q, <3>1, <3>2
    <3>6. Operated(t, m, s, L, r, n, doubly)
      BY <3>1, <3>4
    <3>w. \A K \in Lists : w[K] = IF K = L THEN r ELSE s[K]
      BY <2>4, <3>4, <3>5
    <3>b. Pure!Elems(r) = Pure!Elems(s[L]) \cup {n}
      BY <3>4 DEF Gained
    <3>7. Stored(t, w, h \ {n}, doubly, debug)
      BY ONLY <2>a, <3>w, <3>b, <3>6, n \in h, InsertStored
    <3> QED BY <2>4, <3>1, <3>4, <3>5, <3>7
  <2>8. CASE Pop(L)
    <3>1. /\ t = IF doubly THEN DPopHead(m, L) ELSE SPopHead(m, L)
          /\ g = h \cup ({HeadOf(m, L)} \ {Null})
          /\ w = [s EXCEPT ![L] = IF @ = <<>> THEN @ ELSE Tail(@)]
      BY <2>8, <2>0 DEF Pop
    <3>2. CASE q = <<>>
      <4>1. HeadOf(m, L) = Null /\ t = m
        <5>1. t = IF doubly THEN DPopHead(m, L) ELSE SPopHead(m, L)
          BY <3>1
        <5>2. s[L] = <<>>
          BY <2>q, <3>2
        <5>3. /\ HeadOf(m, L) = Null
              /\ m = IF doubly THEN DPopHead(m, L) ELSE SPopHead(m, L)
          BY ONLY <2>a, <5>2, EmptyPopOperates
        <5> QED BY <5>1, <5>3
      <4>2. g = h /\ w = s
        BY <2>1, <2>q, <3>1, <3>2, <4>1
      <4> QED BY <2>1, <4>1, <4>2
    <3>3. CASE q # <<>>
      <4>1. PICK r, n : r = Tail(q) /\ n = q[1]
        OBVIOUS
      <4>2. r \in Seq(Nodes) /\ w = [s EXCEPT ![L] = r]
        BY <2>1, <2>q, <3>1, <3>3, <4>1
      <4>3. /\ HeadOf(m, L) = n
            /\ Operated(t, m, s, L, r, n, doubly)
            /\ Lost(s, L, r, n)
            /\ kind.debug => t.next[n] = Null /\ (doubly => t.prev[n] = Null)
        <5>1. t = IF doubly THEN DPopHead(m, L) ELSE SPopHead(m, L)
          BY <3>1
        <5>2. Popped(r, q, n)
          BY <3>3, <4>1 DEF Popped
        <5> QED BY ONLY <2>a, <2>q, <5>1, <5>2, L \in Lists, PopOperates
      <4>w. \A K \in Lists : w[K] = IF K = L THEN r ELSE s[K]
        BY <2>4, <4>2
      <4>b. debug => t.next[n] = Null /\ (doubly => t.prev[n] = Null)
        BY <2>0, <4>3
      <4>c. /\ n \in Pure!Elems(s[L])
            /\ Pure!Elems(r) = Pure!Elems(s[L]) \ {n}
        BY <4>3 DEF Lost
      <4>4. Stored(t, w, h \cup {n}, doubly, debug)
        BY ONLY <2>a, <4>w, <4>b, <4>c, <4>3, RemoveStored
      <4>5. g = h \cup {n}
        BY <3>1, <4>3, ListAssumption DEF Operated
      <4> QED BY <2>4, <4>2, <4>4, <4>5
    <3> QED BY <3>2, <3>3
  <2>9. CASE RemoveAny(L)
    <3>1. PICK n \in Nodes :
            /\ SContains(m, L, n, WalkBound)
            /\ t = IF doubly THEN DRemove(m, L, n)
                   ELSE SRemove(m, L, n, WalkBound)
            /\ g = h \cup {n}
            /\ w = [s EXCEPT ![L] = RemoveAt(@, PlaceOf(n, @))]
      BY <2>9, <2>0 DEF RemoveAny
    <3>2. n \in Pure!Elems(q)
      BY <2>a, <2>q, <3>1, ContainsElems
    <3>3. PICK i, r : i = PlaceOf(n, q) /\ r = RemoveAt(q, i)
      OBVIOUS
    <3>4. q \in Seq(Nodes) /\ i \in 1..Len(q) /\ n = q[i]
      BY <2>1, <2>q, <3>2, <3>3, PlaceOfIs
    <3>5. r \in Seq(Nodes)
      <4>1. Lp!Removed(r, q, i)
        BY ONLY <3>3, <3>4, RemoveAtIs
      <4> QED BY <4>1 DEF Lp!Removed
    <3>6. w = [s EXCEPT ![L] = r]
      BY <2>1, <2>q, <3>1, <3>3
    <3>7. /\ Operated(t, m, s, L, r, n, doubly)
          /\ Lost(s, L, r, n)
          /\ kind.debug => t.next[n] = Null /\ (doubly => t.prev[n] = Null)
      <4>1. RemoveCall(t, m, L, n, doubly)
        BY <3>1 DEF RemoveCall
      <4>2. r = RemoveAt(q, i) /\ i \in 1..Len(q) /\ n = q[i]
        BY <3>3, <3>4
      <4>3. Dropped(r, q, i, n)
        BY <4>2 DEF Standing, Dropped
      <4> QED BY ONLY <2>a, <2>q, <4>1, <4>3, L \in Lists, RemoveOperates
    <3>w. \A K \in Lists : w[K] = IF K = L THEN r ELSE s[K]
      BY <2>4, <3>5, <3>6
    <3>b. debug => t.next[n] = Null /\ (doubly => t.prev[n] = Null)
      BY <2>0, <3>7
    <3>c. /\ n \in Pure!Elems(s[L])
          /\ Pure!Elems(r) = Pure!Elems(s[L]) \ {n}
      BY <3>7 DEF Lost
    <3>8. Stored(t, w, h \cup {n}, doubly, debug)
      BY ONLY <2>a, <3>w, <3>b, <3>c, <3>7, RemoveStored
    <3> QED BY <2>4, <3>1, <3>5, <3>6, <3>8
  <2> QED BY <2>3, <2>5, <2>6, <2>7, <2>8, <2>9
<1> QED BY <1>1, <1>2

(* After any sequence of legal calls, on any number of lists of either     *)
(* kind and of any length, in release and debug builds, the pointers of    *)
(* every list spell the sequence that the calls describe, and a node is in *)
(* a list or with a caller.                                                *)
THEOREM ListsAreSequences == ListSpec => []ListsRepresent
<1>1. ListsInvariant /\ [ListNext]_listOpVars => ListsInvariant'
  BY NextLists
<1> QED BY <1>1, InitLists, ListsRead, PTL DEF ListSpec

(***************************************************************************)
(* The UART                                                                *)
(***************************************************************************)

(* What the registers hold is the divisor, and the divisor the quotient.   *)
LEMMA Divided ==
  ASSUME NEW a \in Nat, NEW b \in Nat \ {0}
  PROVE  /\ a \div b \in Nat
         /\ (a \div b) * b <= a /\ a - (a \div b) * b < b
OBVIOUS

LEMMA SixtyFourths ==
  ASSUME NEW d \in Nat
  PROVE  /\ d \div 64 \in Nat /\ d % 64 \in Nat /\ d % 64 < 64
         /\ 64 * (d \div 64) + (d % 64) = d
<1>1. d \div 64 \in Nat
  OBVIOUS
<1>2. d % 64 \in Nat /\ d % 64 < 64
  OBVIOUS
<1>3. 64 * (d \div 64) + (d % 64) = d
  OBVIOUS
<1> QED BY <1>1, <1>2, <1>3

(* What set_baud_rate leaves in the registers of a device.                 *)
Programmed(config, regs) ==
  /\ regs.enabled
  /\ regs.IBRD < 2^16 /\ regs.FBRD < 2^6
  /\ (64 * regs.IBRD + regs.FBRD) * config.baud_rate_bps
       <= 4 * config.clock_rate_hz
  /\ 4 * config.clock_rate_hz
       - (64 * regs.IBRD + regs.FBRD) * config.baud_rate_bps
       < config.baud_rate_bps

LEMMA RatesProgrammed ==
  ASSUME NEW config \in DeviceConfig, BaudRateStatus(config) = "FWK_SUCCESS"
  PROVE  Programmed(config, [IBRD |-> Divisor(config) \div 64,
                             FBRD |-> Divisor(config) % 64, enabled |-> TRUE])
<1> PICK a, b : a = 4 * config.clock_rate_hz /\ b = config.baud_rate_bps
  OBVIOUS
<1>1. a \in Nat /\ b \in Nat
  BY DEF DeviceConfig
<1>2. b # 0
  BY DEF BaudRateStatus
<1> PICK d : d = a \div b
  OBVIOUS
<1>3. d \in Nat /\ d * b <= a /\ a - d * b < b
  BY ONLY <1>1, <1>2, d = a \div b, Divided
<1>4. Divisor(config) = d
  BY DEF Divisor
<1>5. /\ d \div 64 \in Nat /\ d % 64 \in Nat /\ d % 64 < 64
      /\ 64 * (d \div 64) + (d % 64) = d
  BY <1>3, SixtyFourths
<1>6. ~(d \div 64 > 65535)
  BY <1>4 DEF BaudRateStatus
<1>7. d \div 64 < 65536
  BY <1>5, <1>6
<1>8. 2^16 = 65536 /\ 2^6 = 64
  OBVIOUS
<1> QED BY <1>3, <1>4, <1>5, <1>7, <1>8 DEF Programmed

(* The table has its entries; those that are set have registers of their   *)
(* own, programmed for them, and no other registers are enabled.           *)
IsTable(t) ==
  \E count \in DeviceCounts \ {0} :
    t \in [0..(count - 1) -> DeviceConfigs \cup {NoConfig}]

UartInv ==
  /\ uartStatus = "boot" => uartTable = NoTable
  /\ uartTable # NoTable => IsTable(uartTable)
  /\ uartRegs \in [Bases -> Pl011Regs]
  /\ uartTable # NoTable => \A e \in DOMAIN uartTable :
       uartTable[e] # NoConfig =>
         /\ uartTable[e].reg_base \in Bases
         /\ Programmed(uartTable[e], GetDeviceReg(e))
  /\ uartTable # NoTable => \A e, f \in DOMAIN uartTable :
       /\ uartTable[e] # NoConfig /\ uartTable[f] # NoConfig
       /\ uartTable[e].reg_base = uartTable[f].reg_base
       => e = f
  /\ \A base \in Bases : uartRegs[base].enabled =>
       uartTable # NoTable /\ \E e \in DOMAIN uartTable :
                                /\ uartTable[e] # NoConfig
                                /\ uartTable[e].reg_base = base

LEMMA UartInvInit == UartInit => UartInv
<1> SUFFICES ASSUME UartInit PROVE UartInv
  OBVIOUS
<1>1. uartRegs \in [Bases -> Pl011Regs]
  BY DEF UartInit, Pl011Regs
<1>2. \A base \in Bases : ~uartRegs[base].enabled
  BY DEF UartInit
<1> QED BY <1>1, <1>2 DEF UartInit, UartInv

LEMMA TableIsNoOther ==
  ASSUME NEW t, IsTable(t) PROVE t # NoTable /\ 0 \in DOMAIN t
<1> PICK count \in DeviceCounts \ {0} :
           t \in [0..(count - 1) -> DeviceConfigs \cup {NoConfig}]
  BY DEF IsTable
<1>1. count \in Nat \ {0}
  BY UartAssumption
<1>2. 0 \in DOMAIN t
  BY <1>1
<1>3. 0 \notin DOMAIN NoTable
  BY DEF NoTable
<1> QED BY <1>2, <1>3

LEMMA TableMade ==
  ASSUME NEW count \in DeviceCounts, UartInv, Pl011Init(count) PROVE UartInv'
<1>1. uartTable = NoTable /\ uartRegs' = uartRegs /\ uartStatus' # "boot"
  BY DEF Pl011Init, UartInv
<1>2. \A base \in Bases : ~uartRegs[base].enabled
  BY <1>1 DEF UartInv
<1>3. CASE uartTable' = uartTable
  BY <1>1, <1>2, <1>3 DEF UartInv
<1>4. CASE count # 0 /\ uartTable' = [e \in 0..(count - 1) |-> NoConfig]
  <2>1. IsTable(uartTable')
    BY <1>4 DEF IsTable
  <2>2. \A e \in DOMAIN uartTable' : uartTable'[e] = NoConfig
    BY <1>4
  <2> QED BY <1>1, <1>2, <2>1, <2>2 DEF UartInv
<1> QED BY <1>3, <1>4 DEF Pl011Init

LEMMA DeviceProgrammed ==
  ASSUME UartInv, uartTable # NoTable, NEW e \in DOMAIN uartTable,
         NEW config \in FreeConfigs, Pl011ElementInit(e, config)
  PROVE  UartInv'
<1> PICK count \in DeviceCounts \ {0} :
           uartTable \in [0..(count - 1) -> DeviceConfigs \cup {NoConfig}]
  BY DEF UartInv, IsTable
<1>1. config \in DeviceConfigs /\ config \in DeviceConfig
  BY UartAssumption DEF FreeConfigs
<1>2. CASE UNCHANGED <<uartTable, uartRegs>>
  <2>1. uartStatus' # "boot"
    BY DEF Pl011ElementInit, BaudRateStatus
  <2> QED BY <1>2, <2>1 DEF UartInv, GetDeviceReg
<1>3. CASE ~UNCHANGED <<uartTable, uartRegs>>
  <2> DEFINE regs == [IBRD |-> Divisor(config) \div 64,
                      FBRD |-> Divisor(config) % 64, enabled |-> TRUE]
  <2>1. /\ config.reg_base # 0 /\ BaudRateStatus(config) = "FWK_SUCCESS"
        /\ uartStatus' = "FWK_SUCCESS"
        /\ uartRegs' = [uartRegs EXCEPT ![config.reg_base] = regs]
        /\ uartTable' = [uartTable EXCEPT ![e] = config]
        /\ uartTable[e] = NoConfig
    BY <1>3 DEF Pl011ElementInit
  <2>2. Programmed(config, regs)
    BY <1>1, <2>1, RatesProgrammed
  <2>3. regs \in Pl011Regs
    <3>1. 4 * config.clock_rate_hz \in Nat /\ config.baud_rate_bps \in Nat \ {0}
      BY <1>1, <2>1 DEF DeviceConfig, BaudRateStatus
    <3>2. Divisor(config) \in Nat
      BY <3>1, Divided DEF Divisor
    <3> QED BY <3>2, SixtyFourths DEF Pl011Regs
  <2> HIDE DEF regs
  <2>4. config.reg_base \in Bases
    BY <1>1, <2>1 DEF Bases
  <2>5. config # NoConfig
    BY <2>1 DEF NoConfig
  <2>6. \A f \in DOMAIN uartTable :
          uartTable[f] # NoConfig => uartTable[f].reg_base # config.reg_base
    BY DEF FreeConfigs
  <2>7. uartRegs' \in [Bases -> Pl011Regs]
    BY <2>1, <2>3 DEF UartInv
  <2>8. /\ DOMAIN uartTable' = DOMAIN uartTable
        /\ \A f \in DOMAIN uartTable :
             uartTable'[f] = IF f = e THEN config ELSE uartTable[f]
    BY <2>1
  <2>9. \A base \in Bases :
          uartRegs'[base] = IF base = config.reg_base THEN regs ELSE uartRegs[base]
    BY <2>1 DEF UartInv
  <2>10. IsTable(uartTable')
    BY <1>1, <2>1 DEF IsTable
  <2>11. uartTable' # NoTable
    BY <2>10, TableIsNoOther
  <2>12. ASSUME NEW f \in DOMAIN uartTable', uartTable'[f] # NoConfig
         PROVE  /\ uartTable'[f].reg_base \in Bases
                /\ Programmed(uartTable'[f], GetDeviceReg(f)')
    <3>1. CASE f = e
      BY <2>2, <2>4, <2>8, <2>9, <3>1 DEF GetDeviceReg
    <3>2. CASE f # e
      <4>1. /\ uartTable'[f] = uartTable[f] /\ uartTable[f] # NoConfig
            /\ uartTable[f].reg_base \in Bases
            /\ Programmed(uartTable[f], GetDeviceReg(f))
        BY <2>8, <2>12, <3>2 DEF UartInv
      <4>2. GetDeviceReg(f)' = GetDeviceReg(f)
        BY <2>6, <2>8, <2>9, <4>1 DEF GetDeviceReg
      <4> QED BY <4>1, <4>2
    <3> QED BY <3>1, <3>2
  <2>13. ASSUME NEW f \in DOMAIN uartTable', NEW g \in DOMAIN uartTable',
                uartTable'[f] # NoConfig, uartTable'[g] # NoConfig,
                uartTable'[f].reg_base = uartTable'[g].reg_base
         PROVE  f = g
    BY <2>6, <2>8, <2>13 DEF UartInv
  <2>14. ASSUME NEW base \in Bases, uartRegs'[base].enabled
         PROVE  \E f \in DOMAIN uartTable' : /\ uartTable'[f] # NoConfig
                                            /\ uartTable'[f].reg_base = base
    <3>1. CASE base = config.reg_base
      BY <2>5, <2>8, <3>1
    <3>2. CASE base # config.reg_base
      <4> PICK f \in DOMAIN uartTable : /\ uartTable[f] # NoConfig
                                        /\ uartTable[f].reg_base = base
        BY <2>9, <2>14, <3>2 DEF UartInv
      <4>1. f # e
        BY <2>1
      <4> QED BY <2>8, <4>1
    <3> QED BY <3>1, <3>2
  <2>15. uartStatus' # "boot"
    BY <2>1
  <2> QED BY <2>7, <2>10, <2>11, <2>12, <2>13, <2>14, <2>15 DEF UartInv
<1> QED BY <1>2, <1>3

(* For any devices and clocks: a UART that is enabled has divisors which   *)
(* its registers hold, and its rate is the closest from above; a rate that *)
(* set_baud_rate refuses leaves the device disabled.                       *)
THEOREM RatesKept == UartSpec => []BaudRatesKept
<1>1. UartInv => BaudRatesKept
  BY DEF UartInv, BaudRatesKept, Programmed
<1>2. UartInv /\ [UartNext]_uartVars => UartInv'
  <2> SUFFICES ASSUME UartInv, [UartNext]_uartVars PROVE UartInv'
    OBVIOUS
  <2>1. CASE UNCHANGED uartVars
    BY <2>1 DEF uartVars, UartInv, GetDeviceReg
  <2> QED BY <2>1, TableMade, DeviceProgrammed DEF UartNext
<1> QED BY <1>1, <1>2, UartInvInit, PTL DEF UartSpec

(***************************************************************************)
(* The identifiers                                                         *)
(***************************************************************************)

(* The indices fit their fields.                                           *)
Below(n) == {k \in Nat : k < n}

FieldsFit ==
  /\ ModuleIdx \subseteq Below(256) /\ ElementIdx \subseteq Below(4096)
  /\ SubElementIdx \subseteq Below(256) /\ ApiIdx \subseteq Below(16)
  /\ EventIdx \subseteq Below(64) /\ NotificationIdx \subseteq Below(64)

LEMMA ModuleFits ==
  ASSUME NEW x \in Nat, x < 256 PROVE Truncated(x, MODULE_BITS) = x
<1>1. 2^8 = 256
  OBVIOUS
<1> QED BY <1>1 DEF Truncated, MODULE_BITS

LEMMA ElementFits ==
  ASSUME NEW x \in Nat, x < 4096 PROVE Truncated(x, ELEMENT_BITS) = x
<1>1. 2^12 = 4096
  OBVIOUS
<1> QED BY <1>1 DEF Truncated, ELEMENT_BITS

LEMMA SubElementFits ==
  ASSUME NEW x \in Nat, x < 256 PROVE Truncated(x, SUB_ELEMENT_BITS) = x
<1>1. 2^8 = 256
  OBVIOUS
<1> QED BY <1>1 DEF Truncated, SUB_ELEMENT_BITS

LEMMA ApiFits ==
  ASSUME NEW x \in Nat, x < 16 PROVE Truncated(x, API_BITS) = x
<1>1. 2^4 = 16
  OBVIOUS
<1> QED BY <1>1 DEF Truncated, API_BITS

LEMMA EventFits ==
  ASSUME NEW x \in Nat, x < 64 PROVE Truncated(x, EVENT_BITS) = x
<1>1. 2^6 = 64
  OBVIOUS
<1> QED BY <1>1 DEF Truncated, EVENT_BITS

LEMMA NotificationFits ==
  ASSUME NEW x \in Nat, x < 64 PROVE Truncated(x, NOTIFICATION_BITS) = x
<1>1. 2^6 = 64
  OBVIOUS
<1> QED BY <1>1 DEF Truncated, NOTIFICATION_BITS

(* An element and its sub-element share the bits above the module.         *)
LEMMA SubElementApart ==
  ASSUME NEW e \in Nat, e < 4096, NEW s \in Nat
  PROVE  /\ Truncated(e + 2^ELEMENT_BITS * s, ELEMENT_BITS) = e
         /\ (e + 2^ELEMENT_BITS * s) \div 2^ELEMENT_BITS = s
<1>1. 2^ELEMENT_BITS = 4096
  BY 2^12 = 4096 DEF ELEMENT_BITS
<1>2. (e + 4096 * s) % 4096 = e
  OBVIOUS
<1>3. (e + 4096 * s) \div 4096 = s
  OBVIOUS
<1> QED BY <1>1, <1>2, <1>3 DEF Truncated

(* What is read back from an identifier of each type.                      *)
LEMMA NoneReads ==
  /\ FWK_ID_NONE.type = "NONE" /\ GetModuleIdx(FWK_ID_NONE) = 0
  /\ StrNumbers(FWK_ID_NONE) = <<>>
BY ModuleFits DEF FWK_ID_NONE, IdOf, GetModuleIdx, StrNumbers

LEMMA ModuleReads ==
  ASSUME NEW m \in Nat, m < 256,
         NEW i, i = FWK_ID_MODULE(m)
  PROVE  /\ i.type = "MODULE" /\ GetModuleIdx(i) = m
         /\ StrNumbers(i) = <<m>>
<1>1. Truncated(m, MODULE_BITS) = m
  BY ModuleFits
<1>2. i.type = "MODULE" /\ i.module_idx = m
  BY <1>1 DEF FWK_ID_MODULE, IdOf
<1> QED BY <1>2 DEF GetModuleIdx, StrNumbers

LEMMA ElementReads ==
  ASSUME NEW m \in Nat, m < 256, NEW e \in Nat, e < 4096,
         NEW i, i = FWK_ID_ELEMENT(m, e)
  PROVE  /\ i.type = "ELEMENT" /\ GetModuleIdx(i) = m
         /\ StrNumbers(i) = <<m, e>>
<1>1. Truncated(m, MODULE_BITS) = m
  BY ModuleFits
<1>2. Truncated(e, ELEMENT_BITS) = e
  BY ElementFits
<1>3. i.type = "ELEMENT" /\ i.module_idx = m /\ i.above = e
  BY <1>1, <1>2 DEF FWK_ID_ELEMENT, IdOf
<1>4. GetElementIdx(i) = e
  BY <1>2, <1>3 DEF GetElementIdx
<1> QED BY <1>3, <1>4 DEF GetModuleIdx, StrNumbers

LEMMA SubElementReads ==
  ASSUME NEW m \in Nat, m < 256, NEW e \in Nat, e < 4096, NEW s \in Nat, s < 256,
         NEW i, i = FWK_ID_SUB_ELEMENT(m, e, s)
  PROVE  /\ i.type = "SUB_ELEMENT" /\ GetModuleIdx(i) = m
         /\ StrNumbers(i) = <<m, e, s>>
<1>1. Truncated(m, MODULE_BITS) = m
  BY ModuleFits
<1>2. Truncated(e, ELEMENT_BITS) = e
  BY ElementFits
<1>3. Truncated(s, SUB_ELEMENT_BITS) = s
  BY SubElementFits
<1>4. /\ i.type = "SUB_ELEMENT" /\ i.module_idx = m
      /\ i.above = e + 2^ELEMENT_BITS * s
  BY <1>1, <1>2, <1>3 DEF FWK_ID_SUB_ELEMENT, IdOf
<1>5. GetElementIdx(i) = e /\ GetSubElementIdx(i) = s
  BY <1>4, SubElementApart DEF GetElementIdx, GetSubElementIdx
<1> QED BY <1>4, <1>5 DEF GetModuleIdx, StrNumbers

LEMMA ApiReads ==
  ASSUME NEW m \in Nat, m < 256, NEW a \in Nat, a < 16,
         NEW i, i = FWK_ID_API(m, a)
  PROVE  /\ i.type = "API" /\ GetModuleIdx(i) = m
         /\ StrNumbers(i) = <<m, a>>
<1>1. Truncated(m, MODULE_BITS) = m
  BY ModuleFits
<1>2. Truncated(a, API_BITS) = a
  BY ApiFits
<1>3. i.type = "API" /\ i.module_idx = m /\ i.above = a
  BY <1>1, <1>2 DEF FWK_ID_API, IdOf
<1>4. GetApiIdx(i) = a
  BY <1>2, <1>3 DEF GetApiIdx
<1> QED BY <1>3, <1>4 DEF GetModuleIdx, StrNumbers

LEMMA EventReads ==
  ASSUME NEW m \in Nat, m < 256, NEW n \in Nat, n < 64,
         NEW i, i = FWK_ID_EVENT(m, n)
  PROVE  /\ i.type = "EVENT" /\ GetModuleIdx(i) = m
         /\ StrNumbers(i) = <<m, n>>
<1>1. Truncated(m, MODULE_BITS) = m
  BY ModuleFits
<1>2. Truncated(n, EVENT_BITS) = n
  BY EventFits
<1>3. i.type = "EVENT" /\ i.module_idx = m /\ i.above = n
  BY <1>1, <1>2 DEF FWK_ID_EVENT, IdOf
<1>4. GetEventIdx(i) = n
  BY <1>2, <1>3 DEF GetEventIdx
<1> QED BY <1>3, <1>4 DEF GetModuleIdx, StrNumbers

LEMMA NotificationReads ==
  ASSUME NEW m \in Nat, m < 256, NEW n \in Nat, n < 64,
         NEW i, i = FWK_ID_NOTIFICATION(m, n)
  PROVE  /\ i.type = "NOTIFICATION" /\ GetModuleIdx(i) = m
         /\ StrNumbers(i) = <<m, n>>
<1>1. Truncated(m, MODULE_BITS) = m
  BY ModuleFits
<1>2. Truncated(n, NOTIFICATION_BITS) = n
  BY NotificationFits
<1>3. i.type = "NOTIFICATION" /\ i.module_idx = m /\ i.above = n
  BY <1>1, <1>2 DEF FWK_ID_NOTIFICATION, IdOf
<1>4. GetNotificationIdx(i) = n
  BY <1>2, <1>3 DEF GetNotificationIdx
<1> QED BY <1>3, <1>4 DEF GetModuleIdx, StrNumbers

(* What identifiers can mean: any indices that fit, for the module of an   *)
(* identifier built from FWK_ID_NONE need not be one of the program's.     *)
Meaning ==
  [type : {"NONE"}, idx : {<<>>}]
  \cup [type : {"MODULE"},
        idx : {<<m>> : m \in Below(256)}]
  \cup [type : {"ELEMENT"},
        idx : {<<m, e>> : m \in Below(256), e \in Below(4096)}]
  \cup [type : {"SUB_ELEMENT"},
        idx : {<<m, e, s>> : m \in Below(256), e \in Below(4096), s \in Below(256)}]
  \cup [type : {"API"},
        idx : {<<m, a>> : m \in Below(256), a \in Below(16)}]
  \cup [type : {"EVENT"},
        idx : {<<m, n>> : m \in Below(256), n \in Below(64)}]
  \cup [type : {"NOTIFICATION"},
        idx : {<<m, n>> : m \in Below(256), n \in Below(64)}]

Stands(i, x) ==
  /\ i.type = x.type /\ StrNumbers(i) = x.idx
  /\ x.type = "NONE" => GetModuleIdx(i) = 0
  /\ x.type # "NONE" => GetModuleIdx(i) = x.idx[1]

LEMMA EncodedStands ==
  ASSUME NEW x \in Meaning PROVE Stands(Encode(x), x)
<1>1. CASE x \in [type : {"NONE"}, idx : {<<>>}]
  <2>1. x.type = "NONE" /\ x.idx = <<>> /\ Encode(x) = FWK_ID_NONE
    BY <1>1 DEF Encode
  <2> QED BY <2>1, NoneReads DEF Stands
<1>2. CASE x \in [type : {"MODULE"},
                  idx : {<<m>> : m \in Below(256)}]
  <2> PICK m \in Nat :
           x.idx = <<m>> /\ m < 256
    BY <1>2 DEF Below
  <2>1. x.type = "MODULE" /\ Encode(x) = FWK_ID_MODULE(m)
    BY <1>2 DEF Encode
  <2>2. /\ Encode(x).type = "MODULE" /\ GetModuleIdx(Encode(x)) = m
        /\ StrNumbers(Encode(x)) = <<m>>
    BY <2>1, ModuleReads
  <2> QED BY <2>1, <2>2 DEF Stands
<1>3. CASE x \in [type : {"ELEMENT"},
                  idx : {<<m, e>> : m \in Below(256), e \in Below(4096)}]
  <2> PICK m \in Nat, e \in Nat :
           x.idx = <<m, e>> /\ m < 256 /\ e < 4096
    BY <1>3 DEF Below
  <2>1. x.type = "ELEMENT" /\ Encode(x) = FWK_ID_ELEMENT(m, e)
    BY <1>3 DEF Encode
  <2>2. /\ Encode(x).type = "ELEMENT" /\ GetModuleIdx(Encode(x)) = m
        /\ StrNumbers(Encode(x)) = <<m, e>>
    BY <2>1, ElementReads
  <2> QED BY <2>1, <2>2 DEF Stands
<1>4. CASE x \in [type : {"SUB_ELEMENT"},
                  idx : {<<m, e, s>> : m \in Below(256), e \in Below(4096), s \in Below(256)}]
  <2> PICK m \in Nat, e \in Nat, s \in Nat :
           x.idx = <<m, e, s>> /\ m < 256 /\ e < 4096 /\ s < 256
    BY <1>4 DEF Below
  <2>1. x.type = "SUB_ELEMENT" /\ Encode(x) = FWK_ID_SUB_ELEMENT(m, e, s)
    BY <1>4 DEF Encode
  <2>2. /\ Encode(x).type = "SUB_ELEMENT" /\ GetModuleIdx(Encode(x)) = m
        /\ StrNumbers(Encode(x)) = <<m, e, s>>
    BY <2>1, SubElementReads
  <2> QED BY <2>1, <2>2 DEF Stands
<1>5. CASE x \in [type : {"API"},
                  idx : {<<m, a>> : m \in Below(256), a \in Below(16)}]
  <2> PICK m \in Nat, a \in Nat :
           x.idx = <<m, a>> /\ m < 256 /\ a < 16
    BY <1>5 DEF Below
  <2>1. x.type = "API" /\ Encode(x) = FWK_ID_API(m, a)
    BY <1>5 DEF Encode
  <2>2. /\ Encode(x).type = "API" /\ GetModuleIdx(Encode(x)) = m
        /\ StrNumbers(Encode(x)) = <<m, a>>
    BY <2>1, ApiReads
  <2> QED BY <2>1, <2>2 DEF Stands
<1>6. CASE x \in [type : {"EVENT"},
                  idx : {<<m, n>> : m \in Below(256), n \in Below(64)}]
  <2> PICK m \in Nat, n \in Nat :
           x.idx = <<m, n>> /\ m < 256 /\ n < 64
    BY <1>6 DEF Below
  <2>1. x.type = "EVENT" /\ Encode(x) = FWK_ID_EVENT(m, n)
    BY <1>6 DEF Encode
  <2>2. /\ Encode(x).type = "EVENT" /\ GetModuleIdx(Encode(x)) = m
        /\ StrNumbers(Encode(x)) = <<m, n>>
    BY <2>1, EventReads
  <2> QED BY <2>1, <2>2 DEF Stands
<1>7. CASE x \in [type : {"NOTIFICATION"},
                  idx : {<<m, n>> : m \in Below(256), n \in Below(64)}]
  <2> PICK m \in Nat, n \in Nat :
           x.idx = <<m, n>> /\ m < 256 /\ n < 64
    BY <1>7 DEF Below
  <2>1. x.type = "NOTIFICATION" /\ Encode(x) = FWK_ID_NOTIFICATION(m, n)
    BY <1>7 DEF Encode
  <2>2. /\ Encode(x).type = "NOTIFICATION" /\ GetModuleIdx(Encode(x)) = m
        /\ StrNumbers(Encode(x)) = <<m, n>>
    BY <2>1, NotificationReads
  <2> QED BY <2>1, <2>2 DEF Stands
<1> QED BY <1>1, <1>2, <1>3, <1>4, <1>5, <1>6, <1>7 DEF Meaning

LEMMA StandsForOne ==
  ASSUME NEW x \in Meaning, NEW y \in Meaning, Encode(x) = Encode(y)
  PROVE  x = y
<1>1. x.type = y.type /\ x.idx = y.idx
  BY EncodedStands DEF Stands
<1>2. /\ x = [type |-> x.type, idx |-> x.idx]
      /\ y = [type |-> y.type, idx |-> y.idx]
  BY DEF Meaning
<1> QED BY <1>1, <1>2
(* n has more than k digits.                                               *)
Exceeds(n, k) == n >= 10^k

LEMMA Hundreds ==
  ASSUME NEW n \in Nat, NEW k \in 1..9, Exceeds(n, k)
  PROVE  (n < 4096 => k <= 3) /\ (n < 256 => k <= 2)
<1> USE DEF Exceeds
<1>1. CASE k = 1
  BY <1>1
<1>2. CASE k = 2
  BY <1>2
<1>3. CASE k = 3
  BY <1>3, 10^3 = 1000
<1>4. CASE k = 4
  BY <1>4, 10^4 = 10000
<1>5. CASE k = 5
  BY <1>5, 10^5 = 100000
<1>6. CASE k = 6
  BY <1>6, 10^6 = 1000000
<1>7. CASE k = 7
  BY <1>7, 10^7 = 10000000
<1>8. CASE k = 8
  BY <1>8, 10^8 = 100000000
<1>9. CASE k = 9
  BY <1>9, 10^9 = 1000000000
<1> QED BY <1>1, <1>2, <1>3, <1>4, <1>5, <1>6, <1>7, <1>8, <1>9

LEMMA FewDigits ==
  ASSUME NEW n \in Nat, NEW b \in Nat, \A k \in 1..9 : Exceeds(n, k) => k <= b
  PROVE  Digits(n) \in Nat /\ Digits(n) <= b + 1
<1> PICK D : D = {k \in 1..9 : Exceeds(n, k)}
  OBVIOUS
<1>1. IsFiniteSet(1..b) /\ Cardinality(1..b) = b
  <2>1. 1 \in Int /\ b \in Int
    OBVIOUS
  <2>2. /\ IsFiniteSet(1..b)
        /\ Cardinality(1..b) = IF 1 > b THEN 0 ELSE b - 1 + 1
    BY ONLY <2>1, FS_Interval
  <2> QED BY <2>2
<1>2. D \subseteq 1..b
  OBVIOUS
<1>3. IsFiniteSet(D) /\ Cardinality(D) <= b /\ Cardinality(D) \in Nat
  BY <1>1, <1>2, FS_Subset, FS_CardinalityType
<1>4. Digits(n) = Cardinality(D) + 1
  BY Zenon DEF Digits, Exceeds
<1> QED BY <1>3, <1>4

LEMMA IndexDigits ==
  /\ \A n \in Nat : n < 256 => Digits(n) \in Nat /\ Digits(n) <= 3
  /\ \A n \in Nat : n < 4096 => Digits(n) \in Nat /\ Digits(n) <= 4
<1>1. ASSUME NEW n \in Nat, n < 256 PROVE Digits(n) \in Nat /\ Digits(n) <= 3
  <2>1. \A k \in 1..9 : Exceeds(n, k) => k <= 2
    BY <1>1, Hundreds
  <2> QED BY <2>1, FewDigits
<1>2. ASSUME NEW n \in Nat, n < 4096 PROVE Digits(n) \in Nat /\ Digits(n) <= 4
  <2>1. \A k \in 1..9 : Exceeds(n, k) => k <= 3
    BY <1>2, Hundreds
  <2> QED BY <2>1, FewDigits
<1> QED BY <1>1, <1>2

AllOf(all, numbers) ==
  all = [k \in 0..Len(numbers) |->
           IF k = 0 THEN 0 ELSE all[k - 1] + Digits(numbers[k]) + 1]
Printed(numbers) == (CHOOSE all : AllOf(all, numbers))[Len(numbers)]

LEMMA AllExists ==
  ASSUME NEW numbers, Len(numbers) \in Nat, Len(numbers) <= 3
  PROVE  \E all : AllOf(all, numbers)
<1> DEFINE one == 0 + Digits(numbers[1]) + 1
           two == one + Digits(numbers[2]) + 1
           three == two + Digits(numbers[3]) + 1
           all == [k \in 0..Len(numbers) |->
                     IF k = 0 THEN 0 ELSE IF k = 1 THEN one
                     ELSE IF k = 2 THEN two ELSE three]
<1>1. ASSUME NEW k \in 0..Len(numbers)
      PROVE  all[k] = IF k = 0 THEN 0 ELSE all[k - 1] + Digits(numbers[k]) + 1
  <2>1. k = 0 \/ k = 1 \/ k = 2 \/ k = 3
    OBVIOUS
  <2>2. CASE k = 0
    BY <2>2
  <2>3. CASE k = 1
    BY <2>3
  <2>4. CASE k = 2
    BY <2>4
  <2>5. CASE k = 3
    BY <2>5
  <2> QED BY <2>1, <2>2, <2>3, <2>4, <2>5
<1>2. AllOf(all, numbers)
  BY <1>1 DEF AllOf
<1> QED BY <1>2

LEMMA AllSteps ==
  ASSUME NEW numbers, NEW all, Len(numbers) \in Nat, AllOf(all, numbers)
  PROVE  /\ all[0] = 0
         /\ \A k \in 1..Len(numbers) : all[k] = all[k - 1] + Digits(numbers[k]) + 1
<1> DEFINE value(k) == IF k = 0 THEN 0 ELSE all[k - 1] + Digits(numbers[k]) + 1
<1>1. all = [k \in 0..Len(numbers) |-> value(k)]
  BY DEF AllOf
<1> HIDE DEF value
<1>2. \A k \in 0..Len(numbers) : all[k] = value(k)
  BY ONLY <1>1
<1>3. 0 \in 0..Len(numbers) /\ \A k \in 1..Len(numbers) : k \in 0..Len(numbers) /\ k # 0
  OBVIOUS
<1> QED BY ONLY <1>2, <1>3 DEF value

(* The characters of up to three numbers and what follows each.            *)
FewNumbers(numbers) ==
  /\ Len(numbers) \in Nat /\ Len(numbers) <= 3
  /\ \A k \in 1..Len(numbers) : Digits(numbers[k]) \in Nat
Summed(numbers) ==
  /\ Len(numbers) = 1 => Printed(numbers) = Digits(numbers[1]) + 1
  /\ Len(numbers) = 2 =>
       Printed(numbers) = Digits(numbers[1]) + Digits(numbers[2]) + 2
  /\ Len(numbers) = 3 =>
       Printed(numbers) = Digits(numbers[1]) + Digits(numbers[2])
                            + Digits(numbers[3]) + 3

LEMMA PrintedSums ==
  ASSUME NEW numbers, FewNumbers(numbers) PROVE Summed(numbers)
<1>0. /\ Len(numbers) \in Nat /\ Len(numbers) <= 3
      /\ \A k \in 1..Len(numbers) : Digits(numbers[k]) \in Nat
  BY DEF FewNumbers
<1>1. AllOf(CHOOSE f : AllOf(f, numbers), numbers)
  BY <1>0, AllExists, Zenon
<1> PICK all : all = CHOOSE f : AllOf(f, numbers)
  OBVIOUS
<1>2. AllOf(all, numbers)
  BY <1>1, Zenon
<1>3. Printed(numbers) = all[Len(numbers)]
  BY Zenon DEF Printed
<1>4. /\ all[0] = 0
      /\ \A k \in 1..Len(numbers) : all[k] = all[k - 1] + Digits(numbers[k]) + 1
  BY ONLY <1>0, <1>2, AllSteps
<1>5. ASSUME Len(numbers) >= 1 PROVE all[1] = Digits(numbers[1]) + 1
  BY <1>0, <1>4, <1>5
<1>6. ASSUME Len(numbers) >= 2
      PROVE  all[2] = Digits(numbers[1]) + Digits(numbers[2]) + 2
  <2>1. 1 \in 1..Len(numbers) /\ 2 \in 1..Len(numbers)
    BY <1>0, <1>6
  <2>2. all[2] = all[1] + Digits(numbers[2]) + 1
    BY <1>4, <2>1
  <2> QED BY <1>0, <1>5, <1>6, <2>1, <2>2
<1>7. ASSUME Len(numbers) = 3
      PROVE  all[3] = Digits(numbers[1]) + Digits(numbers[2]) + Digits(numbers[3]) + 3
  <2>1. 1 \in 1..Len(numbers) /\ 2 \in 1..Len(numbers) /\ 3 \in 1..Len(numbers)
    BY <1>0, <1>7
  <2>2. all[3] = all[2] + Digits(numbers[3]) + 1
    BY <1>4, <2>1
  <2> QED BY <1>0, <1>6, <1>7, <2>1, <2>2
<1> QED BY <1>0, <1>3, <1>5, <1>6, <1>7 DEF Summed
(* The sequence a string is made of, for up to three numbers.              *)
OneNumber(ns, a) == Len(ns) = 1 /\ ns[1] = a /\ Digits(a) \in Nat
TwoNumbers(ns, a, b) ==
  Len(ns) = 2 /\ ns[1] = a /\ ns[2] = b /\ {Digits(a), Digits(b)} \subseteq Nat
ThreeNumbers(ns, a, b, c) ==
  /\ Len(ns) = 3 /\ ns[1] = a /\ ns[2] = b /\ ns[3] = c
  /\ {Digits(a), Digits(b), Digits(c)} \subseteq Nat

LEMMA PrintedOne ==
  ASSUME NEW ns, NEW a, OneNumber(ns, a) PROVE Printed(ns) = Digits(a) + 1
<1>1. FewNumbers(ns)
  BY DEF OneNumber, FewNumbers
<1>2. Summed(ns)
  BY ONLY <1>1, PrintedSums
<1> QED BY <1>2 DEF OneNumber, Summed

LEMMA PrintedTwo ==
  ASSUME NEW ns, NEW a, NEW b, TwoNumbers(ns, a, b)
  PROVE  Printed(ns) = Digits(a) + Digits(b) + 2
<1>1. FewNumbers(ns)
  BY DEF TwoNumbers, FewNumbers
<1>2. Summed(ns)
  BY ONLY <1>1, PrintedSums
<1> QED BY <1>2 DEF TwoNumbers, Summed

LEMMA PrintedThree ==
  ASSUME NEW ns, NEW a, NEW b, NEW c, ThreeNumbers(ns, a, b, c)
  PROVE  Printed(ns) = Digits(a) + Digits(b) + Digits(c) + 3
<1>1. FewNumbers(ns)
  BY DEF ThreeNumbers, FewNumbers
<1>2. Summed(ns)
  BY ONLY <1>1, PrintedSums
<1> QED BY <1>2 DEF ThreeNumbers, Summed

LEMMA StringLength ==
  ASSUME NEW i
  PROVE  /\ i.type = "NONE" => StrLength(i) = 9
         /\ i.type = "SUB_ELEMENT" => StrLength(i) = 6 + Printed(StrNumbers(i))
         /\ i.type \notin {"NONE", "SUB_ELEMENT"} =>
              StrLength(i) = 5 + Printed(StrNumbers(i))
<1>1. ASSUME i.type = "NONE" PROVE StrLength(i) = 9
  BY <1>1 DEF StrLength
<1>2. ASSUME i.type = "SUB_ELEMENT"
      PROVE  StrLength(i) = 6 + Printed(StrNumbers(i))
  BY <1>2 DEF StrLength, Printed, AllOf
<1>3. ASSUME i.type \notin {"NONE", "SUB_ELEMENT"}
      PROVE  StrLength(i) = 5 + Printed(StrNumbers(i))
  BY <1>3 DEF StrLength, Printed, AllOf
<1> QED BY <1>1, <1>2, <1>3

(* The longest is that of a sub-element: nineteen characters.              *)
LEMMA StringsFit ==
  ASSUME NEW x \in Meaning PROVE StrLength(Encode(x)) < STR_SIZE
<1> PICK i, numbers : i = Encode(x) /\ numbers = x.idx
  OBVIOUS
<1>0. i.type = x.type /\ StrNumbers(i) = numbers
  BY EncodedStands DEF Stands
<1> USE DEF STR_SIZE
<1>1. CASE x \in [type : {"NONE"}, idx : {<<>>}]
  BY <1>0, <1>1, StringLength
<1>2. CASE x \in [type : {"MODULE"},
                  idx : {<<m>> : m \in Below(256)}]
  <2> PICK m \in Nat :
           x.idx = <<m>> /\ m < 256
    BY <1>2 DEF Below
  <2>1. x.type = "MODULE"
    BY <1>2
  <2>2. Len(numbers) = 1 /\ numbers[1] = m
    OBVIOUS
  <2>3. /\ Digits(m) \in Nat /\ Digits(m) <= 3
    BY ONLY IndexDigits, m \in Nat, m < 256
  <2>4. OneNumber(numbers, m)
    BY ONLY <2>2, <2>3 DEF OneNumber
  <2>5. Printed(numbers) = Digits(m) + 1
    BY ONLY <2>4, PrintedOne
  <2>6. StrLength(i) = 5 + Printed(numbers)
    BY ONLY <1>0, <2>1, StringLength
  <2> QED BY <2>3, <2>5, <2>6
<1>3. CASE x \in [type : {"ELEMENT"},
                  idx : {<<m, e>> : m \in Below(256), e \in Below(4096)}]
  <2> PICK m \in Nat, e \in Nat :
           x.idx = <<m, e>> /\ m < 256 /\ e < 4096
    BY <1>3 DEF Below
  <2>1. x.type = "ELEMENT"
    BY <1>3
  <2>2. Len(numbers) = 2 /\ numbers[1] = m /\ numbers[2] = e
    OBVIOUS
  <2>3. /\ Digits(m) \in Nat /\ Digits(m) <= 3
        /\ Digits(e) \in Nat /\ Digits(e) <= 4
    BY ONLY IndexDigits, m \in Nat, m < 256, e \in Nat, e < 4096
  <2>4. TwoNumbers(numbers, m, e)
    BY ONLY <2>2, <2>3 DEF TwoNumbers
  <2>5. Printed(numbers) = Digits(m) + Digits(e) + 2
    BY ONLY <2>4, PrintedTwo
  <2>6. StrLength(i) = 5 + Printed(numbers)
    BY ONLY <1>0, <2>1, StringLength
  <2> QED BY <2>3, <2>5, <2>6
<1>4. CASE x \in [type : {"SUB_ELEMENT"},
                  idx : {<<m, e, s>> : m \in Below(256), e \in Below(4096), s \in Below(256)}]
  <2> PICK m \in Nat, e \in Nat, s \in Nat :
           x.idx = <<m, e, s>> /\ m < 256 /\ e < 4096 /\ s < 256
    BY <1>4 DEF Below
  <2>1. x.type = "SUB_ELEMENT"
    BY <1>4
  <2>2. Len(numbers) = 3 /\ numbers[1] = m /\ numbers[2] = e /\ numbers[3] = s
    OBVIOUS
  <2>3. /\ Digits(m) \in Nat /\ Digits(m) <= 3
        /\ Digits(e) \in Nat /\ Digits(e) <= 4
        /\ Digits(s) \in Nat /\ Digits(s) <= 3
    BY ONLY IndexDigits, m \in Nat, m < 256, e \in Nat, e < 4096, s \in Nat, s < 256
  <2>4. ThreeNumbers(numbers, m, e, s)
    BY ONLY <2>2, <2>3 DEF ThreeNumbers
  <2>5. Printed(numbers) = Digits(m) + Digits(e) + Digits(s) + 3
    BY ONLY <2>4, PrintedThree
  <2>6. StrLength(i) = 6 + Printed(numbers)
    BY ONLY <1>0, <2>1, StringLength
  <2> QED BY <2>3, <2>5, <2>6
<1>5. CASE x \in [type : {"API"},
                  idx : {<<m, a>> : m \in Below(256), a \in Below(16)}]
  <2> PICK m \in Nat, a \in Nat :
           x.idx = <<m, a>> /\ m < 256 /\ a < 16
    BY <1>5 DEF Below
  <2>1. x.type = "API"
    BY <1>5
  <2>2. Len(numbers) = 2 /\ numbers[1] = m /\ numbers[2] = a
    OBVIOUS
  <2>3. /\ Digits(m) \in Nat /\ Digits(m) <= 3
        /\ Digits(a) \in Nat /\ Digits(a) <= 3
    BY ONLY IndexDigits, m \in Nat, m < 256, a \in Nat, a < 16
  <2>4. TwoNumbers(numbers, m, a)
    BY ONLY <2>2, <2>3 DEF TwoNumbers
  <2>5. Printed(numbers) = Digits(m) + Digits(a) + 2
    BY ONLY <2>4, PrintedTwo
  <2>6. StrLength(i) = 5 + Printed(numbers)
    BY ONLY <1>0, <2>1, StringLength
  <2> QED BY <2>3, <2>5, <2>6
<1>6. CASE x \in [type : {"EVENT"},
                  idx : {<<m, n>> : m \in Below(256), n \in Below(64)}]
  <2> PICK m \in Nat, n \in Nat :
           x.idx = <<m, n>> /\ m < 256 /\ n < 64
    BY <1>6 DEF Below
  <2>1. x.type = "EVENT"
    BY <1>6
  <2>2. Len(numbers) = 2 /\ numbers[1] = m /\ numbers[2] = n
    OBVIOUS
  <2>3. /\ Digits(m) \in Nat /\ Digits(m) <= 3
        /\ Digits(n) \in Nat /\ Digits(n) <= 3
    BY ONLY IndexDigits, m \in Nat, m < 256, n \in Nat, n < 64
  <2>4. TwoNumbers(numbers, m, n)
    BY ONLY <2>2, <2>3 DEF TwoNumbers
  <2>5. Printed(numbers) = Digits(m) + Digits(n) + 2
    BY ONLY <2>4, PrintedTwo
  <2>6. StrLength(i) = 5 + Printed(numbers)
    BY ONLY <1>0, <2>1, StringLength
  <2> QED BY <2>3, <2>5, <2>6
<1>7. CASE x \in [type : {"NOTIFICATION"},
                  idx : {<<m, n>> : m \in Below(256), n \in Below(64)}]
  <2> PICK m \in Nat, n \in Nat :
           x.idx = <<m, n>> /\ m < 256 /\ n < 64
    BY <1>7 DEF Below
  <2>1. x.type = "NOTIFICATION"
    BY <1>7
  <2>2. Len(numbers) = 2 /\ numbers[1] = m /\ numbers[2] = n
    OBVIOUS
  <2>3. /\ Digits(m) \in Nat /\ Digits(m) <= 3
        /\ Digits(n) \in Nat /\ Digits(n) <= 3
    BY ONLY IndexDigits, m \in Nat, m < 256, n \in Nat, n < 64
  <2>4. TwoNumbers(numbers, m, n)
    BY ONLY <2>2, <2>3 DEF TwoNumbers
  <2>5. Printed(numbers) = Digits(m) + Digits(n) + 2
    BY ONLY <2>4, PrintedTwo
  <2>6. StrLength(i) = 5 + Printed(numbers)
    BY ONLY <1>0, <2>1, StringLength
  <2> QED BY <2>3, <2>5, <2>6
<1> QED BY <1>1, <1>2, <1>3, <1>4, <1>5, <1>6, <1>7 DEF Meaning

(***************************************************************************)
(* The theorem                                                             *)
(***************************************************************************)
IdInv == Valid(id) => meant \in Meaning /\ id = Encode(meant)

LEMMA MeaningsFit == ASSUME FieldsFit PROVE Meanings \subseteq Meaning
BY DEF FieldsFit, Meanings, Meaning

LEMMA IdMade == ASSUME FieldsFit, MakeId PROVE IdInv'
BY MeaningsFit DEF MakeId, IdInv

LEMMA IdBuilt == ASSUME FieldsFit, IdInv, BuildId PROVE IdInv'
<1> PICK m : m = MeantModule
  OBVIOUS
<1>1. meant \in Meaning /\ id = Encode(meant)
  BY DEF BuildId, IdInv
<1>2. GetModuleIdx(id) = m
  BY <1>1, EncodedStands DEF Stands, MeantModule
<1>3. m \in Below(256)
  BY <1>1 DEF Meaning, MeantModule, Below
<1>4. CASE /\ id' = BuildModuleId(id)
           /\ meant' = [type |-> "MODULE", idx |-> <<m>>]
  <2>1. meant' \in Meaning
    BY <1>3, <1>4 DEF Meaning
  <2>2. id' = Encode(meant')
    BY <1>2, <1>4 DEF BuildModuleId, Encode
  <2> QED BY <2>1, <2>2 DEF IdInv
<1>5. ASSUME NEW e \in ElementIdx, id' = BuildElementId(id, e),
             meant' = [type |-> "ELEMENT", idx |-> <<m, e>>]
      PROVE  IdInv'
  <2>1. meant' \in Meaning
    BY <1>3, <1>5 DEF Meaning, FieldsFit
  <2>2. id' = Encode(meant')
    BY <1>2, <1>5 DEF BuildElementId, Encode
  <2> QED BY <2>1, <2>2 DEF IdInv
<1>6. ASSUME NEW a \in ApiIdx, id' = BuildApiId(id, a),
             meant' = [type |-> "API", idx |-> <<m, a>>]
      PROVE  IdInv'
  <2>1. meant' \in Meaning
    BY <1>3, <1>6 DEF Meaning, FieldsFit
  <2>2. id' = Encode(meant')
    BY <1>2, <1>6 DEF BuildApiId, Encode
  <2> QED BY <2>1, <2>2 DEF IdInv
<1> QED BY <1>4, <1>5, <1>6 DEF BuildId

(* For any indices that fit their fields, and however an identifier came   *)
(* about: it is equal to that of what it stands for and of nothing else,   *)
(* its indices are read back, and fwk_id_str has room for its string.      *)
THEOREM IdentifiersFaithful == ASSUME FieldsFit PROVE IdSpec => []IdsFaithful
<1>1. IdInit => IdInv
  BY DEF IdInit, IdInv, Zeroed, IdOf, Valid, FwkIdTypes
<1>2. IdInv /\ [IdNext]_idVars => IdInv'
  <2>1. ASSUME IdInv, UNCHANGED idVars PROVE IdInv'
    BY <2>1 DEF IdInv, idVars, Valid
  <2> QED BY <2>1, IdMade, IdBuilt DEF IdNext
<1>3. IdInv => IdsFaithful
  <2> SUFFICES ASSUME IdInv, Valid(id) PROVE IdsFaithful
    BY DEF IdsFaithful
  <2>1. meant \in Meaning /\ id = Encode(meant)
    BY DEF IdInv
  <2>2. id.type = meant.type /\ StrNumbers(id) = meant.idx
    BY <2>1, EncodedStands DEF Stands
  <2>3. StrLength(id) < STR_SIZE
    BY <2>1, StringsFit
  <2>4. \A x \in Meanings : id = Encode(x) <=> x = meant
    BY <2>1, MeaningsFit, StandsForOne
  <2> QED BY <2>2, <2>3, <2>4 DEF IdsFaithful, IsType, IsEqual
<1> QED BY <1>1, <1>2, <1>3, PTL DEF IdSpec

(***************************************************************************)
(* The rpmsg endpoints: their addresses                                    *)
(***************************************************************************)

CreateLocked == {"address", "new_prev", "new_next", "next_prev", "prev_next"}
Locked == CreateLocked \cup {"registered", "unlock", "unregister",
                             "del_prev", "del_next", "del_self"}
Steps == Locked \cup {"idle", "announce", "farewell"}
Calls == [step : Steps, ept : Endpoints \cup {Nobody},
          src : Nat \cup {ANY}, dst : Nat \cup {ANY}]

(* An endpoint has an address of its own: it is registered or about to be. *)
Addressed(e) ==
  owners[e] # Nobody \/ \E c \in Callers : Linking(c) /\ call[c].ept = e

(* One that is being taken off has given its address back.                 *)
Removing(c) == call[c].step \in {"del_prev", "del_next"}

(* A caller works on an endpoint of its own, in a state that fits, and one *)
(* that writes holds the lock.                                             *)
CallFits(c) ==
  /\ IF At(c, "idle") THEN call[c].ept = Nobody ELSE call[c].ept \in Endpoints
  /\ call[c].step \in Locked => lock = c
  /\ call[c].step \in CreateLocked \cup {"del_prev", "del_next", "del_self"}
       => owners[call[c].ept] = Nobody
  /\ call[c].step \in {"registered", "announce", "farewell", "unregister"}
       => owners[call[c].ept] # Nobody

CallsInv ==
  /\ addr \in [Endpoints -> Nat \cup {ANY}] /\ dest \in [Endpoints -> Nat \cup {ANY}]
  /\ call \in [Callers -> Calls]
  /\ owners \in [Endpoints -> Nat \cup {ANY, Nobody}]
  /\ bitmap \subseteq 0..(BmpSize - 1)
  /\ \A c \in Callers : CallFits(c)
  /\ \A c, d \in Callers : call[c].ept = call[d].ept /\ call[c].ept # Nobody => c = d
  /\ \A e \in Endpoints : owners[e] # Nobody => owners[e] = addr[e]

AddressInv ==
  /\ CallsInv
  /\ \A e \in Endpoints : Addressed(e) /\ addr[e] # ANY => addr[e] \in bitmap
  /\ \A a \in bitmap : \E e \in Endpoints : Addressed(e) /\ addr[e] = a
  /\ \A e, f \in Endpoints :
       Addressed(e) /\ Addressed(f) /\ addr[e] = addr[f] /\ addr[e] # ANY => e = f
  /\ \A c \in Callers : Removing(c) => addr[call[c].ept] \notin bitmap

LEMMA OwnersMean == AddressInv => AddressesOwned
<1> SUFFICES ASSUME AddressInv PROVE AddressesOwned
  OBVIOUS
<1>0. ANY # Nobody /\ Nobody \notin Nat /\ ANY \notin Nat /\ Nobody \notin Endpoints
  BY RpmsgAssumption
<1>1. \A e \in Endpoints : addr[e] \in Nat \cup {ANY}
  BY DEF AddressInv, CallsInv
<1>2. ASSUME NEW e \in Endpoints, NEW f \in Endpoints, e # f,
             owners[e] \notin {ANY, Nobody}
      PROVE  owners[e] # owners[f]
  BY <1>0, <1>2 DEF AddressInv, CallsInv, Addressed
<1> DEFINE owned == {owners[e] : e \in Endpoints}
           linking == {addr[call[c].ept] : c \in {x \in Callers : Linking(x)}}
<1>3. ASSUME NEW a \in bitmap PROVE a \in (owned \cup linking) \ {ANY, Nobody}
  <2> PICK e \in Endpoints : Addressed(e) /\ addr[e] = a
    BY <1>3 DEF AddressInv
  <2>1. a \in Nat
    BY <1>3, RpmsgAssumption DEF AddressInv, CallsInv
  <2>2. CASE owners[e] # Nobody
    <3>1. owners[e] = a
      BY <2>2 DEF AddressInv, CallsInv
    <3> QED BY <1>0, <2>1, <3>1
  <2>3. CASE \E c \in Callers : Linking(c) /\ call[c].ept = e
    BY <1>0, <2>1, <2>3
  <2> QED BY <2>2, <2>3 DEF Addressed
<1>4. ASSUME NEW e \in Endpoints, owners[e] \notin {ANY, Nobody}
      PROVE  owners[e] \in bitmap
  BY <1>4 DEF AddressInv, CallsInv, Addressed
<1>5. ASSUME NEW c \in Callers, Linking(c), addr[call[c].ept] # ANY
      PROVE  addr[call[c].ept] \in bitmap
  <2>1. call[c].ept \in Endpoints
    BY <1>5 DEF AddressInv, CallsInv, CallFits, At, Linking
  <2> QED BY <1>5, <2>1 DEF AddressInv, Addressed
<1>6. bitmap = (owned \cup linking) \ {ANY, Nobody}
  BY <1>3, <1>4, <1>5
<1> QED BY <1>2, <1>6 DEF AddressesOwned

(***************************************************************************)
(* The rpmsg endpoints: calls                                              *)
(***************************************************************************)
(* A step of caller c: it goes to new, works on its endpoint only, and     *)
(* takes or releases the lock if at all for itself.                        *)
Moves(c, new) ==
  /\ call' = [call EXCEPT ![c] = new] /\ new \in Calls
  /\ \/ new.ept = call[c].ept \/ new.ept = Nobody
     \/ new.ept \in Endpoints /\ ~Busy(new.ept)
  /\ \/ lock' = lock
     \/ lock = Nobody /\ lock' = c
     \/ lock = c /\ lock' = Nobody
  /\ owners' \in [Endpoints -> Nat \cup {ANY, Nobody}]
  /\ \A e \in Endpoints : e # call[c].ept => owners'[e] = owners[e]

LEMMA OthersKeep ==
  ASSUME CallsInv, NEW c \in Callers, NEW new, Moves(c, new)
  PROVE  /\ call' \in [Callers -> Calls]
         /\ call'[c] = new
         /\ \A d \in Callers : d # c => call'[d] = call[d] /\ CallFits(d)'
         /\ \A d, f \in Callers :
              call'[d].ept = call'[f].ept /\ call'[d].ept # Nobody => d = f
<1>0. Nobody \notin Callers \cup Endpoints
  BY RpmsgAssumption
<1>1. call' \in [Callers -> Calls] /\ call'[c] = new
  BY DEF CallsInv, Moves
<1>2. \A d \in Callers : d # c => call'[d] = call[d]
  BY DEF CallsInv, Moves
<1>3. \A d \in Callers : call[d].ept \in Endpoints \cup {Nobody}
  BY DEF CallsInv, Calls
<1>4. \A d \in Callers : d # c /\ call[d].ept # Nobody =>
        call[d].ept # call[c].ept /\ call[d].ept # new.ept
  BY <1>3 DEF CallsInv, Moves, Busy
<1>5. ASSUME NEW d \in Callers, d # c PROVE CallFits(d)'
  <2>1. call'[d] = call[d] /\ CallFits(d)
    BY <1>2, <1>5 DEF CallsInv
  <2>2. call[d].ept \in Endpoints => owners'[call[d].ept] = owners[call[d].ept]
    BY <1>0, <1>4, <1>5 DEF Moves
  <2>3. lock = d => lock' = d
    BY <1>0, <1>5 DEF Moves
  <2>4. IF At(d, "idle") THEN call[d].ept = Nobody ELSE call[d].ept \in Endpoints
    BY <2>1 DEF CallFits
  <2>5. At(d, "idle") => call[d].step \notin Locked \cup {"announce", "farewell"}
    BY DEF At, Locked, CreateLocked
  <2>6. CreateLocked \subseteq Locked
    BY DEF Locked
  <2> QED BY <2>1, <2>2, <2>3, <2>4, <2>5, <2>6 DEF CallFits, At, Locked
<1>6. ASSUME NEW d \in Callers, NEW f \in Callers,
             call'[d].ept = call'[f].ept, call'[d].ept # Nobody
      PROVE  d = f
  BY <1>1, <1>2, <1>4, <1>6 DEF CallsInv
<1> QED BY <1>1, <1>2, <1>5, <1>6

LEMMA CallsKept ==
  ASSUME CallsInv, NEW c \in Callers, NEW new, Moves(c, new), CallFits(c)',
         addr' \in [Endpoints -> Nat \cup {ANY}],
         dest' \in [Endpoints -> Nat \cup {ANY}],
         bitmap' \subseteq 0..(BmpSize - 1),
         \A e \in Endpoints : owners'[e] # Nobody => owners'[e] = addr'[e]
  PROVE  CallsInv'
<1>1. \A d \in Callers : CallFits(d)'
  BY OthersKeep
<1>2. owners' \in [Endpoints -> Nat \cup {ANY, Nobody}]
  BY DEF Moves
<1> QED BY <1>1, <1>2, OthersKeep DEF CallsInv

LinkSteps == {"new_prev", "new_next", "next_prev", "prev_next"}

LEMMA OthersAddressed ==
  ASSUME CallsInv, NEW c \in Callers, NEW new, Moves(c, new),
         NEW e \in Endpoints, e # call[c].ept,
         e # new.ept \/ new.step \notin LinkSteps
  PROVE  Addressed(e)' <=> Addressed(e)
<1>1. owners'[e] = owners[e]
  BY DEF Moves
<1>2. \A d \in Callers :
        (Linking(d)' /\ call'[d].ept = e) <=> (Linking(d) /\ call[d].ept = e)
  BY OthersKeep DEF Linking, LinkSteps
<1> QED BY <1>1, <1>2 DEF Addressed

LEMMA OwnAddressed ==
  ASSUME CallsInv, NEW c \in Callers, NEW new, Moves(c, new),
         call[c].ept \in Endpoints, new.ept \in {call[c].ept, Nobody}
  PROVE  /\ Addressed(call[c].ept) <=>
              owners[call[c].ept] # Nobody \/ call[c].step \in LinkSteps
         /\ \A e \in Endpoints : e = call[c].ept =>
              (Addressed(e)' <=> \/ owners'[e] # Nobody
                                 \/ new.ept = e /\ new.step \in LinkSteps)
<1>0. Nobody \notin Endpoints
  BY RpmsgAssumption
<1>1. \A d \in Callers : call[d].ept = call[c].ept => d = c
  BY <1>0 DEF CallsInv
<1>2. \A d \in Callers : d # c => call'[d] = call[d]
  BY OthersKeep
<1>3. call'[c] = new
  BY OthersKeep
<1>4. Addressed(call[c].ept) <=>
        owners[call[c].ept] # Nobody \/ call[c].step \in LinkSteps
  BY <1>1 DEF Addressed, Linking, LinkSteps
<1>5. ASSUME NEW e \in Endpoints, e = call[c].ept
      PROVE  Addressed(e)' <=> \/ owners'[e] # Nobody
                               \/ new.ept = e /\ new.step \in LinkSteps
  <2>1. \A d \in Callers : Linking(d)' /\ call'[d].ept = e =>
          d = c /\ new.ept = e /\ new.step \in LinkSteps
    BY <1>1, <1>2, <1>3, <1>5 DEF Linking, LinkSteps
  <2>2. new.ept = e /\ new.step \in LinkSteps => Linking(c)' /\ call'[c].ept = e
    BY <1>3 DEF Linking, LinkSteps
  <2> QED BY <2>1, <2>2 DEF Addressed
<1> QED BY <1>4, <1>5

(* A step that leaves addresses alone.                                     *)
LEMMA AddressesKept ==
  ASSUME AddressInv, CallsInv', NEW c \in Callers, NEW new, Moves(c, new),
         UNCHANGED <<addr, bitmap>>,
         \A e \in Endpoints : Addressed(e)' <=> Addressed(e),
         new.step \in {"del_prev", "del_next"} =>
           Removing(c) /\ new.ept = call[c].ept
  PROVE  AddressInv'
<1>1. \A d \in Callers : Removing(d)' => Removing(d) /\ call'[d].ept = call[d].ept
  BY OthersKeep DEF AddressInv, Removing
<1>2. addr' = addr /\ bitmap' = bitmap
  OBVIOUS
<1>3. \A d \in Callers : Removing(d)' => addr'[call'[d].ept] \notin bitmap'
  BY <1>1, <1>2 DEF AddressInv
<1>4. \A e \in Endpoints : Addressed(e)' /\ addr'[e] # ANY => addr'[e] \in bitmap'
  BY <1>2 DEF AddressInv
<1>5. \A a \in bitmap' : \E e \in Endpoints : Addressed(e)' /\ addr'[e] = a
  BY <1>2 DEF AddressInv
<1>6. \A e, f \in Endpoints :
        Addressed(e)' /\ Addressed(f)' /\ addr'[e] = addr'[f] /\ addr'[e] # ANY
          => e = f
  BY <1>2 DEF AddressInv
<1> QED BY <1>3, <1>4, <1>5, <1>6 DEF AddressInv

(***************************************************************************)
(* The rpmsg endpoints: steps that keep the addresses                      *)
(***************************************************************************)
LEMMA QuietStep ==
  ASSUME AddressInv, NEW c \in Callers, NEW new, Moves(c, new), CallFits(c)',
         UNCHANGED <<addr, dest, bitmap, owners>>,
         new.ept \in {call[c].ept, Nobody} \/ call[c].ept = Nobody,
         new.step \in LinkSteps <=> call[c].step \in LinkSteps,
         new.step \in LinkSteps => new.ept = call[c].ept,
         new.step \in {"del_prev", "del_next"} =>
           Removing(c) /\ new.ept = call[c].ept
  PROVE  AddressInv'
<1>1. CallsInv
  BY DEF AddressInv
<1>2. CallsInv'
  BY <1>1, CallsKept DEF CallsInv
<1>3. ASSUME NEW e \in Endpoints PROVE Addressed(e)' <=> Addressed(e)
  <2>0. Nobody \notin Endpoints
    BY RpmsgAssumption
  <2>1. CASE e = call[c].ept
    BY <1>1, <2>0, <2>1, OwnAddressed
  <2>2. CASE e # call[c].ept
    BY <1>1, <2>0, <2>2, OthersAddressed
  <2> QED BY <2>1, <2>2
<1> QED BY <1>2, <1>3, AddressesKept

LEMMA IsCalls ==
  ASSUME CallsInv, NEW c \in Callers, NEW step \in Steps
  PROVE  /\ Idle \in Calls
         /\ [call[c] EXCEPT !.step = step] \in Calls
         /\ [call[c] EXCEPT !.step = step].step = step
         /\ [call[c] EXCEPT !.step = step].ept = call[c].ept
<1>1. call[c] \in Calls
  BY DEF CallsInv
<1>2. Idle \in Calls
  BY DEF Idle, Calls, Steps
<1> QED BY <1>1, <1>2 DEF Calls

(* A caller goes on with its endpoint.                                     *)
LEMMA GoesOn ==
  ASSUME AddressInv, NEW c \in Callers, NEW step \in Steps, Goto(c, step),
         lock' = lock \/ Acquire(c) \/ Release(c),
         UNCHANGED <<addr, dest, bitmap, owners>>,
         ~At(c, "idle"), step # "idle",
         step \in Locked => lock' = c,
         step \notin CreateLocked \ LinkSteps,
         step \in LinkSteps <=> call[c].step \in LinkSteps,
         step \in {"registered", "announce", "farewell", "unregister"} =>
           call[c].step \in {"registered", "announce", "farewell", "unregister"},
         step \in {"del_prev", "del_next"} => Removing(c),
         step = "del_self" => call[c].step \in {"del_prev", "del_next", "del_self"}
  PROVE  AddressInv'
<1> PICK new : new = [call[c] EXCEPT !.step = step]
  OBVIOUS
<1>0. CallsInv
  BY DEF AddressInv
<1>1. new \in Calls /\ new.step = step /\ new.ept = call[c].ept
  BY <1>0, IsCalls
<1>2. call' = [call EXCEPT ![c] = new]
  BY DEF Goto
<1>7. owners \in [Endpoints -> Nat \cup {ANY, Nobody}] /\ owners' = owners
  BY <1>0 DEF CallsInv
<1>8. lock' = lock \/ (lock = Nobody /\ lock' = c) \/ (lock = c /\ lock' = Nobody)
  BY DEF Acquire, Release
<1>3. Moves(c, new)
  BY ONLY <1>1, <1>2, <1>7, <1>8 DEF Moves
<1>4. call'[c] = new
  BY <1>0, <1>2 DEF CallsInv
<1>5. CallFits(c)
  BY <1>0 DEF CallsInv
<1>6. CallFits(c)'
  BY <1>1, <1>4, <1>5 DEF CallFits, At, LinkSteps, CreateLocked, Removing
<1> QED BY <1>1, <1>3, <1>6, QuietStep

(* A caller returns.                                                       *)
LEMMA ReturnsIdle ==
  ASSUME AddressInv, NEW c \in Callers, Returns(c),
         lock' = lock \/ Release(c),
         UNCHANGED <<addr, dest, bitmap, owners>>,
         call[c].step \notin LinkSteps
  PROVE  AddressInv'
<1>0. CallsInv
  BY DEF AddressInv
<1> PICK new : new = Idle
  OBVIOUS
<1>1. new \in Calls /\ new.step = "idle" /\ new.ept = Nobody
  BY <1>0 DEF Idle, Calls, Steps
<1>2. call' = [call EXCEPT ![c] = new]
  BY DEF Returns
<1>7. owners \in [Endpoints -> Nat \cup {ANY, Nobody}] /\ owners' = owners
  BY <1>0 DEF CallsInv
<1>8. lock' = lock \/ (lock = c /\ lock' = Nobody)
  BY DEF Release
<1>3. Moves(c, new)
  BY ONLY <1>1, <1>2, <1>7, <1>8 DEF Moves
<1>4. call'[c] = new
  BY <1>0, <1>2 DEF CallsInv
<1>5. CallFits(c)'
  BY <1>1, <1>4 DEF CallFits, At, Locked, CreateLocked
<1> QED BY <1>1, <1>3, <1>5, QuietStep DEF LinkSteps

LEMMA CallBegins ==
  ASSUME AddressInv, NEW c \in Callers, NEW e \in Endpoints, At(c, "idle"), ~Busy(e),
         NEW new \in Calls, call' = [call EXCEPT ![c] = new], new.ept = e,
         UNCHANGED <<addr, dest, bitmap, owners>>,
         \/ new.step = "address" /\ Acquire(c) /\ owners[e] = Nobody
         \/ new.step = "farewell" /\ lock' = lock /\ owners[e] # Nobody
  PROVE  AddressInv'
<1>0. CallsInv
  BY DEF AddressInv
<1>7. owners \in [Endpoints -> Nat \cup {ANY, Nobody}] /\ owners' = owners
  BY <1>0 DEF CallsInv
<1>8. lock' = lock \/ (lock = Nobody /\ lock' = c)
  BY DEF Acquire
<1>9. new.ept \in Endpoints /\ ~Busy(new.ept) /\ new \in Calls
  OBVIOUS
<1>10. call' = [call EXCEPT ![c] = new]
  OBVIOUS
<1>1. Moves(c, new)
  BY ONLY <1>7, <1>8, <1>9, <1>10 DEF Moves
<1>2. call'[c] = new
  BY <1>0 DEF CallsInv
<1>3. CallFits(c)'
  BY <1>2 DEF CallFits, At, Locked, CreateLocked, Acquire
<1>4. call[c].ept = Nobody
  BY <1>0 DEF CallsInv, CallFits
<1> QED BY <1>1, <1>3, <1>4, QuietStep DEF LinkSteps, At

(* A caller goes on, and what it writes are its endpoint and the bitmap.   *)
LEMMA MovesOn ==
  ASSUME CallsInv, NEW c \in Callers, NEW step \in Steps, Goto(c, step),
         lock' = lock, owners' \in [Endpoints -> Nat \cup {ANY, Nobody}],
         \A e \in Endpoints : e # call[c].ept => owners'[e] = owners[e]
  PROVE  \E new \in Calls : /\ new.step = step /\ new.ept = call[c].ept
                            /\ Moves(c, new) /\ call'[c] = new
<1> PICK new : new = [call[c] EXCEPT !.step = step]
  OBVIOUS
<1>1. new \in Calls /\ new.step = step /\ new.ept = call[c].ept
  BY IsCalls
<1>2. call' = [call EXCEPT ![c] = new]
  BY DEF Goto
<1>3. Moves(c, new)
  BY <1>1, <1>2 DEF Moves
<1>4. call'[c] = new
  BY <1>2 DEF CallsInv
<1> QED BY <1>1, <1>3, <1>4

(* rpmsg_init_ept with an address that is free, or with RPMSG_ADDR_ANY.    *)
LEMMA AddressTaken ==
  ASSUME AddressInv, NEW c \in Callers, NEW a \in (0..(BmpSize - 1)) \cup {ANY},
         At(c, "address"), a \notin bitmap, InitEpt(c, a),
         bitmap' = bitmap \cup ({a} \ {ANY}), UNCHANGED <<lock, owners>>
  PROVE  AddressInv'
<1>0. CallsInv /\ ANY \notin Nat /\ BmpSize \in Nat
  BY RpmsgAssumption DEF AddressInv
<1> PICK e : e = call[c].ept
  OBVIOUS
<1>1. CallFits(c) /\ call[c].step = "address"
  BY <1>0 DEF CallsInv, At
<1>2. e \in Endpoints /\ lock = c /\ owners[e] = Nobody
  BY <1>1 DEF CallFits, At, Locked, CreateLocked
<1>3. PICK new \in Calls : /\ new.step = "new_prev" /\ new.ept = e
                           /\ Moves(c, new) /\ call'[c] = new
  <2>1. "new_prev" \in Steps /\ Goto(c, "new_prev")
    BY DEF InitEpt, Steps, Locked, CreateLocked
  <2>2. owners' \in [Endpoints -> Nat \cup {ANY, Nobody}] /\ owners' = owners
    BY <1>0 DEF CallsInv
  <2> QED BY <1>0, <2>1, <2>2, MovesOn
<1>4. CallFits(c)'
  BY <1>2, <1>3 DEF CallFits, At, Locked, CreateLocked
<1>5. addr' = [addr EXCEPT ![e] = a] /\ dest' = [dest EXCEPT ![e] = call[c].dst]
  BY DEF InitEpt
<1>6. call[c].dst \in Nat \cup {ANY} /\ a \in Nat \cup {ANY}
  BY <1>0 DEF CallsInv, Calls
<1>7. /\ addr' \in [Endpoints -> Nat \cup {ANY}]
      /\ dest' \in [Endpoints -> Nat \cup {ANY}]
      /\ \A f \in Endpoints : addr'[f] = IF f = e THEN a ELSE addr[f]
  BY <1>0, <1>2, <1>5, <1>6 DEF CallsInv
<1>8. bitmap' \subseteq 0..(BmpSize - 1)
  BY <1>0 DEF CallsInv
<1>9. CallsInv'
  <2>1. \A f \in Endpoints : owners'[f] # Nobody => owners'[f] = addr'[f]
    BY <1>0, <1>2, <1>7 DEF CallsInv
  <2> QED BY <1>0, <1>3, <1>4, <1>7, <1>8, <2>1, CallsKept
<1>10. Addressed(e)' /\ ~Addressed(e)
  BY <1>0, <1>1, <1>2, <1>3, OwnAddressed DEF LinkSteps
<1>11. \A f \in Endpoints : f # e => (Addressed(f)' <=> Addressed(f))
  BY <1>0, <1>3, OthersAddressed
<1>12. \A f \in Endpoints : Addressed(f)' /\ addr'[f] # ANY => addr'[f] \in bitmap'
  BY <1>7, <1>10, <1>11 DEF AddressInv
<1>13. \A b \in bitmap' : \E f \in Endpoints : Addressed(f)' /\ addr'[f] = b
  <2> SUFFICES ASSUME NEW b \in bitmap'
               PROVE  \E f \in Endpoints : Addressed(f)' /\ addr'[f] = b
    OBVIOUS
  <2>1. CASE b \in bitmap
    <3> PICK f \in Endpoints : Addressed(f) /\ addr[f] = b
      BY <2>1 DEF AddressInv
    <3> QED BY <1>7, <1>10, <1>11
  <2>2. CASE b = a
    BY <1>2, <1>7, <1>10, <2>2
  <2> QED BY <2>1, <2>2
<1>14. \A f, g \in Endpoints :
         Addressed(f)' /\ Addressed(g)' /\ addr'[f] = addr'[g] /\ addr'[f] # ANY
           => f = g
  BY <1>7, <1>10, <1>11 DEF AddressInv
<1>15. ASSUME NEW d \in Callers, Removing(d)' PROVE addr'[call'[d].ept] \notin bitmap'
  <2>1. d # c
    BY <1>3, <1>15 DEF Removing
  <2>2. call'[d] = call[d] /\ CallFits(d)
    BY <1>0, <1>3, <2>1, OthersKeep DEF CallsInv
  <2>3. lock = d
    BY <1>15, <2>2 DEF Removing, CallFits, Locked
  <2> QED BY <1>2, <2>1, <2>3
<1> QED BY <1>9, <1>12, <1>13, <1>14, <1>15 DEF AddressInv

(* The endpoint is on the list: the address is its own for good.           *)
LEMMA EndpointLinked ==
  ASSUME AddressInv, NEW c \in Callers, LinkPrevNext(c) PROVE AddressInv'
<1>0. CallsInv /\ ANY # Nobody /\ Nobody \notin Nat
  BY RpmsgAssumption DEF AddressInv
<1> PICK e : e = call[c].ept
  OBVIOUS
<1>1. CallFits(c) /\ call[c].step = "prev_next"
  BY <1>0 DEF CallsInv, LinkPrevNext, At
<1>2. e \in Endpoints /\ lock = c /\ owners[e] = Nobody
  BY <1>1 DEF CallFits, At, Locked, CreateLocked
<1>3. /\ owners' = [owners EXCEPT ![e] = addr[e]]
      /\ UNCHANGED <<addr, dest, bitmap, lock>> /\ Goto(c, "registered")
  BY DEF LinkPrevNext, eptVars
<1>4. addr[e] \in Nat \cup {ANY}
  BY <1>0, <1>2 DEF CallsInv
<1>5. /\ owners' \in [Endpoints -> Nat \cup {ANY, Nobody}]
      /\ \A f \in Endpoints : owners'[f] = IF f = e THEN addr[e] ELSE owners[f]
  BY <1>0, <1>2, <1>3, <1>4 DEF CallsInv
<1>6. PICK new \in Calls : /\ new.step = "registered" /\ new.ept = e
                           /\ Moves(c, new) /\ call'[c] = new
  <2>1. "registered" \in Steps
    BY DEF Steps, Locked
  <2> QED BY <1>0, <1>3, <1>5, <2>1, MovesOn
<1>7. CallFits(c)'
  BY <1>0, <1>2, <1>3, <1>4, <1>5, <1>6 DEF CallFits, At, CreateLocked
<1>8. CallsInv'
  <2>1. \A f \in Endpoints : owners'[f] # Nobody => owners'[f] = addr'[f]
    BY <1>0, <1>3, <1>5 DEF CallsInv
  <2> QED BY <1>0, <1>3, <1>6, <1>7, <2>1, CallsKept DEF CallsInv
<1>9. ASSUME NEW f \in Endpoints PROVE Addressed(f)' <=> Addressed(f)
  <2>1. CASE f = e
    <3>1. Addressed(f)
      BY <1>0, <1>1, <1>2, <1>6, <2>1, OwnAddressed DEF LinkSteps
    <3>2. owners'[f] # Nobody
      BY <1>0, <1>4, <1>5, <2>1
    <3> QED BY <3>1, <3>2 DEF Addressed
  <2>2. CASE f # e
    BY <1>0, <1>6, <2>2, OthersAddressed
  <2> QED BY <2>1, <2>2
<1> QED BY <1>3, <1>6, <1>8, <1>9, AddressesKept

(* The endpoint gives its address back.                                    *)
LEMMA AddressReleased ==
  ASSUME AddressInv, NEW c \in Callers, ReleaseAddress(c) PROVE AddressInv'
<1>0. CallsInv /\ ANY # Nobody /\ Nobody \notin Nat
  BY RpmsgAssumption DEF AddressInv
<1> PICK e : e = call[c].ept
  OBVIOUS
<1>1. CallFits(c) /\ call[c].step = "unregister"
  BY <1>0 DEF CallsInv, ReleaseAddress, At
<1>2. e \in Endpoints /\ lock = c /\ owners[e] # Nobody
  BY <1>1 DEF CallFits, At, Locked
<1>3. /\ owners' = [owners EXCEPT ![e] = Nobody]
      /\ bitmap' = bitmap \ {addr[e]}
      /\ UNCHANGED <<addr, dest, lock>> /\ Goto(c, "del_prev")
  BY DEF ReleaseAddress, eptVars
<1>5. /\ owners' \in [Endpoints -> Nat \cup {ANY, Nobody}]
      /\ \A f \in Endpoints : owners'[f] = IF f = e THEN Nobody ELSE owners[f]
  BY <1>0, <1>2, <1>3 DEF CallsInv
<1>6. PICK new \in Calls : /\ new.step = "del_prev" /\ new.ept = e
                           /\ Moves(c, new) /\ call'[c] = new
  <2>1. "del_prev" \in Steps
    BY DEF Steps, Locked
  <2> QED BY <1>0, <1>3, <1>5, <2>1, MovesOn
<1>7. CallFits(c)'
  BY <1>2, <1>3, <1>5, <1>6 DEF CallFits, At, CreateLocked
<1>8. CallsInv'
  <2>1. \A f \in Endpoints : owners'[f] # Nobody => owners'[f] = addr'[f]
    BY <1>0, <1>3, <1>5 DEF CallsInv
  <2>2. bitmap' \subseteq 0..(BmpSize - 1)
    BY <1>0, <1>3 DEF CallsInv
  <2> QED BY <1>0, <1>3, <1>6, <1>7, <2>1, <2>2, CallsKept DEF CallsInv
<1>10. ~Addressed(e)' /\ Addressed(e)
  BY <1>0, <1>1, <1>2, <1>5, <1>6, OwnAddressed DEF LinkSteps
<1>11. \A f \in Endpoints : f # e => (Addressed(f)' <=> Addressed(f))
  BY <1>0, <1>6, OthersAddressed
<1>12. \A f \in Endpoints : Addressed(f)' /\ addr'[f] # ANY => addr'[f] \in bitmap'
  BY <1>2, <1>3, <1>10, <1>11 DEF AddressInv
<1>13. \A b \in bitmap' : \E f \in Endpoints : Addressed(f)' /\ addr'[f] = b
  <2> SUFFICES ASSUME NEW b \in bitmap'
               PROVE  \E f \in Endpoints : Addressed(f)' /\ addr'[f] = b
    OBVIOUS
  <2> PICK f \in Endpoints : Addressed(f) /\ addr[f] = b
    BY <1>3 DEF AddressInv
  <2> QED BY <1>3, <1>11
<1>14. \A f, g \in Endpoints :
         Addressed(f)' /\ Addressed(g)' /\ addr'[f] = addr'[g] /\ addr'[f] # ANY
           => f = g
  BY <1>3, <1>10, <1>11 DEF AddressInv
<1>15. ASSUME NEW d \in Callers, Removing(d)' PROVE addr'[call'[d].ept] \notin bitmap'
  <2>1. CASE d = c
    BY <1>3, <1>6, <2>1
  <2>2. CASE d # c
    <3>1. call'[d] = call[d] /\ CallFits(d)
      BY <1>0, <1>6, <2>2, OthersKeep DEF CallsInv
    <3>2. lock = d
      BY <1>15, <3>1 DEF Removing, CallFits, Locked
    <3> QED BY <1>2, <2>2, <3>2
  <2> QED BY <2>1, <2>2
<1> QED BY <1>8, <1>12, <1>13, <1>14, <1>15 DEF AddressInv

(* metal_bitmap_next_clear_bit finds a bit that is clear, if there is one. *)
LEMMA NextClearBitIsClear ==
  ASSUME bitmap \subseteq 0..(BmpSize - 1)
  PROVE  NextClearBit \in 0..BmpSize /\ NextClearBit \notin bitmap
<1> DEFINE T == (0..BmpSize) \ bitmap
<1>1. BmpSize \in Nat
  BY RpmsgAssumption
<1>2. BmpSize \in T
  BY <1>1
<1>3. T \subseteq Nat
  BY <1>1
<1>4. PICK a \in T : \A b \in T : a <= b
  BY ONLY <1>2, <1>3, Pure!LeastNumber
<1>5. \A b \in 0..(a - 1) : b \in bitmap
  BY <1>1, <1>4
<1>6. \E x \in 0..BmpSize : /\ x \notin bitmap
                            /\ \A b \in 0..(x - 1) : b \in bitmap
  BY <1>4, <1>5
<1> QED BY <1>6, Zenon DEF NextClearBit

LEMMA AddressInit == RpmsgInit => AddressInv
<1> SUFFICES ASSUME RpmsgInit PROVE AddressInv
  OBVIOUS
<1>0. BmpSize \in Nat /\ Nobody \notin Endpoints
  BY RpmsgAssumption
<1>1. \A c \in Callers : call[c] = Idle
  BY DEF RpmsgInit
<1>2. \A c \in Callers : call[c].step = "idle" /\ call[c].ept = Nobody
  BY <1>1 DEF Idle
<1>3. \A c \in Callers : CallFits(c)
  BY <1>2 DEF CallFits, At, Locked, CreateLocked
<1>4. call \in [Callers -> Calls]
  BY DEF RpmsgInit, Idle, Calls, Steps
<1>5. CallsInv
  BY <1>2, <1>3, <1>4 DEF CallsInv, RpmsgInit
<1>6. \A e \in Endpoints : ~Addressed(e)
  BY <1>0, <1>2 DEF Addressed, RpmsgInit
<1>7. bitmap = {} /\ \A c \in Callers : ~Removing(c)
  BY <1>2 DEF RpmsgInit, Removing
<1> QED BY <1>5, <1>6, <1>7 DEF AddressInv

LEMMA CreateKeepsAddresses ==
  ASSUME AddressInv, NEW c \in Callers, CreateSteps(c) PROVE AddressInv'
<1>0. /\ CallsInv /\ CallFits(c) /\ BmpSize \in Nat /\ ANY \notin Nat
      /\ bitmap \subseteq 0..(BmpSize - 1)
  BY RpmsgAssumption DEF AddressInv, CallsInv
<1>1. CASE TakeAnyAddress(c)
  <2>1. NextClearBit \in 0..BmpSize /\ NextClearBit \notin bitmap
    BY <1>0, NextClearBitIsClear
  <2>2. CASE /\ NextClearBit < BmpSize /\ InitEpt(c, NextClearBit)
             /\ bitmap' = bitmap \cup {NextClearBit}
    <3>1. NextClearBit \in 0..(BmpSize - 1) /\ NextClearBit # ANY
      BY <1>0, <2>1, <2>2
    <3> QED BY <1>1, <2>1, <2>2, <3>1, AddressTaken DEF TakeAnyAddress
  <2>3. CASE InitEpt(c, ANY) /\ UNCHANGED bitmap
    <3>3. \A b \in bitmap : b \in Nat
      BY <1>0
    <3>1. ANY \notin bitmap
      BY <1>0, <3>3, Zenon
    <3>2. bitmap' = bitmap \cup ({ANY} \ {ANY})
      BY <2>3
    <3> QED BY <1>1, <2>3, <3>1, <3>2, AddressTaken DEF TakeAnyAddress
  <2> QED BY <1>1, <2>2, <2>3 DEF TakeAnyAddress
<1>2. CASE TakeAddress(c)
  <2> PICK a : a = call[c].src
    OBVIOUS
  <2>1. a \in 0..(BmpSize - 1) /\ a \notin bitmap /\ a # ANY
    BY <1>0, <1>2 DEF TakeAddress
  <2>2. InitEpt(c, a) /\ bitmap' = bitmap \cup ({a} \ {ANY})
    BY <1>2, <2>1 DEF TakeAddress
  <2> QED BY <1>2, <2>1, <2>2, AddressTaken DEF TakeAddress
<1>3. CASE AddressNotFree(c)
  BY <1>3, ReturnsIdle DEF AddressNotFree, eptVars, At, LinkSteps
<1>4. CASE LinkNewPrev(c)
  BY <1>0, <1>4, GoesOn DEF LinkNewPrev, eptVars, At, LinkSteps, Steps, Locked,
                            CreateLocked, CallFits
<1>5. CASE LinkNewNext(c)
  BY <1>0, <1>5, GoesOn DEF LinkNewNext, eptVars, At, LinkSteps, Steps, Locked,
                            CreateLocked, CallFits
<1>6. CASE LinkNextPrev(c)
  BY <1>0, <1>6, GoesOn DEF LinkNextPrev, eptVars, At, LinkSteps, Steps, Locked,
                            CreateLocked, CallFits
<1>7. CASE LinkPrevNext(c)
  BY <1>7, EndpointLinked
<1>8. CASE Registered(c)
  <2>1. CASE Goto(c, "announce")
    BY <1>0, <1>8, <2>1, GoesOn DEF Registered, eptVars, At, LinkSteps, Steps,
                            Locked, CreateLocked
  <2>2. CASE Returns(c)
    BY <1>8, <2>2, ReturnsIdle DEF Registered, eptVars, At, LinkSteps
  <2> QED BY <1>8, <2>1, <2>2 DEF Registered
<1>9. CASE Announced(c)
  <2>1. CASE Goto(c, "unlock")
    BY <1>0, <1>9, <2>1, GoesOn DEF Announced, eptVars, At, LinkSteps, Steps,
                            Locked, CreateLocked, Acquire
  <2>2. CASE Goto(c, "unregister")
    BY <1>0, <1>9, <2>2, GoesOn DEF Announced, eptVars, At, LinkSteps, Steps,
                            Locked, CreateLocked, Acquire
  <2> QED BY <1>9, <2>1, <2>2 DEF Announced
<1>10. CASE Unlock(c)
  BY <1>10, ReturnsIdle DEF Unlock, eptVars, At, LinkSteps
<1> QED BY <1>1, <1>2, <1>3, <1>4, <1>5, <1>6, <1>7, <1>8, <1>9, <1>10
        DEF CreateSteps

LEMMA DestroyKeepsAddresses ==
  ASSUME AddressInv, NEW c \in Callers, DestroySteps(c) PROVE AddressInv'
<1>0. CallsInv /\ CallFits(c)
  BY DEF AddressInv, CallsInv
<1>1. CASE DestroyLocks(c)
  BY <1>0, <1>1, GoesOn DEF DestroyLocks, eptVars, At, LinkSteps, Steps, Locked,
                            CreateLocked, Acquire
<1>2. CASE ReleaseAddress(c)
  BY <1>2, AddressReleased
<1>3. CASE DelNextPrev(c)
  BY <1>0, <1>3, GoesOn DEF DelNextPrev, eptVars, At, LinkSteps, Steps, Locked,
                            CreateLocked, CallFits, Removing
<1>4. CASE DelPrevNext(c)
  BY <1>0, <1>4, GoesOn DEF DelPrevNext, eptVars, At, LinkSteps, Steps, Locked,
                            CreateLocked, CallFits
<1>5. CASE DelSelf(c)
  BY <1>0, <1>5, GoesOn DEF DelSelf, eptVars, At, LinkSteps, Steps, Locked,
                            CreateLocked, CallFits
<1> QED BY <1>1, <1>2, <1>3, <1>4, <1>5 DEF DestroySteps

LEMMA AddressNext == AddressInv /\ [RpmsgNext]_rpmsgVars => AddressInv'
<1> SUFFICES ASSUME AddressInv, [RpmsgNext]_rpmsgVars PROVE AddressInv'
  OBVIOUS
<1>0. Nobody \notin Endpoints /\ Sources \cup Dests \subseteq Nat \cup {ANY}
  BY RpmsgAssumption
<1>1. ASSUME NEW c \in Callers, NEW e \in Endpoints, NEW src \in Sources,
             NEW dst \in Dests, BeginCreate(c, e, src, dst)
      PROVE  AddressInv'
  <2> PICK new : new = [step |-> "address", ept |-> e, src |-> src, dst |-> dst]
    OBVIOUS
  <2>1. new \in Calls /\ new.ept = e /\ new.step = "address"
    BY <1>0 DEF Calls, Steps, Locked, CreateLocked
  <2>2. call' = [call EXCEPT ![c] = new]
    BY <1>1 DEF BeginCreate
  <2> QED BY <1>1, <2>1, <2>2, CallBegins DEF BeginCreate, eptVars
<1>2. ASSUME NEW c \in Callers, NEW e \in Endpoints, BeginDestroy(c, e)
      PROVE  AddressInv'
  <2> PICK new : new = [Idle EXCEPT !.step = "farewell", !.ept = e]
    OBVIOUS
  <2>1. new \in Calls /\ new.ept = e /\ new.step = "farewell"
    BY DEF Idle, Calls, Steps
  <2>2. call' = [call EXCEPT ![c] = new]
    BY <1>2 DEF BeginDestroy
  <2>3. /\ At(c, "idle") /\ ~Busy(e) /\ owners[e] # Nobody
        /\ UNCHANGED <<addr, dest, bitmap, owners>> /\ lock' = lock
    BY <1>2 DEF BeginDestroy, eptVars
  <2>4. AddressInv
    OBVIOUS
  <2> QED BY ONLY <2>1, <2>2, <2>3, <2>4, CallBegins
<1>3. CASE UNCHANGED <<listVars, eptVars, bitmap, lock, call, owners>>
  BY <1>3 DEF eptVars, AddressInv, CallsInv, CallFits, Addressed, Linking,
              Removing, At
<1> QED BY <1>1, <1>2, <1>3, CreateKeepsAddresses, DestroyKeepsAddresses
        DEF RpmsgNext, CallersNext, StrayAddress, rpmsgVars

(* Whatever callers create and destroy at once, with any numbers of them   *)
(* and any sizes of the bitmap: no two endpoints share one of its          *)
(* addresses, and it marks exactly those that are in use.                  *)
THEOREM AddressesStayOwned == RpmsgSpec => []AddressesOwned
BY AddressInit, AddressNext, OwnersMean, PTL DEF RpmsgSpec

(***************************************************************************)
(* The rpmsg endpoints: their list                                         *)
(*                                                                         *)
(* The next pointers always lead through the endpoints of the list; r is   *)
(* the way they go, from the head back to it, past n endpoints.            *)
(***************************************************************************)
InList(e) ==
  owners[e] # Nobody \/ \E c \in Callers : Removing(c) /\ call[c].ept = e

RingNodes == Endpoints \cup {ListHead}
Ring(r, n) ==
  /\ n \in Nat /\ r \in [0..(n + 1) -> RingNodes]
  /\ r[0] = ListHead /\ r[n + 1] = ListHead
  /\ \A k \in 1..n : r[k] \in Endpoints
  /\ \A j, k \in 1..n : r[j] = r[k] => j = k

Members(r, n) == \A e \in Endpoints : InList(e) <=> \E k \in 1..n : r[k] = e
NextIs(r, n) == \A k \in 0..n : next[r[k]] = r[k + 1]

(* The prev pointers lead back, but for the one a caller has not got to:   *)
(* that of the new endpoint, or that of the one after a removed endpoint.  *)
Behind(r, n, k) ==
  \E c \in Callers : \/ call[c].step = "prev_next" /\ k = n
                     \/ call[c].step = "del_next" /\ r[k] = call[c].ept
PrevIs(r, n) == \A k \in 0..n : prev[r[k + 1]] = r[k] \/ Behind(r, n, k)

(* What a caller has written already.                                      *)
Written(r, n, c) ==
  LET e == call[c].ept IN
  /\ call[c].step \in {"new_next", "next_prev", "prev_next"} => prev[e] = r[n]
  /\ call[c].step \in {"next_prev", "prev_next"} => next[e] = ListHead
  /\ call[c].step = "prev_next" => prev[ListHead] = e
  /\ call[c].step = "del_next" => prev[next[e]] = prev[e]

Pointers(r, n) ==
  /\ Ring(r, n) /\ Members(r, n) /\ NextIs(r, n) /\ PrevIs(r, n)
  /\ \A c \in Callers : Written(r, n, c)

ListInv ==
  /\ next \in [RingNodes -> RingNodes \cup {Nobody}]
  /\ prev \in [RingNodes -> RingNodes \cup {Nobody}]
  /\ \E n, r : Pointers(r, n)

LEMMA RingApart ==
  ASSUME NEW n, NEW r, Ring(r, n)
  PROVE  /\ \A k \in 0..n : r[k] \in RingNodes /\ r[k + 1] \in RingNodes
         /\ \A j, k \in 0..n : r[j] = r[k] => j = k
         /\ \A j, k \in 0..n : r[j + 1] = r[k + 1] => j = k
         /\ \A k \in 1..n : r[k] # ListHead
<1>0. ListHead \notin Endpoints
  BY RpmsgAssumption
<1>1. /\ n \in Nat /\ r[0] = ListHead /\ r[n + 1] = ListHead
      /\ \A k \in 1..n : r[k] \in Endpoints
      /\ \A j, k \in 1..n : r[j] = r[k] => j = k
  BY DEF Ring
<1>2. \A k \in 1..n : r[k] # ListHead
  BY <1>0, <1>1
<1>3. \A j, k \in 0..n : r[j] = r[k] => j = k
  BY ONLY <1>1, <1>2
<1>4. ASSUME NEW j \in 0..n, NEW k \in 0..n, r[j + 1] = r[k + 1] PROVE j = k
  <2>1. CASE j = n \/ k = n
    BY ONLY <1>1, <1>2, <1>4, <2>1
  <2>2. CASE j # n /\ k # n
    <3>1. j + 1 \in 1..n /\ k + 1 \in 1..n
      BY <1>1, <2>2
    <3>2. j + 1 = k + 1
      BY ONLY <1>1, <1>4, <3>1
    <3> QED BY <3>2
  <2> QED BY <2>1, <2>2
<1>5. \A k \in 0..n : r[k] \in RingNodes /\ r[k + 1] \in RingNodes
  BY DEF Ring
<1> QED BY <1>2, <1>3, <1>4, <1>5

(* While a caller holds the lock nobody else is at a write.                *)
LEMMA Alone ==
  ASSUME CallsInv, NEW c \in Callers, NEW d \in Callers, d # c,
         call[c].step \in Locked
  PROVE  call[d].step \notin Locked
BY DEF CallsInv, CallFits

LEMMA OthersInList ==
  ASSUME CallsInv, NEW c \in Callers, NEW new, Moves(c, new),
         NEW e \in Endpoints, e # call[c].ept,
         e # new.ept \/ new.step \notin {"del_prev", "del_next"}
  PROVE  InList(e)' <=> InList(e)
<1>1. owners'[e] = owners[e]
  BY DEF Moves
<1>2. \A d \in Callers :
        (Removing(d)' /\ call'[d].ept = e) <=> (Removing(d) /\ call[d].ept = e)
  BY OthersKeep DEF Removing
<1> QED BY <1>1, <1>2 DEF InList

LEMMA OwnInList ==
  ASSUME CallsInv, NEW c \in Callers, NEW new, Moves(c, new),
         call[c].ept \in Endpoints, new.ept \in {call[c].ept, Nobody}
  PROVE  /\ InList(call[c].ept) <=> owners[call[c].ept] # Nobody \/ Removing(c)
         /\ \A e \in Endpoints : e = call[c].ept =>
              (InList(e)' <=> \/ owners'[e] # Nobody
                              \/ new.ept = e /\ new.step \in {"del_prev", "del_next"})
<1>0. Nobody \notin Endpoints
  BY RpmsgAssumption
<1>1. \A d \in Callers : call[d].ept = call[c].ept => d = c
  BY <1>0 DEF CallsInv
<1>2. \A d \in Callers : d # c => call'[d] = call[d]
  BY OthersKeep
<1>3. call'[c] = new
  BY OthersKeep
<1>4. InList(call[c].ept) <=> owners[call[c].ept] # Nobody \/ Removing(c)
  BY <1>1 DEF InList
<1>5. ASSUME NEW e \in Endpoints, e = call[c].ept
      PROVE  InList(e)' <=> \/ owners'[e] # Nobody
                            \/ new.ept = e /\ new.step \in {"del_prev", "del_next"}
  <2>1. \A d \in Callers : Removing(d)' /\ call'[d].ept = e =>
          d = c /\ new.ept = e /\ new.step \in {"del_prev", "del_next"}
    BY <1>1, <1>2, <1>3, <1>5 DEF Removing
  <2>2. new.ept = e /\ new.step \in {"del_prev", "del_next"} =>
          Removing(c)' /\ call'[c].ept = e
    BY <1>3 DEF Removing
  <2> QED BY <2>1, <2>2 DEF InList
<1> QED BY <1>4, <1>5

Writing == {"new_next", "next_prev", "prev_next", "del_next"}

(* Steps that write no pointer and leave the list as it is.                *)
LEMMA ListQuiet ==
  ASSUME CallsInv, ListInv, NEW c \in Callers, NEW new, Moves(c, new),
         UNCHANGED <<next, prev>>, call[c].step \notin Writing,
         new.step \notin Writing, \A e \in Endpoints : InList(e)' <=> InList(e)
  PROVE  ListInv'
<1>1. /\ call'[c] = new
      /\ \A d \in Callers : d # c => call'[d] = call[d]
  BY OthersKeep
<1> PICK n, r : Pointers(r, n)
  BY DEF ListInv
<1>2. Ring(r, n) /\ Members(r, n)' /\ NextIs(r, n)'
  BY DEF Pointers, Members, NextIs
<1>3. \A k : Behind(r, n, k) => Behind(r, n, k)'
  BY <1>1 DEF Behind, Writing
<1>4. PrevIs(r, n)'
  BY <1>3 DEF Pointers, PrevIs
<1>5. ASSUME NEW d \in Callers PROVE Written(r, n, d)'
  <2>1. CASE d = c
    BY <1>1, <2>1 DEF Written, Writing
  <2>2. CASE d # c
    BY <1>1, <2>2 DEF Written, Pointers
  <2> QED BY <2>1, <2>2
<1>6. Pointers(r, n)'
  BY <1>2, <1>4, <1>5 DEF Pointers, Ring
<1> QED BY <1>6 DEF ListInv

(***************************************************************************)
(* The rpmsg endpoints: steps that keep the list                           *)
(***************************************************************************)
DelSteps == {"del_prev", "del_next"}

LEMMA SameInList ==
  ASSUME CallsInv, NEW c \in Callers, NEW new, Moves(c, new),
         call[c].ept \in Endpoints, new.ept \in {call[c].ept, Nobody},
         \/ owners'[call[c].ept] # Nobody
         \/ new.ept = call[c].ept /\ new.step \in DelSteps
         <=> owners[call[c].ept] # Nobody \/ call[c].step \in DelSteps
  PROVE  \A e \in Endpoints : InList(e)' <=> InList(e)
<1>0. Nobody \notin Endpoints
  BY RpmsgAssumption
<1> SUFFICES ASSUME NEW e \in Endpoints PROVE InList(e)' <=> InList(e)
  OBVIOUS
<1>1. CASE e = call[c].ept
  BY <1>1, OwnInList DEF Removing, DelSteps
<1>2. CASE e # call[c].ept
  BY <1>0, <1>2, OthersInList
<1> QED BY <1>1, <1>2

(* Steps that write no pointer.                                            *)
LEMMA ListGoesOn ==
  ASSUME CallsInv, ListInv, NEW c \in Callers, NEW step \in Steps, Goto(c, step),
         lock' = lock \/ Acquire(c) \/ Release(c),
         call[c].ept \in Endpoints,
         owners' \in [Endpoints -> Nat \cup {ANY, Nobody}],
         \A e \in Endpoints : e # call[c].ept => owners'[e] = owners[e],
         UNCHANGED <<next, prev>>, {step, call[c].step} \cap Writing = {},
         \/ owners'[call[c].ept] # Nobody
         \/ step \in DelSteps
         <=> owners[call[c].ept] # Nobody \/ call[c].step \in DelSteps
  PROVE  ListInv'
<1> PICK new : new = [call[c] EXCEPT !.step = step]
  OBVIOUS
<1>1. new \in Calls /\ new.step = step /\ new.ept = call[c].ept
  BY IsCalls
<1>2. call' = [call EXCEPT ![c] = new]
  BY DEF Goto
<1>3. lock' = lock \/ (lock = Nobody /\ lock' = c) \/ (lock = c /\ lock' = Nobody)
  BY DEF Acquire, Release
<1>4. Moves(c, new)
  BY <1>1, <1>2, <1>3 DEF Moves
<1>5. \A e \in Endpoints : InList(e)' <=> InList(e)
  BY <1>1, <1>4, SameInList
<1>6. call[c].step \notin Writing /\ new.step \notin Writing
  BY <1>1
<1> QED BY <1>4, <1>5, <1>6, ListQuiet

LEMMA ListReturns ==
  ASSUME CallsInv, ListInv, NEW c \in Callers, Returns(c), Release(c),
         call[c].ept \in Endpoints, owners' = owners,
         UNCHANGED <<next, prev>>, call[c].step \notin Writing \cup DelSteps
  PROVE  ListInv'
<1> PICK new : new = Idle
  OBVIOUS
<1>1. new \in Calls /\ new.step = "idle" /\ new.ept = Nobody
  BY DEF Idle, Calls, Steps
<1>2. call' = [call EXCEPT ![c] = new]
  BY DEF Returns
<1>3. lock = c /\ lock' = Nobody
  BY DEF Release
<1>4. Moves(c, new)
  BY <1>1, <1>2, <1>3 DEF Moves, CallsInv
<1>5. \A e \in Endpoints : InList(e)' <=> InList(e)
  BY <1>1, <1>4, SameInList DEF DelSteps
<1>6. call[c].step \notin Writing /\ new.step \notin Writing
  BY <1>1 DEF Writing
<1> QED BY <1>4, <1>5, <1>6, ListQuiet

LEMMA ListBegins ==
  ASSUME CallsInv, ListInv, NEW c \in Callers, NEW e \in Endpoints, At(c, "idle"),
         ~Busy(e), NEW new \in Calls, call' = [call EXCEPT ![c] = new], new.ept = e,
         owners' = owners, UNCHANGED <<next, prev>>,
         lock' = lock \/ Acquire(c), new.step \in {"address", "farewell"}
  PROVE  ListInv'
<1>0. Nobody \notin Endpoints
  BY RpmsgAssumption
<1>1. lock' = lock \/ (lock = Nobody /\ lock' = c)
  BY DEF Acquire
<1>2. Moves(c, new)
  BY <1>1 DEF Moves, CallsInv
<1>3. call[c].ept = Nobody
  BY DEF CallsInv, CallFits
<1>4. \A f \in Endpoints : InList(f)' <=> InList(f)
  BY <1>0, <1>2, <1>3, OthersInList
<1>5. call[c].step \notin Writing /\ new.step \notin Writing
  BY DEF Writing, At
<1> QED BY <1>2, <1>4, <1>5, ListQuiet

(* A step that writes pointers: its caller is alone with the list, and may *)
(* leave the list on another way, provided that what it says is so.        *)
LEMMA ListWritten ==
  ASSUME CallsInv, NEW c \in Callers, NEW new, Moves(c, new),
         call[c].step \in Locked, NEW n, NEW r,
         Ring(r, n), Members(r, n)', NextIs(r, n)', Written(r, n, c)',
         \A k \in 0..n : \/ prev'[r[k + 1]] = r[k]
                         \/ new.step = "prev_next" /\ k = n
                         \/ new.step = "del_next" /\ r[k] = new.ept,
         next' \in [RingNodes -> RingNodes \cup {Nobody}],
         prev' \in [RingNodes -> RingNodes \cup {Nobody}]
  PROVE  ListInv'
<1>1. call'[c] = new /\ \A d \in Callers : d # c => call'[d] = call[d]
  BY OthersKeep
<1>2. PrevIs(r, n)'
  BY <1>1 DEF PrevIs, Behind
<1>3. ASSUME NEW d \in Callers PROVE Written(r, n, d)'
  <2>1. CASE d = c
    BY <2>1
  <2>2. CASE d # c
    <3>1. call'[d].step \notin Locked
      BY <1>1, <2>2, Alone
    <3> QED BY <3>1 DEF Written, Locked, CreateLocked
  <2> QED BY <2>1, <2>2
<1>4. Pointers(r, n)'
  BY <1>2, <1>3 DEF Pointers, Ring
<1> QED BY <1>4 DEF ListInv

(* Who works on the list with the lock reads what it left.                 *)
LEMMA ListRead ==
  ASSUME CallsInv, NEW c \in Callers, call[c].step \in Locked,
         NEW n, NEW r, Pointers(r, n), NEW k \in 0..n
  PROVE  \/ prev[r[k + 1]] = r[k]
         \/ call[c].step = "prev_next" /\ k = n
         \/ call[c].step = "del_next" /\ r[k] = call[c].ept
<1>1. ASSUME NEW d \in Callers, call[d].step \in {"prev_next", "del_next"}
      PROVE  d = c
  <2>1. call[d].step \in Locked
    BY <1>1 DEF Locked, CreateLocked
  <2> QED BY <2>1, Alone
<1> QED BY <1>1 DEF Pointers, PrevIs, Behind

(* An endpoint that is not on the list is not on the way.                  *)
LEMMA NotListed ==
  ASSUME CallsInv, NEW c \in Callers, call[c].ept \in Endpoints,
         owners[call[c].ept] = Nobody, call[c].step \notin DelSteps,
         NEW n, NEW r, Pointers(r, n)
  PROVE  /\ \A k \in 0..n : r[k] # call[c].ept /\ r[k + 1] # call[c].ept
         /\ call[c].ept # ListHead
<1> PICK e : e = call[c].ept
  OBVIOUS
<1>0. Nobody \notin Endpoints /\ ListHead \notin Endpoints
  BY RpmsgAssumption
<1>1. ~InList(e)
  <2>1. \A d \in Callers : call[d].ept = e => d = c
    BY <1>0 DEF CallsInv
  <2> QED BY <2>1 DEF InList, Removing, DelSteps
<1>2. \A k \in 1..n : r[k] # e
  BY <1>1 DEF Pointers, Members
<1>3. n \in Nat /\ r[0] = ListHead /\ r[n + 1] = ListHead
  BY DEF Pointers, Ring
<1>4. e # ListHead
  BY <1>0
<1>5. ASSUME NEW k \in 0..n PROVE r[k] # e /\ r[k + 1] # e
  <2>1. k = 0 \/ k \in 1..n
    BY <1>3
  <2>2. k + 1 = n + 1 \/ k + 1 \in 1..n
    BY <1>3
  <2> QED BY <1>2, <1>3, <1>4, <2>1, <2>2
<1> QED BY <1>4, <1>5

LEMMA NewPrevKeeps ==
  ASSUME CallsInv, ListInv, NEW c \in Callers, LinkNewPrev(c) PROVE ListInv'
<1> PICK e : e = call[c].ept
  OBVIOUS
<1>1. call[c].step = "new_prev" /\ CallFits(c)
  BY DEF CallsInv, LinkNewPrev, At
<1>2. e \in Endpoints /\ owners[e] = Nobody /\ call[c].step \in Locked
  BY <1>1 DEF CallFits, At, Locked, CreateLocked
<1>3. /\ prev' = [prev EXCEPT ![e] = prev[ListHead]] /\ next' = next
      /\ Goto(c, "new_next") /\ lock' = lock /\ owners' = owners
  BY DEF LinkNewPrev
<1>4. PICK new \in Calls : /\ new.step = "new_next" /\ new.ept = e
                           /\ Moves(c, new) /\ call'[c] = new
  <2>1. "new_next" \in Steps
    BY DEF Steps, Locked, CreateLocked
  <2> QED BY <1>3, <2>1, MovesOn DEF CallsInv
<1> PICK n, r : Pointers(r, n)
  BY DEF ListInv
<1>5. \A k \in 0..n : r[k] # e /\ r[k + 1] # e
  BY <1>1, <1>2, NotListed DEF DelSteps
<1>6. \A k \in 0..n : prev[r[k + 1]] = r[k]
  BY <1>1, <1>2, ListRead
<1>7. n \in 0..n /\ r[n + 1] = ListHead /\ Ring(r, n)
  BY DEF Pointers, Ring
<1>8. /\ prev' \in [RingNodes -> RingNodes \cup {Nobody}]
      /\ prev'[e] = r[n] /\ \A k \in 0..n : prev'[r[k + 1]] = r[k]
  <2>1. \A k \in 0..n : r[k + 1] \in RingNodes
    BY <1>7, RingApart
  <2>2. prev \in [RingNodes -> RingNodes \cup {Nobody}] /\ e \in RingNodes
        /\ ListHead \in RingNodes
    BY <1>2 DEF ListInv, RingNodes
  <2> QED BY <1>3, <1>5, <1>6, <1>7, <2>1, <2>2
<1>9. Members(r, n)'
  <2>1. \A f \in Endpoints : InList(f)' <=> InList(f)
    BY <1>1, <1>2, <1>3, <1>4, SameInList DEF DelSteps
  <2> QED BY <2>1 DEF Pointers, Members
<1>10. NextIs(r, n)' /\ Written(r, n, c)'
  BY <1>3, <1>4, <1>8 DEF Pointers, NextIs, Written
<1>11. next' \in [RingNodes -> RingNodes \cup {Nobody}]
  BY <1>3 DEF ListInv
<1> QED BY <1>2, <1>4, <1>7, <1>8, <1>9, <1>10, <1>11, ListWritten

LEMMA NewNextKeeps ==
  ASSUME CallsInv, ListInv, NEW c \in Callers, LinkNewNext(c) PROVE ListInv'
<1> PICK e : e = call[c].ept
  OBVIOUS
<1>1. call[c].step = "new_next" /\ CallFits(c)
  BY DEF CallsInv, LinkNewNext, At
<1>2. e \in Endpoints /\ owners[e] = Nobody /\ call[c].step \in Locked
  BY <1>1 DEF CallFits, At, Locked, CreateLocked
<1>3. /\ next' = [next EXCEPT ![e] = ListHead] /\ prev' = prev
      /\ Goto(c, "next_prev") /\ lock' = lock /\ owners' = owners
  BY DEF LinkNewNext
<1>4. PICK new \in Calls : /\ new.step = "next_prev" /\ new.ept = e
                           /\ Moves(c, new) /\ call'[c] = new
  <2>1. "next_prev" \in Steps
    BY DEF Steps, Locked, CreateLocked
  <2> QED BY <1>3, <2>1, MovesOn DEF CallsInv
<1> PICK n, r : Pointers(r, n)
  BY DEF ListInv
<1>5. \A k \in 0..n : r[k] # e /\ r[k + 1] # e
  BY <1>1, <1>2, NotListed DEF DelSteps
<1>6. \A k \in 0..n : prev'[r[k + 1]] = r[k]
  BY <1>1, <1>2, <1>3, ListRead
<1>7. Ring(r, n)
  BY DEF Pointers
<1>8. /\ next' \in [RingNodes -> RingNodes \cup {Nobody}]
      /\ next'[e] = ListHead /\ \A k \in 0..n : next'[r[k]] = r[k + 1]
  <2>1. \A k \in 0..n : r[k] \in RingNodes
    BY <1>7, RingApart
  <2>2. next \in [RingNodes -> RingNodes \cup {Nobody}] /\ e \in RingNodes
        /\ ListHead \in RingNodes
    BY <1>2 DEF ListInv, RingNodes
  <2>3. \A k \in 0..n : next[r[k]] = r[k + 1]
    BY DEF Pointers, NextIs
  <2> QED BY <1>3, <1>5, <2>1, <2>2, <2>3
<1>9. Members(r, n)'
  <2>1. \A f \in Endpoints : InList(f)' <=> InList(f)
    BY <1>1, <1>2, <1>3, <1>4, SameInList DEF DelSteps
  <2> QED BY <2>1 DEF Pointers, Members
<1>10. prev[e] = r[n]
  BY <1>1 DEF Pointers, Written
<1>11. NextIs(r, n)' /\ Written(r, n, c)'
  BY <1>3, <1>4, <1>8, <1>10 DEF NextIs, Written
<1>12. prev' \in [RingNodes -> RingNodes \cup {Nobody}]
  BY <1>3 DEF ListInv
<1> QED BY <1>2, <1>4, <1>6, <1>7, <1>8, <1>9, <1>11, <1>12, ListWritten

LEMMA NextPrevKeeps ==
  ASSUME CallsInv, ListInv, NEW c \in Callers, LinkNextPrev(c) PROVE ListInv'
<1> PICK e : e = call[c].ept
  OBVIOUS
<1>1. call[c].step = "next_prev" /\ CallFits(c)
  BY DEF CallsInv, LinkNextPrev, At
<1>2. e \in Endpoints /\ owners[e] = Nobody /\ call[c].step \in Locked
  BY <1>1 DEF CallFits, At, Locked, CreateLocked
<1> PICK n, r : Pointers(r, n)
  BY DEF ListInv
<1>3. prev[e] = r[n] /\ next[e] = ListHead
  BY <1>1 DEF Pointers, Written
<1>4. /\ prev' = [prev EXCEPT ![ListHead] = e] /\ next' = next
      /\ Goto(c, "prev_next") /\ lock' = lock /\ owners' = owners
  BY <1>3 DEF LinkNextPrev
<1>5. PICK new \in Calls : /\ new.step = "prev_next" /\ new.ept = e
                           /\ Moves(c, new) /\ call'[c] = new
  <2>1. "prev_next" \in Steps
    BY DEF Steps, Locked, CreateLocked
  <2> QED BY <1>4, <2>1, MovesOn DEF CallsInv
<1>6. e # ListHead
  BY <1>1, <1>2, NotListed DEF DelSteps
<1>7. Ring(r, n) /\ n \in Nat
  BY DEF Pointers, Ring
<1>8. /\ prev' \in [RingNodes -> RingNodes \cup {Nobody}]
      /\ prev'[e] = r[n] /\ prev'[ListHead] = e
      /\ \A k \in 0..n : prev'[r[k + 1]] = r[k] \/ k = n
  <2>1. \A k \in 0..n : r[k + 1] \in RingNodes
    BY <1>7, RingApart
  <2>2. /\ prev \in [RingNodes -> RingNodes \cup {Nobody}]
        /\ e \in RingNodes /\ ListHead \in RingNodes
    BY <1>2 DEF ListInv, RingNodes
  <2>3. \A k \in 0..n : k # n => r[k + 1] # ListHead
    <3>1. \A k \in 0..n : k # n => k + 1 \in 1..n
      BY <1>7
    <3> QED BY <1>7, <3>1, RingApart
  <2>4. \A k \in 0..n : prev[r[k + 1]] = r[k]
    BY <1>1, <1>2, ListRead
  <2> QED BY <1>3, <1>4, <1>6, <2>1, <2>2, <2>3, <2>4
<1>9. Members(r, n)'
  <2>1. \A f \in Endpoints : InList(f)' <=> InList(f)
    BY <1>1, <1>2, <1>4, <1>5, SameInList DEF DelSteps
  <2> QED BY <2>1 DEF Pointers, Members
<1>10. NextIs(r, n)' /\ Written(r, n, c)'
  BY <1>3, <1>4, <1>5, <1>8 DEF Pointers, NextIs, Written
<1>11. next' \in [RingNodes -> RingNodes \cup {Nobody}]
  BY <1>4 DEF ListInv
<1> QED BY <1>2, <1>5, <1>7, <1>8, <1>9, <1>10, <1>11, ListWritten

(* The last write of an insertion leads the way past the new endpoint.     *)
LEMMA Lengthened ==
  ASSUME NEW n, NEW r, Ring(r, n), NEW e \in Endpoints,
         \A k \in 0..n : r[k] # e,
         NEW s, s = [k \in 0..(n + 2) |-> IF k <= n THEN r[k]
                                         ELSE IF k = n + 1 THEN e ELSE ListHead]
  PROVE  /\ Ring(s, n + 1)
         /\ \A k \in 0..n : s[k] = r[k]
         /\ s[n + 1] = e /\ s[n + 2] = ListHead
<1>1. /\ n \in Nat /\ r \in [0..(n + 1) -> RingNodes]
      /\ r[0] = ListHead /\ r[n + 1] = ListHead
      /\ \A k \in 1..n : r[k] \in Endpoints
      /\ \A j, k \in 1..n : r[j] = r[k] => j = k
  BY DEF Ring
<1>2. /\ \A k \in 0..n : s[k] = r[k]
      /\ s[n + 1] = e /\ s[n + 2] = ListHead
  BY <1>1
<1>3. n + 1 \in Nat /\ (n + 1) + 1 = n + 2
  BY <1>1
<1>4. s \in [0..(n + 2) -> RingNodes]
  <2>1. e \in RingNodes /\ ListHead \in RingNodes
    BY DEF RingNodes
  <2>2. \A k \in 0..(n + 2) :
          (IF k <= n THEN r[k] ELSE IF k = n + 1 THEN e ELSE ListHead) \in RingNodes
    BY <1>1, <2>1
  <2> QED BY <2>2
<1>5. \A k \in 1..(n + 1) : k = n + 1 \/ k \in 1..n
  BY <1>1
<1>6. \A k \in 1..(n + 1) : s[k] \in Endpoints
  BY <1>1, <1>2, <1>5
<1>7. \A j, k \in 1..(n + 1) : s[j] = s[k] => j = k
  <2> SUFFICES ASSUME NEW j \in 1..(n + 1), NEW k \in 1..(n + 1), s[j] = s[k]
               PROVE  j = k
    OBVIOUS
  <2>1. \A i \in 1..n : s[i] = r[i] /\ s[i] # e
    BY <1>1, <1>2
  <2> QED BY <1>1, <1>2, <1>5, <2>1
<1>8. s[0] = ListHead
  BY <1>1, <1>2
<1> QED BY <1>2, <1>3, <1>4, <1>6, <1>7, <1>8 DEF Ring

LEMMA PrevNextKeeps ==
  ASSUME AddressInv, ListInv, NEW c \in Callers, LinkPrevNext(c) PROVE ListInv'
<1> PICK e : e = call[c].ept
  OBVIOUS
<1>0. CallsInv /\ ANY # Nobody /\ Nobody \notin Nat
  BY RpmsgAssumption DEF AddressInv
<1>1. call[c].step = "prev_next" /\ CallFits(c)
  BY <1>0 DEF CallsInv, LinkPrevNext, At
<1>2. e \in Endpoints /\ owners[e] = Nobody /\ call[c].step \in Locked
  BY <1>1 DEF CallFits, At, Locked, CreateLocked
<1> PICK n, r : Pointers(r, n)
  BY DEF ListInv
<1>3. prev[e] = r[n] /\ next[e] = ListHead /\ prev[ListHead] = e
  BY <1>1 DEF Pointers, Written
<1>4. /\ next' = [next EXCEPT ![r[n]] = e] /\ prev' = prev
      /\ owners' = [owners EXCEPT ![e] = addr[e]]
      /\ Goto(c, "registered") /\ lock' = lock
  BY <1>3 DEF LinkPrevNext
<1>5. /\ owners' \in [Endpoints -> Nat \cup {ANY, Nobody}]
      /\ owners'[e] # Nobody
      /\ \A f \in Endpoints : f # e => owners'[f] = owners[f]
  BY <1>0, <1>2, <1>4 DEF CallsInv
<1>6. PICK new \in Calls : /\ new.step = "registered" /\ new.ept = e
                           /\ Moves(c, new) /\ call'[c] = new
  <2>1. "registered" \in Steps
    BY DEF Steps, Locked
  <2> QED BY <1>0, <1>4, <1>5, <2>1, MovesOn
<1>7. \A k \in 0..n : r[k] # e /\ r[k + 1] # e
  BY <1>0, <1>1, <1>2, NotListed DEF DelSteps
<1>8. Ring(r, n) /\ n \in Nat
  BY DEF Pointers, Ring
<1> PICK s : s = [k \in 0..(n + 2) |-> IF k <= n THEN r[k]
                                       ELSE IF k = n + 1 THEN e ELSE ListHead]
  OBVIOUS
<1>9. /\ Ring(s, n + 1) /\ \A k \in 0..n : s[k] = r[k]
      /\ s[n + 1] = e /\ s[n + 2] = ListHead
  BY <1>2, <1>7, <1>8, Lengthened
<1>10. \A f \in Endpoints : InList(f)' <=> InList(f) \/ f = e
  <2>1. InList(e)'
    BY <1>5 DEF InList
  <2>2. \A f \in Endpoints : f # e => (InList(f)' <=> InList(f))
    BY <1>0, <1>6, OthersInList
  <2> QED BY <2>1, <2>2
<1>11. Members(s, n + 1)'
  <2>1. \A k : k \in 1..(n + 1) <=> k = n + 1 \/ k \in 1..n
    BY <1>8
  <2>2. \A k \in 1..n : s[k] = r[k]
    BY <1>8, <1>9
  <2>3. Members(r, n)
    BY DEF Pointers
  <2> QED BY <1>9, <1>10, <2>1, <2>2, <2>3 DEF Members
<1>12. /\ next' \in [RingNodes -> RingNodes \cup {Nobody}]
       /\ \A x \in RingNodes : next'[x] = IF x = r[n] THEN e ELSE next[x]
  <2>1. next \in [RingNodes -> RingNodes \cup {Nobody}] /\ e \in RingNodes
    BY <1>2 DEF ListInv, RingNodes
  <2> QED BY <1>4, <2>1
<1>13. NextIs(s, n + 1)'
  <2> SUFFICES ASSUME NEW k \in 0..(n + 1) PROVE next'[s[k]] = s[k + 1]
    BY DEF NextIs
  <2>1. CASE k < n
    <3>1. k \in 0..n /\ k + 1 \in 0..n /\ n \in 0..n /\ k # n
      BY <1>8, <2>1
    <3>2. r[k] # r[n] /\ r[k] \in RingNodes
      BY <1>8, <3>1, RingApart
    <3>3. next[r[k]] = r[k + 1]
      BY <3>1 DEF Pointers, NextIs
    <3> QED BY <1>9, <1>12, <3>1, <3>2, <3>3
  <2>2. CASE k = n
    <3>1. n \in 0..n /\ r[n] \in RingNodes
      BY <1>8, RingApart
    <3> QED BY <1>9, <1>12, <2>2, <3>1
  <2>3. CASE k = n + 1
    <3>1. n \in 0..n /\ k + 1 = n + 2 /\ e \in RingNodes
      BY <1>2, <1>8, <2>3 DEF RingNodes
    <3> QED BY <1>3, <1>7, <1>9, <1>12, <2>3, <3>1
  <2> QED BY <1>8, <2>1, <2>2, <2>3
<1>14. ASSUME NEW k \in 0..(n + 1) PROVE prev'[s[k + 1]] = s[k]
  <2>1. CASE k < n
    <3>1. k \in 0..n /\ k + 1 \in 0..n /\ k # n
      BY <1>8, <2>1
    <3>2. prev[r[k + 1]] = r[k]
      BY <1>0, <1>1, <1>2, <3>1, ListRead
    <3> QED BY <1>4, <1>9, <3>1, <3>2
  <2>2. CASE k = n
    BY <1>3, <1>4, <1>8, <1>9, <2>2
  <2>3. CASE k = n + 1
    <3>1. k + 1 = n + 2
      BY <1>8, <2>3
    <3> QED BY <1>3, <1>4, <1>9, <2>3, <3>1
  <2> QED BY <1>8, <2>1, <2>2, <2>3
<1>15. Written(s, n + 1, c)'
  BY <1>6 DEF Written
<1>16. prev' \in [RingNodes -> RingNodes \cup {Nobody}]
  BY <1>4 DEF ListInv
<1> PICK m : m = n + 1
  OBVIOUS
<1>17. Ring(s, m) /\ Members(s, m)' /\ NextIs(s, m)' /\ Written(s, m, c)'
  BY <1>9, <1>11, <1>13, <1>15
<1>18. \A k \in 0..m : prev'[s[k + 1]] = s[k]
  BY <1>14
<1>19. \A k \in 0..m : \/ prev'[s[k + 1]] = s[k]
                       \/ new.step = "prev_next" /\ k = m
                       \/ new.step = "del_next" /\ s[k] = new.ept
  BY <1>18
<1>20. next' \in [RingNodes -> RingNodes \cup {Nobody}]
  BY <1>12
<1>21. Moves(c, new) /\ call[c].step \in Locked /\ CallsInv
  BY <1>0, <1>2, <1>6
<1> QED BY ONLY <1>16, <1>17, <1>19, <1>20, <1>21, ListWritten

(* Where the endpoint that is taken off is on the way.                     *)
LEMMA Listed ==
  ASSUME CallsInv, NEW c \in Callers, call[c].step \in DelSteps,
         call[c].ept \in Endpoints, NEW n, NEW r, Pointers(r, n)
  PROVE  \E p \in 1..n : /\ r[p] = call[c].ept
                         /\ next[call[c].ept] = r[p + 1]
                         /\ prev[call[c].ept] = r[p - 1]
<1> PICK e : e = call[c].ept
  OBVIOUS
<1>1. InList(e)
  BY DEF InList, Removing, DelSteps
<1>2. PICK p \in 1..n : r[p] = e
  BY <1>1 DEF Pointers, Members
<1>3. n \in Nat /\ Ring(r, n)
  BY DEF Pointers, Ring
<1>4. p \in 0..n /\ p - 1 \in 0..n /\ (p - 1) + 1 = p /\ p - 1 # n /\ p # p - 1
  BY <1>3
<1>5. next[e] = r[p + 1]
  BY <1>2, <1>4 DEF Pointers, NextIs
<1>6. r[p - 1] # e
  BY <1>2, <1>3, <1>4, RingApart
<1>7. call[c].step \in Locked
  BY DEF DelSteps, Locked
<1>8. prev[e] = r[p - 1]
  BY <1>2, <1>4, <1>6, <1>7, ListRead
<1> QED BY <1>2, <1>5, <1>8

LEMMA DelPrevKeeps ==
  ASSUME CallsInv, ListInv, NEW c \in Callers, DelNextPrev(c) PROVE ListInv'
<1> PICK e : e = call[c].ept
  OBVIOUS
<1>1. call[c].step = "del_prev" /\ CallFits(c)
  BY DEF CallsInv, DelNextPrev, At
<1>2. e \in Endpoints /\ owners[e] = Nobody /\ call[c].step \in Locked
  BY <1>1 DEF CallFits, At, Locked
<1> PICK n, r : Pointers(r, n)
  BY DEF ListInv
<1>3. PICK p \in 1..n : r[p] = e /\ next[e] = r[p + 1] /\ prev[e] = r[p - 1]
  BY <1>1, <1>2, Listed DEF DelSteps
<1>4. /\ prev' = [prev EXCEPT ![r[p + 1]] = r[p - 1]] /\ next' = next
      /\ Goto(c, "del_next") /\ lock' = lock /\ owners' = owners
  BY <1>3 DEF DelNextPrev
<1>5. PICK new \in Calls : /\ new.step = "del_next" /\ new.ept = e
                           /\ Moves(c, new) /\ call'[c] = new
  <2>1. "del_next" \in Steps
    BY DEF Steps, Locked
  <2> QED BY <1>4, <2>1, MovesOn DEF CallsInv
<1>6. Ring(r, n) /\ n \in Nat
  BY DEF Pointers, Ring
<1>7. p \in 0..n /\ p - 1 \in 0..n /\ (p - 1) + 1 = p /\ p # p - 1
  BY <1>6
<1>8. /\ prev' \in [RingNodes -> RingNodes \cup {Nobody}]
      /\ \A x \in RingNodes : prev'[x] = IF x = r[p + 1] THEN r[p - 1] ELSE prev[x]
  <2>1. prev \in [RingNodes -> RingNodes \cup {Nobody}]
    BY DEF ListInv
  <2>2. r[p - 1] \in RingNodes
    BY <1>6, <1>7, RingApart
  <2> QED BY <1>4, <2>1, <2>2
<1>9. ASSUME NEW k \in 0..n
      PROVE  prev'[r[k + 1]] = r[k] \/ (new.step = "del_next" /\ r[k] = new.ept)
  <2>1. CASE k = p
    BY <1>3, <1>5, <2>1
  <2>2. CASE k # p
    <3>1. r[k + 1] # r[p + 1] /\ r[k + 1] \in RingNodes
      BY <1>6, <1>7, <2>2, RingApart
    <3>2. r[k] # e
      BY <1>3, <1>6, <1>7, <2>2, RingApart
    <3>3. prev[r[k + 1]] = r[k]
      BY <1>1, <1>2, <3>2, ListRead
    <3> QED BY <1>8, <3>1, <3>3
  <2> QED BY <2>1, <2>2
<1>10. Members(r, n)'
  <2>1. \A f \in Endpoints : InList(f)' <=> InList(f)
    BY <1>1, <1>2, <1>4, <1>5, SameInList DEF DelSteps
  <2> QED BY <2>1 DEF Pointers, Members
<1>11. prev'[next'[e]] = prev'[e]
  <2>1. r[p] # r[p + 1] /\ r[p + 1] \in RingNodes /\ e \in RingNodes
    <3>1. r[(p - 1) + 1] # r[p + 1]
      BY <1>6, <1>7, RingApart
    <3> QED BY <1>2, <1>6, <1>7, <3>1, RingApart DEF RingNodes
  <2> QED BY <1>3, <1>4, <1>8, <2>1
<1>12. NextIs(r, n)' /\ Written(r, n, c)'
  BY <1>4, <1>5, <1>11 DEF Pointers, NextIs, Written
<1>13. next' \in [RingNodes -> RingNodes \cup {Nobody}]
  BY <1>4 DEF ListInv
<1>14. \A k \in 0..n : \/ prev'[r[k + 1]] = r[k]
                       \/ new.step = "prev_next" /\ k = n
                       \/ new.step = "del_next" /\ r[k] = new.ept
  BY <1>9
<1>15. Moves(c, new) /\ call[c].step \in Locked /\ CallsInv
       /\ prev' \in [RingNodes -> RingNodes \cup {Nobody}]
  BY <1>2, <1>5, <1>8
<1> QED BY ONLY <1>6, <1>10, <1>12, <1>13, <1>14, <1>15, ListWritten

LEMMA DelSelfKeeps ==
  ASSUME CallsInv, ListInv, NEW c \in Callers, DelSelf(c) PROVE ListInv'
<1> PICK e : e = call[c].ept
  OBVIOUS
<1>1. call[c].step = "del_self" /\ CallFits(c)
  BY DEF CallsInv, DelSelf, At
<1>2. e \in Endpoints /\ owners[e] = Nobody /\ call[c].step \in Locked
  BY <1>1 DEF CallFits, At, Locked
<1>3. /\ next' = [next EXCEPT ![e] = e] /\ prev' = [prev EXCEPT ![e] = e]
      /\ Goto(c, "unlock") /\ lock' = lock /\ owners' = owners
  BY DEF DelSelf
<1>4. PICK new \in Calls : /\ new.step = "unlock" /\ new.ept = e
                           /\ Moves(c, new) /\ call'[c] = new
  <2>1. "unlock" \in Steps
    BY DEF Steps, Locked
  <2> QED BY <1>3, <2>1, MovesOn DEF CallsInv
<1> PICK n, r : Pointers(r, n)
  BY DEF ListInv
<1>5. \A k \in 0..n : r[k] # e /\ r[k + 1] # e
  BY <1>1, <1>2, NotListed DEF DelSteps
<1>6. Ring(r, n)
  BY DEF Pointers
<1>7. /\ next' \in [RingNodes -> RingNodes \cup {Nobody}]
      /\ prev' \in [RingNodes -> RingNodes \cup {Nobody}]
      /\ \A x \in RingNodes : x # e => next'[x] = next[x] /\ prev'[x] = prev[x]
  <2>1. /\ next \in [RingNodes -> RingNodes \cup {Nobody}]
        /\ prev \in [RingNodes -> RingNodes \cup {Nobody}] /\ e \in RingNodes
    BY <1>2 DEF ListInv, RingNodes
  <2> QED BY <1>3, <2>1
<1>8. \A k \in 0..n : r[k] \in RingNodes /\ r[k + 1] \in RingNodes
  BY <1>6, RingApart
<1>9. \A k \in 0..n : prev'[r[k + 1]] = r[k]
  BY <1>1, <1>2, <1>5, <1>7, <1>8, ListRead
<1>10. NextIs(r, n)'
  BY <1>5, <1>7, <1>8 DEF Pointers, NextIs
<1>11. Members(r, n)'
  <2>1. \A f \in Endpoints : InList(f)' <=> InList(f)
    BY <1>1, <1>2, <1>3, <1>4, SameInList DEF DelSteps
  <2> QED BY <2>1 DEF Pointers, Members
<1>12. Written(r, n, c)'
  BY <1>4 DEF Written
<1>13. Moves(c, new) /\ call[c].step \in Locked /\ CallsInv
  BY <1>2, <1>4
<1> QED BY ONLY <1>6, <1>7, <1>9, <1>10, <1>11, <1>12, <1>13, ListWritten

(* The write of a removal that leads the way past the endpoint.            *)
Past(r, n, p) == [k \in 0..n |-> IF k < p THEN r[k] ELSE r[k + 1]]

LeadsPast(s, r, n, p) ==
  /\ Ring(s, n - 1)
  /\ \A k \in 0..n : s[k] = IF k < p THEN r[k] ELSE r[k + 1]
  /\ \A f \in Endpoints : (\E k \in 1..(n - 1) : s[k] = f)
                            <=> (\E k \in 1..n : r[k] = f) /\ f # r[p]

LEMMA Shortened ==
  ASSUME NEW n, NEW r, Ring(r, n), NEW p \in 1..n, NEW s, s = Past(r, n, p)
  PROVE  LeadsPast(s, r, n, p)
<1>1. /\ n \in Nat /\ r \in [0..(n + 1) -> RingNodes]
      /\ r[0] = ListHead /\ r[n + 1] = ListHead
      /\ \A k \in 1..n : r[k] \in Endpoints
      /\ \A j, k \in 1..n : r[j] = r[k] => j = k
  BY DEF Ring
<1>2. \A k \in 0..n : s[k] = IF k < p THEN r[k] ELSE r[k + 1]
  BY DEF Past
<1>3. n - 1 \in Nat /\ (n - 1) + 1 = n
  BY <1>1
<1>4. s \in [0..n -> RingNodes]
  BY <1>1 DEF Past
<1>5. s[0] = ListHead /\ s[n] = ListHead
  BY <1>1, <1>2
<1>6. \A k \in 1..(n - 1) :
        /\ k < p => k \in 1..n /\ s[k] = r[k]
        /\ ~(k < p) => k + 1 \in 1..n /\ s[k] = r[k + 1]
  BY <1>1, <1>2
<1>7. \A k \in 1..(n - 1) : s[k] \in Endpoints
  BY <1>1, <1>6
<1>8. \A j, k \in 1..(n - 1) : s[j] = s[k] => j = k
  <2> SUFFICES ASSUME NEW j \in 1..(n - 1), NEW k \in 1..(n - 1), s[j] = s[k]
               PROVE  j = k
    OBVIOUS
  <2>1. PICK a \in 1..n : s[j] = r[a] /\ a = IF j < p THEN j ELSE j + 1
    BY <1>6
  <2>2. PICK b \in 1..n : s[k] = r[b] /\ b = IF k < p THEN k ELSE k + 1
    BY <1>6
  <2>3. a = b
    BY <1>1, <2>1, <2>2
  <2> QED BY <1>1, <2>1, <2>2, <2>3
<1>9. Ring(s, n - 1)
  BY <1>3, <1>4, <1>5, <1>7, <1>8 DEF Ring
<1>10. ASSUME NEW k \in 1..(n - 1) PROVE \E j \in 1..n : r[j] = s[k] /\ j # p
  BY <1>1, <1>6
<1>11. ASSUME NEW j \in 1..n, j # p PROVE \E k \in 1..(n - 1) : s[k] = r[j]
  <2>1. CASE j < p
    <3>1. j \in 1..(n - 1)
      BY <1>1, <2>1
    <3> QED BY <1>6, <2>1, <3>1
  <2>2. CASE j > p
    <3>1. j - 1 \in 1..(n - 1) /\ ~(j - 1 < p) /\ (j - 1) + 1 = j
      BY <1>1, <2>2
    <3> QED BY <1>6, <3>1
  <2> QED BY <1>1, <1>11, <2>1, <2>2
<1>12. ASSUME NEW f \in Endpoints
       PROVE  (\E k \in 1..(n - 1) : s[k] = f) <=> (\E k \in 1..n : r[k] = f) /\ f # r[p]
  <2>1. ASSUME NEW k \in 1..(n - 1), s[k] = f
        PROVE  (\E j \in 1..n : r[j] = f) /\ f # r[p]
    <3> PICK j \in 1..n : r[j] = s[k] /\ j # p
      BY <1>10
    <3> QED BY ONLY <1>1, <2>1, r[j] = s[k] /\ j # p, p \in 1..n, j \in 1..n
  <2>2. ASSUME NEW j \in 1..n, r[j] = f, f # r[p] PROVE \E k \in 1..(n - 1) : s[k] = f
    BY <1>11, <2>2
  <2> QED BY <2>1, <2>2
<1> QED BY <1>2, <1>9, <1>12 DEF LeadsPast

LEMMA DelNextKeeps ==
  ASSUME CallsInv, ListInv, NEW c \in Callers, DelPrevNext(c) PROVE ListInv'
<1> PICK e : e = call[c].ept
  OBVIOUS
<1>1. call[c].step = "del_next" /\ CallFits(c)
  BY DEF CallsInv, DelPrevNext, At
<1>2. e \in Endpoints /\ owners[e] = Nobody /\ call[c].step \in Locked
  BY <1>1 DEF CallFits, At, Locked
<1> PICK n, r : Pointers(r, n)
  BY DEF ListInv
<1>3. PICK p \in 1..n : r[p] = e /\ next[e] = r[p + 1] /\ prev[e] = r[p - 1]
  BY <1>1, <1>2, Listed DEF DelSteps
<1>4. /\ next' = [next EXCEPT ![r[p - 1]] = r[p + 1]] /\ prev' = prev
      /\ Goto(c, "del_self") /\ lock' = lock /\ owners' = owners
  BY <1>3 DEF DelPrevNext
<1>5. PICK new \in Calls : /\ new.step = "del_self" /\ new.ept = e
                           /\ Moves(c, new) /\ call'[c] = new
  <2>1. "del_self" \in Steps
    BY DEF Steps, Locked
  <2> QED BY <1>4, <2>1, MovesOn DEF CallsInv
<1>6. Ring(r, n) /\ n \in Nat
  BY DEF Pointers, Ring
<1>7. prev[r[p + 1]] = r[p - 1]
  BY <1>1, <1>3 DEF Pointers, Written
<1>20. PICK s : s = Past(r, n, p)
  OBVIOUS
<1>21. PICK m : m = n - 1
  OBVIOUS
<1>19. LeadsPast(s, r, n, p)
  BY ONLY <1>6, <1>20, p \in 1..n, Shortened
<1>8. /\ Ring(s, m)
      /\ \A k \in 0..n : s[k] = IF k < p THEN r[k] ELSE r[k + 1]
      /\ \A f \in Endpoints : (\E k \in 1..m : s[k] = f)
                                <=> (\E k \in 1..n : r[k] = f) /\ f # e
  BY ONLY <1>3, <1>19, <1>21 DEF LeadsPast
<1>9. /\ next' \in [RingNodes -> RingNodes \cup {Nobody}]
      /\ \A x \in RingNodes : next'[x] = IF x = r[p - 1] THEN r[p + 1] ELSE next[x]
  <2>1. next \in [RingNodes -> RingNodes \cup {Nobody}]
    BY DEF ListInv
  <2>2. p \in 0..n
    BY <1>6
  <2>3. r[p + 1] \in RingNodes
    BY <1>6, <2>2, RingApart
  <2> QED BY <1>4, <2>1, <2>3
<1>10. Members(s, m)'
  <2>1. ~InList(e)'
    BY <1>2, <1>4, <1>5, OwnInList
  <2>2. \A f \in Endpoints : f # e => (InList(f)' <=> InList(f))
    BY <1>5, OthersInList
  <2>3. Members(r, n)
    BY DEF Pointers
  <2> QED BY <1>8, <2>1, <2>2, <2>3 DEF Members
<1>11. \A k \in 0..m : /\ k \in 0..n /\ k + 1 \in 0..n
                       /\ k < p - 1 \/ k = p - 1 \/ k >= p
  BY <1>6, <1>21
<1>12. p - 1 \in 0..n /\ p \in 0..n /\ (p - 1) + 1 = p /\ p - 1 < p /\ ~(p < p)
  BY <1>6
<1>13. NextIs(s, m)'
  <2> SUFFICES ASSUME NEW k \in 0..m PROVE next'[s[k]] = s[k + 1]
    BY DEF NextIs
  <2>0. k \in 0..n /\ k + 1 \in 0..n /\ s[k] = (IF k < p THEN r[k] ELSE r[k + 1])
        /\ s[k + 1] = (IF k + 1 < p THEN r[k + 1] ELSE r[(k + 1) + 1])
    BY <1>8, <1>11
  <2>1. CASE k < p - 1
    <3>1. s[k] = r[k] /\ s[k + 1] = r[k + 1] /\ k # p - 1
      BY <2>0, <2>1, <1>12
    <3>2. r[k] # r[p - 1] /\ r[k] \in RingNodes
      BY <1>6, <1>12, <2>0, <3>1, RingApart
    <3>3. next[r[k]] = r[k + 1]
      BY <2>0 DEF Pointers, NextIs
    <3> QED BY <1>9, <3>1, <3>2, <3>3
  <2>2. CASE k = p - 1
    <3>1. s[k] = r[p - 1] /\ s[k + 1] = r[p + 1]
      BY <1>12, <2>0, <2>2
    <3>2. r[p - 1] \in RingNodes
      BY <1>6, <1>12, RingApart
    <3> QED BY <1>9, <3>1, <3>2
  <2>3. CASE k >= p
    <3>1. s[k] = r[k + 1] /\ s[k + 1] = r[(k + 1) + 1] /\ k + 1 # p - 1
      BY <1>12, <2>0, <2>3
    <3>2. r[k + 1] # r[p - 1] /\ r[k + 1] \in RingNodes
      BY <1>6, <1>12, <2>0, <3>1, RingApart
    <3>3. next[r[k + 1]] = r[(k + 1) + 1]
      BY <2>0 DEF Pointers, NextIs
    <3> QED BY <1>9, <3>1, <3>2, <3>3
  <2> QED BY <1>11, <2>1, <2>2, <2>3
<1>14. ASSUME NEW k \in 0..m PROVE prev'[s[k + 1]] = s[k]
  <2>0. k \in 0..n /\ k + 1 \in 0..n /\ s[k] = (IF k < p THEN r[k] ELSE r[k + 1])
        /\ s[k + 1] = (IF k + 1 < p THEN r[k + 1] ELSE r[(k + 1) + 1])
    BY <1>8, <1>11
  <2>1. CASE k < p - 1
    <3>1. s[k] = r[k] /\ s[k + 1] = r[k + 1] /\ k # p
      BY <2>0, <2>1, <1>12
    <3>2. r[k] # e
      BY <1>3, <1>6, <1>12, <2>0, <3>1, RingApart
    <3>3. prev[r[k + 1]] = r[k]
      BY <1>1, <1>2, <2>0, <3>2, ListRead
    <3> QED BY <1>4, <3>1, <3>3
  <2>2. CASE k = p - 1
    <3>1. s[k] = r[p - 1] /\ s[k + 1] = r[p + 1]
      BY <1>12, <2>0, <2>2
    <3> QED BY <1>4, <1>7, <3>1
  <2>3. CASE k >= p
    <3>1. s[k] = r[k + 1] /\ s[k + 1] = r[(k + 1) + 1] /\ k + 1 # p
      BY <1>12, <2>0, <2>3
    <3>2. r[k + 1] # e
      BY <1>3, <1>6, <1>12, <2>0, <3>1, RingApart
    <3>3. prev[r[(k + 1) + 1]] = r[k + 1]
      BY <1>1, <1>2, <2>0, <3>2, ListRead
    <3> QED BY <1>4, <3>1, <3>3
  <2> QED BY <1>11, <2>1, <2>2, <2>3
<1>15. Written(s, m, c)'
  BY <1>5 DEF Written
<1>16. prev' \in [RingNodes -> RingNodes \cup {Nobody}]
  BY <1>4 DEF ListInv
<1>17. \A k \in 0..m : \/ prev'[s[k + 1]] = s[k]
                       \/ new.step = "prev_next" /\ k = m
                       \/ new.step = "del_next" /\ s[k] = new.ept
  BY <1>14
<1>18. Moves(c, new) /\ call[c].step \in Locked /\ CallsInv
       /\ next' \in [RingNodes -> RingNodes \cup {Nobody}] /\ Ring(s, m)
  BY <1>2, <1>5, <1>8, <1>9
<1> QED BY ONLY <1>10, <1>13, <1>15, <1>16, <1>17, <1>18, ListWritten

LEMMA RingInit == RpmsgInit => ListInv
<1> SUFFICES ASSUME RpmsgInit PROVE ListInv
  OBVIOUS
<1>0. ListHead \notin Endpoints /\ Nobody \notin Endpoints
  BY RpmsgAssumption
<1>3. /\ next \in [RingNodes -> RingNodes \cup {Nobody}]
      /\ prev \in [RingNodes -> RingNodes \cup {Nobody}]
      /\ next[ListHead] = ListHead /\ prev[ListHead] = ListHead
  BY DEF RpmsgInit, RingNodes
<1>4. \A c \in Callers : call[c].step = "idle" /\ call[c].ept = Nobody
  BY DEF RpmsgInit, Idle
<1> PICK r : r = [k \in 0..1 |-> ListHead]
  OBVIOUS
<1>5. r \in [0..1 -> RingNodes] /\ r[0] = ListHead /\ r[1] = ListHead
  BY DEF RingNodes
<1>6. 0..(0 + 1) = 0..1 /\ 1..0 = {} /\ 0 + 1 = 1 /\ \A k \in 0..0 : k = 0
  OBVIOUS
<1>7. Ring(r, 0)
  BY <1>5, <1>6 DEF Ring
<1>8. \A e \in Endpoints : ~InList(e)
  BY <1>0, <1>4 DEF InList, Removing, RpmsgInit
<1>9. Members(r, 0) /\ NextIs(r, 0) /\ PrevIs(r, 0)
  BY <1>3, <1>5, <1>6, <1>8 DEF Members, NextIs, PrevIs
<1>10. \A c \in Callers : Written(r, 0, c)
  BY <1>4 DEF Written
<1>11. Pointers(r, 0)
  BY <1>7, <1>9, <1>10 DEF Pointers
<1> QED BY <1>3, <1>11 DEF ListInv

LEMMA ListKept ==
  ASSUME AddressInv, ListInv, NEW c \in Callers, CreateSteps(c) \/ DestroySteps(c)
  PROVE  ListInv'
<1>0. CallsInv /\ CallFits(c) /\ ANY # Nobody /\ Nobody \notin Nat
  BY RpmsgAssumption DEF AddressInv, CallsInv
<1>1. owners \in [Endpoints -> Nat \cup {ANY, Nobody}]
  BY <1>0 DEF CallsInv
<1>2. call[c].step # "idle" => call[c].ept \in Endpoints
  BY <1>0 DEF CallFits, At
<1>3. CASE TakeAnyAddress(c) \/ TakeAddress(c)
  <2>1. /\ call[c].step = "address" /\ Goto(c, "new_prev") /\ lock' = lock
        /\ owners' = owners /\ UNCHANGED <<next, prev>>
    BY <1>3 DEF TakeAnyAddress, TakeAddress, InitEpt, At, listVars
  <2>2. "new_prev" \in Steps
    BY DEF Steps, Locked, CreateLocked
  <2> QED BY <1>0, <1>1, <1>2, <2>1, <2>2, ListGoesOn DEF Writing, DelSteps
<1>4. CASE AddressNotFree(c)
  <2>1. /\ call[c].step = "address" /\ Returns(c) /\ Release(c)
        /\ owners' = owners /\ UNCHANGED <<next, prev>>
    BY <1>4 DEF AddressNotFree, At, listVars
  <2> QED BY <1>0, <1>2, <2>1, ListReturns DEF Writing, DelSteps
<1>5. CASE LinkNewPrev(c) \/ LinkNewNext(c) \/ LinkNextPrev(c) \/ LinkPrevNext(c)
  BY <1>0, <1>5, NewPrevKeeps, NewNextKeeps, NextPrevKeeps, PrevNextKeeps
<1>6. CASE Registered(c)
  <2>1. /\ call[c].step = "registered" /\ Release(c)
        /\ owners' = owners /\ UNCHANGED <<next, prev>>
    BY <1>6 DEF Registered, At, listVars
  <2>2. CASE Goto(c, "announce")
    <3>1. "announce" \in Steps
      BY DEF Steps
    <3> QED BY <1>0, <1>1, <1>2, <2>1, <2>2, <3>1, ListGoesOn DEF Writing, DelSteps
  <2>3. CASE Returns(c)
    BY <1>0, <1>2, <2>1, <2>3, ListReturns DEF Writing, DelSteps
  <2> QED BY <1>6, <2>2, <2>3 DEF Registered
<1>7. CASE Announced(c)
  <2>1. /\ call[c].step = "announce" /\ Acquire(c)
        /\ owners' = owners /\ UNCHANGED <<next, prev>>
    BY <1>7 DEF Announced, At, listVars
  <2>2. PICK step \in {"unlock", "unregister"} : Goto(c, step)
    BY <1>7 DEF Announced
  <2>3. step \in Steps
    BY DEF Steps, Locked
  <2> QED BY <1>0, <1>1, <1>2, <2>1, <2>2, <2>3, ListGoesOn DEF Writing, DelSteps
<1>8. CASE Unlock(c)
  <2>1. /\ call[c].step = "unlock" /\ Returns(c) /\ Release(c)
        /\ owners' = owners /\ UNCHANGED <<next, prev>>
    BY <1>8 DEF Unlock, At, listVars
  <2> QED BY <1>0, <1>2, <2>1, ListReturns DEF Writing, DelSteps
<1>9. CASE DestroyLocks(c)
  <2>1. /\ call[c].step = "farewell" /\ Acquire(c) /\ Goto(c, "unregister")
        /\ owners' = owners /\ UNCHANGED <<next, prev>>
    BY <1>9 DEF DestroyLocks, At, listVars
  <2>2. "unregister" \in Steps
    BY DEF Steps, Locked
  <2> QED BY <1>0, <1>1, <1>2, <2>1, <2>2, ListGoesOn DEF Writing, DelSteps
<1>10. CASE ReleaseAddress(c)
  <2>1. /\ call[c].step = "unregister" /\ Goto(c, "del_prev") /\ lock' = lock
        /\ owners' = [owners EXCEPT ![call[c].ept] = Nobody]
        /\ UNCHANGED <<next, prev>>
    BY <1>10 DEF ReleaseAddress, At, listVars
  <2>2. "del_prev" \in Steps
    BY DEF Steps, Locked
  <2>3. owners[call[c].ept] # Nobody
    BY <1>0, <2>1 DEF CallFits
  <2> QED BY <1>0, <1>1, <1>2, <2>1, <2>2, <2>3, ListGoesOn DEF Writing, DelSteps
<1>11. CASE DelNextPrev(c) \/ DelPrevNext(c) \/ DelSelf(c)
  BY <1>0, <1>11, DelPrevKeeps, DelNextKeeps, DelSelfKeeps
<1> QED BY <1>3, <1>4, <1>5, <1>6, <1>7, <1>8, <1>9, <1>10, <1>11
        DEF CreateSteps, DestroySteps

LEMMA RingNext == AddressInv /\ ListInv /\ [RpmsgNext]_rpmsgVars => ListInv'
<1> SUFFICES ASSUME AddressInv, ListInv, [RpmsgNext]_rpmsgVars PROVE ListInv'
  OBVIOUS
<1>0. CallsInv /\ Sources \cup Dests \subseteq Nat \cup {ANY}
  BY RpmsgAssumption DEF AddressInv
<1>1. ASSUME NEW c \in Callers, NEW e \in Endpoints, NEW src \in Sources,
             NEW dst \in Dests, BeginCreate(c, e, src, dst)
      PROVE  ListInv'
  <2> PICK new : new = [step |-> "address", ept |-> e, src |-> src, dst |-> dst]
    OBVIOUS
  <2>1. new \in Calls /\ new.ept = e /\ new.step \in {"address", "farewell"}
    BY <1>0 DEF Calls, Steps, Locked, CreateLocked
  <2>2. call' = [call EXCEPT ![c] = new]
    BY <1>1 DEF BeginCreate
  <2>3. /\ At(c, "idle") /\ ~Busy(e) /\ owners' = owners
        /\ UNCHANGED <<next, prev>> /\ (lock' = lock \/ Acquire(c))
    BY <1>1 DEF BeginCreate, listVars
  <2>4. ListInv
    OBVIOUS
  <2> QED BY ONLY <1>0, <2>1, <2>2, <2>3, <2>4, ListBegins
<1>2. ASSUME NEW c \in Callers, NEW e \in Endpoints, BeginDestroy(c, e)
      PROVE  ListInv'
  <2> PICK new : new = [Idle EXCEPT !.step = "farewell", !.ept = e]
    OBVIOUS
  <2>1. new \in Calls /\ new.ept = e /\ new.step \in {"address", "farewell"}
    BY DEF Idle, Calls, Steps
  <2>2. call' = [call EXCEPT ![c] = new]
    BY <1>2 DEF BeginDestroy
  <2>3. /\ At(c, "idle") /\ ~Busy(e) /\ owners' = owners
        /\ UNCHANGED <<next, prev>> /\ (lock' = lock \/ Acquire(c))
    BY <1>2 DEF BeginDestroy, listVars
  <2>4. ListInv
    OBVIOUS
  <2> QED BY ONLY <1>0, <2>1, <2>2, <2>3, <2>4, ListBegins
<1>3. CASE UNCHANGED <<listVars, eptVars, bitmap, lock, call, owners>>
  BY <1>3 DEF listVars, ListInv, Pointers, Members, InList, Removing,
              NextIs, PrevIs, Behind, Written
<1> QED BY <1>1, <1>2, <1>3, ListKept
        DEF RpmsgNext, CallersNext, StrayAddress, rpmsgVars

(***************************************************************************)
(* The rpmsg endpoints: lookups                                            *)
(***************************************************************************)
Onward(w) ==
  [n \in 0..(Cardinality(Endpoints) + 1) |->
     IF n = 0 THEN next[ListHead]
     ELSE IF w[n - 1] \in Endpoints THEN next[w[n - 1]] ELSE w[n - 1]]

LEMMA WalkGoesOnward ==
  ASSUME NEW w, w = Onward(w) PROVE Walked = Onward(Walked)
<1>1. \E v : v = [n \in 0..(Cardinality(Endpoints) + 1) |->
                   IF n = 0 THEN next[ListHead]
                   ELSE IF v[n - 1] \in Endpoints THEN next[v[n - 1]] ELSE v[n - 1]]
  BY Zenon DEF Onward
<1> QED BY <1>1, Zenon DEF Walked, Onward

LEMMA OneWayOnward ==
  ASSUME NEW v, v = Onward(v), NEW w, w = Onward(w) PROVE v = w
<1> PICK N : N = Cardinality(Endpoints) + 1
  OBVIOUS
<1>0. N \in Nat
  BY RpmsgAssumption, FS_CardinalityType
<1>1. \A k \in 0..N : v[k] = IF k = 0 THEN next[ListHead]
                            ELSE IF v[k - 1] \in Endpoints THEN next[v[k - 1]]
                            ELSE v[k - 1]
  BY DEF Onward
<1>2. \A k \in 0..N : w[k] = IF k = 0 THEN next[ListHead]
                            ELSE IF w[k - 1] \in Endpoints THEN next[w[k - 1]]
                            ELSE w[k - 1]
  BY DEF Onward
<1>3. v = [k \in 0..N |-> v[k]] /\ w = [k \in 0..N |-> w[k]]
  BY DEF Onward
<1>4. ASSUME NEW j \in 0..N, v[j] # w[j] PROVE FALSE
  <2> DEFINE T == {k \in 0..N : v[k] # w[k]}
  <2>1. T \subseteq Nat /\ T # {}
    BY <1>0, <1>4
  <2>2. PICK k \in T : \A i \in T : k <= i
    BY ONLY <2>1, Pure!LeastNumber
  <2>3. CASE k = 0
    BY <1>0, <1>1, <1>2, <2>2, <2>3
  <2>4. CASE k # 0
    <3>1. k \in 0..N /\ k - 1 \in 0..N /\ ~(k <= k - 1)
      BY <1>0, <2>2, <2>4
    <3>2. v[k - 1] = w[k - 1]
      BY <2>2, <3>1
    <3>3. v[k] = w[k]
      BY <1>1, <1>2, <2>4, <3>1, <3>2
    <3> QED BY <2>2, <3>3
  <2> QED BY <2>3, <2>4
<1> QED BY <1>3, <1>4

(* A walk goes along the way, to the head, and stays there.                *)
LEMMA WalkIsTheWay ==
  ASSUME NEW n, NEW r, Pointers(r, n)
  PROVE  /\ n \in Nat /\ n <= Cardinality(Endpoints)
         /\ Cardinality(Endpoints) \in Nat
         /\ DOMAIN Walked = 0..(Cardinality(Endpoints) + 1)
         /\ \A k \in DOMAIN Walked : Walked[k] = IF k <= n THEN r[k + 1] ELSE ListHead
<1> PICK N : N = Cardinality(Endpoints)
  OBVIOUS
<1>0. N \in Nat /\ ListHead \notin Endpoints
  BY RpmsgAssumption, FS_CardinalityType
<1>1. /\ n \in Nat /\ r[0] = ListHead /\ r[n + 1] = ListHead
      /\ \A k \in 1..n : r[k] \in Endpoints
      /\ \A j, k \in 1..n : r[j] = r[k] => j = k
  BY DEF Pointers, Ring
<1>2. \A k \in 0..n : next[r[k]] = r[k + 1]
  BY DEF Pointers, NextIs
<1>3. n <= N
  <2> PICK f : f = [k \in 1..n |-> r[k]]
    OBVIOUS
  <2>1. f \in Injection(1..n, Endpoints)
    BY <1>1 DEF Injection, IsInjective
  <2>2. Cardinality(1..n) <= Cardinality(Endpoints)
    BY <2>1, FS_Injection, RpmsgAssumption
  <2>3. Cardinality(1..n) = n
    <3>1. 1 \in Int /\ n \in Int
      BY <1>1
    <3>2. Cardinality(1..n) = IF 1 > n THEN 0 ELSE n - 1 + 1
      BY ONLY <3>1, FS_Interval
    <3> QED BY <1>1, <3>2
  <2> QED BY <2>2, <2>3
<1> PICK w : w = [k \in 0..(N + 1) |-> IF k <= n THEN r[k + 1] ELSE ListHead]
  OBVIOUS
<1>4. \A k \in 0..(N + 1) : w[k] = IF k <= n THEN r[k + 1] ELSE ListHead
  OBVIOUS
<1>5. ASSUME NEW k \in 0..(N + 1)
      PROVE  w[k] = IF k = 0 THEN next[ListHead]
                    ELSE IF w[k - 1] \in Endpoints THEN next[w[k - 1]] ELSE w[k - 1]
  <2>1. CASE k = 0
    <3>1. 0 \in 0..n /\ k <= n
      BY <1>1, <2>1
    <3> QED BY <1>1, <1>2, <1>4, <2>1, <3>1
  <2>2. CASE k # 0 /\ k <= n
    <3>1. k \in 0..n /\ k \in 1..n /\ k - 1 \in 0..(N + 1) /\ k - 1 <= n
          /\ (k - 1) + 1 = k
      BY <1>0, <1>1, <2>2
    <3>2. w[k - 1] = r[k] /\ w[k] = r[k + 1]
      BY <1>4, <2>2, <3>1
    <3> QED BY <1>1, <1>2, <2>2, <3>1, <3>2
  <2>3. CASE k # 0 /\ ~(k <= n)
    <3>1. k - 1 \in 0..(N + 1) /\ (k - 1 = n \/ ~(k - 1 <= n))
      BY <1>0, <1>1, <2>3
    <3>2. w[k - 1] = ListHead /\ w[k] = ListHead
      BY <1>1, <1>4, <2>3, <3>1
    <3> QED BY <1>0, <2>3, <3>2
  <2> QED BY <2>1, <2>2, <2>3
<1>6. w = Onward(w)
  BY <1>5 DEF Onward
<1>7. Walked = w
  BY <1>6, WalkGoesOnward, OneWayOnward
<1> QED BY <1>0, <1>1, <1>3, <1>4, <1>7

LEMMA FirstFound ==
  ASSUME NEW found, found \subseteq Nat, found # {}
  PROVE  (CHOOSE n \in found : \A m \in found : n <= m) \in found
<1>1. \E n \in found : \A m \in found : n <= m
  BY Pure!LeastNumber
<1> QED BY <1>1, Zenon

(* A lookup comes back with an endpoint it has met and that matches.       *)
LEMMA LookupMatches ==
  ASSUME NEW named, NEW a, NEW d, DOMAIN Walked \subseteq Nat,
         NEW e \in Visited \cap Endpoints, Matches(e, named, a, d)
  PROVE  /\ GetEndpoint(named, a, d) \in Visited \cap Endpoints
         /\ Matches(GetEndpoint(named, a, d), named, a, d)
<1> PICK found : found = {n \in DOMAIN Walked :
                            /\ Walked[n] \in Endpoints
                            /\ Matches(Walked[n], named, a, d)}
  OBVIOUS
<1>1. found # {} /\ found \subseteq Nat
  BY DEF Visited
<1> PICK n : n = CHOOSE k \in found : \A m \in found : k <= m
  OBVIOUS
<1>2. n \in found
  BY <1>1, FirstFound
<1>3. GetEndpoint(named, a, d) = Walked[n]
  BY <1>1 DEF GetEndpoint
<1>4. /\ n \in DOMAIN Walked /\ Walked[n] \in Endpoints
      /\ Matches(Walked[n], named, a, d)
  <2>1. \A k \in found : /\ k \in DOMAIN Walked /\ Walked[k] \in Endpoints
                          /\ Matches(Walked[k], named, a, d)
    OBVIOUS
  <2> QED BY ONLY <1>2, <2>1
<1>5. Walked[n] \in Visited
  BY <1>4 DEF Visited
<1> QED BY <1>3, <1>4, <1>5, Zenon

LEMMA AllFound == AddressInv /\ ListInv => LookupsFind
<1> SUFFICES ASSUME AddressInv, ListInv PROVE LookupsFind
  OBVIOUS
<1>0. /\ CallsInv /\ Nobody \notin Endpoints /\ ListHead \notin Endpoints
      /\ ANY # Nobody
  BY RpmsgAssumption DEF AddressInv
<1> PICK n, r : Pointers(r, n)
  BY DEF ListInv
<1> PICK N : N = Cardinality(Endpoints)
  OBVIOUS
<1>1. /\ n \in Nat /\ N \in Nat /\ n <= N /\ DOMAIN Walked = 0..(N + 1)
      /\ \A k \in 0..(N + 1) : Walked[k] = IF k <= n THEN r[k + 1] ELSE ListHead
  BY WalkIsTheWay
<1>2. /\ r[n + 1] = ListHead
      /\ \A e \in Endpoints : InList(e) <=> \E k \in 1..n : r[k] = e
  BY DEF Pointers, Ring, Members
<1>3. ListHead \in Visited
  <2>1. n \in 0..(N + 1) /\ n <= n
    BY <1>1
  <2>2. Walked[n] = ListHead
    BY <1>1, <1>2, <2>1
  <2> QED BY <1>1, <2>1, <2>2 DEF Visited
<1>4. ASSUME NEW e \in Endpoints, InList(e) PROVE e \in Visited
  <2> PICK k \in 1..n : r[k] = e
    BY <1>2, <1>4
  <2>1. k - 1 \in 0..(N + 1) /\ k - 1 <= n /\ (k - 1) + 1 = k
    BY <1>1
  <2>2. Walked[k - 1] = e
    BY <1>1, <2>1
  <2> QED BY <1>1, <2>1, <2>2 DEF Visited
<1>5. ASSUME NEW e \in Visited \cap Endpoints PROVE InList(e)
  <2> PICK k \in 0..(N + 1) : Walked[k] = e
    BY <1>1 DEF Visited
  <2>1. k <= n /\ r[k + 1] = e
    BY <1>0, <1>1
  <2>2. k # n
    BY <1>0, <1>2, <2>1
  <2>3. k + 1 \in 1..n
    BY <1>1, <2>1, <2>2
  <2> QED BY <1>2, <2>1, <2>3
<1>6. \A e \in Endpoints : owners[e] # Nobody => e \in Visited
  BY <1>4 DEF InList
<1>7. ASSUME NEW e \in Visited \cap Endpoints, owners[e] = Nobody
      PROVE  \E c \in Callers : call[c].ept = e /\ call[c].step \in {"del_prev", "del_next"}
  BY <1>5, <1>7 DEF InList, Removing
<1>8. DOMAIN Walked \subseteq Nat
  BY <1>1
<1>9. ASSUME NEW e \in Endpoints, owners[e] # Nobody, addr[e] # ANY
      PROVE  GetEptFromAddr(addr[e]) = e
  <2> PICK f : f = GetEndpoint(FALSE, addr[e], ANY)
    OBVIOUS
  <2>1. Matches(e, FALSE, addr[e], ANY) /\ e \in Visited \cap Endpoints
    BY <1>6, <1>9 DEF Matches
  <2>2. f \in Visited \cap Endpoints /\ Matches(f, FALSE, addr[e], ANY)
    BY <1>8, <2>1, LookupMatches
  <2>3. addr[f] = addr[e]
    BY <2>2 DEF Matches
  <2>4. Addressed(e)
    BY <1>9 DEF Addressed
  <2>5. CASE owners[f] # Nobody
    <3>1. Addressed(f)
      BY <2>5 DEF Addressed
    <3>2. f = e
      BY <1>9, <2>2, <2>3, <2>4, <3>1 DEF AddressInv
    <3> QED BY <3>2 DEF GetEptFromAddr
  <2>6. CASE owners[f] = Nobody
    <3>1. PICK c \in Callers : call[c].ept = f /\ Removing(c)
      BY <1>7, <2>2, <2>6 DEF Removing
    <3>2. addr[f] \notin bitmap
      BY <3>1 DEF AddressInv
    <3>3. addr[e] \in bitmap
      BY <1>9, <2>4 DEF AddressInv
    <3> QED BY <2>3, <3>2, <3>3
  <2> QED BY <2>5, <2>6
<1>10. ASSUME NEW e \in Endpoints, owners[e] # Nobody, dest[e] # ANY
       PROVE  dest[GetEndpoint(TRUE, ANY, dest[e])] \in {dest[e], ANY}
  <2> PICK f : f = GetEndpoint(TRUE, ANY, dest[e])
    OBVIOUS
  <2>1. Matches(e, TRUE, ANY, dest[e]) /\ e \in Visited \cap Endpoints
    BY <1>6, <1>10 DEF Matches
  <2>2. Matches(f, TRUE, ANY, dest[e])
    BY <1>8, <2>1, LookupMatches
  <2>3. dest[f] \in {dest[e], ANY}
    BY <2>2 DEF Matches
  <2> QED BY <2>3
<1> QED BY <1>3, <1>6, <1>7, <1>9, <1>10 DEF LookupsFind

(* A handler that looks an endpoint up between any two writes of a caller  *)
(* comes to the end of the list and finds what is registered.              *)
THEOREM LookupsAlwaysFind == RpmsgSpec => []LookupsFind
BY AddressInit, AddressNext, RingInit, RingNext, AllFound, PTL DEF RpmsgSpec

(***************************************************************************)
(* Numbers of the log                                                      *)
(***************************************************************************)
Radixes == {10, 16}

(* A division of a number that is not larger, by a base that is not        *)
(* smaller.                                                                *)
LEMMA DivisionShrinks ==
  ASSUME NEW a \in Nat, NEW b \in Nat, a <= b, NEW base \in Radixes
  PROVE  /\ a \div base \in Nat /\ a \div base <= b \div 10
         /\ a % base \in 0..(base - 1)
         /\ a = (a \div base) * base + (a % base)
         /\ a \div base = 0 => a % base = a
<1>1. CASE base = 10
  BY <1>1
<1>2. CASE base = 16
  BY <1>2
<1> QED BY <1>1, <1>2 DEF Radixes

(* The first rounds of that loop.                                         *)
QuotientsTo(n, value, base, rest) ==
  rest = [i \in 0..n |-> IF i = 0 THEN value ELSE rest[i - 1] \div base]

(* The loop of print_uint64 has a quotient after every round: the          *)
(* recursive function exists.                                              *)
LEMMA QuotientsExist ==
  ASSUME NEW value, NEW base
  PROVE  \A n \in Nat : \E rest : QuotientsTo(n, value, base, rest)
<1> DEFINE T == {n \in Nat : ~ \E rest : QuotientsTo(n, value, base, rest)}
<1> SUFFICES ASSUME T # {} PROVE FALSE
  OBVIOUS
<1>1. PICK n \in T : \A m \in T : n <= m
  BY Pure!LeastNumber
<1>2. n # 0
  <2> SUFFICES ASSUME n = 0 PROVE FALSE
    OBVIOUS
  <2>1. QuotientsTo(0, value, base, [i \in 0..0 |-> value])
    BY DEF QuotientsTo
  <2> QED BY <2>1
<1>3. n - 1 \in Nat /\ ~(n - 1 \in T)
  BY <1>1, <1>2
<1>4. PICK f : QuotientsTo(n - 1, value, base, f)
  BY <1>3
<1> DEFINE g == [i \in 0..n |-> IF i = n THEN f[n - 1] \div base ELSE f[i]]
<1>5. QuotientsTo(n, value, base, g)
  <2>1. \A i \in 0..(n - 1) : f[i] = IF i = 0 THEN value
                                     ELSE f[i - 1] \div base
    BY <1>4 DEF QuotientsTo
  <2>2. \A i \in 0..n : g[i] = IF i = 0 THEN value ELSE g[i - 1] \div base
    <3> SUFFICES ASSUME NEW i \in 0..n
                 PROVE  g[i] = IF i = 0 THEN value ELSE g[i - 1] \div base
      OBVIOUS
    <3>1. CASE i = n
      BY <1>2, <1>3, <3>1
    <3>2. CASE i # n
      BY <1>3, <2>1, <3>2
    <3> QED BY <3>1, <3>2
  <2> HIDE DEF g
  <2>3. g = [i \in 0..n |-> g[i]]
    BY DEF g
  <2> QED BY <2>2, <2>3, Zenon DEF QuotientsTo
<1> QED BY <1>1, <1>5

(* The value after each round of the loop.                                 *)
LEMMA QuotientsAre ==
  ASSUME NEW value \in Nat, NEW base \in Radixes,
         NEW rest, rest = Quotients(value, base)
  PROVE  /\ rest[0] = value
         /\ \A i \in 0..STR_LENGTH : rest[i] \in Nat
         /\ \A i \in 1..STR_LENGTH : rest[i] = rest[i - 1] \div base
<1>0. STR_LENGTH \in Nat
  BY DEF STR_LENGTH
<1>1. QuotientsTo(STR_LENGTH, value, base, rest)
  <2>1. PICK f : QuotientsTo(STR_LENGTH, value, base, f)
    BY <1>0, QuotientsExist
  <2> QED BY <2>1, Zenon DEF QuotientsTo, Quotients
<1>2. /\ \A i \in 0..STR_LENGTH : rest[i] = IF i = 0 THEN value
                                           ELSE rest[i - 1] \div base
  BY <1>1 DEF QuotientsTo
<1>3. ASSUME NEW j \in 0..STR_LENGTH, rest[j] \notin Nat PROVE FALSE
  <2> DEFINE T == {i \in 0..STR_LENGTH : rest[i] \notin Nat}
  <2>1. T \subseteq Nat /\ T # {}
    BY <1>0, <1>3
  <2>2. PICK i \in T : \A k \in T : i <= k
    BY ONLY <2>1, Pure!LeastNumber
  <2>3. i # 0
    BY <1>0, <1>2, <2>2
  <2>4. i - 1 \in 0..STR_LENGTH /\ ~(i <= i - 1)
    BY <1>0, <2>2, <2>3
  <2>5. rest[i - 1] \in Nat
    BY <2>2, <2>4
  <2>6. rest[i] = rest[i - 1] \div base
    BY <1>2, <2>2, <2>3
  <2>7. PICK a \in Nat : a = rest[i - 1]
    BY <2>5
  <2>8. a \div base \in Nat
    BY ONLY a \in Nat, a <= a, base \in Radixes, DivisionShrinks
  <2> QED BY <2>2, <2>6, <2>7, <2>8
<1> QED BY <1>0, <1>2, <1>3

(* The buffer is large enough for every value of the wider word.           *)
LEMMA BufferSuffices ==
  ASSUME NEW value \in Nat, value < LongSize, NEW base \in Radixes
  PROVE  Quotients(value, base)[STR_LENGTH] = 0
<1> PICK rest : rest = Quotients(value, base)
  OBVIOUS
<1> PICK most : most = Quotients(LongSize - 1, 10)
  OBVIOUS
<1>0. STR_LENGTH \in Nat /\ LongSize - 1 \in Nat /\ value <= LongSize - 1
  BY FormatAssumption DEF STR_LENGTH
<1>1. /\ rest[0] = value
      /\ \A i \in 0..STR_LENGTH : rest[i] \in Nat
      /\ \A i \in 1..STR_LENGTH : rest[i] = rest[i - 1] \div base
  BY QuotientsAre
<1>2. /\ most[0] = LongSize - 1
      /\ \A i \in 0..STR_LENGTH : most[i] \in Nat
      /\ \A i \in 1..STR_LENGTH : most[i] = most[i - 1] \div 10
  BY <1>0, QuotientsAre DEF Radixes
<1>3. ASSUME NEW j \in 0..STR_LENGTH, ~(rest[j] <= most[j]) PROVE FALSE
  <2> DEFINE T == {i \in 0..STR_LENGTH : ~(rest[i] <= most[i])}
  <2>1. T \subseteq Nat /\ T # {}
    BY <1>0, <1>3
  <2>2. PICK i \in T : \A k \in T : i <= k
    BY ONLY <2>1, Pure!LeastNumber
  <2>3. i # 0
    BY <1>0, <1>1, <1>2, <2>2
  <2>4. i \in 1..STR_LENGTH /\ i - 1 \in 0..STR_LENGTH /\ ~(i <= i - 1)
    BY <1>0, <2>2, <2>3
  <2>5. rest[i - 1] <= most[i - 1]
    BY <2>2, <2>4
  <2>6. PICK a \in Nat, b \in Nat : a = rest[i - 1] /\ b = most[i - 1]
    BY <1>1, <1>2, <2>4
  <2>7. a \div base <= b \div 10
    BY ONLY a \in Nat, b \in Nat, <2>5, <2>6, base \in Radixes, DivisionShrinks
  <2>8. rest[i] = a \div base /\ most[i] = b \div 10
    BY <1>1, <1>2, <2>4, <2>6
  <2> QED BY <2>2, <2>7, <2>8
<1>4. most[STR_LENGTH] = 0
  BY BufferAssumption
<1> QED BY <1>0, <1>1, <1>3, <1>4

(* The loop stops at the first quotient that is zero.                      *)
LEMMA DigitsCounted ==
  ASSUME NEW value \in Nat, value < LongSize, NEW base \in Radixes,
         NEW rest, rest = Quotients(value, base),
         NEW n, n = DigitCount(value, base)
  PROVE  n \in 1..STR_LENGTH /\ rest[n] = 0 /\ (n = 1 \/ rest[n - 1] # 0)
<1>0. STR_LENGTH \in Nat /\ STR_LENGTH \in 1..STR_LENGTH
  BY DEF STR_LENGTH
<1> DEFINE T == {i \in 1..STR_LENGTH : rest[i] = 0}
<1>1. T \subseteq Nat /\ STR_LENGTH \in T
  BY <1>0, BufferSuffices
<1>2. PICK m \in T : \A i \in T : m <= i
  BY ONLY <1>1, Pure!LeastNumber
<1>3. m \in 1..STR_LENGTH /\ rest[m] = 0 /\ (m = 1 \/ rest[m - 1] # 0)
  <2>1. ASSUME m # 1, rest[m - 1] = 0 PROVE FALSE
    <3>1. m - 1 \in T /\ ~(m <= m - 1)
      BY <1>0, <1>2, <2>1
    <3> QED BY <1>2, <3>1
  <2> QED BY <1>2, <2>1
<1>4. n = CHOOSE i \in 1..STR_LENGTH :
            rest[i] = 0 /\ (i = 1 \/ rest[i - 1] # 0)
  BY Zenon DEF DigitCount
<1> QED BY <1>3, <1>4, Zenon

(* No two digits are put as the same character, and none as the sign.      *)
LEMMA CharsDiffer ==
  /\ \A i, j \in 1..16 : CHARS[i] = CHARS[j] => i = j
  /\ \A i \in 1..16 : CHARS[i] # "-"
  /\ CHARS[1] = "0"
<1>1. CHARS[1] = "0"
  BY DEF CHARS
<1>2. \A i \in 1..16 : i \in {1, 2, 3, 4, 5, 6, 7, 8, 9, 10, 11, 12, 13, 14,
                              15, 16}
  OBVIOUS
<1>3. \A i \in 1..16 : CHARS[i] # "-"
  BY <1>2 DEF CHARS
<1>4. ASSUME NEW i \in 1..16, NEW j \in 1..16, CHARS[i] = CHARS[j]
      PROVE  i = j
  BY <1>2, <1>4 DEF CHARS
<1> QED BY <1>1, <1>3, <1>4

(* The characters of digits.                                               *)
Glyphs == {CHARS[i] : i \in 1..16}

(* The digits of print_uint64 after z zeros, of a value that is less than  *)
(* what the wider word holds.                                              *)
Spelled(text, z, n, value, base) ==
  /\ z \in Nat /\ n \in 1..STR_LENGTH
  /\ text \in Seq(Glyphs) /\ Len(text) = z + n
  /\ Quotients(value, base)[n] = 0
  /\ n = 1 \/ Quotients(value, base)[n - 1] # 0
  /\ \A k \in 1..z : text[k] = CHARS[1]
  /\ \A k \in 1..n :
       text[z + k] = CHARS[(Quotients(value, base)[n - k] % base) + 1]

(* A remainder is the index of a digit.                                    *)
LEMMA Remainders ==
  ASSUME NEW a \in Nat, NEW base \in Radixes
  PROVE  (a % base) + 1 \in 1..16 /\ (a % base) + 1 \in 1..base
BY DivisionShrinks, a <= a DEF Radixes

(* The items of two texts one after the other.                             *)
LEMMA Joined ==
  ASSUME NEW S, NEW s \in Seq(S), NEW t \in Seq(S)
  PROVE  /\ s \o t \in Seq(S) /\ Len(s \o t) = Len(s) + Len(t)
         /\ Len(s) \in Nat /\ Len(t) \in Nat
         /\ \A k \in 1..Len(s) : (s \o t)[k] = s[k]
         /\ \A k \in 1..Len(t) : (s \o t)[Len(s) + k] = t[k]
<1>1. Len(s \o t) = Len(s) + Len(t) /\ s \o t \in Seq(S)
  OBVIOUS
<1>2. \A k \in 1..Len(s) : (s \o t)[k] = s[k]
  OBVIOUS
<1>3. ASSUME NEW k \in 1..Len(t) PROVE (s \o t)[Len(s) + k] = t[k]
  OBVIOUS
<1> QED BY <1>1, <1>2, <1>3

(* print_uint64 puts the digits of the value, after as many zeros as the   *)
(* width leaves room for.                                                  *)
LEMMA PrintsDigits ==
  ASSUME NEW value \in Nat, value < LongSize, NEW base \in Radixes,
         NEW fill \in Nat
  PROVE  \E z, n : /\ Spelled(PrintUint64(value, base, fill), z, n, value,
                              base)
                   /\ z + n >= fill /\ (z > 0 => z + n = fill)
<1> PICK rest : rest = Quotients(value, base)
  OBVIOUS
<1> PICK n : n = DigitCount(value, base)
  OBVIOUS
<1>0. STR_LENGTH \in Nat
  BY DEF STR_LENGTH
<1>1. \A i \in 0..STR_LENGTH : rest[i] \in Nat
  BY QuotientsAre
<1>2. n \in 1..STR_LENGTH /\ rest[n] = 0 /\ (n = 1 \/ rest[n - 1] # 0)
  BY DigitsCounted
<1> PICK digits : digits = [k \in 1..n |-> CHARS[(rest[n - k] % base) + 1]]
  OBVIOUS
<1>3. digits \in Seq(Glyphs) /\ Len(digits) = n
  <2>1. \A k \in 1..n : CHARS[(rest[n - k] % base) + 1] \in Glyphs
    <3> SUFFICES ASSUME NEW k \in 1..n
                 PROVE  CHARS[(rest[n - k] % base) + 1] \in Glyphs
      OBVIOUS
    <3>1. rest[n - k] \in Nat
      BY <1>0, <1>1, <1>2
    <3> QED BY <3>1, Remainders DEF Glyphs
  <2> QED BY <1>0, <1>2, <2>1
<1>4. digits = ValueText(value, base)
  BY DEF ValueText
<1> PICK z : z = IF fill > Len(digits) THEN fill - Len(digits) ELSE 0
  OBVIOUS
<1> PICK zeros : zeros = [k \in 1..z |-> "0"]
  OBVIOUS
<1>5. z \in Nat /\ z + n >= fill /\ (z > 0 => z + n = fill)
  BY <1>0, <1>2, <1>3
<1>6. /\ zeros \in Seq(Glyphs) /\ Len(zeros) = z
      /\ \A k \in 1..z : zeros[k] = CHARS[1]
  <2>1. CHARS[1] \in Glyphs
    BY DEF Glyphs
  <2>2. zeros = [k \in 1..z |-> CHARS[1]]
    BY CharsDiffer
  <2> QED BY ONLY <1>5, <2>1, <2>2
<1>7. PrintUint64(value, base, fill) = zeros \o digits
  BY <1>4 DEF PrintUint64
<1> PICK text : text = zeros \o digits
  OBVIOUS
<1>8. /\ text \in Seq(Glyphs) /\ Len(text) = z + n
      /\ \A k \in 1..z : text[k] = zeros[k]
      /\ \A k \in 1..n : text[z + k] = digits[k]
  <2>1. zeros \in Seq(Glyphs) /\ digits \in Seq(Glyphs)
    BY <1>3, <1>6
  <2>2. /\ text \in Seq(Glyphs) /\ Len(text) = Len(zeros) + Len(digits)
        /\ \A k \in 1..Len(zeros) : text[k] = zeros[k]
        /\ \A k \in 1..Len(digits) : text[Len(zeros) + k] = digits[k]
    BY ONLY text = zeros \o digits, <2>1, Joined
  <2> QED BY ONLY <2>2, <1>3, <1>6
<1>9. Spelled(text, z, n, value, base)
  <2>1. \A k \in 1..z : text[k] = CHARS[1]
    BY ONLY <1>6, <1>8
  <2>2. \A k \in 1..n : text[z + k] = CHARS[(rest[n - k] % base) + 1]
    BY <1>8
  <2>3. Quotients(value, base) = rest
    OBVIOUS
  <2> QED BY ONLY <1>2, <1>5, <1>8, <2>1, <2>2, <2>3 DEF Spelled
<1> QED BY <1>5, <1>7, <1>9

(* A digit stands for one value.                                           *)
LEMMA DigitMeans ==
  ASSUME NEW base \in Radixes, NEW d \in 0..(base - 1)
  PROVE  d = CHOOSE e \in 0..(base - 1) : CHARS[e + 1] = CHARS[d + 1]
<1>1. ASSUME NEW e \in 0..(base - 1), CHARS[e + 1] = CHARS[d + 1]
      PROVE  e = d
  <2>1. e + 1 \in 1..16 /\ d + 1 \in 1..16 /\ e \in Int /\ d \in Int
    BY DEF Radixes
  <2>2. e + 1 = d + 1
    BY <1>1, <2>1, CharsDiffer
  <2> QED BY <2>1, <2>2
<1> QED BY <1>1

(* The function that ReadBack is made of.                                  *)
Readings(f, text, base) ==
  f = [k \in 0..Len(text) |->
         IF k = 0 THEN 0
         ELSE f[k - 1] * base
              + (CHOOSE d \in 0..(base - 1) : CHARS[d + 1] = text[k])]

(* A text reads back in one way.                                           *)
LEMMA OneReading ==
  ASSUME NEW text, NEW base, Len(text) \in Nat,
         NEW f, Readings(f, text, base), NEW g, Readings(g, text, base)
  PROVE  f = g
<1> PICK N : N = Len(text)
  OBVIOUS
<1> DEFINE D(k) == CHOOSE d \in 0..(base - 1) : CHARS[d + 1] = text[k]
<1>1. /\ f = [k \in 0..N |-> IF k = 0 THEN 0 ELSE f[k - 1] * base + D(k)]
      /\ g = [k \in 0..N |-> IF k = 0 THEN 0 ELSE g[k - 1] * base + D(k)]
  BY Zenon DEF Readings
<1> HIDE DEF D
<1>2. /\ \A k \in 0..N : f[k] = IF k = 0 THEN 0 ELSE f[k - 1] * base + D(k)
      /\ \A k \in 0..N : g[k] = IF k = 0 THEN 0 ELSE g[k - 1] * base + D(k)
      /\ f = [k \in 0..N |-> f[k]] /\ g = [k \in 0..N |-> g[k]]
  BY <1>1
<1>3. ASSUME NEW j \in 0..N, f[j] # g[j] PROVE FALSE
  <2> DEFINE T == {k \in 0..N : f[k] # g[k]}
  <2>1. T \subseteq Nat /\ T # {}
    BY <1>3
  <2>2. PICK k \in T : \A i \in T : k <= i
    BY ONLY <2>1, Pure!LeastNumber
  <2>3. k # 0
    BY <1>2, <2>2
  <2>4. k - 1 \in 0..N /\ ~(k <= k - 1)
    BY <2>2, <2>3
  <2>5. f[k - 1] = g[k - 1]
    BY <2>2, <2>4
  <2>6. f[k] = f[k - 1] * base + D(k) /\ g[k] = g[k - 1] * base + D(k)
    BY <1>2, <2>2, <2>3
  <2> QED BY ONLY <2>2, <2>5, <2>6
<1>4. \A k \in 0..N : f[k] = g[k]
  BY <1>3
<1> QED BY ONLY <1>2, <1>4

(* Digits read back as the value they were made of, with any zeros.        *)
LEMMA DigitsReadBack ==
  ASSUME NEW value \in Nat, NEW base \in Radixes, NEW text, NEW z, NEW n,
         Spelled(text, z, n, value, base)
  PROVE  ReadBack(text, base) = value
<1> PICK rest : rest = Quotients(value, base)
  OBVIOUS
<1>0. /\ z \in Nat /\ n \in Nat /\ n >= 1 /\ n <= STR_LENGTH
      /\ STR_LENGTH \in Nat /\ Len(text) = z + n /\ Len(text) \in Nat
  BY DEF Spelled, STR_LENGTH
<1>1. /\ rest[0] = value
      /\ \A i \in 0..STR_LENGTH : rest[i] \in Nat
      /\ \A i \in 1..STR_LENGTH : rest[i] = rest[i - 1] \div base
  BY QuotientsAre
<1>2. /\ rest[n] = 0 /\ \A k \in 1..z : text[k] = CHARS[1]
      /\ \A k \in 1..n : text[z + k] = CHARS[(rest[n - k] % base) + 1]
  BY DEF Spelled
<1> PICK e : e = [k \in 0..(z + n) |-> IF k <= z THEN 0 ELSE rest[n - (k - z)]]
  OBVIOUS
<1> DEFINE D(k) == CHOOSE d \in 0..(base - 1) : CHARS[d + 1] = text[k]
<1>3. /\ \A k \in 0..z : e[k] = 0
      /\ \A k \in 0..n : e[z + k] = rest[n - k]
  BY <1>0, <1>2
<1>4. \A k \in 1..z : D(k) = 0
  <2> SUFFICES ASSUME NEW k \in 1..z PROVE D(k) = 0
    OBVIOUS
  <2>1. 0 \in 0..(base - 1) /\ text[k] = CHARS[0 + 1]
    BY <1>2 DEF Radixes
  <2> QED BY ONLY <2>1, base \in Radixes, DigitMeans
<1>5. \A k \in 1..n : D(z + k) = rest[n - k] % base
  <2> SUFFICES ASSUME NEW k \in 1..n PROVE D(z + k) = rest[n - k] % base
    OBVIOUS
  <2>i. n - k \in 0..STR_LENGTH
    BY ONLY <1>0, k \in 1..n
  <2>1. PICK a \in Nat : a = rest[n - k]
    BY ONLY <1>1, <2>i
  <2>2. PICK d \in 0..(base - 1) : d = a % base
    BY <2>1, a <= a, DivisionShrinks
  <2>3. text[z + k] = CHARS[d + 1]
    BY <1>2, <2>1, <2>2
  <2> QED BY ONLY <2>1, <2>2, <2>3, base \in Radixes, DigitMeans
<1> HIDE DEF D
<1>6. \A k \in 0..(z + n) :
        e[k] = IF k = 0 THEN 0 ELSE e[k - 1] * base + D(k)
  <2> SUFFICES ASSUME NEW k \in 0..(z + n), k # 0
               PROVE  e[k] = e[k - 1] * base + D(k)
    BY <1>0, <1>3
  <2>1. CASE k <= z
    <3>1. k \in 1..z /\ k \in 0..z /\ k - 1 \in 0..z
      BY <1>0, <2>1
    <3>2. e[k] = 0 /\ e[k - 1] = 0 /\ D(k) = 0
      BY <1>3, <1>4, <3>1
    <3> QED BY <3>2 DEF Radixes
  <2>2. CASE k > z
    <3>1. PICK i \in 1..n : k = z + i
      BY <1>0, <2>2
    <3>2. k - 1 = z + (i - 1) /\ i - 1 \in 0..n /\ n - i \in 0..STR_LENGTH
          /\ n - (i - 1) \in 1..STR_LENGTH /\ n - (i - 1) - 1 = n - i
      BY <1>0, <3>1
    <3>3. PICK a \in Nat : a = rest[n - i]
      BY <1>1, <3>2
    <3>4. e[k] = a /\ D(k) = a % base
      BY <1>3, <1>5, <3>1, <3>3
    <3>5. e[k - 1] = a \div base
      <4>1. e[k - 1] = rest[n - (i - 1)]
        BY <1>3, <3>2
      <4>2. rest[n - (i - 1)] = rest[n - (i - 1) - 1] \div base
        BY ONLY <1>1, <3>2
      <4> QED BY ONLY <3>2, <3>3, <4>1, <4>2
    <3>6. a = (a \div base) * base + (a % base)
      BY a <= a, DivisionShrinks
    <3> QED BY ONLY <3>4, <3>5, <3>6
  <2> QED BY <1>0, <2>1, <2>2
<1>7. Readings(e, text, base)
  <2>1. e = [k \in 0..(z + n) |-> e[k]]
    OBVIOUS
  <2>2. e = [k \in 0..Len(text) |->
               IF k = 0 THEN 0 ELSE e[k - 1] * base + D(k)]
    BY ONLY <1>0, <1>6, <2>1
  <2> QED BY ONLY <2>2, Zenon DEF Readings, D
<1> PICK f : f = CHOOSE g : Readings(g, text, base)
  OBVIOUS
<1>8. f = e
  <2>1. Readings(f, text, base)
    BY <1>7, Zenon
  <2> QED BY <1>0, <1>7, <2>1, OneReading
<1>9. ReadBack(text, base) = f[Len(text)]
  BY Zenon DEF ReadBack, Readings
<1>10. e[Len(text)] = value
  BY <1>0, <1>1, <1>3
<1> QED BY <1>8, <1>9, <1>10

(* The first digit is a zero only if it is the only one.                   *)
LEMMA FirstDigit ==
  ASSUME NEW value \in Nat, NEW base \in Radixes, NEW text, NEW z, NEW n,
         Spelled(text, z, n, value, base), text[1] = "0"
  PROVE  z > 0 \/ Len(text) = 1
<1> PICK rest : rest = Quotients(value, base)
  OBVIOUS
<1>0. /\ z \in Nat /\ n \in Nat /\ n >= 1 /\ n <= STR_LENGTH
      /\ STR_LENGTH \in Nat /\ Len(text) = z + n
  BY DEF Spelled, STR_LENGTH
<1> SUFFICES ASSUME z = 0, n # 1 PROVE FALSE
  BY <1>0
<1>1. PICK a \in Nat : a = rest[n - 1]
  BY <1>0, QuotientsAre
<1>2. a # 0 /\ a \div base = 0
  <2>1. n \in 1..STR_LENGTH /\ rest[n] = rest[n - 1] \div base
    BY <1>0, QuotientsAre
  <2>2. rest[n] = 0 /\ rest[n - 1] # 0
    BY DEF Spelled
  <2> QED BY <1>1, <2>1, <2>2
<1>3. a % base = a /\ (a % base) + 1 \in 1..16
  BY <1>2, a <= a, DivisionShrinks, Remainders
<1>4. text[1] = CHARS[(a % base) + 1]
  <2>1. 1 \in 1..n /\ z + 1 = 1
    BY <1>0
  <2> QED BY <1>1, <2>1 DEF Spelled
<1> QED BY <1>1, <1>2, <1>3, <1>4, CharsDiffer

(***************************************************************************)
(* Formats of the log                                                      *)
(***************************************************************************)
(* These characters of the format are a text.                              *)
Reads(i, j, text) ==
  /\ Len(text) \in Nat /\ j = i + Len(text) - 1
  /\ \A k \in 1..Len(text) : fmt[i + k - 1] = text[k]

(* What may follow within a specifier.                                     *)
LongConversions == {<<"x">>, <<"l", "x">>}

Rest == IF specifier.bit64 THEN LongConversions ELSE Documented

(* The walk of a documented format is at the start of an item, or in a     *)
(* specifier that goes on as one.                                          *)
Ahead(starts) ==
  IF specifier = Outside THEN at \in starts
  ELSE \E j \in at..Len(fmt), text \in Rest :
         Reads(at, j, text) /\ j + 1 \in starts

WalkInv ==
  /\ status = "idle" => at = 1 /\ specifier = Outside
  /\ status = "printing" =>
       \A starts \in SUBSET (1..(Len(fmt) + 1)) :
         StartsOf(fmt, starts) => Ahead(starts)
  /\ status = "E_DATA" => ~IsDocumented(fmt)

WalkTypeOK ==
  /\ fmt \in Seq(FormatChars) /\ at \in Nat /\ 1 <= at /\ at <= Len(fmt) + 1
  /\ specifier \in [bit64 : BOOLEAN, fill : 0..9] \cup {Outside}

(* One of the conversions of one character.                                *)
Single == {"c", "s", "e", "d", "i", "u", "x"}
Decimals == {CHARS[k] : k \in 1..10}

(* The members of Documented, without the set of all pairs.                *)
LEMMA DocumentedAre ==
  \A text : text \in Documented <=>
    \/ text \in {<<"c">>, <<"s">>, <<"e">>}
    \/ \E pad \in Pads, conversion \in Conversions :
         text = pad \o conversion
<1>1. PICK S : S = {<<"c">>, <<"s">>, <<"e">>}
  OBVIOUS
<1>2. Documented = S \cup {pad \o conversion : pad \in Pads,
                                            conversion \in Conversions}
  BY <1>1 DEF Documented
<1>3. \A text : text \in Documented <=>
        text \in S \/ \E pad \in Pads, conversion \in Conversions :
                        text = pad \o conversion
  BY ONLY <1>2, SMT
<1> QED BY <1>1, <1>3

(* The conversions, with or without long.                                  *)
LEMMA ConversionsAre ==
  ASSUME NEW S, "d" \in S, "i" \in S, "u" \in S, "x" \in S, "l" \in S,
         NEW text \in Conversions
  PROVE  /\ text \in Seq(S) /\ Len(text) \in 1..3
         /\ \/ Len(text) = 1 /\ text[1] \in {"d", "i", "u", "x"}
            \/ /\ text[1] = "l" /\ Len(text) \in 2..3
               /\ text[Len(text)] = "x" /\ (Len(text) = 3 => text[2] = "l")
<1>1. CASE text = <<"d">>
  BY <1>1
<1>2. CASE text = <<"i">>
  BY <1>2
<1>3. CASE text = <<"u">>
  BY <1>3
<1>4. CASE text = <<"x">>
  BY <1>4
<1>5. CASE text = <<"l", "x">>
  BY <1>5
<1>6. CASE text = <<"l", "l", "x">>
  BY <1>6
<1> QED BY <1>1, <1>2, <1>3, <1>4, <1>5, <1>6 DEF Conversions

(* A specifier is one conversion, a long one, or a width before another.   *)
SpecifierShape(text) ==
  \/ Len(text) = 1 /\ text[1] \in Single
  \/ /\ text[1] = "l" /\ Len(text) \in 2..3
     /\ text[Len(text)] = "x" /\ (Len(text) = 3 => text[2] = "l")
  \/ \E rest \in Documented :
       /\ text[1] = "0" /\ text[2] \in Decimals
       /\ Len(text) = Len(rest) + 2 /\ Len(rest) \in 1..3
       /\ \A k \in 1..Len(rest) : text[k + 2] = rest[k]

(* How the specifiers begin and how they go on.                            *)
LEMMA DocumentedGoesOn ==
  ASSUME NEW text \in Documented
  PROVE  SpecifierShape(text)
<1>1. CASE text \in {<<"c">>, <<"s">>, <<"e">>}
  <2>1. CASE text = <<"c">>
    BY <2>1 DEF Single, SpecifierShape
  <2>2. CASE text = <<"s">>
    BY <2>2 DEF Single, SpecifierShape
  <2>3. CASE text = <<"e">>
    BY <2>3 DEF Single, SpecifierShape
  <2> QED BY <1>1, <2>1, <2>2, <2>3
<1>2. ASSUME NEW pad \in Pads, NEW conversion \in Conversions,
             text = pad \o conversion
      PROVE  SpecifierShape(text)
  <2>1. CASE pad = <<>>
    <3> DEFINE S == {"d", "i", "u", "x", "l"}
    <3>1. /\ conversion \in Seq(S)
          /\ \/ /\ Len(conversion) = 1
                /\ conversion[1] \in {"d", "i", "u", "x"}
             \/ /\ conversion[1] = "l" /\ Len(conversion) \in 2..3
                /\ conversion[Len(conversion)] = "x"
                /\ (Len(conversion) = 3 => conversion[2] = "l")
      BY ConversionsAre
    <3> HIDE DEF S
    <3>2. text = conversion
      BY ONLY <1>2, <2>1, <3>1
    <3> QED BY ONLY <3>1, <3>2 DEF SpecifierShape, Single
  <2>2. CASE pad # <<>>
    <3>1. PICK k \in 1..10 : pad = <<"0", CHARS[k]>>
      BY <2>2 DEF Pads
    <3>2. /\ Len(conversion) \in 1..3
          /\ Len(text) = Len(conversion) + 2
          /\ text[1] = "0" /\ text[2] = CHARS[k]
          /\ \A i \in 1..Len(conversion) : text[i + 2] = conversion[i]
      <4> DEFINE S == {"0", "d", "i", "u", "x", "l", CHARS[k]}
      <4>1. pad \in Seq(S) /\ Len(pad) = 2 /\ pad[1] = "0" /\ pad[2] = CHARS[k]
        BY <3>1
      <4>2. conversion \in Seq(S) /\ Len(conversion) \in 1..3
        BY ConversionsAre
      <4> HIDE DEF S
      <4>3. /\ Len(text) = Len(pad) + Len(conversion)
            /\ \A i \in 1..Len(pad) : text[i] = pad[i]
            /\ \A i \in 1..Len(conversion) :
                 text[Len(pad) + i] = conversion[i]
        <5>1. PICK t : t = pad \o conversion
          OBVIOUS
        <5>3. pad \in Seq(S) /\ conversion \in Seq(S)
          BY <4>1, <4>2
        <5>2. /\ Len(t) = Len(pad) + Len(conversion)
              /\ \A i \in 1..Len(pad) : t[i] = pad[i]
              /\ \A i \in 1..Len(conversion) :
                   t[Len(pad) + i] = conversion[i]
          BY ONLY <5>1, <5>3, Joined
        <5> QED BY ONLY <1>2, <5>1, <5>2
      <4> QED BY ONLY <4>1, <4>2, <4>3
    <3>3. conversion \in Documented
      <4> DEFINE S == {"d", "i", "u", "x", "l"}
      <4>1. conversion \in Seq(S)
        BY ConversionsAre
      <4>2. <<>> \o conversion = conversion
        BY ONLY <4>1
      <4>3. <<>> \in Pads
        BY DEF Pads
      <4> QED BY ONLY conversion \in Conversions, <4>2, <4>3, DocumentedAre
    <3> QED BY ONLY <3>2, <3>3 DEF Decimals, SpecifierShape
  <2> QED BY <2>1, <2>2
<1> QED BY <1>1, <1>2, DocumentedAre, Zenon

(* A part of the format is read as that part.                              *)
LEMMA SubSeqReads ==
  ASSUME fmt \in Seq(FormatChars), NEW i \in Nat, i >= 1,
         NEW j \in i..Len(fmt)
  PROVE  Reads(i, j, SubSeq(fmt, i, j))
BY DEF Reads

(* The terminator is no character of a specifier.                          *)
LEMMA CharsAt ==
  ASSUME WalkTypeOK
  PROVE  /\ Len(fmt) \in Nat
         /\ \A i \in Nat \ {0} : /\ i <= Len(fmt) => CharAt(i) = fmt[i]
                                 /\ CharAt(i) # EndOfString => i <= Len(fmt)
BY DEF WalkTypeOK, CharAt

(* The three ways on within a specifier that ends where an item starts: a  *)
(* conversion, the letter of a long one, or a width.                       *)
LEMMA SpecifierAhead ==
  ASSUME WalkTypeOK, specifier # Outside, NEW starts, Ahead(starts)
  PROVE  \/ /\ Char \in Single /\ at + 1 \in starts
            /\ specifier.bit64 => Char = "x"
         \/ /\ Char = "l"
            /\ \E j \in (at + 1)..Len(fmt), text \in LongConversions :
                 Reads(at + 1, j, text) /\ j + 1 \in starts
         \/ /\ Char = "0" /\ CharAt(at + 1) \in Decimals
            /\ specifier.bit64 = FALSE
            /\ \E j \in (at + 2)..Len(fmt), text \in Documented :
                 Reads(at + 2, j, text) /\ j + 1 \in starts
<1>1. PICK j \in at..Len(fmt), text \in Rest :
        Reads(at, j, text) /\ j + 1 \in starts
  BY DEF Ahead
<1>2. at \in Nat /\ at >= 1 /\ Len(fmt) \in Nat
  BY DEF WalkTypeOK
<1>10. specifier.bit64 \in BOOLEAN
  BY DEF WalkTypeOK
<1>3. /\ Len(text) \in Nat /\ j = at + Len(text) - 1
      /\ \A k \in 1..Len(text) : fmt[at + k - 1] = text[k]
  BY <1>1 DEF Reads
<1>9. /\ j \in Nat /\ at <= j /\ j <= Len(fmt)
      /\ Len(text) \in Nat /\ j = at + Len(text) - 1
  BY ONLY <1>1, <1>2, <1>3
<1>4. Char = text[1] /\ Char = fmt[at]
  <2>1. 1 \in 1..Len(text) /\ at + 1 - 1 = at
    BY <1>1, <1>2, <1>3
  <2> QED BY <1>1, <1>2, <1>3, <2>1, CharsAt DEF Char
<1>5. ASSUME Len(text) = 1, text[1] \in Single,
             specifier.bit64 => text[1] = "x"
      PROVE  /\ Char \in Single /\ at + 1 \in starts
             /\ specifier.bit64 => Char = "x"
  <2>1. j = at
    BY ONLY <1>2, <1>5, <1>9
  <2> QED BY <1>1, <1>4, <1>5, <2>1
<1>6. ASSUME text[1] = "l", Len(text) \in 2..3, text[Len(text)] = "x",
             Len(text) = 3 => text[2] = "l"
      PROVE  /\ Char = "l"
             /\ \E i \in (at + 1)..Len(fmt), rest \in LongConversions :
                  Reads(at + 1, i, rest) /\ i + 1 \in starts
  <2>1. j \in (at + 1)..Len(fmt)
    BY ONLY <1>2, <1>6, <1>9
  <2>2. CASE Len(text) = 2
    <3>1. j = at + 1 /\ fmt[at + 1] = "x"
      <4>1. 2 \in 1..Len(text) /\ at + 2 - 1 = at + 1 /\ j = at + 1
        BY ONLY <1>2, <1>9, <2>2
      <4> QED BY <1>3, <1>6, <2>2, <4>1
    <3>2. Reads(at + 1, j, <<"x">>)
      BY <1>2, <3>1 DEF Reads
    <3> QED BY <1>1, <1>4, <1>6, <2>1, <3>2 DEF LongConversions
  <2>3. CASE Len(text) = 3
    <3>1. j = at + 2 /\ fmt[at + 1] = "l" /\ fmt[at + 2] = "x"
      <4>1. /\ 2 \in 1..Len(text) /\ 3 \in 1..Len(text) /\ j = at + 2
            /\ at + 2 - 1 = at + 1 /\ at + 3 - 1 = at + 2
        BY ONLY <1>2, <1>9, <2>3
      <4> QED BY <1>3, <1>6, <2>3, <4>1
    <3>2. Reads(at + 1, j, <<"l", "x">>)
      BY <1>2, <3>1 DEF Reads
    <3> QED BY <1>1, <1>4, <1>6, <2>1, <3>2 DEF LongConversions
  <2> QED BY <1>6, <2>2, <2>3
<1>7. CASE specifier.bit64
  <2>1. \/ Len(text) = 1 /\ text[1] = "x"
        \/ /\ text[1] = "l" /\ Len(text) = 2 /\ text[2] = "x"
    BY <1>7 DEF Rest, LongConversions
  <2>2. CASE Len(text) = 1 /\ text[1] = "x"
    <3>1. text[1] \in Single
      BY <2>2 DEF Single
    <3> QED BY <1>5, <2>2, <3>1
  <2>3. CASE text[1] = "l" /\ Len(text) = 2 /\ text[2] = "x"
    <3>1. Len(text) \in 2..3 /\ text[Len(text)] = "x" /\ Len(text) # 3
      BY ONLY <2>3
    <3> QED BY <1>6, <2>3, <3>1
  <2> QED BY ONLY <2>1, <2>2, <2>3
<1>8. CASE ~specifier.bit64
  <2>1. text \in Documented
    BY <1>8 DEF Rest
  <2>2. SpecifierShape(text)
    BY <2>1, DocumentedGoesOn
  <2>3. ASSUME NEW rest \in Documented,
               /\ text[1] = "0" /\ text[2] \in Decimals
               /\ Len(text) = Len(rest) + 2 /\ Len(rest) \in 1..3
               /\ \A k \in 1..Len(rest) : text[k + 2] = rest[k]
        PROVE  /\ Char = "0" /\ CharAt(at + 1) \in Decimals
               /\ specifier.bit64 = FALSE
               /\ \E i \in (at + 2)..Len(fmt), r \in Documented :
                    Reads(at + 2, i, r) /\ i + 1 \in starts
    <3>1. j \in (at + 2)..Len(fmt) /\ j = at + 2 + Len(rest) - 1
          /\ Len(rest) \in Nat
      <4>1. Len(rest) \in Nat /\ Len(text) = Len(rest) + 2 /\ Len(rest) >= 1
        BY <2>3
      <4> QED BY ONLY <1>2, <1>9, <4>1
    <3>2. CharAt(at + 1) = text[2]
      <4>1. 2 \in 1..Len(text) /\ at + 2 - 1 = at + 1 /\ at + 1 <= Len(fmt)
            /\ at + 1 \in Nat \ {0}
        BY <1>2, <2>3, <3>1
      <4> QED BY <1>3, <4>1, CharsAt
    <3>3. Reads(at + 2, j, rest)
      <4>1. ASSUME NEW k \in 1..Len(rest) PROVE fmt[at + 2 + k - 1] = rest[k]
        <5>1. /\ k + 2 \in 1..Len(text)
              /\ at + 2 + k - 1 = at + (k + 2) - 1
          BY <1>2, <2>3
        <5> QED BY <1>3, <2>3, <5>1
      <4> QED BY <3>1, <4>1 DEF Reads
    <3>4. specifier.bit64 = FALSE
      BY ONLY <1>8, <1>10, Zenon
    <3>5. \E i \in (at + 2)..Len(fmt), r \in Documented :
            Reads(at + 2, i, r) /\ i + 1 \in starts
      BY <1>1, <3>1, <3>3
    <3>6. Char = "0" /\ CharAt(at + 1) \in Decimals
      BY <1>4, <2>3, <3>2
    <3> QED BY <3>4, <3>5, <3>6
  <2> QED BY <1>5, <1>6, <1>8, <2>2, <2>3 DEF SpecifierShape
<1> QED BY <1>7, <1>8, <1>10

(* A conversion ends a specifier.                                          *)
LEMMA Converts ==
  ASSUME WalkTypeOK, WalkInv, InSpecifier, Char \in Single,
         DoneWithSpecifier, status' = status \/ status' = "E_DEVICE"
  PROVE  WalkTypeOK' /\ WalkInv'
<1>1. /\ status = "printing" /\ specifier # Outside /\ specifier' = Outside
      /\ at' = at + 1 /\ UNCHANGED fmt
  BY DEF InSpecifier, DoneWithSpecifier, FormatUnchanged
<1>2. WalkTypeOK'
  <2>1. Char # EndOfString
    BY DEF Single, EndOfString
  <2>2. at \in Nat \ {0}
    BY DEF WalkTypeOK
  <2>3. at <= Len(fmt)
    BY <2>1, <2>2, CharsAt DEF Char
  <2> QED BY <1>1, <2>2, <2>3 DEF WalkTypeOK
<1>3. ASSUME NEW starts \in SUBSET (1..(Len(fmt) + 1)),
             StartsOf(fmt, starts), status' = "printing"
      PROVE  Ahead(starts)'
  <2>1. Ahead(starts)
    BY <1>1, <1>3 DEF WalkInv
  <2>2. at + 1 \in starts
    BY <1>1, <2>1, SpecifierAhead DEF Single
  <2> QED BY <1>1, <2>2 DEF Ahead
<1> QED BY <1>1, <1>2, <1>3 DEF WalkInv

(* Nothing is walked before the first call.                                *)
LEMMA WalkBegins == FormatInit => WalkTypeOK /\ WalkInv
<1> SUFFICES ASSUME FormatInit PROVE WalkTypeOK /\ WalkInv
  OBVIOUS
<1>1. fmt = <<>> /\ at = 1 /\ specifier = Outside /\ status = "idle"
  BY DEF FormatInit
<1>2. fmt \in Seq(FormatChars) /\ Len(fmt) = 0
  BY <1>1
<1>3. WalkTypeOK
  BY <1>1, <1>2 DEF WalkTypeOK
<1>4. WalkInv
  BY <1>1 DEF WalkInv
<1> QED BY <1>3, <1>4

(* A call starts the walk at the first character of its format.            *)
LEMMA CallWalks ==
  ASSUME WalkTypeOK, WalkInv, NEW group, NEW f \in Formats \cup {NULL},
         NEW a, DoLog(group, f, a)
  PROVE  WalkTypeOK' /\ WalkInv'
<1>1. at = 1 /\ specifier = Outside /\ UNCHANGED <<at, specifier>>
  BY DEF DoLog, WalkInv
<1>2. status' \in {"E_STATE", "E_PARAM", "SUCCESS", "printing"}
  BY DEF DoLog
<1>3. CASE status' = "printing"
  <2>1. f # NULL /\ fmt' = f
    BY <1>3 DEF DoLog
  <2>2. fmt' \in Seq(FormatChars)
    BY <2>1, FormatAssumption
  <2>3. WalkTypeOK'
    BY <1>1, <2>2 DEF WalkTypeOK
  <2>4. \A starts : StartsOf(fmt', starts) => Ahead(starts)'
    BY <1>1 DEF StartsOf, Ahead
  <2> QED BY <1>3, <2>3, <2>4 DEF WalkInv
<1>4. CASE status' # "printing"
  <2>1. UNCHANGED fmt
    BY <1>4 DEF DoLog
  <2> QED BY <1>1, <1>2, <1>4, <2>1 DEF WalkTypeOK, WalkInv
<1> QED BY <1>3, <1>4

(* Another character than a percent sign is an item of its own.            *)
LEMMA LiteralWalks ==
  ASSUME WalkTypeOK, WalkInv, Literal
  PROVE  WalkTypeOK' /\ WalkInv'
<1>1. /\ status = "printing" /\ specifier = Outside /\ specifier' = specifier
      /\ at' = at + 1 /\ fmt' = fmt /\ Char \notin {"%", EndOfString}
      /\ status' = status \/ status' = "E_DEVICE"
  BY DEF Literal, FormatUnchanged, PutOther, Put
<1>2. at \in Nat \ {0} /\ Len(fmt) \in Nat
  BY DEF WalkTypeOK
<1>3. at <= Len(fmt) /\ fmt[at] # "%"
  BY <1>1, <1>2, CharsAt DEF Char
<1>4. WalkTypeOK'
  BY <1>1, <1>2, <1>3 DEF WalkTypeOK
<1>5. ASSUME NEW starts \in SUBSET (1..(Len(fmt) + 1)),
             StartsOf(fmt, starts)
      PROVE  Ahead(starts)'
  <2>1. at \in starts \ {Len(fmt) + 1}
    BY <1>1, <1>2, <1>3, <1>5 DEF WalkInv, Ahead
  <2>2. at + 1 \in starts
    BY <1>3, <1>5, <2>1 DEF StartsOf
  <2> QED BY <1>1, <2>2 DEF Ahead
<1> QED BY <1>1, <1>4, <1>5 DEF WalkInv

(* A percent sign has a documented specifier after it.                     *)
LEMMA PercentWalks ==
  ASSUME WalkTypeOK, WalkInv, Percent
  PROVE  WalkTypeOK' /\ WalkInv'
<1>1. /\ status = "printing" /\ specifier = Outside
      /\ specifier' = [bit64 |-> FALSE, fill |-> 0]
      /\ at' = at + 1 /\ fmt' = fmt /\ Char = "%" /\ status' = status
  BY DEF Percent, FormatUnchanged
<1>2. at \in Nat \ {0} /\ Len(fmt) \in Nat /\ fmt \in Seq(FormatChars)
  BY DEF WalkTypeOK
<1>3. at <= Len(fmt) /\ fmt[at] = "%"
  BY <1>1, <1>2, CharsAt DEF Char, EndOfString
<1>4. WalkTypeOK'
  BY <1>1, <1>2, <1>3 DEF WalkTypeOK
<1>5. specifier' # Outside /\ Rest' = Documented
  BY <1>1 DEF Outside, Rest
<1>6. ASSUME NEW starts \in SUBSET (1..(Len(fmt) + 1)),
             StartsOf(fmt, starts)
      PROVE  Ahead(starts)'
  <2>1. at \in starts \ {Len(fmt) + 1}
    BY <1>1, <1>2, <1>3, <1>6 DEF WalkInv, Ahead
  <2>2. PICK j \in (at + 1)..Len(fmt) :
          SubSeq(fmt, at + 1, j) \in Documented /\ j + 1 \in starts
    BY <1>3, <1>6, <2>1 DEF StartsOf
  <2>3. PICK text : text = SubSeq(fmt, at + 1, j)
    OBVIOUS
  <2>4. text \in Documented
    BY <2>2, <2>3
  <2>5. Reads(at + 1, j, text)
    BY <1>2, <2>2, <2>3, SubSeqReads
  <2>6. Reads(at, j, text)'
    BY <1>1, <2>5 DEF Reads
  <2> QED BY <1>1, <1>5, <2>2, <2>4, <2>6 DEF Ahead
<1> QED BY <1>1, <1>4, <1>6 DEF WalkInv

(* After the letter of a long number only "x" and "lx" go on.              *)
LEMMA LongWalks ==
  ASSUME WalkTypeOK, WalkInv, Long
  PROVE  WalkTypeOK' /\ WalkInv'
<1>1. /\ status = "printing" /\ specifier # Outside
      /\ specifier' = [specifier EXCEPT !.bit64 = TRUE]
      /\ at' = at + 1 /\ fmt' = fmt /\ Char = "l" /\ status' = status
  BY DEF Long, FormatUnchanged, InSpecifier
<1>2. /\ at \in Nat \ {0} /\ Len(fmt) \in Nat
      /\ specifier \in [bit64 : BOOLEAN, fill : 0..9]
  BY <1>1 DEF WalkTypeOK
<1>3. at <= Len(fmt)
  BY <1>1, <1>2, CharsAt DEF Char, EndOfString
<1>4. /\ specifier' \in [bit64 : BOOLEAN, fill : 0..9]
      /\ specifier'.bit64 /\ specifier' # Outside
  BY <1>1, <1>2 DEF Outside
<1>5. WalkTypeOK' /\ Rest' = LongConversions
  BY <1>1, <1>2, <1>3, <1>4 DEF WalkTypeOK, Rest
<1>6. ASSUME NEW starts \in SUBSET (1..(Len(fmt) + 1)),
             StartsOf(fmt, starts)
      PROVE  Ahead(starts)'
  <2>1. PICK j \in (at + 1)..Len(fmt), text \in LongConversions :
          Reads(at + 1, j, text) /\ j + 1 \in starts
    BY <1>1, <1>6, SpecifierAhead DEF WalkInv, Single
  <2>2. Reads(at, j, text)'
    BY <1>1, <2>1 DEF Reads
  <2> QED BY <1>1, <1>4, <1>5, <2>1, <2>2 DEF Ahead
<1> QED BY <1>1, <1>5, <1>6 DEF WalkInv

(* The width of a padding is a digit of the format: it is not skipped past *)
(* the terminator, and a documented specifier goes on behind it.           *)
LEMMA FillWalks ==
  ASSUME WalkTypeOK, WalkInv, Fill
  PROVE  WalkTypeOK' /\ WalkInv'
<1>1. /\ status = "printing" /\ specifier # Outside
      /\ specifier' = [specifier EXCEPT !.fill = Digit(CharAt(at + 1))]
      /\ CharAt(at + 1) \in Decimals
      /\ at' = at + 2 /\ fmt' = fmt /\ Char = "0" /\ status' = status
  BY DEF Fill, FormatUnchanged, InSpecifier, Decimals
<1>2. /\ at \in Nat \ {0} /\ Len(fmt) \in Nat /\ at + 1 \in Nat \ {0}
      /\ specifier \in [bit64 : BOOLEAN, fill : 0..9]
  BY <1>1 DEF WalkTypeOK
<1>3. at + 1 <= Len(fmt)
  <2>1. CharAt(at + 1) # EndOfString
    <3>1. PICK k \in 1..10 : CharAt(at + 1) = CHARS[k]
      BY <1>1 DEF Decimals
    <3>2. k \in {1, 2, 3, 4, 5, 6, 7, 8, 9, 10}
      OBVIOUS
    <3> DEFINE D == {"0", "1", "2", "3", "4", "5", "6", "7", "8", "9"}
    <3>3. CHARS[k] \in D
      BY <3>2 DEF CHARS
    <3>4. EndOfString \notin D
      BY DEF EndOfString
    <3> QED BY <3>1, <3>3, <3>4
  <2> QED BY <1>2, <2>1, CharsAt
<1>4. Digit(CharAt(at + 1)) \in 0..9
  <2>1. PICK k \in 1..10 : CharAt(at + 1) = CHARS[k]
    BY <1>1 DEF Decimals
  <2>2. k - 1 \in 0..9 /\ CHARS[(k - 1) + 1] = CharAt(at + 1)
    BY <2>1
  <2> QED BY ONLY <2>2 DEF Digit
<1>5. /\ specifier' \in [bit64 : BOOLEAN, fill : 0..9]
      /\ specifier'.bit64 = specifier.bit64 /\ specifier' # Outside
  BY <1>1, <1>2, <1>4 DEF Outside
<1>6. WalkTypeOK' /\ Rest' = Rest
  BY <1>1, <1>2, <1>3, <1>5 DEF WalkTypeOK, Rest
<1>7. ASSUME NEW starts \in SUBSET (1..(Len(fmt) + 1)),
             StartsOf(fmt, starts)
      PROVE  Ahead(starts)'
  <2>1. /\ specifier.bit64 = FALSE
        /\ \E j \in (at + 2)..Len(fmt), text \in Documented :
             Reads(at + 2, j, text) /\ j + 1 \in starts
    BY <1>1, <1>7, SpecifierAhead DEF WalkInv, Single
  <2>2. PICK j \in (at + 2)..Len(fmt), text \in Documented :
          Reads(at + 2, j, text) /\ j + 1 \in starts
    BY <2>1
  <2>3. Reads(at, j, text)'
    BY <1>1, <2>2 DEF Reads
  <2>4. Rest' = Documented
    BY <1>6, <2>1 DEF Rest
  <2> QED BY <1>1, <1>5, <2>2, <2>3, <2>4 DEF Ahead
<1> QED BY <1>1, <1>6, <1>7 DEF WalkInv

(* A documented format is not refused.                                     *)
LEMMA RefuseWalks ==
  ASSUME WalkTypeOK, WalkInv, Refuse
  PROVE  WalkTypeOK' /\ WalkInv'
<1>1. /\ status = "printing" /\ specifier # Outside
      /\ UNCHANGED <<specifier, at, fmt>> /\ status' = "E_DATA"
      /\ \/ Char \notin {"e", "d", "i", "s", "c", "x", "u", "l", "0"}
         \/ Char = "0" /\ CharAt(at + 1) \notin Decimals
         \/ Char \in {"d", "i", "u"} /\ specifier.bit64
  BY DEF Refuse, FormatUnchanged, InSpecifier, Decimals
<1>2. ASSUME NEW starts \in SUBSET (1..(Len(fmt) + 1)),
             StartsOf(fmt, starts)
      PROVE  FALSE
  <2>1. Ahead(starts)
    BY <1>1, <1>2 DEF WalkInv
  <2> QED BY <1>1, <2>1, SpecifierAhead DEF Single
<1>3. ~IsDocumented(fmt)
  BY <1>2 DEF IsDocumented
<1> QED BY <1>1, <1>3 DEF WalkTypeOK, WalkInv

(* Every step of do_print.                                                 *)
LEMMA WalkGoesOn ==
  ASSUME WalkTypeOK, WalkInv, FormatNext
  PROVE  WalkTypeOK' /\ WalkInv'
<1>1. CASE Error \/ Signed \/ Text \/ Hexadecimal \/ Unsigned
  <2>1. InSpecifier /\ DoneWithSpecifier /\ Char \in Single
    BY <1>1 DEF Error, Signed, Text, Hexadecimal, Unsigned, Single
  <2>2. status' = status \/ status' = "E_DEVICE"
    BY <1>1 DEF Error, Signed, Text, Hexadecimal, Unsigned, PutOther,
                PutNumber, Put
  <2> QED BY <2>1, <2>2, Converts
<1>2. CASE EndOfFormat
  <2>1. status' = "SUCCESS" /\ UNCHANGED <<at, specifier, fmt>>
    BY <1>2 DEF EndOfFormat, FormatUnchanged
  <2> QED BY <2>1 DEF WalkTypeOK, WalkInv
<1> QED BY <1>1, <1>2, CallWalks, LiteralWalks, PercentWalks, LongWalks,
           FillWalks, RefuseWalks DEF FormatNext, DoPrint

(* The walk accepts what the header documents, and never passes the end of  *)
(* the format.                                                             *)
THEOREM DocumentedAccepted == FormatSpec => []FormatsAsDocumented
<1>1. WalkTypeOK /\ WalkInv => FormatsAsDocumented
  BY DEF WalkTypeOK, WalkInv, FormatsAsDocumented
<1>2. WalkTypeOK /\ WalkInv /\ [FormatNext]_formatVars
        => WalkTypeOK' /\ WalkInv'
  <2> SUFFICES ASSUME WalkTypeOK, WalkInv, [FormatNext]_formatVars
               PROVE  WalkTypeOK' /\ WalkInv'
    OBVIOUS
  <2>1. CASE UNCHANGED formatVars
    BY <2>1 DEF formatVars, WalkTypeOK, WalkInv, Ahead, Rest, Reads
  <2> QED BY <2>1, WalkGoesOn
<1> QED BY <1>1, <1>2, WalkBegins, PTL DEF FormatSpec

(***************************************************************************)
(* Numbers among what was put                                              *)
(***************************************************************************)
(* What do_print may put.                                                  *)
Items == FormatChars \cup Glyphs
         \cup {"-", "FWK_", "name", "text"}

(* A text reads back as a number, and is as long as was asked for.         *)
Reported(all, value, base, fill) ==
  LET text == IF value < 0 THEN Tail(all) ELSE all
  IN /\ all # <<>>
     /\ (value < 0) <=> (Head(all) = "-")
     /\ text # <<>>
     /\ ReadBack(text, base) = (IF value < 0 THEN -value ELSE value)
     /\ Len(text) >= fill
     /\ (Head(text) = "0" /\ Len(text) > 1) => Len(text) = fill

(* Whose negation is undefined.                                            *)
Smallest(value, base) == base = 10 /\ value = SmallestInt

(* The last number is where number says, and reads back.                   *)
NumberInv ==
  /\ arg \in Nat
  /\ status # "E_DEVICE" => out \in Seq(Items)
  /\ (number # Outside /\ status # "E_DEVICE") =>
       /\ number.from \in Nat \ {0} /\ number.to \in 0..Len(out)
       /\ ~Smallest(number.value, number.base) =>
            Reported(SubSeq(out, number.from, number.to),
                     number.value, number.base, number.fill)

(* The word that an argument is read as.                                   *)
LEMMA IntsAre ==
  ASSUME NEW a \in Nat
  PROVE  /\ Int32(a) \in Int /\ SmallestInt \in Int /\ SmallestInt < 0
         /\ SmallestInt <= Int32(a) /\ Int32(a) < -SmallestInt
         /\ -SmallestInt < LongSize
         /\ a % IntSize \in Nat /\ a % IntSize < LongSize
         /\ a % LongSize \in Nat /\ a % LongSize < LongSize
         /\ SmallestInt % LongSize \in Nat /\ SmallestInt % LongSize < LongSize
<1>1. /\ IntSize \in Nat /\ LongSize \in Nat /\ 0 < IntSize
      /\ IntSize < LongSize /\ IntSize % 2 = 0
  BY FormatAssumption
<1>2. PICK half : half = IntSize \div 2
  OBVIOUS
<1>3. half \in Nat /\ IntSize = 2 * half /\ 0 < half /\ SmallestInt = -half
  BY ONLY <1>1, <1>2 DEF SmallestInt
<1>4. PICK w : w = a % IntSize
  OBVIOUS
<1>5. w \in Nat /\ w < IntSize
  BY ONLY <1>1, <1>4, a \in Nat
<1>6. Int32(a) = IF w >= half THEN w - IntSize ELSE w
  BY ONLY <1>2, <1>4 DEF Int32
<1>7. a % LongSize \in Nat /\ a % LongSize < LongSize
  BY ONLY <1>1, a \in Nat
<1>8. -half \in Int /\ LongSize > 0
  BY ONLY <1>1, <1>3
<1>9. SmallestInt % LongSize \in Nat /\ SmallestInt % LongSize < LongSize
  BY ONLY <1>1, <1>3, <1>8
<1> QED BY ONLY <1>1, <1>3, <1>4, <1>5, <1>6, <1>7, <1>9

(* A value that is not negative is put as it is reported.                  *)
LEMMA NaturalReported ==
  ASSUME NEW value \in Nat, value < LongSize, NEW base \in Radixes,
         NEW fill \in Nat, NEW text, text = PrintUint64(value, base, fill)
  PROVE  /\ text \in Seq(Glyphs) /\ Len(text) >= 1
         /\ text # <<>> /\ Head(text) # "-"
         /\ ReadBack(text, base) = value /\ Len(text) >= fill
         /\ (Head(text) = "0" /\ Len(text) > 1) => Len(text) = fill
<1>1. PICK z, n : /\ Spelled(text, z, n, value, base)
                  /\ z + n >= fill /\ (z > 0 => z + n = fill)
  BY PrintsDigits
<1>2. /\ text \in Seq(Glyphs) /\ Len(text) = z + n /\ z \in Nat /\ n \in Nat
      /\ n >= 1
  BY <1>1 DEF Spelled, STR_LENGTH, Glyphs
<1>3. "-" \notin Glyphs
  BY CharsDiffer DEF Glyphs
<1>4. /\ Len(text) >= 1 /\ text # <<>>
      /\ Head(text) = text[1] /\ text[1] \in Glyphs
  BY ONLY <1>2
<1>5. ReadBack(text, base) = value
  BY <1>1, DigitsReadBack
<1>6. ASSUME Head(text) = "0", Len(text) > 1 PROVE Len(text) = fill
  <2>1. z > 0 \/ Len(text) = 1
    BY <1>1, <1>4, <1>6, FirstDigit
  <2> QED BY ONLY <1>1, <1>2, <1>6, <2>1
<1> QED BY <1>1, <1>2, <1>3, <1>4, <1>5, <1>6

(* %u and %x put what they report.                                         *)
LEMMA UnsignedReported ==
  ASSUME NEW value \in Nat, value < LongSize, NEW base \in Radixes,
         NEW fill \in Nat, NEW text, text = PrintUint64(value, base, fill)
  PROVE  text \in Seq(Items) /\ Reported(text, value, base, fill)
<1>1. text \in Seq(Items)
  <2>1. text \in Seq(Glyphs)
    BY NaturalReported
  <2>2. Glyphs \subseteq Items
    BY DEF Items
  <2> QED BY ONLY <2>1, <2>2
<1>2. ~(value < 0)
  OBVIOUS
<1> QED BY <1>1, <1>2, NaturalReported DEF Reported

(* A number with a sign.                                                   *)
LEMMA SignedReported ==
  ASSUME NEW a \in Nat, NEW num, num = Int32(a), NEW fill \in Nat,
         NEW text \in PrintInt32(num, fill)
  PROVE  /\ text \in Seq(Items)
         /\ num # SmallestInt => Reported(text, num, 10, fill)
<1>1. /\ num \in Int /\ SmallestInt \in Int /\ SmallestInt < 0
      /\ SmallestInt <= num /\ num < -SmallestInt /\ -SmallestInt < LongSize
      /\ SmallestInt % LongSize \in Nat /\ SmallestInt % LongSize < LongSize
      /\ LongSize \in Nat
  BY IntsAre, FormatAssumption
<1>2. 10 \in Radixes
  BY DEF Radixes
<1>3. CASE ~(num < 0)
  <2>1. text = PrintUint64(num, 10, fill)
    BY <1>3 DEF PrintInt32
  <2>2. num \in Nat /\ num < LongSize
    BY <1>1, <1>3
  <2> QED BY ONLY <1>2, <2>1, <2>2, fill \in Nat, UnsignedReported
<1>4. CASE num < 0
  <2>1. PICK u \in Negated(num) : text = <<"-">> \o PrintUint64(u, 10, fill)
    BY <1>4 DEF PrintInt32
  <2>2. /\ u \in Nat /\ u < LongSize
        /\ num # SmallestInt => u = -num
    BY <1>1, <1>4, <2>1 DEF Negated
  <2>3. PICK digits : digits = PrintUint64(u, 10, fill)
    OBVIOUS
  <2>4. /\ digits \in Seq(Glyphs) /\ Len(digits) >= 1
        /\ digits # <<>> /\ Head(digits) # "-"
        /\ ReadBack(digits, 10) = u /\ Len(digits) >= fill
        /\ (Head(digits) = "0" /\ Len(digits) > 1) => Len(digits) = fill
    <3>1. PICK base \in Radixes : base = 10
      BY <1>2
    <3>2. digits = PrintUint64(u, base, fill)
      BY ONLY <2>3, <3>1
    <3>3. /\ digits \in Seq(Glyphs) /\ Len(digits) >= 1
          /\ digits # <<>> /\ Head(digits) # "-"
          /\ ReadBack(digits, base) = u /\ Len(digits) >= fill
          /\ (Head(digits) = "0" /\ Len(digits) > 1) => Len(digits) = fill
      BY <2>2, <3>2, NaturalReported
    <3> QED BY ONLY <3>1, <3>3
  <2>5. digits \in Seq(Items) /\ "-" \in Items
    <3>1. Glyphs \subseteq Items /\ "-" \in Items
      BY DEF Items
    <3> QED BY ONLY <2>4, <3>1
  <2>6. /\ text \in Seq(Items) /\ text # <<>> /\ Head(text) = "-"
        /\ Tail(text) = digits
    BY ONLY <2>1, <2>3, <2>5
  <2>7. num # SmallestInt => Reported(text, num, 10, fill)
    BY ONLY <1>4, <2>2, <2>4, <2>6 DEF Reported
  <2> QED BY <2>6, <2>7
<1> QED BY <1>3, <1>4

(* What was put stays, and what is put is behind it.                       *)
LEMMA PutBehind ==
  ASSUME NEW S, NEW s \in Seq(S), NEW t \in Seq(S)
  PROVE  /\ SubSeq(s \o t, Len(s) + 1, Len(s) + Len(t)) = t
         /\ \A i \in Nat \ {0}, j \in 0..Len(s) :
              SubSeq(s \o t, i, j) = SubSeq(s, i, j)
<1> PICK u : u = s \o t
  OBVIOUS
<1>1. /\ u \in Seq(S) /\ Len(u) = Len(s) + Len(t)
      /\ Len(s) \in Nat /\ Len(t) \in Nat
      /\ \A k \in 1..Len(s) : u[k] = s[k]
      /\ \A k \in 1..Len(t) : u[Len(s) + k] = t[k]
  BY ONLY u = s \o t, s \in Seq(S), t \in Seq(S), Joined
<1>2. SubSeq(u, Len(s) + 1, Len(s) + Len(t)) = t
  <2>1. PICK v : v = SubSeq(u, Len(s) + 1, Len(s) + Len(t))
    OBVIOUS
  <2>2. v = [k \in 1..(Len(s) + Len(t) - (Len(s) + 1) + 1) |->
               u[Len(s) + 1 + k - 1]]
    BY ONLY <1>1, <2>1
  <2>3. Len(s) + Len(t) - (Len(s) + 1) + 1 = Len(t)
    BY <1>1
  <2>4. \A k \in 1..Len(t) : u[Len(s) + 1 + k - 1] = t[k]
    <3> SUFFICES ASSUME NEW k \in 1..Len(t)
                 PROVE  u[Len(s) + 1 + k - 1] = t[k]
      OBVIOUS
    <3>1. Len(s) + 1 + k - 1 = Len(s) + k
      BY <1>1
    <3> QED BY <1>1, <3>1
  <2>5. v = [k \in 1..Len(t) |-> t[k]]
    BY ONLY <2>2, <2>3, <2>4
  <2>6. t = [k \in 1..Len(t) |-> t[k]]
    BY t \in Seq(S)
  <2> QED BY <2>1, <2>5, <2>6
<1>3. ASSUME NEW i \in Nat \ {0}, NEW j \in 0..Len(s)
      PROVE  SubSeq(u, i, j) = SubSeq(s, i, j)
  <2>1. \A k \in 1..(j - i + 1) : u[i + k - 1] = s[i + k - 1]
    <3> SUFFICES ASSUME NEW k \in 1..(j - i + 1)
                 PROVE  u[i + k - 1] = s[i + k - 1]
      OBVIOUS
    <3>1. i + k - 1 \in 1..Len(s)
      BY <1>1, <1>3
    <3> QED BY <1>1, <3>1
  <2>2. /\ SubSeq(u, i, j) = [k \in 1..(j - i + 1) |-> u[i + k - 1]]
        /\ SubSeq(s, i, j) = [k \in 1..(j - i + 1) |-> s[i + k - 1]]
    BY ONLY <1>1, <1>3, s \in Seq(S)
  <2> QED BY ONLY <2>1, <2>2
<1> QED BY <1>2, <1>3

(* Other text leaves the last number where it is.                          *)
LEMMA OtherIsPut ==
  ASSUME NumberInv, status # "E_DEVICE", NEW items \in Seq(Items),
         PutOther(items), UNCHANGED arg
  PROVE  NumberInv'
<1>1. /\ out \in Seq(Items) /\ arg' \in Nat /\ number' = number
      /\ status' = "E_DEVICE" \/ out' = out \o items
  BY DEF NumberInv, PutOther, Put
<1>2. CASE status' = "E_DEVICE"
  BY <1>1, <1>2 DEF NumberInv
<1>3. CASE out' = out \o items
  <2>1. PICK new : new = out \o items
    OBVIOUS
  <2>2. /\ new \in Seq(Items) /\ Len(new) = Len(out) + Len(items)
        /\ Len(out) \in Nat /\ Len(items) \in Nat
    BY ONLY <1>1, <2>1, items \in Seq(Items), Joined
  <2>3. \A i \in Nat \ {0}, j \in 0..Len(out) :
          SubSeq(new, i, j) = SubSeq(out, i, j)
    BY ONLY <1>1, <2>1, items \in Seq(Items), PutBehind
  <2>4. ASSUME number # Outside
        PROVE  /\ number.from \in Nat \ {0} /\ number.to \in 0..Len(new)
               /\ ~Smallest(number.value, number.base) =>
                    Reported(SubSeq(new, number.from, number.to),
                             number.value, number.base, number.fill)
    <3>1. /\ number.from \in Nat \ {0} /\ number.to \in 0..Len(out)
          /\ ~Smallest(number.value, number.base) =>
               Reported(SubSeq(out, number.from, number.to),
                        number.value, number.base, number.fill)
      BY <2>4 DEF NumberInv
    <3>2. number.to \in 0..Len(new)
      BY ONLY <2>2, <3>1
    <3>3. SubSeq(new, number.from, number.to)
            = SubSeq(out, number.from, number.to)
      BY ONLY <2>3, <3>1
    <3> QED BY ONLY <3>1, <3>2, <3>3
  <2>5. out' = new
    BY <1>3, <2>1
  <2> QED BY <1>1, <2>2, <2>4, <2>5 DEF NumberInv
<1> QED BY <1>1, <1>2, <1>3

(* A number is put at the end of what was put.                             *)
LEMMA NumberIsPut ==
  ASSUME NumberInv, status # "E_DEVICE", NEW text \in Seq(Items),
         NEW value, NEW base, NEW fill, PutNumber(value, base, fill, text),
         ~Smallest(value, base) => Reported(text, value, base, fill),
         UNCHANGED arg
  PROVE  NumberInv'
<1>1. /\ out \in Seq(Items) /\ arg' \in Nat
      /\ status' = "E_DEVICE" \/ out' = out \o text
      /\ number' = [value |-> value, base |-> base, fill |-> fill,
                    from |-> Len(out) + 1, to |-> Len(out) + Len(text)]
  BY DEF NumberInv, PutNumber, Put
<1>2. CASE status' = "E_DEVICE"
  BY <1>1, <1>2 DEF NumberInv
<1>3. CASE out' = out \o text
  <2>1. PICK new : new = out \o text
    OBVIOUS
  <2>2. /\ new \in Seq(Items) /\ Len(new) = Len(out) + Len(text)
        /\ Len(out) \in Nat /\ Len(text) \in Nat
    BY ONLY <1>1, <2>1, text \in Seq(Items), Joined
  <2>3. SubSeq(new, Len(out) + 1, Len(out) + Len(text)) = text
    BY ONLY <1>1, <2>1, text \in Seq(Items), PutBehind
  <2>4. /\ number'.value = value /\ number'.base = base
        /\ number'.fill = fill /\ number'.from = Len(out) + 1
        /\ number'.to = Len(out) + Len(text)
    BY ONLY <1>1
  <2>5. out' = new
    BY <1>3, <2>1
  <2>6. number'.from \in Nat \ {0} /\ number'.to \in 0..Len(out')
    BY ONLY <2>2, <2>4, <2>5
  <2>7. SubSeq(out', number'.from, number'.to) = text
    BY ONLY <2>3, <2>4, <2>5
  <2>8. ~Smallest(number'.value, number'.base) =>
          Reported(SubSeq(out', number'.from, number'.to),
                   number'.value, number'.base, number'.fill)
    BY <2>4, <2>7, Zenon
  <2>9. out' \in Seq(Items)
    BY ONLY <2>2, <2>5
  <2> QED BY <1>1, <2>6, <2>8, <2>9, Zenon DEF NumberInv, Smallest, SmallestInt
<1> QED BY <1>1, <1>2, <1>3

(* A step that puts nothing leaves the last number where it is.            *)
LEMMA NumbersStay ==
  ASSUME NumberInv, UNCHANGED <<out, number>>, arg' \in Nat,
         status' # "E_DEVICE" => status # "E_DEVICE"
  PROVE  NumberInv'
BY DEF NumberInv, Smallest

(* Every step of do_log and do_print.                                      *)
LEMMA NumbersGoOn ==
  ASSUME WalkTypeOK, NumberInv, FormatNext
  PROVE  NumberInv'
<1>1. CASE Literal
  <2>1. /\ status # "E_DEVICE" /\ PutOther(<<Char>>) /\ UNCHANGED arg
        /\ Char # EndOfString
    BY <1>1 DEF Literal, FormatUnchanged
  <2>2. at \in Nat \ {0} /\ at <= Len(fmt) /\ Char = fmt[at]
    BY <2>1, CharsAt DEF WalkTypeOK, Char
  <2>3. Char \in FormatChars
    BY <2>2 DEF WalkTypeOK
  <2>4. <<Char>> \in Seq(Items)
    BY <2>3 DEF Items
  <2> QED BY <2>1, <2>4, OtherIsPut
<1>2. CASE Error
  <2>1. status # "E_DEVICE" /\ UNCHANGED arg
    BY <1>2 DEF Error, InSpecifier, DoneWithSpecifier, FormatUnchanged
  <2>2. CASE PutOther(<<"FWK_", "name">>)
    <3>1. <<"FWK_", "name">> \in Seq(Items)
      BY DEF Items
    <3> QED BY <2>1, <2>2, <3>1, OtherIsPut
  <2>3. ASSUME NEW text \in PrintInt32(Int32(arg), 0),
               PutNumber(Int32(arg), 10, 0, text)
        PROVE  NumberInv'
    <3>1. PICK num : num = Int32(arg)
      OBVIOUS
    <3>2. /\ text \in Seq(Items)
          /\ num # SmallestInt => Reported(text, num, 10, 0)
      BY <2>3, <3>1, SignedReported DEF NumberInv
    <3>3. ~Smallest(num, 10) => Reported(text, num, 10, 0)
      BY <3>2 DEF Smallest
    <3>4. PutNumber(num, 10, 0, text)
      BY <2>3, <3>1
    <3> QED BY <2>1, <3>2, <3>3, <3>4, NumberIsPut
  <2> QED BY <1>2, <2>2, <2>3 DEF Error
<1>3. CASE Signed
  <2>1. status # "E_DEVICE" /\ UNCHANGED arg /\ specifier.fill \in Nat
    BY <1>3 DEF Signed, InSpecifier, DoneWithSpecifier, FormatUnchanged,
                WalkTypeOK
  <2>2. PICK num : num = Int32(arg)
    OBVIOUS
  <2>3. PICK fill \in Nat : fill = specifier.fill
    BY <2>1
  <2>4. PICK text \in PrintInt32(num, fill) : PutNumber(num, 10, fill, text)
    BY <1>3, <2>2, <2>3 DEF Signed
  <2>5. /\ text \in Seq(Items)
        /\ num # SmallestInt => Reported(text, num, 10, fill)
    BY <2>2, <2>3, <2>4, SignedReported DEF NumberInv
  <2>6. ~Smallest(num, 10) => Reported(text, num, 10, fill)
    BY <2>5 DEF Smallest
  <2> QED BY <2>1, <2>4, <2>5, <2>6, NumberIsPut
<1>4. CASE Text
  <2>1. status # "E_DEVICE" /\ UNCHANGED arg /\ PutOther(<<"text">>)
    BY <1>4 DEF Text, InSpecifier, DoneWithSpecifier, FormatUnchanged
  <2>2. <<"text">> \in Seq(Items)
    BY DEF Items
  <2> QED BY <2>1, <2>2, OtherIsPut
<1>5. ASSUME InSpecifier, DoneWithSpecifier, NEW base \in Radixes,
             NEW value, value = arg % IntSize \/ value = arg % LongSize,
             PutNumber(value, base, specifier.fill,
                       PrintUint64(value, base, specifier.fill))
      PROVE  NumberInv'
  <2>1. status # "E_DEVICE" /\ UNCHANGED arg /\ specifier.fill \in Nat
    BY <1>5 DEF InSpecifier, DoneWithSpecifier, FormatUnchanged, WalkTypeOK
  <2>2. value \in Nat /\ value < LongSize
    BY <1>5, IntsAre DEF NumberInv
  <2>3. PICK fill \in Nat : fill = specifier.fill
    BY <2>1
  <2>4. PICK text : text = PrintUint64(value, base, fill)
    OBVIOUS
  <2>5. text \in Seq(Items) /\ Reported(text, value, base, fill)
    BY <2>2, <2>4, UnsignedReported
  <2>6. PutNumber(value, base, fill, text)
    BY <1>5, <2>3, <2>4
  <2> QED BY <2>1, <2>5, <2>6, NumberIsPut
<1>6. CASE Hexadecimal
  <2>1. 16 \in Radixes
    BY DEF Radixes
  <2> QED BY <1>5, <1>6, <2>1 DEF Hexadecimal
<1>7. CASE Unsigned
  <2>1. 10 \in Radixes
    BY DEF Radixes
  <2> QED BY <1>5, <1>7, <2>1 DEF Unsigned
<1>8. CASE Percent \/ Long \/ Fill \/ Refuse \/ EndOfFormat
  <2>1. UNCHANGED <<out, number, arg>> /\ status # "E_DEVICE"
    BY <1>8 DEF Percent, Long, Fill, Refuse, EndOfFormat, FormatUnchanged,
                InSpecifier
  <2> QED BY <2>1, NumbersStay DEF NumberInv
<1>9. ASSUME NEW group, NEW f, NEW a \in Arguments, DoLog(group, f, a)
      PROVE  NumberInv'
  <2>1. UNCHANGED <<out, number>> /\ status # "E_DEVICE"
        /\ arg' \in {arg, a}
    BY <1>9 DEF DoLog
  <2>2. arg' \in Nat
    BY <1>9, <2>1, FormatAssumption DEF NumberInv
  <2> QED BY <2>1, <2>2, NumbersStay
<1> QED BY <1>1, <1>2, <1>3, <1>4, <1>6, <1>7, <1>8, <1>9
        DEF FormatNext, DoPrint

(* Every number of the log reads back as its value, as wide as asked for,  *)
(* in words of any size that the buffer of print_uint64 has room for.      *)
THEOREM NumbersComeBack == FormatSpec => []NumbersReadBack
<1>1. FormatInit => NumberInv
  BY DEF FormatInit, NumberInv
<1>2. WalkTypeOK /\ WalkInv /\ NumberInv /\ [FormatNext]_formatVars
        => WalkTypeOK' /\ WalkInv' /\ NumberInv'
  <2> SUFFICES ASSUME WalkTypeOK, WalkInv, NumberInv,
                      [FormatNext]_formatVars
               PROVE  WalkTypeOK' /\ WalkInv' /\ NumberInv'
    OBVIOUS
  <2>1. CASE UNCHANGED formatVars
    <3>1. WalkTypeOK' /\ WalkInv'
      BY <2>1 DEF formatVars, WalkTypeOK, WalkInv, Ahead, Rest, Reads
    <3>2. NumberInv'
      BY <2>1, NumbersStay DEF formatVars, NumberInv
    <3> QED BY <3>1, <3>2
  <2> QED BY <2>1, WalkGoesOn, NumbersGoOn
<1>3. NumberInv => NumbersReadBack
  BY DEF NumberInv, NumbersReadBack, Reported, Smallest
<1> QED BY <1>1, <1>2, <1>3, WalkBegins, PTL DEF FormatSpec
=============================================================================
