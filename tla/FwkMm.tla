-------------------------------- MODULE FwkMm --------------------------------
(***************************************************************************)
(* The memory manager, framework/src/fwk_mm.c, on the heap that            *)
(* arch/src/arm_mm.c carves out of the linker's section: a pointer moves   *)
(* up, blocks are never given back.  Addresses and sizes are machine words *)
(* and wrap.                                                               *)
(***************************************************************************)
EXTENDS Integers, Sequences

CONSTANTS
  W,           (* the number of values of uintptr_t and size_t             *)
  HeapBounds,  (* ARCH_SECTION_HEAP_START and ARCH_SECTION_HEAP_END        *)
  Counts, Sizes, Alignments    (* bound: the arguments callers give        *)

Word == 0..(W - 1)

(* sizeof(uint64_t) of arm_mm_init, and FWK_MM_DEFAULT_ALIGNMENT *)
ALIGNMENT == 8

ASSUME MmAssumption ==
  /\ W \in Nat /\ W > ALIGNMENT /\ W % ALIGNMENT = 0
  /\ HeapBounds \subseteq Word \X Word
  /\ Counts \subseteq Word /\ Sizes \subseteq Word /\ Alignments \subseteq Word

VARIABLES
  initialized, locked,   (* initialized, mm_locked                         *)
  heapFree, heapEnd,     (* heap_free, heap_end                            *)
  section,               (* history: where the linker placed the heap      *)
  blocks                 (* history: the blocks handed out, in order       *)

heapVars == <<initialized, locked, heapFree, heapEnd, section, blocks>>

(* Word arithmetic, for the sum or the difference of two words.            *)
Wrap(x) == IF x < 0 THEN x + W ELSE IF x >= W THEN x - W ELSE x

(* FWK_ALIGN_PREVIOUS and FWK_ALIGN_NEXT *)
AlignPrevious(v, a) == (v \div a) * a
AlignNext(v, a) == AlignPrevious(Wrap(v + a - 1), a)

(* a & (a - 1) is zero: a has no odd divisor but 1.                         *)
IsPowerOfTwo(a) == \A d \in 2..a : a % d = 0 => d % 2 = 0

HeapInit ==
  /\ initialized = FALSE /\ locked = FALSE
  /\ heapFree = 0 /\ heapEnd = 0
  /\ section = <<0, 0>>
  /\ blocks = <<>>

(* Mutant: the end of the heap is rounded up.                              *)
MmInitEndUp(lo, hi) ==
  LET start == AlignNext(lo, ALIGNMENT)
      end == AlignNext(hi, ALIGNMENT)
  IN /\ ~initialized
     /\ start >= lo
     /\ end > start
     /\ start # 0
     /\ initialized' = TRUE
     /\ heapFree' = start
     /\ section' = <<lo, hi>>
     /\ heapEnd' = Wrap(start + Wrap(end - start))
     /\ UNCHANGED <<locked, blocks>>

(* arm_mm_init, whose answer mm_init of fwk_arch.c gives to fwk_mm_init.   *)
(* After any other answer the system does not start.                       *)
MmInit(lo, hi) ==
  LET start == AlignNext(lo, ALIGNMENT)
      end == AlignPrevious(hi, ALIGNMENT)
  IN /\ ~initialized
     /\ start >= lo /\ end <= hi
     /\ end > start
     /\ start # 0
     /\ initialized' = TRUE
     /\ heapFree' = start
     /\ section' = <<lo, hi>>
     /\ heapEnd' = Wrap(start + Wrap(end - start))
     /\ UNCHANGED <<locked, blocks>>

(* fwk_mm_lock *)
Lock ==
  /\ ~locked
  /\ locked' = TRUE
  /\ UNCHANGED <<initialized, heapFree, heapEnd, section, blocks>>

(* Where fwk_mm_alloc_aligned would put a block.                           *)
BlockStart(alignment) == AlignNext(heapFree, alignment)

(* The checks of fwk_mm_alloc_aligned, the overflow of the product first.  *)
MayAllocate(count, size, alignment) ==
  /\ initialized /\ ~locked
  /\ count # 0 /\ size # 0 /\ alignment # 0
  /\ IsPowerOfTwo(alignment)
  /\ count * size < W
  /\ BlockStart(alignment) >= heapFree
  /\ count * size <= Wrap(heapEnd - BlockStart(alignment))

(* Mutant: the padding in front of the block is not counted.               *)
AllocForgetsPadding(count, size, alignment) ==
  LET start == BlockStart(alignment) IN
  /\ MayAllocate(count, size, alignment)
  /\ heapFree' = Wrap(heapFree + count * size)
  /\ blocks' = Append(blocks, [start |-> start, size |-> count * size,
                               alignment |-> alignment])
  /\ UNCHANGED <<initialized, locked, heapEnd, section>>

(* fwk_mm_alloc_aligned when it succeeds; the other allocation functions   *)
(* call it.  A refusal changes nothing.                                    *)
Alloc(count, size, alignment) ==
  LET start == BlockStart(alignment) IN
  /\ MayAllocate(count, size, alignment)
  /\ heapFree' = Wrap(start + count * size)
  /\ blocks' = Append(blocks, [start |-> start, size |-> count * size,
                               alignment |-> alignment])
  /\ UNCHANGED <<initialized, locked, heapEnd, section>>

HeapNext ==
  \/ \E bounds \in HeapBounds : MmInit(bounds[1], bounds[2])
  \/ Lock
  \/ \E count \in Counts, size \in Sizes, alignment \in Alignments :
       Alloc(count, size, alignment)

HeapSpec == HeapInit /\ [][HeapNext]_heapVars

(***************************************************************************)
(* Properties                                                              *)
(***************************************************************************)
Block == [start : Word, size : Word, alignment : Word]

HeapTypeOK ==
  /\ initialized \in BOOLEAN /\ locked \in BOOLEAN
  /\ heapFree \in Word /\ heapEnd \in Word /\ section \in Word \X Word
  /\ blocks \in Seq(Block)

(* A block starts beyond the end of the heap.  The padding of an alignment *)
(* larger than that of the heap can do it: "heap_end - start" is a word    *)
(* and wraps, and the request is granted.                                  *)
Overran(n) == \E i \in 1..n : blocks[i].start > heapEnd

(* "Ensure 'total_size' fits in the remaining heap area": every block lies *)
(* inside the heap section.  It does not: see Overran.                     *)
RequestsFit ==
  \A i \in DOMAIN blocks :
    /\ section[1] <= blocks[i].start
    /\ blocks[i].start + blocks[i].size <= section[2]

(* Whatever the arguments, the padding and the wrapping of word            *)
(* arithmetic, every block lies inside the heap section until the padding  *)
(* in front of one passes the end of the heap.                             *)
BlocksFit ==
  \A i \in DOMAIN blocks : ~Overran(i) =>
    /\ section[1] <= blocks[i].start
    /\ blocks[i].start + blocks[i].size <= section[2]

(* Until then no two blocks share a byte, and none shares one with what is *)
(* still to be handed out.                                                 *)
BlocksApart ==
  /\ \A i, j \in DOMAIN blocks : i < j /\ ~Overran(j) =>
       blocks[i].start + blocks[i].size <= blocks[j].start
  /\ \A i \in DOMAIN blocks : ~Overran(Len(blocks)) =>
       blocks[i].start + blocks[i].size <= heapFree
=============================================================================
