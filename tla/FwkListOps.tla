----------------------------- MODULE FwkListOps -----------------------------
(***************************************************************************)
(* Any sequence of legal calls of the list operations on a few lists, next *)
(* to the sequences the lists stand for.  fwk_list.h dispatches on the     *)
(* type of the list, so all lists of a behaviour are of one kind, in one   *)
(* build mode.                                                             *)
(***************************************************************************)
EXTENDS Integers, FiniteSets, SequencesExt

CONSTANTS Nodes, Lists, Null,
  Kinds    (* doubly: struct fwk_dlist if TRUE, struct fwk_slist if FALSE; *)
           (* debug: built with BUILD_MODE_DEBUG                           *)

ASSUME ListAssumption ==
  /\ IsFiniteSet(Nodes)
  /\ Nodes \cap Lists = {} /\ Null \notin Nodes \cup Lists
  /\ Kinds \subseteq [doubly : BOOLEAN, debug : BOOLEAN]

VARIABLES
  kind,   (* one of Kinds                                                  *)
  mem,    (* the pointers                                                  *)
  held,   (* the nodes the callers hold, in no list                        *)
  seq     (* history: what each list should contain                        *)

listOpVars == <<kind, mem, held, seq>>

INSTANCE FwkList WITH Debug <- kind.debug

WalkBound == Cardinality(Nodes) + 1

ListInit ==
  /\ kind \in Kinds
  /\ mem = EmptyMemory
  /\ held = Nodes
  /\ seq = [L \in Lists |-> <<>>]

AtHead(L) == \E n \in held :
  /\ mem' = IF kind.doubly THEN DPushHead(mem, L, n) ELSE SPushHead(mem, L, n)
  /\ held' = held \ {n}
  /\ seq' = [seq EXCEPT ![L] = <<n>> \o @]

AtTail(L) == \E n \in held :
  /\ mem' = IF kind.doubly THEN DPushTail(mem, L, n) ELSE SPushTail(mem, L, n)
  /\ held' = held \ {n}
  /\ seq' = [seq EXCEPT ![L] = Append(@, n)]

PlaceOf(n, s) == CHOOSE i \in DOMAIN s : s[i] = n

(* The caller gets the node that the memory gives, Null if it is empty.    *)
Pop(L) ==
  /\ mem' = IF kind.doubly THEN DPopHead(mem, L) ELSE SPopHead(mem, L)
  /\ held' = held \cup ({HeadOf(mem, L)} \ {Null})
  /\ seq' = [seq EXCEPT ![L] = IF @ = <<>> THEN @ ELSE Tail(@)]

RemoveAny(L) == \E n \in Nodes :
  /\ SContains(mem, L, n, WalkBound)
  /\ mem' = IF kind.doubly THEN DRemove(mem, L, n) ELSE SRemove(mem, L, n, WalkBound)
  /\ held' = held \cup {n}
  /\ seq' = [seq EXCEPT ![L] = RemoveAt(@, PlaceOf(n, @))]

(* Only doubly-linked lists have an insert operation.                      *)
Insert(L) == \E n \in held, at \in Nodes \cup {Null} :
  /\ kind.doubly
  /\ at # Null => SContains(mem, L, at, WalkBound)
  /\ mem' = DInsert(mem, L, n, at)
  /\ held' = held \ {n}
  /\ seq' = [seq EXCEPT ![L] =
               IF at = Null THEN Append(@, n)
               ELSE InsertAt(@, PlaceOf(at, @), n)]

ListNext ==
  /\ \E L \in Lists :
       AtHead(L) \/ AtTail(L) \/ Pop(L) \/ RemoveAny(L) \/ Insert(L)
  /\ UNCHANGED kind

ListSpec == ListInit /\ [][ListNext]_listOpVars

(* After any sequence of calls the pointers of every list, in both         *)
(* directions for a doubly-linked one, spell the sequence that the calls   *)
(* describe: no node is lost, duplicated or moved by an operation on       *)
(* another node or another list.  A node outside all lists is with a       *)
(* caller, and in a debug build its pointers are cleared, so that the      *)
(* fwk_expect of the push and insert operations does not trap.             *)
ListsRepresent ==
  /\ \A L \in Lists : IF kind.doubly THEN RepresentsBothWays(mem, L, seq[L])
                                      ELSE Represents(mem, L, seq[L])
  /\ \A n \in Nodes :
       (n \notin held) <=> (\E L \in Lists : SContains(mem, L, n, WalkBound))
  /\ kind.debug => \A n \in held :
       mem.next[n] = Null /\ (kind.doubly => mem.prev[n] = Null)
=============================================================================
