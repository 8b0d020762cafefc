-------------------------------- MODULE FwkId --------------------------------
(***************************************************************************)
(* Identifiers, framework/src/fwk_id.c: what an entity is and its indices, *)
(* packed in the fields of a word of 32 bits.  A value that does not fit   *)
(* its field is truncated.  The twenty bits above the index of the module  *)
(* mean something else for every type of identifier.                       *)
(***************************************************************************)
EXTENDS Integers, Sequences, FiniteSets

CONSTANTS ModuleIdx, ElementIdx, SubElementIdx, ApiIdx, EventIdx,
          NotificationIdx     (* bound: the indices a program uses         *)

(* The widths of the fields of union __fwk_id.                             *)
MODULE_BITS == 8
ELEMENT_BITS == 12
SUB_ELEMENT_BITS == 8
API_BITS == 4
EVENT_BITS == 6
NOTIFICATION_BITS == 6

Truncated(x, bits) == x % 2^bits

(* FWK_ID_TYPE_*; an identifier that was not initialised is INVALID.       *)
FwkIdTypes == {"NONE", "MODULE", "ELEMENT", "SUB_ELEMENT", "API", "EVENT",
               "NOTIFICATION"}

VARIABLES
  id,      (* the identifier in hand: its type, the index of its module    *)
           (* and the bits above                                           *)
  meant    (* history: what it stands for                                  *)

idVars == <<id, meant>>

IdOf(type, module, above) ==
  [type |-> type, module_idx |-> Truncated(module, MODULE_BITS),
   above |-> above]

Zeroed == IdOf("INVALID", 0, 0)

(* FWK_ID_NONE and the other initialisers: a field they do not name is     *)
(* zero.                                                                   *)
FWK_ID_NONE == IdOf("NONE", 0, 0)
FWK_ID_MODULE(m) == IdOf("MODULE", m, 0)
FWK_ID_ELEMENT(m, e) == IdOf("ELEMENT", m, Truncated(e, ELEMENT_BITS))
FWK_ID_SUB_ELEMENT(m, e, s) ==
  IdOf("SUB_ELEMENT", m, Truncated(e, ELEMENT_BITS)
                         + 2^ELEMENT_BITS * Truncated(s, SUB_ELEMENT_BITS))
FWK_ID_API(m, a) == IdOf("API", m, Truncated(a, API_BITS))
FWK_ID_EVENT(m, e) == IdOf("EVENT", m, Truncated(e, EVENT_BITS))
FWK_ID_NOTIFICATION(m, n) ==
  IdOf("NOTIFICATION", m, Truncated(n, NOTIFICATION_BITS))

(* The assertions on the type of an identifier.                            *)
Valid(i) == i.type \in FwkIdTypes

IsType(i, type) == i.type = type
IsEqual(left, right) == left = right

GetModuleIdx(i) == i.module_idx
GetElementIdx(i) == Truncated(i.above, ELEMENT_BITS)
GetSubElementIdx(i) == i.above \div 2^ELEMENT_BITS
GetApiIdx(i) == Truncated(i.above, API_BITS)
GetEventIdx(i) == Truncated(i.above, EVENT_BITS)
GetNotificationIdx(i) == Truncated(i.above, NOTIFICATION_BITS)

(* Mutant: the new identifier keeps the bits above the module.             *)
BuildModuleIdInPlace(i) == [i EXCEPT !.type = "MODULE"]

(* fwk_id_build_module_id and the two others keep the module only, which   *)
(* is 0 for FWK_ID_NONE.                                                   *)
BuildModuleId(i) == FWK_ID_MODULE(GetModuleIdx(i))
BuildElementId(i, e) == FWK_ID_ELEMENT(GetModuleIdx(i), e)
BuildApiId(i, a) == FWK_ID_API(GetModuleIdx(i), a)

(* The numbers that __fwk_id_str prints, and the characters of its result: *)
(* "[MOD ", "[ELM ", ..., the numbers, their separators and "]".           *)
StrNumbers(i) ==
  CASE i.type = "MODULE" -> <<GetModuleIdx(i)>>
    [] i.type = "ELEMENT" -> <<GetModuleIdx(i), GetElementIdx(i)>>
    [] i.type = "SUB_ELEMENT" ->
         <<GetModuleIdx(i), GetElementIdx(i), GetSubElementIdx(i)>>
    [] i.type = "API" -> <<GetModuleIdx(i), GetApiIdx(i)>>
    [] i.type = "EVENT" -> <<GetModuleIdx(i), GetEventIdx(i)>>
    [] i.type = "NOTIFICATION" -> <<GetModuleIdx(i), GetNotificationIdx(i)>>
    [] i.type = "NONE" -> <<>>

Digits(n) == Cardinality({k \in 1..9 : n >= 10^k}) + 1

StrLength(i) ==
  LET numbers == StrNumbers(i)
      all[k \in 0..Len(numbers)] ==
        IF k = 0 THEN 0 ELSE all[k - 1] + Digits(numbers[k]) + 1
  IN CASE i.type = "NONE" -> 9
       [] i.type = "SUB_ELEMENT" -> 6 + all[Len(numbers)]
       [] OTHER -> 5 + all[Len(numbers)]

(* sizeof(fmt.str) of struct __fwk_id_fmt *)
STR_SIZE == 20

(***************************************************************************)
(* What a program may do with one identifier.                              *)
(***************************************************************************)
(* What there is to identify: a type and the indices it takes.             *)
Meanings ==
  [type : {"NONE"}, idx : {<<>>}]
  \cup [type : {"MODULE"}, idx : {<<m>> : m \in ModuleIdx}]
  \cup [type : {"ELEMENT"}, idx : ModuleIdx \X ElementIdx]
  \cup [type : {"SUB_ELEMENT"}, idx : ModuleIdx \X ElementIdx \X SubElementIdx]
  \cup [type : {"API"}, idx : ModuleIdx \X ApiIdx]
  \cup [type : {"EVENT"}, idx : ModuleIdx \X EventIdx]
  \cup [type : {"NOTIFICATION"}, idx : ModuleIdx \X NotificationIdx]

Encode(x) ==
  CASE x.type = "NONE" -> FWK_ID_NONE
    [] x.type = "MODULE" -> FWK_ID_MODULE(x.idx[1])
    [] x.type = "ELEMENT" -> FWK_ID_ELEMENT(x.idx[1], x.idx[2])
    [] x.type = "SUB_ELEMENT" ->
         FWK_ID_SUB_ELEMENT(x.idx[1], x.idx[2], x.idx[3])
    [] x.type = "API" -> FWK_ID_API(x.idx[1], x.idx[2])
    [] x.type = "EVENT" -> FWK_ID_EVENT(x.idx[1], x.idx[2])
    [] x.type = "NOTIFICATION" -> FWK_ID_NOTIFICATION(x.idx[1], x.idx[2])

IdInit == id = Zeroed /\ meant = [type |-> "INVALID", idx |-> <<>>]

MakeId == \E x \in Meanings : id' = Encode(x) /\ meant' = x

MeantModule == IF meant.type = "NONE" THEN 0 ELSE meant.idx[1]

BuildId ==
  /\ Valid(id)
  /\ \/ /\ id' = BuildModuleId(id)
        /\ meant' = [type |-> "MODULE", idx |-> <<MeantModule>>]
     \/ \E e \in ElementIdx :
          /\ id' = BuildElementId(id, e)
          /\ meant' = [type |-> "ELEMENT", idx |-> <<MeantModule, e>>]
     \/ \E a \in ApiIdx :
          /\ id' = BuildApiId(id, a)
          /\ meant' = [type |-> "API", idx |-> <<MeantModule, a>>]

IdNext == MakeId \/ BuildId

IdSpec == IdInit /\ [][IdNext]_idVars

(* However an identifier came about, it is equal to that of what it stands *)
(* for and of nothing else, the indices that its type has are read back    *)
(* from it, and its string has room for them and for the terminator.  With *)
(* indices as large as their fields allow.                                 *)
IdsFaithful ==
  Valid(id) =>
    /\ IsType(id, meant.type)
    /\ \A x \in Meanings : IsEqual(id, Encode(x)) <=> x = meant
    /\ StrNumbers(id) = meant.idx
    /\ StrLength(id) < STR_SIZE
=============================================================================
