------------------------------ MODULE LogFormat ------------------------------
(***************************************************************************)
(* One call of the log, product/corstone-1000/module/log/src/mod_log.c:    *)
(* how do_log checks its arguments and do_print walks through the format   *)
(* up to its terminator.  A character is a string of length one; a string  *)
(* argument or the name of an error is put as one item.  All arguments of  *)
(* a call have one value.  Machine words have IntSize and LongSize values  *)
(* in the place of 2^32 and 2^64.                                          *)
(***************************************************************************)
EXTENDS Integers, SequencesExt, FiniteSetsExt

CONSTANTS
  IntSize, LongSize,
  ErrorCount,         (* FWK_ARRAY_SIZE(errstr)                            *)
  Formats,            (* bound: the formats of calls, not terminated       *)
  Arguments           (* bound: the values of their arguments              *)

(* The characters of formats.                                              *)
FormatChars == UNION {Range(f) : f \in Formats}

ASSUME FormatAssumption ==
  /\ IntSize \in Nat /\ LongSize \in Nat /\ ErrorCount \in Nat
  /\ 0 < IntSize /\ IntSize < LongSize /\ IntSize % 2 = 0
  /\ LongSize % IntSize = 0 /\ ErrorCount < IntSize
  /\ Formats \subseteq Seq(FormatChars) /\ Arguments \subseteq Nat

CHARS == <<"0", "1", "2", "3", "4", "5", "6", "7", "8", "9",
           "a", "b", "c", "d", "e", "f">>

(* enum mod_log_group: a group is the set of its bits; "other" is a bit    *)
(* outside of ALL_GROUPS_MASK.                                             *)
AllGroups == {"DEBUG", "ERROR", "INFO", "WARNING"}
GroupValues == {{}, {"other"}, {"ERROR", "INFO"}, {"INFO"}, {"DEBUG"}}

NULL == <<"NULL">>
EndOfString == ""

VARIABLES
  logDriver,       (* log_driver is set                                    *)
  logGroups,       (* log_config->log_groups                               *)
  fmt, arg,        (* the format and the value of the arguments            *)
  at,              (* the character of the format that fmt points to       *)
  specifier,       (* within a specifier: bit64 and fill; else Outside     *)
  status,          (* what the call returned, "printing" until then        *)
  out,             (* what was put                                         *)
  number           (* history: the last number put, or Outside             *)

formatVars ==
  <<logDriver, logGroups, fmt, arg, at, specifier, status, out, number>>

Outside == [bit64 |-> FALSE, fill |-> -1]

FormatInit ==
  /\ logDriver \in BOOLEAN
  /\ logGroups \in {{"INFO"}, AllGroups}
  /\ fmt = <<>> /\ arg = 0 /\ at = 1
  /\ specifier = Outside /\ status = "idle" /\ out = <<>>
  /\ number = Outside

(* is_valid_group: one of the groups, and only one.                        *)
IsValidGroup(group) == group \subseteq AllGroups /\ Cardinality(group) = 1

(* do_log up to do_print.  check_call finds the module initialised, which  *)
(* it is when its driver is set.                                           *)
DoLog(group, f, a) ==
  /\ status = "idle"
  /\ status' = IF ~logDriver THEN "E_STATE"
               ELSE IF ~IsValidGroup(group) \/ f = NULL THEN "E_PARAM"
               ELSE IF group \subseteq logGroups THEN "printing"
               ELSE "SUCCESS"
  /\ IF status' = "printing" THEN fmt' = f /\ arg' = a
     ELSE UNCHANGED <<fmt, arg>>
  /\ UNCHANGED <<logDriver, logGroups, at, specifier, out, number>>

(* *fmt, and the character after it.                                       *)
CharAt(i) == IF i > Len(fmt) THEN EndOfString ELSE fmt[i]
Char == CharAt(at)

Digit(c) == CHOOSE d \in 0..9 : CHARS[d + 1] = c

(* The buffer str of print_uint64.                                         *)
STR_LENGTH == 20

(* print_uint64: the value after each round of its first loop; n digits    *)
(* are in str when the value is 0, ...                                     *)
Quotients(value, base) ==
  LET rest[i \in 0..STR_LENGTH] ==
        IF i = 0 THEN value ELSE rest[i - 1] \div base
  IN rest

(* "Just need enough space to store 64 bit decimal integer".               *)
ASSUME BufferAssumption == Quotients(LongSize - 1, 10)[STR_LENGTH] = 0

DigitCount(value, base) == CHOOSE n \in 1..STR_LENGTH :
  LET rest == Quotients(value, base)
  IN rest[n] = 0 /\ (n = 1 \/ rest[n - 1] # 0)

(* Mutant: a zero has no digits.                                           *)
ValueTextFromOne(value, base) ==
  LET n == IF value = 0 THEN 0 ELSE DigitCount(value, base)
      rest == Quotients(value, base)
  IN [k \in 1..n |-> CHARS[(rest[n - k] % base) + 1]]

(* ... the last first, and are put from the first, ...                     *)
ValueText(value, base) ==
  LET n == DigitCount(value, base)
      rest == Quotients(value, base)
  IN [k \in 1..n |-> CHARS[(rest[n - k] % base) + 1]]

(* ... after the zeros that fill demands.                                  *)
PrintUint64(value, base, fill) ==
  LET text == ValueText(value, base)
      zeros == IF fill > Len(text) THEN fill - Len(text) ELSE 0
  IN [k \in 1..zeros |-> "0"] \o text

Int32(word) == LET w == word % IntSize
             IN IF w >= IntSize \div 2 THEN w - IntSize ELSE w
SmallestInt == -(IntSize \div 2)

(* (uint64_t)-num: the negation of the smallest number is undefined; it    *)
(* wraps to itself, or is done in the wider word.                          *)
Negated(num) ==
  IF num = SmallestInt THEN {num % LongSize, -num} ELSE {-num}

PrintInt32(num, fill) ==
  IF num < 0 THEN {<<"-">> \o PrintUint64(u, 10, fill) : u \in Negated(num)}
  ELSE {PrintUint64(num, 10, fill)}

(* do_putchar: the driver takes the items, or fails before one of them.    *)
Put(items) ==
  \/ out' = out \o items /\ UNCHANGED status
  \/ \E n \in 0..(Len(items) - 1) :
       out' = out \o SubSeq(items, 1, n) /\ status' = "E_DEVICE"

(* A number is put, and the walk goes on after the specifier.              *)
PutNumber(value, base, fill, text) ==
  /\ Put(text)
  /\ number' = [value |-> value, base |-> base, fill |-> fill,
                from |-> Len(out) + 1, to |-> Len(out) + Len(text)]
PutOther(text) == Put(text) /\ UNCHANGED number

FormatUnchanged == UNCHANGED <<logDriver, logGroups, fmt, arg>>
InSpecifier == status = "printing" /\ specifier # Outside
DoneWithSpecifier == specifier' = Outside /\ at' = at + 1 /\ FormatUnchanged

Literal ==
  /\ status = "printing" /\ specifier = Outside
  /\ Char \notin {"%", EndOfString}
  /\ PutOther(<<Char>>)
  /\ at' = at + 1
  /\ UNCHANGED specifier /\ FormatUnchanged

Percent ==
  /\ status = "printing" /\ specifier = Outside /\ Char = "%"
  /\ specifier' = [bit64 |-> FALSE, fill |-> 0]
  /\ at' = at + 1
  /\ UNCHANGED <<status, out, number>> /\ FormatUnchanged

Error ==
  /\ InSpecifier /\ Char = "e"
  /\ LET num == Int32(arg) IN
     IF num <= 0 /\ -num < ErrorCount THEN PutOther(<<"FWK_", "name">>)
     ELSE \E text \in PrintInt32(num, 0) : PutNumber(num, 10, 0, text)
  /\ DoneWithSpecifier

Signed ==
  /\ InSpecifier /\ Char \in {"d", "i"} /\ ~specifier.bit64
  /\ \E text \in PrintInt32(Int32(arg), specifier.fill) :
       PutNumber(Int32(arg), 10, specifier.fill, text)
  /\ DoneWithSpecifier

Text ==
  /\ InSpecifier /\ Char \in {"s", "c"}
  /\ PutOther(<<"text">>)
  /\ DoneWithSpecifier

Hexadecimal ==
  /\ InSpecifier /\ Char = "x"
  /\ LET value == arg % (IF specifier.bit64 THEN LongSize ELSE IntSize) IN
     PutNumber(value, 16, specifier.fill,
               PrintUint64(value, 16, specifier.fill))
  /\ DoneWithSpecifier

Unsigned ==
  /\ InSpecifier /\ Char = "u" /\ ~specifier.bit64
  /\ PutNumber(arg % IntSize, 10, specifier.fill,
               PrintUint64(arg % IntSize, 10, specifier.fill))
  /\ DoneWithSpecifier

Long ==
  /\ InSpecifier /\ Char = "l"
  /\ specifier' = [specifier EXCEPT !.bit64 = TRUE]
  /\ at' = at + 1
  /\ UNCHANGED <<status, out, number>> /\ FormatUnchanged

(* Mutant: the width of the padding is skipped unread.                     *)
FillUnchecked ==
  /\ InSpecifier /\ Char = "0"
  /\ specifier' = [specifier EXCEPT !.fill = 0]
  /\ at' = at + 2
  /\ UNCHANGED <<status, out, number>> /\ FormatUnchanged

(* "0" and the width: both are read here.                                  *)
Fill ==
  /\ InSpecifier /\ Char = "0"
  /\ CharAt(at + 1) \in {CHARS[k] : k \in 1..10}
  /\ specifier' = [specifier EXCEPT !.fill = Digit(CharAt(at + 1))]
  /\ at' = at + 2
  /\ UNCHANGED <<status, out, number>> /\ FormatUnchanged

(* FWK_E_DATA: an unknown specifier, which the terminator is as well, a    *)
(* width that is no digit, and 64-bit decimals.                            *)
Refuse ==
  /\ InSpecifier
  /\ \/ Char \notin {"e", "d", "i", "s", "c", "x", "u", "l", "0"}
     \/ Char = "0" /\ CharAt(at + 1) \notin {CHARS[k] : k \in 1..10}
     \/ Char \in {"d", "i", "u"} /\ specifier.bit64
  /\ status' = "E_DATA"
  /\ UNCHANGED <<at, specifier, out, number>> /\ FormatUnchanged

EndOfFormat ==
  /\ status = "printing" /\ specifier = Outside /\ Char = EndOfString
  /\ status' = "SUCCESS"
  /\ UNCHANGED <<at, specifier, out, number>> /\ FormatUnchanged

DoPrint ==
  \/ Literal \/ Percent \/ Error \/ Signed \/ Text \/ Hexadecimal
  \/ Unsigned \/ Long \/ Fill \/ Refuse \/ EndOfFormat

FormatNext ==
  \/ /\ status = "idle"
     /\ \E group \in GroupValues, a \in Arguments :
          \E f \in Formats \cup {NULL} : DoLog(group, f, a)
  \/ DoPrint

FormatSpec == FormatInit /\ [][FormatNext]_formatVars

(***************************************************************************)
(* Properties                                                              *)
(***************************************************************************)
(* What digits of a base stand for.                                        *)
ReadBack(text, base) ==
  LET digit(c) == CHOOSE d \in 0..(base - 1) : CHARS[d + 1] = c
      value[k \in 0..Len(text)] ==
        IF k = 0 THEN 0 ELSE value[k - 1] * base + digit(text[k])
  IN value[Len(text)]

(* A number that was put reads back as its value, with a zero in front of  *)
(* it only up to the width that was asked for.  The smallest number is     *)
(* left out: its negation is undefined, and may be put as 2^64 - 2^31.     *)
NumbersReadBack ==
  (number # Outside /\ status # "E_DEVICE"
   /\ ~(number.base = 10 /\ number.value = SmallestInt)) =>
    LET all == SubSeq(out, number.from, number.to)
        text == IF number.value < 0 THEN Tail(all) ELSE all
    IN /\ all # <<>>
       /\ (number.value < 0) <=> (Head(all) = "-")
       /\ text # <<>>
       /\ ReadBack(text, number.base) =
            (IF number.value < 0 THEN -number.value ELSE number.value)
       /\ Len(text) >= number.fill
       /\ (Head(text) = "0" /\ Len(text) > 1) => Len(text) = number.fill

(* The specifiers that mod_log.h documents.                                *)
Conversions == {<<"d">>, <<"i">>, <<"u">>, <<"x">>, <<"l", "x">>,
                <<"l", "l", "x">>}
Pads == {<<>>} \cup {<<"0", CHARS[k]>> : k \in 1..10}
Documented ==
  {<<"c">>, <<"s">>, <<"e">>}
  \cup {pad \o conversion : pad \in Pads, conversion \in Conversions}

(* The characters and specifiers of a format start at these places.        *)
StartsOf(f, starts) ==
  /\ 1 \in starts
  /\ \A i \in starts \ {Len(f) + 1} :
       IF f[i] # "%" THEN i + 1 \in starts
       ELSE \E j \in (i + 1)..Len(f) :
              SubSeq(f, i + 1, j) \in Documented /\ j + 1 \in starts

IsDocumented(f) ==
  \E starts \in SUBSET (1..(Len(f) + 1)) : StartsOf(f, starts)

(* A format made of the specifiers that mod_log.h documents is accepted,   *)
(* and no format, however it ends, makes the walk pass its terminator.     *)
FormatsAsDocumented ==
  /\ at <= Len(fmt) + 1
  /\ status = "E_DATA" => ~IsDocumented(fmt)
=============================================================================
