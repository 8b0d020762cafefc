------------------------------ MODULE LogUart ------------------------------
(***************************************************************************)
(* The log, product/corstone-1000/module/log/src/mod_log.c, over the UART, *)
(* product/corstone-1000/module/pl011/src/mod_pl011.c.                     *)
(*                                                                         *)
(* A call formats its message and puts it character by character: it polls *)
(* the flag that the transmit FIFO is full, then writes the data register. *)
(* Nothing protects the two accesses, so that the handler of an interrupt  *)
(* that logs may come between them.  A character written while the FIFO is *)
(* full is lost.  Which characters a message has is left out.              *)
(***************************************************************************)
EXTENDS Integers

CONSTANTS
  Contexts,    (* who logs: the thread and the handler of an interrupt     *)
  Texts,       (* messages                                                 *)
  Size,        (* bound: how many characters each puts, with the carriage  *)
               (* return before a new line                                 *)
  FifoSize,    (* the depth of the transmit FIFO                           *)
  Nothing

ASSUME LogAssumption ==
  /\ Size \in [Texts -> Nat \ {0}]
  /\ FifoSize \in Nat \ {0}
  (* Nothing is neither a message that is put nor a character.             *)
  /\ Nothing \notin [text : Texts, next : Nat, room : BOOLEAN]
  /\ Nothing \notin [text : Texts, at : Nat]

VARIABLES
  driver,      (* log_driver is set                                        *)
  line,        (* what a context puts: the message, the next character and *)
               (* whether it has seen room for it                          *)
  fifo,        (* external: how many characters the FIFO holds             *)
  last         (* history: the last character that entered the FIFO        *)

logVars == <<driver, line, fifo, last>>

(* pl011_element_init enables an empty FIFO; log_driver is NULL.           *)
LogInit ==
  /\ driver = FALSE /\ fifo = 0 /\ last = Nothing
  /\ line = [c \in Contexts |-> Nothing]

Silent(c) == line[c] = Nothing
FirstOf(text) == [text |-> text, next |-> 1, room |-> FALSE]

(* do_log: FWK_E_STATE, and no output, when it is called too early.        *)
Log(c, text) ==
  /\ Silent(c)
  /\ line' = IF driver THEN [line EXCEPT ![c] = FirstOf(text)] ELSE line
  /\ UNCHANGED <<driver, fifo, last>>

(* Mutant: the flag is not polled.                                         *)
SeesRoomAlways(c) ==
  /\ ~Silent(c) /\ ~line[c].room
  /\ line' = [line EXCEPT ![c].room = TRUE]
  /\ UNCHANGED <<driver, fifo, last>>

(* do_putchar leaves its loop: FR has no PL011_FR_TXFF.                    *)
SeesRoom(c) ==
  /\ ~Silent(c) /\ ~line[c].room /\ fifo < FifoSize
  /\ line' = [line EXCEPT ![c].room = TRUE]
  /\ UNCHANGED <<driver, fifo, last>>

(* do_putchar writes DR.                                                   *)
WritesDR(c) ==
  LET l == line[c] IN
  /\ ~Silent(c) /\ l.room
  /\ line' = [line EXCEPT ![c] =
                IF l.next = Size[l.text] THEN Nothing
                ELSE [l EXCEPT !.next = l.next + 1, !.room = FALSE]]
  /\ IF fifo < FifoSize
     THEN fifo' = fifo + 1 /\ last' = [text |-> l.text, at |-> l.next]
     ELSE UNCHANGED <<fifo, last>>
  /\ UNCHANGED driver

Puts(c) == SeesRoom(c) \/ WritesDR(c)

(* log_bind: the driver is bound, then the banner is logged, ...           *)
BindDriver(c, banner) ==
  /\ ~driver /\ driver' = TRUE
  /\ line' = [line EXCEPT ![c] = FirstOf(banner)]
  /\ UNCHANGED <<fifo, last>>

(* ... and flushed: do_flush leaves its loop when FR has no PL011_FR_BUSY. *)
Flushed(c) == driver /\ Silent(c) /\ fifo = 0

(* The UART sends a character.                                             *)
Transmit == fifo > 0 /\ fifo' = fifo - 1 /\ UNCHANGED <<driver, line, last>>

(***************************************************************************)
(* Properties                                                              *)
(***************************************************************************)
LogTypeOK ==
  /\ driver \in BOOLEAN /\ fifo \in 0..FifoSize
  /\ line \in [Contexts -> [text : Texts, next : Nat, room : BOOLEAN]
                           \cup {Nothing}]
  /\ last \in [text : Texts, at : Nat] \cup {Nothing}

(* The characters of these messages enter the FIFO one right after the     *)
(* other, from the first to the last.                                      *)
Follows(texts) ==
  last' # last =>
    /\ (last # Nothing /\ last.text \in texts /\ last.at < Size[last.text])
         => last' = [last EXCEPT !.at = @ + 1]
    /\ (last'.text \in texts /\ last'.at > 1)
         => last = [last' EXCEPT !.at = @ - 1]
=============================================================================
