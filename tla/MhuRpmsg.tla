------------------------------ MODULE MhuRpmsg ------------------------------
(***************************************************************************)
(* Messages over the message handling unit: the interrupt handler of       *)
(* mod_mhuv2.c, the endpoint callback of rpmsg_client.c and the commands   *)
(* of mod_eventhandler.c, with the host and the secure enclave on the      *)
(* other side.                                                             *)
(*                                                                         *)
(* A channel is a 32-bit status register per direction.  The sender sets   *)
(* bits (STAT_SET), the receiver reads them and clears the bits it read    *)
(* (STAT_CLEAR); the interrupt of a channel is pending while its register  *)
(* is not zero.  A message is the set of its bits: the low CmdWidth ones   *)
(* are a command, the others a value.                                      *)
(***************************************************************************)
EXTENDS Integers, FiniteSets

CONSTANTS
  Hosts,       (* channels to the host, MHUn_ES_H                          *)
  Enclaves,    (* channels to the secure enclave, MHUn_ES_SE               *)
  EnclaveOf,   (* the enclave channel get_endpoint finds for a host's echo *)
  CmdWidth, ValueWidth,  (* CMD_WIDTH; bound: bits of a value              *)
  Usages,      (* when the peers send: what they wait for, see MaySend     *)
  MaxRequests, (* bound: the messages the hosts send, of each usage        *)
  None

ASSUME MhuAssumption ==
  /\ Hosts \cap Enclaves = {}
  /\ EnclaveOf \in [Hosts -> Enclaves]
  /\ CmdWidth \in Nat \ {0, 1} /\ ValueWidth \in Nat \ {0}
  /\ Usages \subseteq {"exchange", "clear", "never"}
  /\ MaxRequests \in [Usages -> Nat]

VARIABLES
  usage,    (* external: what the peers wait for                           *)
  rx,       (* STAT of the receiver channels                               *)
  tx,       (* STAT of the send channels, as their receivers see it        *)
  isr,      (* the run of mhu2_isr: channel, message, what it does next    *)
  owed,     (* external: what an enclave channel still echoes back         *)
  requests, (* external: how many messages the hosts have sent             *)
  asked,    (* history: the last message a peer sent on a channel          *)
  handled,  (* history: the callback has run for that message              *)
  heard,    (* history: the last message a peer received since             *)
  unread    (* history: the bits set on a channel that no run has read     *)

vars == <<usage, rx, tx, isr, owed, requests, asked, handled, heard, unread>>

Channels == Hosts \cup Enclaves
Bits == 0..(CmdWidth + ValueWidth - 1)
Message == SUBSET Bits
Zero == {}

(* A run of mhu2_isr.                                                      *)
Run == [channel : Channels, message : Message, next : {"callback", "clear"}]

ASSUME NullAssumption == None \notin Run /\ \A m \in Message : m # None

(* enum Command *)
NONE == 0
INC_RETURN == 1
INC_ECHO_SE == 2

(* COMMAND, VALUE and ENCODE; the shift of ENCODE drops the carry.         *)
BitsOf(n, width) == {b \in 0..(width - 1) : (n \div 2^b) % 2 = 1}
Number(bits, width) ==
  CHOOSE n \in 0..(2^width - 1) : BitsOf(n, width) = bits
Command(m) == Number(m \cap 0..(CmdWidth - 1), CmdWidth)
Value(m) == Number({b - CmdWidth : b \in m \ 0..(CmdWidth - 1)}, ValueWidth)

Encode(command, value) ==
  BitsOf(command, CmdWidth) \cup {b + CmdWidth : b \in BitsOf(value, ValueWidth)}

Init ==
  /\ usage \in Usages
  /\ rx = [c \in Channels |-> Zero] /\ tx = [c \in Channels |-> Zero]
  /\ isr = None
  /\ requests = 0
  /\ owed = [c \in Enclaves |-> None]
  /\ asked = [c \in Channels |-> None] /\ heard = [c \in Channels |-> None]
  /\ handled = [c \in Channels |-> FALSE]
  /\ unread = [c \in Channels |-> Zero]

(***************************************************************************)
(* The interrupt handler.  All handlers have one priority: they do not     *)
(* nest.                                                                   *)
(***************************************************************************)

(* mhu2_isr is entered and reads STAT.                                     *)
IsrReads(c) ==
  /\ isr = None /\ rx[c] # Zero
  /\ isr' = [channel |-> c, message |-> rx[c], next |-> "callback"]
  /\ unread' = [unread EXCEPT ![c] = Zero]
  /\ UNCHANGED <<usage, rx, tx, owed, requests, asked, handled, heard>>

(* Mutant: the echo keeps the command of the host.                         *)
SendsEchoCommand(c, m) ==
  CASE Command(m) = INC_RETURN ->
         {[to |-> c, message |-> Encode(NONE, Value(m) + 1)]}
    [] Command(m) = INC_ECHO_SE /\ c \in Hosts ->
         {[to |-> EnclaveOf[c], message |-> Encode(INC_ECHO_SE, Value(m) + 1)]}
    [] OTHER -> {}

(* What handleRpmsgEvent sends, if anything: to which channel and what.    *)
Sends(c, m) ==
  CASE Command(m) = INC_RETURN ->
         {[to |-> c, message |-> Encode(NONE, Value(m) + 1)]}
    [] Command(m) = INC_ECHO_SE /\ c \in Hosts ->
         {[to |-> EnclaveOf[c], message |-> Encode(INC_RETURN, Value(m) + 1)]}
    [] OTHER -> {}

(* rpmsg_send, down to send_message: lookup_channel finds the channel of   *)
(* the destination, and STAT_SET sets the bits of the message whatever the *)
(* register holds.                                                         *)
SendMessages(out) ==
  tx' = [k \in Channels |->
           tx[k] \cup UNION {o.message : o \in {s \in out : s.to = k}}]

(* Mutant: the message of the interrupt is sent back as it is.             *)
CallbackReturnsMessage ==
  /\ isr # None /\ isr.next = "callback"
  /\ SendMessages({[o EXCEPT !.message = isr.message] :
                     o \in Sends(isr.channel, isr.message)})
  /\ handled' = [handled EXCEPT ![isr.channel] = TRUE]
  /\ isr' = [isr EXCEPT !.next = "clear"]
  /\ UNCHANGED <<usage, rx, owed, requests, asked, heard, unread>>

(* The endpoint callback: the event handler runs the command.              *)
IsrCallback ==
  /\ isr # None /\ isr.next = "callback"
  /\ SendMessages(Sends(isr.channel, isr.message))
  /\ handled' = [handled EXCEPT ![isr.channel] = TRUE]
  /\ isr' = [isr EXCEPT !.next = "clear"]
  /\ UNCHANGED <<usage, rx, owed, requests, asked, heard, unread>>

(* Mutant: the register is not cleared.                                    *)
IsrForgetsClear ==
  /\ isr # None /\ isr.next = "clear"
  /\ isr' = None
  /\ UNCHANGED <<usage, rx, tx, owed, requests, asked, handled, heard, unread>>

(* Mutant: the whole register is cleared.                                  *)
IsrClearsAll ==
  /\ isr # None /\ isr.next = "clear"
  /\ rx' = [rx EXCEPT ![isr.channel] = Zero]
  /\ unread' = [unread EXCEPT ![isr.channel] = @ \ isr.message]
  /\ isr' = None
  /\ UNCHANGED <<usage, tx, owed, requests, asked, handled, heard>>

(* STAT_CLEAR = message, and the handler returns.  A bit of the message    *)
(* that was set again meanwhile is cleared as well.                        *)
IsrClears ==
  /\ isr # None /\ isr.next = "clear"
  /\ rx' = [rx EXCEPT ![isr.channel] = @ \ isr.message]
  /\ unread' = [unread EXCEPT ![isr.channel] = @ \ isr.message]
  /\ isr' = None
  /\ UNCHANGED <<usage, tx, owed, requests, asked, handled, heard>>

(***************************************************************************)
(* The other side.                                                         *)
(***************************************************************************)
Sent(c, m) ==
  /\ rx' = [rx EXCEPT ![c] = @ \cup m]
  /\ asked' = [asked EXCEPT ![c] = m]
  /\ handled' = [handled EXCEPT ![c] = FALSE]
  /\ heard' = [heard EXCEPT ![c] = None]
  /\ unread' = [unread EXCEPT ![c] = @ \cup m]

ExchangeOver(h) ==
  LET e == EnclaveOf[h]
  IN rx[h] = Zero /\ tx[h] = Zero /\ rx[e] = Zero /\ tx[e] = Zero
       /\ owed[e] = None

(* A peer waits for the end of an exchange, until the register is clear    *)
(* again, or not at all: then its bits join what the register holds, which *)
(* a run of the handler may have read.                                     *)
MaySend(c) ==
  CASE usage = "exchange" /\ c \in Hosts -> ExchangeOver(c)
    [] usage = "never" -> TRUE
    [] OTHER -> rx[c] = Zero

(* A host sends any message but zero, which would not be seen.             *)
HostSends(h) ==
  \E m \in Message \ {Zero} :
    /\ MaySend(h)
    /\ requests < MaxRequests[usage] /\ requests' = requests + 1
    /\ Sent(h, m)
    /\ UNCHANGED <<usage, tx, isr, owed>>

(* A peer reads and clears its register.  The enclave increments the value *)
(* of a command to return it.                                              *)
PeerReceives(c) ==
  /\ tx[c] # Zero
  /\ tx' = [tx EXCEPT ![c] = Zero]
  /\ heard' = [heard EXCEPT ![c] = tx[c]]
  /\ owed' = IF c \in Enclaves /\ Command(tx[c]) = INC_RETURN
             THEN [owed EXCEPT ![c] = Encode(NONE, Value(tx[c]) + 1)]
             ELSE owed
  /\ UNCHANGED <<usage, rx, isr, requests, asked, handled, unread>>

EnclaveEchoes(e) ==
  /\ owed[e] # None
  /\ MaySend(e)
  /\ Sent(e, owed[e])
  /\ owed' = [owed EXCEPT ![e] = None]
  /\ UNCHANGED <<usage, tx, isr, requests>>

(***************************************************************************)
IsrStep == IsrCallback \/ IsrClears \/ \E c \in Channels : IsrReads(c)
PeerAnswers == (\E c \in Channels : PeerReceives(c))
                 \/ \E e \in Enclaves : EnclaveEchoes(e)

Next == IsrStep \/ PeerAnswers \/ \E h \in Hosts : HostSends(h)

Spec == Init /\ [][Next]_vars

(* A pending interrupt is taken and its handler returns; the other side    *)
(* reads what it is sent.  Nobody has to send a request.                   *)
FairSpec == Spec /\ WF_vars(IsrStep) /\ WF_vars(PeerAnswers)

(***************************************************************************)
(* Properties                                                              *)
(***************************************************************************)
TypeOK ==
  /\ rx \in [Channels -> Message] /\ tx \in [Channels -> Message]
  /\ isr \in Run \cup {None}
  /\ usage \in Usages /\ requests \in 0..MaxRequests[usage]
  /\ owed \in [Enclaves -> Message \cup {None}]
  /\ asked \in [Channels -> Message \cup {None}]
  /\ handled \in [Channels -> BOOLEAN]
  /\ heard \in [Channels -> Message \cup {None}]
  /\ unread \in [Channels -> Message]

(* Whatever peers send and when, between the read of STAT and its clear    *)
(* included: a register holds the bits that were set since it was last     *)
(* read and what the handler has read and not cleared, so that no bit is   *)
(* read twice, and none is lost but one that is set again while it waits   *)
(* to be cleared.  If the peers wait for a clear register, what the        *)
(* callback sees is the last message, whole, and not handled before.  All  *)
(* variables have their types.                                             *)
InHand(c) == IF isr # None /\ isr.channel = c THEN isr.message ELSE Zero
HandledOnceAndWhole ==
  /\ TypeOK
  /\ \A c \in Channels : rx[c] = unread[c] \cup InHand(c)
  /\ (usage # "never" /\ isr # None /\ isr.next = "callback") =>
       isr.message = asked[isr.channel] /\ ~handled[isr.channel]

(* If the peers wait for the end of an exchange, the value of an           *)
(* INC_RETURN message comes back incremented to the one who sent it, and   *)
(* an INC_ECHO_SE reaches the enclave as INC_RETURN with the value         *)
(* incremented: no register holds anything else, such as bits of two       *)
(* messages, which send_message would mix.                                 *)
AnswerTo(c) ==
  IF asked[c] # None /\ Command(asked[c]) = INC_RETURN
  THEN {Encode(NONE, Value(asked[c]) + 1)} ELSE {}
EchoTo(e) ==
  {Encode(INC_RETURN, Value(asked[h]) + 1) :
     h \in {g \in Hosts : /\ EnclaveOf[g] = e /\ asked[g] # None
                          /\ Command(asked[g]) = INC_ECHO_SE}}
RegistersWhole ==
  \A c \in Channels :
    tx[c] # Zero =>
      \/ tx[c] \in AnswerTo(c)
      \/ c \in Enclaves /\ tx[c] \in EchoTo(c)

AnswersWhole == usage = "exchange" => RegistersWhole

(* To such peers every INC_RETURN is answered, unless the incremented      *)
(* value wraps to zero: that answer sets no bit.                           *)
IncReturnAnswered ==
  \A h \in Hosts, m \in Message :
    LET answer == Encode(NONE, Value(m) + 1) IN
    (usage = "exchange" /\ Command(m) = INC_RETURN /\ answer # Zero)
      => (asked[h] = m ~> heard[h] = answer)

(* An echo comes back from the enclave and is handled, and no channel      *)
(* keeps its interrupt pending for ever, whenever its bits were set.       *)
ChannelsDrain == \A c \in Channels : (rx[c] # Zero) ~> (rx[c] = Zero)
=============================================================================
