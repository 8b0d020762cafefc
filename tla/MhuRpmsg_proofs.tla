--------------------------- MODULE MhuRpmsg_proofs ---------------------------
(***************************************************************************)
(* Proofs about MhuRpmsg, for any channels, widths of commands and values, *)
(* and number of requests: every bit is read once, every message handled   *)
(* once and whole if peers wait for a clear register, and peers that wait  *)
(* for the end of an exchange get whole answers.                           *)
(***************************************************************************)
EXTENDS MhuRpmsg, TLAPS

(***************************************************************************)
(* Messages                                                                *)
(***************************************************************************)
LEMMA EncodeIsMessage ==
  ASSUME NEW command, NEW value PROVE Encode(command, value) \in Message
<1>1. CmdWidth \in Nat /\ ValueWidth \in Nat /\ CmdWidth > 1 /\ ValueWidth > 0
  BY MhuAssumption
<1>2. BitsOf(command, CmdWidth) \subseteq Bits
  BY <1>1 DEF BitsOf, Bits
<1>3. ASSUME NEW b \in BitsOf(value, ValueWidth) PROVE b + CmdWidth \in Bits
  BY <1>1 DEF BitsOf, Bits
<1> QED BY <1>2, <1>3 DEF Encode, Message

(* What a callback sends: at most one message, by the command of its own.  *)
LEMMA SendsOne ==
  ASSUME NEW c \in Channels, NEW m
  PROVE  \/ Sends(c, m) = {}
         \/ /\ Command(m) = INC_RETURN
            /\ Sends(c, m) = {[to |-> c, message |-> Encode(NONE, Value(m) + 1)]}
         \/ /\ Command(m) = INC_ECHO_SE /\ c \in Hosts
            /\ Sends(c, m) = {[to |-> EnclaveOf[c],
                               message |-> Encode(INC_RETURN, Value(m) + 1)]}
BY DEF Sends, INC_RETURN, INC_ECHO_SE

LEMMA SendNothing ==
  ASSUME tx \in [Channels -> Message], SendMessages({}) PROVE tx' = tx
<1>1. UNION {o.message : o \in {s \in {} : FALSE}} = {}
  OBVIOUS
<1>2. \A k \in Channels : UNION {o.message : o \in {s \in {} : s.to = k}} = {}
  OBVIOUS
<1> QED BY <1>2 DEF SendMessages

LEMMA SendOneMessage ==
  ASSUME tx \in [Channels -> Message], NEW d, NEW a,
         SendMessages({[to |-> d, message |-> a]})
  PROVE  /\ DOMAIN tx' = Channels
         /\ tx' = [k \in Channels |-> tx'[k]]
         /\ \A k \in Channels : tx'[k] = IF k = d THEN tx[k] \cup a ELSE tx[k]
<1> PICK o : o = [to |-> d, message |-> a]
  OBVIOUS
<1>1. o.to = d /\ o.message = a
  OBVIOUS
<1>2. tx' = [k \in Channels |->
               tx[k] \cup UNION {p.message : p \in {s \in {o} : s.to = k}}]
  BY DEF SendMessages
<1>3. ASSUME NEW k \in Channels
      PROVE  UNION {p.message : p \in {s \in {o} : s.to = k}}
               = IF k = d THEN a ELSE {}
  <2>1. CASE k = d
    <3>1. {s \in {o} : s.to = k} = {o}
      BY <1>1, <2>1
    <3>2. {p.message : p \in {o}} = {a}
      BY <1>1
    <3> QED BY <2>1, <3>1, <3>2
  <2>2. CASE k # d
    <3>1. {s \in {o} : s.to = k} = {}
      BY <1>1, <2>2
    <3> QED BY <2>2, <3>1
  <2> QED BY <2>1, <2>2
<1>4. \A k \in Channels : tx'[k] = IF k = d THEN tx[k] \cup a ELSE tx[k]
  BY <1>2, <1>3
<1> QED BY <1>2, <1>4

(* The bits of message a are set in the register of channel d.             *)
Reaches(d, a) ==
  /\ tx' \in [Channels -> Message]
  /\ \A k \in Channels : tx'[k] = IF k = d THEN tx[k] \cup a ELSE tx[k]

LEMMA SendReaches ==
  ASSUME tx \in [Channels -> Message], NEW d \in Channels, NEW a \in Message,
         SendMessages({[to |-> d, message |-> a]})
  PROVE  Reaches(d, a)
<1>1. /\ tx' = [k \in Channels |-> tx'[k]]
      /\ \A k \in Channels : tx'[k] = IF k = d THEN tx[k] \cup a ELSE tx[k]
  BY SendOneMessage
<1>2. ASSUME NEW k \in Channels PROVE tx'[k] \in Message
  <2>1. tx[k] \in Message
    OBVIOUS
  <2>2. tx[k] \cup a \in Message
    BY <2>1 DEF Message
  <2>3. CASE k = d
    BY <1>1, <2>2, <2>3
  <2>4. CASE k # d
    BY <1>1, <2>1, <2>4
  <2> QED BY <2>3, <2>4
<1>3. tx' \in [Channels -> Message]
  BY ONLY <1>1, <1>2
<1> QED BY <1>1, <1>3 DEF Reaches

(* What a callback does: nothing, an answer or an echo.                    *)
Replies(c, m, d, a) ==
  \/ d = c /\ Command(m) = INC_RETURN /\ a = Encode(NONE, Value(m) + 1)
  \/ /\ c \in Hosts /\ d = EnclaveOf[c] /\ Command(m) = INC_ECHO_SE
     /\ a = Encode(INC_RETURN, Value(m) + 1)

LEMMA CallbackSends ==
  ASSUME tx \in [Channels -> Message], NEW c \in Channels, NEW m,
         SendMessages(Sends(c, m))
  PROVE  \/ tx' = tx
         \/ \E d \in Channels, a \in Message : Replies(c, m, d, a) /\ Reaches(d, a)
<1>1. CASE Sends(c, m) = {}
  BY <1>1, SendNothing
<1>3. CASE /\ Command(m) = INC_RETURN
           /\ Sends(c, m) = {[to |-> c, message |-> Encode(NONE, Value(m) + 1)]}
  <2> PICK a : a = Encode(NONE, Value(m) + 1)
    OBVIOUS
  <2>1. a \in Message /\ Replies(c, m, c, a)
    BY <1>3, EncodeIsMessage DEF Replies
  <2>2. SendMessages({[to |-> c, message |-> a]})
    BY <1>3
  <2>3. Reaches(c, a)
    BY <2>1, <2>2, SendReaches
  <2> QED BY <2>1, <2>3
<1>4. CASE /\ Command(m) = INC_ECHO_SE /\ c \in Hosts
           /\ Sends(c, m) = {[to |-> EnclaveOf[c],
                              message |-> Encode(INC_RETURN, Value(m) + 1)]}
  <2> PICK a, d : a = Encode(INC_RETURN, Value(m) + 1) /\ d = EnclaveOf[c]
    OBVIOUS
  <2>1. d \in Channels
    BY <1>4, MhuAssumption DEF Channels
  <2>2. a \in Message /\ Replies(c, m, d, a)
    BY <1>4, EncodeIsMessage DEF Replies
  <2>3. SendMessages({[to |-> d, message |-> a]})
    BY <1>4
  <2>4. Reaches(d, a)
    BY <2>1, <2>2, <2>3, SendReaches
  <2> QED BY <2>1, <2>2, <2>4
<1> QED BY <1>1, <1>3, <1>4, SendsOne

(***************************************************************************)
(* Types                                                                   *)
(***************************************************************************)
LEMMA TypeInit == Init => TypeOK
<1> SUFFICES ASSUME Init PROVE TypeOK
  OBVIOUS
<1>1. Zero \in Message
  BY DEF Zero, Message
<1>2. 0 \in 0..MaxRequests[usage]
  BY MhuAssumption DEF Init
<1> QED BY <1>1, <1>2 DEF Init, TypeOK

LEMMA SentTypes ==
  ASSUME TypeOK, NEW c \in Channels, NEW m \in Message, Sent(c, m)
  PROVE  /\ rx' \in [Channels -> Message]
         /\ asked' \in [Channels -> Message \cup {None}]
         /\ handled' \in [Channels -> BOOLEAN]
         /\ heard' \in [Channels -> Message \cup {None}]
         /\ unread' \in [Channels -> Message]
<1>1. rx[c] \cup m \in Message /\ unread[c] \cup m \in Message
  BY DEF TypeOK, Message
<1> QED BY <1>1 DEF Sent, TypeOK

LEMMA TypeNext == TypeOK /\ [Next]_vars => TypeOK'
<1> SUFFICES ASSUME TypeOK, [Next]_vars PROVE TypeOK'
  OBVIOUS
<1>0. Zero \in Message
  BY DEF Zero, Message
<1>1. CASE UNCHANGED vars
  BY <1>1 DEF TypeOK, vars
<1>2. ASSUME NEW c \in Channels, IsrReads(c) PROVE TypeOK'
  <2>1. isr' \in Run
    BY <1>2 DEF IsrReads, TypeOK, Run
  <2> QED BY <1>0, <1>2, <2>1 DEF IsrReads, TypeOK
<1>3. CASE IsrCallback
  <2>1. isr \in Run /\ isr.channel \in Channels
    BY <1>3 DEF IsrCallback, TypeOK, Run
  <2>2. isr' \in Run
    BY <1>3, <2>1 DEF IsrCallback, Run
  <2>3. tx' \in [Channels -> Message]
    <3>1. tx \in [Channels -> Message]
      BY DEF TypeOK
    <3>2. SendMessages(Sends(isr.channel, isr.message))
      BY <1>3 DEF IsrCallback
    <3> QED BY <2>1, <3>1, <3>2, CallbackSends DEF Reaches
  <2> QED BY <1>3, <2>1, <2>2, <2>3 DEF IsrCallback, TypeOK
<1>4. CASE IsrClears
  <2>1. isr.channel \in Channels
    BY <1>4 DEF IsrClears, TypeOK, Run
  <2>2. /\ rx[isr.channel] \ isr.message \in Message
        /\ unread[isr.channel] \ isr.message \in Message
    BY <2>1 DEF TypeOK, Message
  <2> QED BY <1>4, <2>2 DEF IsrClears, TypeOK
<1>5. ASSUME NEW h \in Hosts, HostSends(h) PROVE TypeOK'
  <2>1. PICK m \in Message \ {Zero} :
          /\ requests < MaxRequests[usage] /\ requests' = requests + 1
          /\ Sent(h, m) /\ UNCHANGED <<usage, tx, isr, owed>>
    BY <1>5 DEF HostSends
  <2>2. h \in Channels
    BY DEF Channels
  <2>3. requests' \in 0..MaxRequests[usage]
    BY <2>1, MhuAssumption DEF TypeOK
  <2> QED BY <2>1, <2>2, <2>3, SentTypes DEF TypeOK
<1>6. ASSUME NEW c \in Channels, PeerReceives(c) PROVE TypeOK'
  <2>1. tx' \in [Channels -> Message] /\ heard' \in [Channels -> Message \cup {None}]
    BY <1>0, <1>6 DEF PeerReceives, TypeOK
  <2>2. owed' \in [Enclaves -> Message \cup {None}]
    <3>1. Encode(NONE, Value(tx[c]) + 1) \in Message
      BY EncodeIsMessage
    <3> QED BY <1>6, <3>1 DEF PeerReceives, TypeOK
  <2> QED BY <1>6, <2>1, <2>2 DEF PeerReceives, TypeOK
<1>7. ASSUME NEW e \in Enclaves, EnclaveEchoes(e) PROVE TypeOK'
  <2>1. /\ owed[e] \in Message /\ e \in Channels
        /\ Sent(e, owed[e]) /\ UNCHANGED <<usage, tx, isr, requests>>
        /\ owed' = [owed EXCEPT ![e] = None]
    BY <1>7 DEF EnclaveEchoes, TypeOK, Channels
  <2> QED BY <2>1, SentTypes DEF TypeOK
<1> QED BY <1>1, <1>2, <1>3, <1>4, <1>5, <1>6, <1>7
        DEF Next, IsrStep, PeerAnswers

(***************************************************************************)
(* Every bit is read once                                                  *)
(***************************************************************************)
Holds(c) == rx[c] = unread[c] \cup InHand(c)
BitsInv == TypeOK /\ \A c \in Channels : Holds(c)

LEMMA BitsInit == Init => BitsInv
<1> SUFFICES ASSUME Init PROVE BitsInv
  OBVIOUS
<1>1. \A c \in Channels : Holds(c)
  BY DEF Init, Holds, InHand, Zero
<1> QED BY <1>1, TypeInit DEF BitsInv

(* What a peer sends is in the register and has not been read.             *)
LEMMA SentHolds ==
  ASSUME BitsInv, NEW c \in Channels, NEW m, Sent(c, m), UNCHANGED isr
  PROVE  \A k \in Channels : Holds(k)'
<1> SUFFICES ASSUME NEW k \in Channels PROVE Holds(k)'
  OBVIOUS
<1>1. Holds(k) /\ rx \in [Channels -> Message] /\ unread \in [Channels -> Message]
  BY DEF BitsInv, TypeOK
<1>2. /\ rx' = [rx EXCEPT ![c] = @ \cup m]
      /\ unread' = [unread EXCEPT ![c] = @ \cup m]
  BY DEF Sent
<1>3. InHand(k)' = InHand(k)
  BY DEF InHand
<1>4. CASE k = c
  BY <1>1, <1>2, <1>3, <1>4 DEF Holds
<1>5. CASE k # c
  BY <1>1, <1>2, <1>3, <1>5 DEF Holds
<1> QED BY <1>4, <1>5

LEMMA BitsNext == BitsInv /\ [Next]_vars => BitsInv'
<1> SUFFICES ASSUME BitsInv, [Next]_vars PROVE BitsInv'
  OBVIOUS
<1>1. TypeOK /\ TypeOK' /\ \A k \in Channels : Holds(k)
  BY TypeNext DEF BitsInv
<1> SUFFICES \A k \in Channels : Holds(k)'
  BY <1>1 DEF BitsInv
<1>2. CASE UNCHANGED <<rx, isr, unread>>
  BY <1>1, <1>2 DEF Holds, InHand
<1>3. ASSUME NEW c \in Channels, IsrReads(c), NEW k \in Channels PROVE Holds(k)'
  <2>1. /\ isr = None /\ isr' # None /\ isr'.channel = c /\ isr'.message = rx[c]
        /\ rx' = rx /\ unread' = [unread EXCEPT ![c] = Zero]
        /\ unread \in [Channels -> Message]
    <3>1. isr' = [channel |-> c, message |-> rx[c], next |-> "callback"]
      BY <1>3 DEF IsrReads
    <3>2. isr' \in Run
      BY <1>1, <3>1 DEF TypeOK, Run
    <3> QED BY <1>1, <1>3, <3>1, <3>2, NullAssumption DEF IsrReads, TypeOK
  <2>2. Holds(k)
    BY <1>1
  <2> QED BY <2>1, <2>2 DEF Holds, InHand, Zero
<1>4. ASSUME IsrCallback, NEW k \in Channels PROVE Holds(k)'
  <2>1. /\ isr \in Run /\ isr # None /\ rx' = rx /\ unread' = unread
        /\ isr' = [isr EXCEPT !.next = "clear"]
    BY <1>1, <1>4 DEF IsrCallback, TypeOK
  <2>2. /\ isr' \in Run /\ isr'.channel = isr.channel
        /\ isr'.message = isr.message
    BY <2>1 DEF Run
  <2>3. InHand(k)' = InHand(k)
    BY <2>1, <2>2, NullAssumption DEF InHand
  <2> QED BY <1>1, <2>1, <2>3 DEF Holds
<1>5. ASSUME IsrClears, NEW k \in Channels PROVE Holds(k)'
  <2>1. /\ isr # None /\ isr' = None
        /\ rx' = [rx EXCEPT ![isr.channel] = @ \ isr.message]
        /\ unread' = [unread EXCEPT ![isr.channel] = @ \ isr.message]
        /\ rx \in [Channels -> Message] /\ unread \in [Channels -> Message]
    BY <1>1, <1>5 DEF IsrClears, TypeOK
  <2>2. Holds(k)
    BY <1>1
  <2>3. CASE k = isr.channel
    BY <2>1, <2>2, <2>3 DEF Holds, InHand, Zero
  <2>4. CASE k # isr.channel
    BY <2>1, <2>2, <2>4 DEF Holds, InHand, Zero
  <2> QED BY <2>3, <2>4
<1>6. ASSUME NEW h \in Hosts, HostSends(h) PROVE \A k \in Channels : Holds(k)'
  <2>1. h \in Channels /\ isr' = isr /\ \E m \in Message : Sent(h, m)
    BY <1>6 DEF HostSends, Channels
  <2> QED BY <2>1, SentHolds
<1>7. ASSUME NEW e \in Enclaves, EnclaveEchoes(e) PROVE \A k \in Channels : Holds(k)'
  <2>1. e \in Channels /\ isr' = isr /\ Sent(e, owed[e])
    BY <1>7 DEF EnclaveEchoes, Channels
  <2> QED BY <2>1, SentHolds
<1>8. ASSUME NEW c \in Channels, PeerReceives(c) PROVE UNCHANGED <<rx, isr, unread>>
  BY <1>8 DEF PeerReceives
<1> QED BY <1>2, <1>3, <1>4, <1>5, <1>6, <1>7, <1>8
        DEF Next, IsrStep, PeerAnswers, vars

(***************************************************************************)
(* Every message is handled once and whole                                 *)
(***************************************************************************)

(* A register is clear or holds the last message of its sender, which has  *)
(* not been handled but by a run of the handler that is about to clear it. *)
Receives(c) ==
  /\ rx[c] # Zero => rx[c] = asked[c]
  /\ rx[c] # Zero /\ handled[c] =>
       isr # None /\ isr.channel = c /\ isr.next = "clear"
  /\ isr # None /\ isr.channel = c =>
       /\ rx[c] # Zero /\ isr.message = rx[c]
       /\ isr.next = "callback" => ~handled[c]

ReceiveInv ==
  /\ usage # "never" /\ TypeOK
  /\ \A c \in Channels : Receives(c)

LEMMA UsageStays == [Next]_vars => usage' = usage
BY DEF Next, IsrStep, PeerAnswers, IsrReads, IsrCallback, IsrClears, HostSends,
       PeerReceives, EnclaveEchoes, vars

LEMMA ReceiveInit == Init /\ usage # "never" => ReceiveInv
<1> SUFFICES ASSUME Init, usage # "never" PROVE ReceiveInv
  OBVIOUS
<1>1. \A c \in Channels : Receives(c)
  BY DEF Init, Receives
<1> QED BY <1>1, TypeInit DEF ReceiveInv

LEMMA SendsToClear ==
  ASSUME usage # "never", NEW c \in Channels, MaySend(c)
  PROVE  rx[c] = Zero
<1>1. CASE usage = "exchange" /\ c \in Hosts
  BY <1>1 DEF MaySend, ExchangeOver
<1>2. CASE ~(usage = "exchange" /\ c \in Hosts)
  BY <1>2 DEF MaySend
<1> QED BY <1>1, <1>2

(* A peer puts a message in a register that is clear.                      *)
LEMMA SentReceives ==
  ASSUME ReceiveInv, NEW c \in Channels, NEW m \in Message, rx[c] = Zero,
         Sent(c, m), UNCHANGED isr
  PROVE  \A k \in Channels : Receives(k)'
<1>1. /\ rx \in [Channels -> Message]
      /\ asked \in [Channels -> Message \cup {None}]
      /\ handled \in [Channels -> BOOLEAN]
  BY DEF ReceiveInv, TypeOK
<1>2. Zero \cup m = m
  BY DEF Zero
<1>3. /\ rx' = [rx EXCEPT ![c] = m] /\ asked' = [asked EXCEPT ![c] = m]
      /\ handled' = [handled EXCEPT ![c] = FALSE]
  BY <1>2 DEF Sent
<1> SUFFICES ASSUME NEW k \in Channels PROVE Receives(k)'
  OBVIOUS
<1>4. Receives(k)
  BY DEF ReceiveInv
<1>5. CASE k = c
  BY <1>1, <1>3, <1>4, <1>5 DEF Receives
<1>6. CASE k # c
  BY <1>1, <1>3, <1>4, <1>6 DEF Receives
<1> QED BY <1>5, <1>6

LEMMA ReceiveNext == ReceiveInv /\ [Next]_vars => ReceiveInv'
<1> SUFFICES ASSUME ReceiveInv, [Next]_vars PROVE ReceiveInv'
  OBVIOUS
<1>1. usage # "never" /\ TypeOK /\ \A k \in Channels : Receives(k)
  BY DEF ReceiveInv
<1> SUFFICES \A k \in Channels : Receives(k)'
  BY <1>1, TypeNext, UsageStays DEF ReceiveInv
<1>2. CASE UNCHANGED <<rx, isr, asked, handled>>
  BY <1>1, <1>2 DEF Receives
<1>3. ASSUME NEW c \in Channels, IsrReads(c), NEW k \in Channels
      PROVE  Receives(k)'
  <2>1. isr'.channel = c /\ isr'.message = rx[c] /\ isr'.next = "callback"
    BY <1>3 DEF IsrReads
  <2> QED BY <1>1, <1>3, <2>1 DEF IsrReads, Receives
<1>4. ASSUME IsrCallback, NEW k \in Channels PROVE Receives(k)'
  <2>1. /\ isr \in Run /\ isr # None /\ isr.channel \in Channels
        /\ isr.next = "callback"
    BY <1>1, <1>4 DEF IsrCallback, TypeOK, Run
  <2>2. /\ isr' \in Run /\ isr'.channel = isr.channel
        /\ isr'.message = isr.message /\ isr'.next = "clear"
    BY <1>4, <2>1 DEF IsrCallback, Run
  <2>3. Receives(k) /\ Receives(isr.channel)
    BY <1>1, <2>1
  <2>4. /\ rx' = rx /\ asked' = asked
        /\ handled' = [handled EXCEPT ![isr.channel] = TRUE]
        /\ handled \in [Channels -> BOOLEAN]
    BY <1>1, <1>4 DEF IsrCallback, TypeOK
  <2>5. CASE k = isr.channel
    <3>1. isr' # None => rx[k] # Zero /\ isr'.message = rx[k]
      BY <2>1, <2>2, <2>3, <2>5 DEF Receives
    <3>2. isr' # None
      BY NullAssumption, <2>2
    <3> QED BY <2>2, <2>3, <2>4, <2>5, <3>1, <3>2 DEF Receives
  <2>6. CASE k # isr.channel
    BY <2>1, <2>2, <2>3, <2>4, <2>6 DEF Receives
  <2> QED BY <2>5, <2>6
<1>5. ASSUME IsrClears, NEW k \in Channels PROVE Receives(k)'
  <2>1. isr # None /\ isr.channel \in Channels
    BY <1>1, <1>5 DEF IsrClears, TypeOK, Run
  <2>2. isr' = None /\ rx' = [rx EXCEPT ![isr.channel] = @ \ isr.message]
    BY <1>5 DEF IsrClears
  <2>3. rx \in [Channels -> Message] /\ isr.message = rx[isr.channel]
    BY <1>1, <2>1 DEF TypeOK, Receives
  <2>4. rx'[k] = IF k = isr.channel THEN Zero ELSE rx[k]
    BY <2>2, <2>3 DEF Zero
  <2>5. Receives(k) /\ asked' = asked /\ handled' = handled
    BY <1>1, <1>5 DEF IsrClears
  <2> QED BY <2>1, <2>2, <2>4, <2>5 DEF Receives
<1>6. ASSUME NEW h \in Hosts, HostSends(h) PROVE \A k \in Channels : Receives(k)'
  <2>1. /\ h \in Channels /\ MaySend(h) /\ isr' = isr
        /\ \E m \in Message : Sent(h, m)
    BY <1>6 DEF HostSends, Channels
  <2>2. rx[h] = Zero
    BY <1>1, <2>1, SendsToClear
  <2> QED BY <2>1, <2>2, SentReceives
<1>7. ASSUME NEW c \in Channels, PeerReceives(c)
      PROVE  UNCHANGED <<rx, isr, asked, handled>>
  BY <1>7 DEF PeerReceives
<1>8. ASSUME NEW e \in Enclaves, EnclaveEchoes(e)
      PROVE  \A k \in Channels : Receives(k)'
  <2>1. /\ e \in Channels /\ MaySend(e) /\ isr' = isr
        /\ owed[e] \in Message /\ Sent(e, owed[e])
    BY <1>1, <1>8 DEF EnclaveEchoes, TypeOK, Channels
  <2>2. rx[e] = Zero
    BY <1>1, <2>1, SendsToClear
  <2> QED BY <2>1, <2>2, SentReceives
<1> QED BY <1>2, <1>3, <1>4, <1>5, <1>6, <1>7, <1>8
        DEF Next, IsrStep, PeerAnswers, vars

(* Whatever peers send and when, the runs of mhu2_isr read every bit once, *)
(* but one that is set again before it is cleared: they clear by value     *)
(* what they have read.  If peers wait for a clear register, the callback  *)
(* sees each message once, unmixed with another.                           *)
THEOREM MessagesHandledOnce == Spec => []HandledOnceAndWhole
<1> DEFINE Inv == BitsInv /\ (ReceiveInv \/ usage = "never")
<1>1. Inv => HandledOnceAndWhole
  <2> SUFFICES ASSUME BitsInv, ReceiveInv \/ usage = "never"
               PROVE  HandledOnceAndWhole
    OBVIOUS
  <2>1. TypeOK /\ \A c \in Channels : rx[c] = unread[c] \cup InHand(c)
    BY DEF BitsInv, Holds
  <2>2. ASSUME usage # "never", isr # None, isr.next = "callback"
        PROVE  isr.message = asked[isr.channel] /\ ~handled[isr.channel]
    <3>1. isr.channel \in Channels
      BY <2>1, <2>2 DEF TypeOK, Run
    <3>2. Receives(isr.channel)
      BY <2>2, <3>1 DEF ReceiveInv
    <3> QED BY <2>2, <3>2 DEF Receives
  <2> QED BY <2>1, <2>2 DEF HandledOnceAndWhole
<1>2. Init => Inv
  BY BitsInit, ReceiveInit
<1>3. Inv /\ [Next]_vars => Inv'
  BY BitsNext, ReceiveNext, UsageStays
<1> HIDE DEF Inv
<1> QED BY <1>1, <1>2, <1>3, PTL DEF Spec

(***************************************************************************)
(* Answers are whole                                                       *)
(*                                                                         *)
(* An exchange is that of an enclave channel and the host channels whose   *)
(* echoes it serves.  Its message is at one place at a time: in a register *)
(* its receiver has not handled, in one a peer has not read, or with the   *)
(* enclave that will echo it.                                              *)
(***************************************************************************)
ExchangeOf(c) == IF c \in Hosts THEN EnclaveOf[c] ELSE c

Unhandled(c) == rx[c] # Zero /\ ~handled[c]
Tokens == {<<"rx", c>> : c \in {d \in Channels : Unhandled(d)}}
            \cup {<<"tx", c>> : c \in {d \in Channels : tx[d] # Zero}}
            \cup {<<"owed", c>> : c \in {d \in Enclaves : owed[d] # None}}

OneToken ==
  \A t, u \in Tokens : ExchangeOf(t[2]) = ExchangeOf(u[2]) => t = u

(* Every host channel has an enclave channel of its own, as in the         *)
(* products, whose message units connect one host and one enclave.         *)
OwnEnclave == \A g, h \in Hosts : EnclaveOf[g] = EnclaveOf[h] => g = h

ExchangeInv ==
  usage = "exchange" /\ ReceiveInv /\ OneToken /\ RegistersWhole

TokenMeaning ==
  /\ \A c \in Channels : <<"rx", c>> \in Tokens <=> Unhandled(c)
  /\ \A c \in Channels : <<"tx", c>> \in Tokens <=> tx[c] # Zero
  /\ \A c \in Enclaves : <<"owed", c>> \in Tokens <=> owed[c] # None
  /\ \A t \in Tokens :
       \/ \E c \in Channels : t = <<"rx", c>>
       \/ \E c \in Channels : t = <<"tx", c>>
       \/ \E c \in Enclaves : t = <<"owed", c>>

LEMMA TokenMembers == TokenMeaning
BY DEF Tokens, TokenMeaning

LEMMA NextTokenMembers == TokenMeaning'
BY TokenMembers, PTL

(* Where the message of the exchange moves.                                *)
LEMMA TokenMoves ==
  ASSUME OneToken, NEW x \in Tokens, NEW y,
         ExchangeOf(y[2]) = ExchangeOf(x[2]),
         Tokens' \subseteq (Tokens \ {x}) \cup {y}
  PROVE  OneToken'
<1>1. \A t, u \in Tokens : ExchangeOf(t[2]) = ExchangeOf(u[2]) => t = u
  BY DEF OneToken
<1>2. \A t \in Tokens' : t # y => ExchangeOf(t[2]) # ExchangeOf(y[2])
  BY <1>1
<1>3. \A t, u \in Tokens' : ExchangeOf(t[2]) = ExchangeOf(u[2]) => t = u
  BY <1>1, <1>2
<1> QED BY <1>3 DEF OneToken, ExchangeOf

LEMMA TokenStarts ==
  ASSUME OneToken, NEW y,
         \A t \in Tokens : ExchangeOf(t[2]) # ExchangeOf(y[2]),
         Tokens' \subseteq Tokens \cup {y}
  PROVE  OneToken'
<1>1. \A t, u \in Tokens : ExchangeOf(t[2]) = ExchangeOf(u[2]) => t = u
  BY DEF OneToken
<1>2. \A t, u \in Tokens' : ExchangeOf(t[2]) = ExchangeOf(u[2]) => t = u
  BY <1>1
<1> QED BY <1>2 DEF OneToken, ExchangeOf

LEMMA TokensStay ==
  ASSUME OneToken, Tokens' \subseteq Tokens PROVE OneToken'
<1>1. \A t, u \in Tokens' : ExchangeOf(t[2]) = ExchangeOf(u[2]) => t = u
  BY DEF OneToken
<1> QED BY <1>1 DEF OneToken, ExchangeOf

LEMMA ExchangeInit == Init /\ usage = "exchange" => ExchangeInv
<1> SUFFICES ASSUME Init, usage = "exchange" PROVE ExchangeInv
  OBVIOUS
<1>1. \A t : t \notin Tokens
  <2>1. \A c \in Channels : ~ Unhandled(c) /\ tx[c] = Zero
    BY DEF Init, Unhandled
  <2>2. \A c \in Enclaves : owed[c] = None
    BY DEF Init
  <2> QED BY <2>1, <2>2, TokenMembers DEF TokenMeaning
<1>2. RegistersWhole
  BY DEF Init, RegistersWhole
<1> QED BY <1>1, <1>2, ReceiveInit DEF ExchangeInv, OneToken

(* Nothing is on its way in the exchange of a channel.                     *)
Quiet(c) == \A t \in Tokens : ExchangeOf(t[2]) # ExchangeOf(c)

LEMMA ExchangeTokens ==
  ASSUME NEW c \in Channels, Quiet(c)
  PROVE  tx[c] = Zero /\ (c \in Hosts => tx[EnclaveOf[c]] = Zero)
<1>1. \A d \in Channels : ExchangeOf(d) = ExchangeOf(c) => tx[d] = Zero
  <2> SUFFICES ASSUME NEW d \in Channels, ExchangeOf(d) = ExchangeOf(c),
                      tx[d] # Zero
               PROVE  FALSE
    OBVIOUS
  <2>1. <<"tx", d>> \in Tokens
    BY TokenMembers DEF TokenMeaning
  <2>2. <<"tx", d>>[2] = d
    OBVIOUS
  <2> QED BY <2>1, <2>2 DEF Quiet
<1>2. c \in Hosts => /\ EnclaveOf[c] \in Channels
                     /\ ExchangeOf(EnclaveOf[c]) = ExchangeOf(c)
  BY MhuAssumption DEF ExchangeOf, Channels
<1> QED BY <1>1, <1>2

(* What one token in an exchange says of the registers to read there.      *)
LEMMA OtherTokens ==
  ASSUME OneToken, NEW k \in {"rx", "owed"}, NEW c \in Channels,
         <<k, c>> \in Tokens, NEW d \in Channels,
         ExchangeOf(d) = ExchangeOf(c)
  PROVE  tx[d] = Zero
<1> SUFFICES ASSUME tx[d] # Zero PROVE FALSE
  OBVIOUS
<1>1. <<"tx", d>> \in Tokens
  BY TokenMembers DEF TokenMeaning
<1>2. <<"tx", d>>[2] = d /\ <<k, c>>[2] = c /\ <<"tx", d>> # <<k, c>>
  OBVIOUS
<1> QED BY <1>1, <1>2 DEF OneToken

(* The tokens after a step are among those of S.                           *)
LEMMA TokensFrom ==
  ASSUME NEW S,
         \A c \in Channels : Unhandled(c)' => <<"rx", c>> \in S,
         \A c \in Channels : tx'[c] # Zero => <<"tx", c>> \in S,
         \A c \in Enclaves : owed'[c] # None => <<"owed", c>> \in S
  PROVE  Tokens' \subseteq S
BY NextTokenMembers DEF TokenMeaning

(* Steps that send nothing leave the answers alone.                        *)
LEMMA AnswersStay ==
  ASSUME RegistersWhole, UNCHANGED <<tx, asked>> PROVE RegistersWhole'
BY DEF RegistersWhole, AnswerTo, EchoTo

(* A new message comes when nothing of its exchange is on its way that its *)
(* answer could mix with.                                                  *)
LEMMA SentAnswers ==
  ASSUME ReceiveInv, RegistersWhole, NEW c \in Channels, NEW m,
         Sent(c, m), UNCHANGED tx,
         tx[c] = Zero, c \in Hosts => tx[EnclaveOf[c]] = Zero
  PROVE  RegistersWhole'
<1>1. asked \in [Channels -> Message \cup {None}]
  BY DEF ReceiveInv, TypeOK
<1>2. asked' = [asked EXCEPT ![c] = m]
  BY DEF Sent
<1> SUFFICES ASSUME NEW k \in Channels, tx[k] # Zero
             PROVE  tx[k] \in AnswerTo(k)' \/ (k \in Enclaves /\ tx[k] \in EchoTo(k)')
  BY DEF RegistersWhole
<1>3. k # c /\ asked'[k] = asked[k]
  BY <1>1, <1>2
<1>4. AnswerTo(k)' = AnswerTo(k)
  BY <1>3 DEF AnswerTo
<1>5. ASSUME NEW h \in Hosts, EnclaveOf[h] = k PROVE asked'[h] = asked[h]
  <2>1. h # c /\ h \in Channels
    BY <1>5 DEF Channels
  <2> QED BY <1>1, <1>2, <2>1
<1>6. EchoTo(k)' = EchoTo(k)
  <2> DEFINE G == {g \in Hosts : /\ EnclaveOf[g] = k /\ asked[g] # None
                                /\ Command(asked[g]) = INC_ECHO_SE}
             H == {g \in Hosts : /\ EnclaveOf[g] = k /\ asked'[g] # None
                                /\ Command(asked'[g]) = INC_ECHO_SE}
  <2>1. G = H
    BY <1>5
  <2>2. \A g \in G : asked'[g] = asked[g]
    BY <1>5
  <2>3. EchoTo(k) = {Encode(INC_RETURN, Value(asked[h]) + 1) : h \in G}
    BY DEF EchoTo
  <2>4. EchoTo(k)' = {Encode(INC_RETURN, Value(asked'[h]) + 1) : h \in H}
    BY DEF EchoTo
  <2> HIDE DEF G, H
  <2>5. {Encode(INC_RETURN, Value(asked[h]) + 1) : h \in G}
          = {Encode(INC_RETURN, Value(asked'[h]) + 1) : h \in G}
    BY <2>2
  <2> QED BY <2>1, <2>3, <2>4, <2>5
<1>7. tx[k] \in AnswerTo(k) \/ (k \in Enclaves /\ tx[k] \in EchoTo(k))
  BY DEF RegistersWhole
<1> QED BY <1>4, <1>6, <1>7

LEMMA CallbackAnswers ==
  ASSUME ExchangeInv, IsrCallback PROVE OneToken' /\ RegistersWhole'
<1> PICK c, m : c = isr.channel /\ m = isr.message
  OBVIOUS
<1>1. /\ TypeOK /\ OneToken /\ RegistersWhole
      /\ isr # None /\ isr.next = "callback" /\ c \in Channels
  BY DEF ExchangeInv, ReceiveInv, IsrCallback, TypeOK, Run
<1>2. /\ Unhandled(c) /\ m = asked[c] /\ asked[c] # None
  <2>1. Receives(c)
    BY <1>1 DEF ExchangeInv, ReceiveInv
  <2>2. rx[c] \in Message
    BY <1>1 DEF TypeOK
  <2> QED BY <1>1, <2>1, <2>2, NullAssumption DEF Receives, Unhandled
<1>3. /\ SendMessages(Sends(c, m))
      /\ handled' = [handled EXCEPT ![c] = TRUE]
      /\ rx' = rx /\ owed' = owed /\ asked' = asked
  BY DEF IsrCallback
<1>4. <<"rx", c>> \in Tokens
  BY <1>1, <1>2, TokenMembers DEF TokenMeaning
<1> PICK x : x = <<"rx", c>>
  OBVIOUS
<1>5. x \in Tokens /\ x[2] = c
  BY <1>4
<1>6. ASSUME NEW k \in Channels, Unhandled(k)'
      PROVE  <<"rx", k>> \in Tokens \ {x}
  <2>1. handled \in [Channels -> BOOLEAN]
    BY <1>1 DEF TypeOK
  <2>2. k # c /\ Unhandled(k)
    BY <1>1, <1>3, <1>6, <2>1 DEF Unhandled
  <2>3. <<"rx", k>> \in Tokens
    BY <2>2, TokenMembers DEF TokenMeaning
  <2> QED BY <2>2, <2>3
<1>7. ASSUME NEW e \in Enclaves, owed'[e] # None
      PROVE  <<"owed", e>> \in Tokens \ {x}
  BY <1>3, <1>7, TokenMembers DEF TokenMeaning
<1>8. ASSUME NEW k \in Channels, tx[k] # Zero
      PROVE  <<"tx", k>> \in Tokens \ {x}
  BY <1>8, TokenMembers DEF TokenMeaning
<1>9. CASE tx' = tx
  <2>1. Tokens' \subseteq Tokens \ {x}
    BY <1>6, <1>7, <1>8, <1>9, TokensFrom
  <2> QED BY <1>1, <1>3, <1>9, <2>1, TokensStay, AnswersStay
<1>10. ASSUME NEW d \in Channels, NEW a \in Message,
              Replies(c, m, d, a), Reaches(d, a)
       PROVE  OneToken' /\ RegistersWhole'
  <2>1. ExchangeOf(d) = ExchangeOf(c)
    BY <1>10, MhuAssumption DEF Replies, ExchangeOf
  <2>2. tx[d] = Zero
    BY <1>1, <1>4, <2>1, OtherTokens
  <2>3. \A k \in Channels : tx'[k] = IF k = d THEN a ELSE tx[k]
    BY <1>10, <2>2 DEF Reaches, Zero
  <2> PICK y : y = <<"tx", d>>
    OBVIOUS
  <2>4. y[2] = d
    OBVIOUS
  <2>5. ASSUME NEW k \in Channels, tx'[k] # Zero
        PROVE  <<"tx", k>> \in (Tokens \ {x}) \cup {y}
    BY <1>8, <2>3, <2>5
  <2>6. Tokens' \subseteq (Tokens \ {x}) \cup {y}
    <3> PICK S : S = (Tokens \ {x}) \cup {y}
      OBVIOUS
    <3>1. Tokens' \subseteq S
      BY <1>6, <1>7, <2>5, TokensFrom
    <3> QED BY <3>1
  <2>7. OneToken'
    BY <1>1, <1>5, <2>1, <2>4, <2>6, TokenMoves
  <2>8. ASSUME NEW k \in Channels, tx'[k] # Zero
        PROVE  \/ tx'[k] \in AnswerTo(k)'
               \/ k \in Enclaves /\ tx'[k] \in EchoTo(k)'
    <3>1. AnswerTo(k)' = AnswerTo(k) /\ EchoTo(k)' = EchoTo(k)
      BY <1>3 DEF AnswerTo, EchoTo
    <3>2. CASE k # d
      BY <1>1, <2>3, <2>8, <3>1, <3>2 DEF RegistersWhole
    <3>3. CASE k = d /\ d = c /\ Command(m) = INC_RETURN
               /\ a = Encode(NONE, Value(m) + 1)
      BY <1>2, <2>3, <3>1, <3>3 DEF AnswerTo
    <3>4. CASE /\ k = d /\ c \in Hosts /\ d = EnclaveOf[c]
               /\ Command(m) = INC_ECHO_SE /\ a = Encode(INC_RETURN, Value(m) + 1)
      <4>1. a \in EchoTo(k)
        BY <1>2, <3>4 DEF EchoTo
      <4>2. k \in Enclaves
        BY <3>4, MhuAssumption
      <4> QED BY <2>3, <3>1, <3>4, <4>1, <4>2
    <3> QED BY <1>10, <3>2, <3>3, <3>4 DEF Replies
  <2> QED BY <2>7, <2>8 DEF RegistersWhole
<1>11. tx \in [Channels -> Message]
  BY <1>1 DEF TypeOK
<1> QED BY <1>1, <1>3, <1>9, <1>10, <1>11, CallbackSends

LEMMA ExchangeNext ==
  ASSUME OwnEnclave PROVE ExchangeInv /\ [Next]_vars => ExchangeInv'
<1> SUFFICES ASSUME ExchangeInv, [Next]_vars PROVE ExchangeInv'
  OBVIOUS
<1>1. /\ TypeOK /\ OneToken /\ RegistersWhole /\ ReceiveInv /\ ReceiveInv'
      /\ usage = "exchange" /\ usage' = "exchange"
  BY ReceiveNext, UsageStays DEF ExchangeInv, ReceiveInv
<1> SUFFICES OneToken' /\ RegistersWhole'
  BY <1>1 DEF ExchangeInv
<1>2. ASSUME UNCHANGED <<tx, owed, asked, handled>>,
             \A k \in Channels : rx'[k] # Zero => rx[k] # Zero
      PROVE  OneToken' /\ RegistersWhole'
  <2>1. \A k \in Channels : Unhandled(k)' => <<"rx", k>> \in Tokens
    BY <1>2, TokenMembers DEF TokenMeaning, Unhandled
  <2>2. /\ \A k \in Channels : tx'[k] # Zero => <<"tx", k>> \in Tokens
        /\ \A k \in Enclaves : owed'[k] # None => <<"owed", k>> \in Tokens
    BY <1>2, TokenMembers DEF TokenMeaning
  <2>3. Tokens' \subseteq Tokens
    BY <2>1, <2>2, TokensFrom
  <2> QED BY <1>1, <1>2, <2>3, TokensStay, AnswersStay
<1>3. CASE UNCHANGED vars
  BY <1>2, <1>3 DEF vars
<1>4. ASSUME NEW c \in Channels, IsrReads(c) PROVE OneToken' /\ RegistersWhole'
  BY <1>2, <1>4 DEF IsrReads
<1>5. CASE IsrCallback
  BY <1>5, CallbackAnswers
<1>6. CASE IsrClears
  <2>1. rx \in [Channels -> Message] /\ rx' = [rx EXCEPT ![isr.channel] = @ \ isr.message]
    BY <1>1, <1>6 DEF IsrClears, TypeOK
  <2>2. \A k \in Channels : rx'[k] # Zero => rx[k] # Zero
    BY <2>1 DEF Zero
  <2> QED BY <1>2, <1>6, <2>2 DEF IsrClears
<1>7. ASSUME NEW h \in Hosts, HostSends(h) PROVE OneToken' /\ RegistersWhole'
  <2>1. PICK m \in Message :
          ExchangeOver(h) /\ Sent(h, m) /\ UNCHANGED <<tx, owed>>
    BY <1>1, <1>7 DEF HostSends, MaySend
  <2> PICK e : e = EnclaveOf[h]
    OBVIOUS
  <2>2. h \in Channels /\ e \in Enclaves /\ e \in Channels /\ e \notin Hosts
    BY MhuAssumption DEF Channels
  <2>3. rx[h] = Zero /\ tx[h] = Zero /\ rx[e] = Zero /\ tx[e] = Zero /\ owed[e] = None
    BY <2>1 DEF ExchangeOver
  <2>4. ASSUME NEW k \in Channels, ExchangeOf(k) = ExchangeOf(h) PROVE k = h \/ k = e
    BY <2>2, <2>4, MhuAssumption DEF ExchangeOf, OwnEnclave, Channels
  <2>5. ASSUME NEW t \in Tokens PROVE ExchangeOf(t[2]) # ExchangeOf(h)
    <3>1. CASE \E k \in Channels : t = <<"rx", k>>
      <4>1. PICK k \in Channels : t = <<"rx", k>>
        BY <3>1
      <4>2. Unhandled(k) /\ t[2] = k
        BY <4>1, TokenMembers DEF TokenMeaning
      <4> QED BY <2>3, <2>4, <4>2 DEF Unhandled
    <3>2. CASE \E k \in Channels : t = <<"tx", k>>
      <4>1. PICK k \in Channels : t = <<"tx", k>>
        BY <3>2
      <4>2. tx[k] # Zero /\ t[2] = k
        BY <4>1, TokenMembers DEF TokenMeaning
      <4> QED BY <2>3, <2>4, <4>2
    <3>3. CASE \E k \in Enclaves : t = <<"owed", k>>
      <4>1. PICK k \in Enclaves : t = <<"owed", k>>
        BY <3>3
      <4>2. owed[k] # None /\ t[2] = k /\ k \in Channels /\ k # h
        BY <4>1, TokenMembers, MhuAssumption DEF TokenMeaning, Channels
      <4> QED BY <2>3, <2>4, <4>2
    <3> QED BY <3>1, <3>2, <3>3, TokenMembers DEF TokenMeaning
  <2> PICK y : y = <<"rx", h>>
    OBVIOUS
  <2>6. y[2] = h
    OBVIOUS
  <2>7. ASSUME NEW k \in Channels, Unhandled(k)' PROVE <<"rx", k>> \in Tokens \cup {y}
    <3>1. CASE k = h
      BY <3>1
    <3>2. CASE k # h
      <4>1. Unhandled(k)
        BY <1>1, <2>1, <2>7, <3>2 DEF Sent, TypeOK, Unhandled
      <4> QED BY <4>1, TokenMembers DEF TokenMeaning
    <3> QED BY <3>1, <3>2
  <2>8. /\ \A k \in Channels : tx'[k] # Zero => <<"tx", k>> \in Tokens \cup {y}
        /\ \A k \in Enclaves : owed'[k] # None => <<"owed", k>> \in Tokens \cup {y}
    BY <2>1, TokenMembers DEF TokenMeaning
  <2>9. Tokens' \subseteq Tokens \cup {y}
    <3> PICK S : S = Tokens \cup {y}
      OBVIOUS
    <3>1. Tokens' \subseteq S
      BY <2>7, <2>8, TokensFrom
    <3> QED BY <3>1
  <2>10. OneToken'
    BY <1>1, <2>5, <2>6, <2>9, TokenStarts
  <2>11. RegistersWhole'
    BY <1>1, <2>1, <2>2, <2>3, SentAnswers
  <2> QED BY <2>10, <2>11
<1>8. ASSUME NEW c \in Channels, PeerReceives(c) PROVE OneToken' /\ RegistersWhole'
  <2> PICK x, y : x = <<"tx", c>> /\ y = <<"owed", c>>
    OBVIOUS
  <2>1. x \in Tokens /\ x[2] = c /\ y[2] = c
    BY <1>8, TokenMembers DEF PeerReceives, TokenMeaning
  <2>2. /\ tx' = [tx EXCEPT ![c] = Zero] /\ UNCHANGED <<rx, asked, handled>>
        /\ tx \in [Channels -> Message]
        /\ \A k \in Enclaves : k # c => owed'[k] = owed[k]
    BY <1>1, <1>8 DEF PeerReceives, TypeOK
  <2>3. ASSUME NEW k \in Channels, Unhandled(k)'
        PROVE  <<"rx", k>> \in (Tokens \ {x}) \cup {y}
    BY <2>2, <2>3, TokenMembers DEF TokenMeaning, Unhandled
  <2>4. ASSUME NEW k \in Channels, tx'[k] # Zero
        PROVE  <<"tx", k>> \in (Tokens \ {x}) \cup {y}
    <3>1. k # c /\ tx[k] # Zero
      BY <2>2, <2>4
    <3> QED BY <3>1, TokenMembers DEF TokenMeaning
  <2>5. ASSUME NEW k \in Enclaves, owed'[k] # None
        PROVE  <<"owed", k>> \in (Tokens \ {x}) \cup {y}
    BY <2>2, <2>5, TokenMembers DEF TokenMeaning
  <2>6. Tokens' \subseteq (Tokens \ {x}) \cup {y}
    <3> PICK S : S = (Tokens \ {x}) \cup {y}
      OBVIOUS
    <3>1. Tokens' \subseteq S
      BY <2>3, <2>4, <2>5, TokensFrom
    <3> QED BY <3>1
  <2>7. OneToken'
    BY <1>1, <2>1, <2>6, TokenMoves
  <2>8. RegistersWhole'
    <3> SUFFICES ASSUME NEW k \in Channels, tx'[k] # Zero
                 PROVE  \/ tx'[k] \in AnswerTo(k)'
                        \/ k \in Enclaves /\ tx'[k] \in EchoTo(k)'
      BY DEF RegistersWhole
    <3>1. tx'[k] = tx[k]
      BY <2>2
    <3>2. AnswerTo(k)' = AnswerTo(k) /\ EchoTo(k)' = EchoTo(k)
      BY <2>2 DEF AnswerTo, EchoTo
    <3> QED BY <1>1, <3>1, <3>2 DEF RegistersWhole
  <2> QED BY <2>7, <2>8
<1>9. ASSUME NEW e \in Enclaves, EnclaveEchoes(e) PROVE OneToken' /\ RegistersWhole'
  <2> PICK x, y : x = <<"owed", e>> /\ y = <<"rx", e>>
    OBVIOUS
  <2>1. x \in Tokens /\ x[2] = e /\ y[2] = e /\ e \in Channels /\ e \notin Hosts
    BY <1>9, TokenMembers, MhuAssumption DEF EnclaveEchoes, TokenMeaning, Channels
  <2>2. /\ Sent(e, owed[e]) /\ UNCHANGED tx
        /\ owed' = [owed EXCEPT ![e] = None]
        /\ owed \in [Enclaves -> Message \cup {None}]
    BY <1>1, <1>9 DEF EnclaveEchoes, TypeOK
  <2>3. ASSUME NEW k \in Channels, Unhandled(k)'
        PROVE  <<"rx", k>> \in (Tokens \ {x}) \cup {y}
    <3>1. CASE k = e
      BY <3>1
    <3>2. CASE k # e
      <4>1. Unhandled(k)
        BY <1>1, <2>2, <2>3, <3>2 DEF Sent, TypeOK, Unhandled
      <4> QED BY <4>1, TokenMembers DEF TokenMeaning
    <3> QED BY <3>1, <3>2
  <2>4. ASSUME NEW k \in Channels, tx'[k] # Zero
        PROVE  <<"tx", k>> \in (Tokens \ {x}) \cup {y}
    BY <2>2, <2>4, TokenMembers DEF TokenMeaning
  <2>5. ASSUME NEW k \in Enclaves, owed'[k] # None
        PROVE  <<"owed", k>> \in (Tokens \ {x}) \cup {y}
    <3>1. k # e /\ owed[k] # None
      BY <2>2, <2>5
    <3> QED BY <3>1, TokenMembers DEF TokenMeaning
  <2>6. Tokens' \subseteq (Tokens \ {x}) \cup {y}
    <3> PICK S : S = (Tokens \ {x}) \cup {y}
      OBVIOUS
    <3>1. Tokens' \subseteq S
      BY <2>3, <2>4, <2>5, TokensFrom
    <3> QED BY <3>1
  <2>7. OneToken'
    BY <1>1, <2>1, <2>6, TokenMoves
  <2>8. tx[e] = Zero
    BY <1>1, <2>1, OtherTokens
  <2>9. RegistersWhole'
    BY <1>1, <2>1, <2>2, <2>8, SentAnswers
  <2> QED BY <2>7, <2>9
<1> QED BY <1>3, <1>4, <1>5, <1>6, <1>7, <1>8, <1>9
        DEF Next, IsrStep, PeerAnswers

(* If the hosts wait for the end of an exchange before they start another, *)
(* and each has an enclave channel of its own, a register only ever holds  *)
(* one answer or echo, with the value of the message it is for             *)
(* incremented.  send_message itself does not look at the register it sets *)
(* bits in.                                                                *)
THEOREM AnswersComeWhole ==
  ASSUME OwnEnclave PROVE Spec => []AnswersWhole
<1> DEFINE Inv == ExchangeInv \/ usage # "exchange"
<1>1. Inv => AnswersWhole
  BY DEF ExchangeInv, AnswersWhole
<1>2. Init => Inv
  BY ExchangeInit
<1>3. Inv /\ [Next]_vars => Inv'
  BY ExchangeNext, UsageStays
<1> HIDE DEF Inv
<1> QED BY <1>1, <1>2, <1>3, PTL DEF Spec
=============================================================================
