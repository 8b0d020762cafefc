------------------------------ MODULE MhuBoot ------------------------------
(***************************************************************************)
(* The boot of the message handling unit: what mod_mhuv2.c, rpmsg_client.c *)
(* and mod_eventhandler.c set up, callback by callback in the order of the *)
(* module framework, while the other side may already send messages and    *)
(* interrupts come as soon as they are enabled.  The callbacks and the     *)
(* handler of a channel write to the log.                                  *)
(***************************************************************************)
EXTENDS FwkInterrupt, LogUart, SequencesExt

CONSTANTS
  Channels,    (* the elements of the module, in order                     *)
  Irq, Send,   (* mod_mhu2_channel_config: irq and send                    *)
  BmpSize,     (* RPMSG_ADDR_BMP_SIZE                                      *)
  OtherIsr,    (* a handler of another module                              *)
  Mhu2_isr,
  Thread, Isr, (* who logs                                                 *)
  Banner, Started, Received   (* the messages of log_bind, of mhu2_start   *)
                              (* and of the handler of a channel           *)

N == Len(Channels)
Chans == ToSet(Channels)
MhuLines == {Irq[c] : c \in Chans}
OtherLines == Lines \ MhuLines

(* struct rpmsg_endpoint                                                   *)
ADDR_ANY == -1
Endpoint == [chan : Chans, addr : {ADDR_ANY} \cup 0..(BmpSize - 1),
             dest : Range(Send)]

ASSUME MhuBootAssumption ==
  /\ Channels \in Seq(Params) /\ N > 0 /\ IsInjective(Channels)
  /\ Irq \in [Chans -> Lines] /\ IsInjective(Irq)
  /\ DOMAIN Send = Chans /\ IsInjective(Send)
  /\ BmpSize \in Nat /\ NULL \notin Endpoint
  /\ {OtherIsr, Mhu2_isr} \subseteq Isrs /\ OtherIsr # Mhu2_isr
  /\ {Thread, Isr} \subseteq Contexts /\ Thread # Isr
  /\ {Banner, Started, Received} \subseteq Texts
  /\ Banner # Started /\ Banner # Received /\ Started # Received

VARIABLES
  stage,       (* how far the boot is                                      *)
  at,          (* the index of the channel whose callback is next          *)
  starting,    (* mhu2_start has set the handler of the channel            *)
  device,      (* rdev: endpoints, and the addresses in use                *)
  ept,         (* channel_ctx->ept                                         *)
  logApi       (* the contexts whose log_api is bound                      *)

bootVars == <<stage, at, starting, device, ept, logApi>>
vars == <<irqVars, logVars, bootVars>>

Stages == {"init", "elements", "bind_log", "flush", "bind", "bind_handler",
           "start", "runtime"}
Handler == "eventhandler"

BootInit ==
  /\ InterruptInit /\ LogInit
  /\ stage = "init" /\ at = 1 /\ starting = FALSE
  /\ device = [endpoints |-> <<>>, used |-> {}]
  /\ ept = [c \in Chans |-> NULL]
  /\ logApi = {}

(* A callback has run for every channel in turn; then comes the next stage. *)
NextChannel(next) ==
  IF at < N THEN at' = at + 1 /\ stage' = stage
            ELSE at' = 1 /\ stage' = next

(* A callback returns when it has put its message.                         *)
CanCall == InThread /\ Silent(Thread)

(* mhu2_init: the table of contexts is zero and rdev has no endpoint.      *)
MhuInit ==
  /\ CanCall /\ stage = "init"
  /\ stage' = "elements"
  /\ UNCHANGED <<irqVars, logVars, at, starting, device, ept, logApi>>

(* endpoint_create and rpmsg_create_ept: the first address that is not in  *)
(* use, or RPMSG_ADDR_ANY when there is none.                              *)
CreateEpt(c) ==
  LET unused == (0..(BmpSize - 1)) \ device.used
      addr == IF unused = {} THEN ADDR_ANY
              ELSE CHOOSE a \in unused : \A b \in unused : a <= b
      e == [chan |-> c, addr |-> addr, dest |-> Send[c]]
  IN /\ device' = [endpoints |-> Append(device.endpoints, e),
                   used |-> device.used \cup (unused \cap {addr})]
     /\ ept' = [ept EXCEPT ![c] = e]

(* mhu2_channel_init                                                       *)
ElementInit ==
  /\ CanCall /\ stage = "elements"
  /\ CreateEpt(Channels[at])
  /\ NextChannel("bind_log")
  /\ UNCHANGED <<irqVars, logVars, starting, logApi>>

(* log_bind, in the first round: the banner is put, ...                    *)
BindLog ==
  /\ CanCall /\ stage = "bind_log"
  /\ BindDriver(Thread, Banner)
  /\ stage' = "flush"
  /\ UNCHANGED <<irqVars, at, starting, device, ept, logApi>>

(* ... and has left the UART when the callback returns.                    *)
FlushBanner ==
  /\ CanCall /\ stage = "flush" /\ Flushed(Thread)
  /\ stage' = "bind"
  /\ UNCHANGED <<irqVars, logVars, at, starting, device, ept, logApi>>

(* mhu2_bind, in the second round.                                         *)
Bind ==
  /\ CanCall /\ stage = "bind"
  /\ logApi' = logApi \cup {Channels[at]}
  /\ NextChannel("bind_handler")
  /\ UNCHANGED <<irqVars, logVars, starting, device, ept>>

(* Mutant: the event handler binds to the log in the first round only.     *)
BindHandlerLate ==
  /\ CanCall /\ stage = "bind_handler"
  /\ stage' = "start"
  /\ UNCHANGED <<irqVars, logVars, at, starting, device, ept, logApi>>

(* eventhandler_bind: the module after this one.                           *)
BindHandler ==
  /\ CanCall /\ stage = "bind_handler"
  /\ logApi' = logApi \cup {Handler}
  /\ stage' = "start"
  /\ UNCHANGED <<irqVars, logVars, at, starting, device, ept>>

(* mhu2_start: the handler is set, ...                                     *)
StartSetsIsr ==
  /\ stage = "start" /\ ~starting /\ CanCall
  /\ SetIsrParam(Irq[Channels[at]], Mhu2_isr, Channels[at])
  /\ starting' = TRUE
  /\ UNCHANGED <<logVars, stage, at, device, ept, logApi>>

(* ... then its interrupt is enabled and the start is logged.              *)
StartEnables ==
  /\ stage = "start" /\ starting /\ InThread
  /\ Enable(Irq[Channels[at]])
  /\ Log(Thread, Started)
  /\ starting' = FALSE
  /\ NextChannel("runtime")
  /\ UNCHANGED <<device, ept, logApi>>

BootStep ==
  \/ MhuInit \/ ElementInit \/ BindLog \/ FlushBanner \/ Bind \/ BindHandler
  \/ StartSetsIsr \/ StartEnables

Write == (WriteFunc \/ WriteParam) /\ UNCHANGED <<logVars, bootVars>>

(* Another module sets handlers, enables, disables and raises its lines;   *)
(* whoever masks interrupts unmasks them.                                  *)
OtherModules ==
  /\ InThread /\ Silent(Thread)
  /\ \/ \E l \in OtherLines :
          \/ SetIsr(l, OtherIsr)
          \/ \E c \in Chans : Quiet(l) /\ SetIsrParam(l, OtherIsr, c)
          \/ Enable(l) \/ Disable(l) \/ SetPending(l) \/ ClearPending(l)
     \/ GlobalDisable
  /\ UNCHANGED <<logVars, bootVars>>

Unmask == InThread /\ GlobalEnable /\ UNCHANGED <<logVars, bootVars>>

(* A message comes: the other side sets bits of STAT.                      *)
Message ==
  \E l \in MhuLines : DeviceAsserts(l) /\ UNCHANGED <<logVars, bootVars>>

(* The handler of a channel logs the message.                              *)
Interrupt(l) ==
  /\ TakeInterrupt(l)
  /\ IF l \in MhuLines THEN Log(Isr, Received) ELSE UNCHANGED logVars
  /\ UNCHANGED bootVars

(* A routine that has put its message returns.                             *)
Return ==
  /\ HandlerReturns /\ Silent(Isr)
  /\ UNCHANGED <<logVars, bootVars>>

Ignore == Spurious /\ UNCHANGED <<logVars, bootVars>>

(* A handler stops the thread while it puts characters.                    *)
ThreadPuts == InThread /\ Puts(Thread) /\ UNCHANGED <<irqVars, bootVars>>
IsrPuts == Puts(Isr) /\ UNCHANGED <<irqVars, bootVars>>
Sends == Transmit /\ UNCHANGED <<irqVars, bootVars>>

Next ==
  \/ BootStep \/ Write \/ OtherModules \/ Unmask \/ Message \/ Ignore
  \/ ThreadPuts \/ IsrPuts \/ Sends \/ Return
  \/ \E l \in Lines : Interrupt(l)

Spec == BootInit /\ [][Next]_vars

(* The thread gets the processor between interrupts, for as long as the    *)
(* UART takes to send a character (devices do not signal as fast as they   *)
(* are served): callbacks return, so that the framework calls the next     *)
(* one, and masked sections end.  A pending interrupt is taken before the  *)
(* next instruction when interrupts are unmasked, handlers return, and the *)
(* UART sends what it holds.                                               *)
FairSpec ==
  /\ Spec
  /\ SF_vars(BootStep \/ ThreadPuts) /\ SF_vars(Write) /\ SF_vars(Unmask)
  /\ WF_vars(IsrPuts) /\ WF_vars(Sends)
  /\ SF_vars(Sends /\ InThread)
  /\ WF_vars(Ignore) /\ WF_vars(Return)
  /\ \A l \in Lines : SF_vars(Interrupt(l))

(***************************************************************************)
(* Properties                                                              *)
(***************************************************************************)
TypeOK ==
  /\ InterruptTypeOK /\ LogTypeOK
  /\ stage \in Stages /\ at \in 1..N /\ starting \in BOOLEAN
  /\ device.endpoints \in Seq(Endpoint)
  /\ device.used \subseteq 0..(BmpSize - 1)
  /\ ept \in [Chans -> Endpoint \cup {NULL}]
  /\ logApi \subseteq Chans \cup {Handler}

(* mhu2_isr and what it calls dereference the endpoint of the channel, the *)
(* log of the channel and that of the event handler, and bind at run time, *)
(* which is refused while modules are initialised: whenever the interrupt  *)
(* of a channel comes all that is in place, and its parameter is the       *)
(* channel of that interrupt.  All variables have their types.             *)
IsrFindsEverything ==
  /\ TypeOK
  /\ \A c \in Chans :
       \A i \in DOMAIN running : running[i].exc = Exception(Irq[c]) =>
         /\ running[i].routine.param = c
         /\ ept[c] # NULL /\ ept[c].dest = Send[c]
         /\ {c, Handler} \subseteq logApi /\ driver
         /\ stage \in {"start", "runtime"}

(* What a handler logs enters the UART whole and in one piece, since       *)
(* handlers do not interrupt each other, and so does the banner, which     *)
(* comes first.  (The messages of mhu2_start have no such luck.)           *)
LogsWhole ==
  [][/\ last' # last /\ last = Nothing => last'.text = Banner
     /\ Follows({Banner, Received})]_vars

(* A message on any channel, even one sent before the boot began, is in    *)
(* the end served by the handler of the channel: no interrupt is lost      *)
(* while handlers are set, lines are enabled one after the other and other *)
(* modules mask interrupts and have lines of their own.                    *)
MessagesServed == \A l \in MhuLines : (l \in asserted) ~> (l \notin asserted)
=============================================================================
