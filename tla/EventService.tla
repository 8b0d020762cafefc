---------------------------- MODULE EventService ----------------------------
(***************************************************************************)
(* What the event runtime promises to modules, without its event           *)
(* structures: a server of bounded capacity with one inbox per calling     *)
(* context.  It serves one event at a time, in the order of the thread's   *)
(* inbox; the inbox of the interrupt handlers is read, one event at a      *)
(* time, only when the thread has nothing else to do.  An accepted event   *)
(* is served unchanged.                                                    *)
(***************************************************************************)
EXTENDS Integers, Sequences

CONSTANTS Capacity, Nothing

VARIABLES inbox, isrInbox, serving

vars == <<inbox, isrInbox, serving>>

Init == inbox = <<>> /\ isrInbox = <<>> /\ serving = Nothing

Load == Len(inbox) + Len(isrInbox) + (IF serving = Nothing THEN 0 ELSE 1)

(* r is q with one more event at its end *)
Extends(q, r) == Len(r) = Len(q) + 1 /\ SubSeq(r, 1, Len(q)) = q

Accept ==
  /\ Load < Capacity
  /\ Extends(inbox, inbox')
  /\ UNCHANGED <<isrInbox, serving>>

AcceptFromIsr ==
  /\ Load < Capacity
  /\ Extends(isrInbox, isrInbox')
  /\ UNCHANGED <<inbox, serving>>

Serve ==
  /\ serving = Nothing /\ inbox # <<>>
  /\ serving' = Head(inbox) /\ inbox' = Tail(inbox)
  /\ UNCHANGED isrInbox

Finish ==
  /\ serving # Nothing
  /\ serving' = Nothing
  /\ UNCHANGED <<inbox, isrInbox>>

HandOver ==
  /\ serving = Nothing /\ inbox = <<>> /\ isrInbox # <<>>
  /\ inbox' = <<Head(isrInbox)>> /\ isrInbox' = Tail(isrInbox)
  /\ UNCHANGED serving

Next == Accept \/ AcceptFromIsr \/ Serve \/ Finish \/ HandOver

Spec == Init /\ [][Next]_vars
=============================================================================
