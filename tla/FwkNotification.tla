--------------------------- MODULE FwkNotification ---------------------------
(***************************************************************************)
(* Notifications, framework/src/fwk_notification.c, on top of the event    *)
(* runtime.  Every source entity has one subscription list here (one       *)
(* notification identifier per module).  fwk_notification_notify puts one  *)
(* event per subscriber and is interrupted between two of them when it     *)
(* runs in the thread; in an interrupt handler nothing comes in between.   *)
(***************************************************************************)
EXTENDS FwkThread

CONSTANTS
  Notifiers,         (* the entities of modules that define a notification *)
  MaxSubscriptions   (* NOTIFICATION_COUNT                                 *)

ASSUME NotificationAssumption ==
  Notifiers \subseteq Entities /\ MaxSubscriptions \in Nat

VARIABLES
  subs,       (* subscription_dlist_table: source -> targets, in order     *)
  freeSubs,   (* the length of ctx.free_subscription_dlist                 *)
  notifying   (* the call of fwk_notification_notify per context, or None  *)

nvars == <<subs, freeSubs, notifying>>

Call ==
  [src : Notifiers, req : RequestFlags, todo : Seq(Entities), sent : Nat]

(* None also stands for no call.                                           *)
ASSUME NoCallAssumption == None \notin Call

NInit ==
  /\ ThreadInit
  /\ subs = [e \in Notifiers |-> <<>>]
  /\ freeSubs = MaxSubscriptions
  /\ notifying = [c \in Contexts |-> None]

(* An interrupt handler runs to its end before the thread goes on; the     *)
(* thread goes on with module code when its own calls have returned.       *)
IsrDone == notifying["isr"] = None
ThreadFree == IsrDone /\ notifying["thread"] = None
CanGoOn(context) == context = "thread" => IsrDone /\ moving = None
CanCall(context) ==
  /\ notifying[context] = None
  /\ MayPut(context) /\ CanGoOn(context)

Subscribed(source, target) == target \in Elems(subs[source])

(* Mutant: a second subscription of the same target is not refused.        *)
SubscribeAgain(source, target) ==
  /\ CanCall("thread")
  /\ freeSubs > 0
  /\ freeSubs' = freeSubs - 1
  /\ subs' = [subs EXCEPT ![source] = Append(@, target)]
  /\ UNCHANGED <<vars, notifying>>

(* fwk_notification_subscribe, in the thread only (FWK_E_HANDLER).         *)
Subscribe(source, target) ==
  /\ CanCall("thread")
  /\ ~Subscribed(source, target)
  /\ freeSubs > 0
  /\ freeSubs' = freeSubs - 1
  /\ subs' = [subs EXCEPT ![source] = Append(@, target)]
  /\ UNCHANGED <<vars, notifying>>

(* The list q without its i-th node (fwk_list_remove).                     *)
Without(q, i) ==
  [j \in 1..(Len(q) - 1) |-> IF j < i THEN q[j] ELSE q[j + 1]]

(* The i-th node is the one of the target that search_subscription finds.  *)
Finds(source, target, i) ==
  /\ subs[source][i] = target
  /\ \A j \in 1..(i - 1) : subs[source][j] # target

(* Mutant: the structure of a cancelled subscription is not given back.    *)
UnsubscribeLeaks(source, target) ==
  /\ CanCall("thread")
  /\ UNCHANGED freeSubs
  /\ \E i \in DOMAIN subs[source] :
       /\ Finds(source, target, i)
       /\ subs' = [subs EXCEPT ![source] = Without(@, i)]
  /\ UNCHANGED <<vars, notifying>>

(* fwk_notification_unsubscribe, in the thread only.                       *)
Unsubscribe(source, target) ==
  /\ CanCall("thread")
  /\ freeSubs' = freeSubs + 1
  /\ \E i \in DOMAIN subs[source] :
       /\ Finds(source, target, i)
       /\ subs' = [subs EXCEPT ![source] = Without(@, i)]
  /\ UNCHANGED <<vars, notifying>>

(* fwk_notification_notify: in a handler the source is the entity whose    *)
(* handler runs, elsewhere the caller names it.  The walk starts at the    *)
(* head of the subscription list of the source.                            *)
Notify(context, src, req) ==
  LET from == Source(src, context)
  IN /\ CanCall(context)
     /\ from \in Notifiers
     /\ notifying' = [notifying EXCEPT ![context] =
          [src |-> from, req |-> req, todo |-> subs[from], sent |-> 0]]
     /\ UNCHANGED <<vars, subs, freeSubs>>

(* Mutant: the count also grows when the event could not be queued.        *)
SendCountsFailures(context) ==
  /\ CanGoOn(context)
  /\ notifying[context] # None
  /\ notifying[context].todo # <<>>
  /\ LET call == notifying[context] IN
     /\ \/ PutNotificationTo(context, call.src, Head(call.todo), call.req)
        \/ free = <<>> /\ UNCHANGED vars
     /\ notifying' = [notifying EXCEPT
          ![context].todo = Tail(@), ![context].sent = @ + 1]
  /\ UNCHANGED <<subs, freeSubs>>

(* send_notifications, for one subscriber: a put that fails is skipped.    *)
SendNotification(context) ==
  /\ CanGoOn(context)
  /\ notifying[context] # None
  /\ notifying[context].todo # <<>>
  /\ LET call == notifying[context]
         next == [notifying EXCEPT ![context].todo = Tail(@)]
     IN \/ /\ PutNotificationTo(context, call.src, Head(call.todo), call.req)
           /\ notifying' = [next EXCEPT ![context].sent = @ + 1]
        \/ /\ free = <<>>
           /\ notifying' = next
           /\ UNCHANGED vars
  /\ UNCHANGED <<subs, freeSubs>>

(* fwk_notification_notify returns FWK_SUCCESS and the count.              *)
NotifyReturns(context) ==
  /\ CanGoOn(context)
  /\ notifying[context] # None
  /\ notifying[context].todo = <<>>
  /\ notifying' = [notifying EXCEPT ![context] = None]
  /\ UNCHANGED <<vars, subs, freeSubs>>

NNext ==
  \/ /\ Undisturbed /\ IsrDone /\ UNCHANGED nvars
     /\ \/ /\ ThreadFree
           /\ ThreadStep \/ PutRequest("thread") \/ PutDelayedResponse("thread")
        \/ PushEvent \/ PutRequest("isr") \/ PutDelayedResponse("isr")
  \/ /\ Undisturbed
     /\ \/ \E source \in Notifiers, target \in Entities :
             Subscribe(source, target) \/ Unsubscribe(source, target)
        \/ \E context \in Contexts :
             \/ \E src \in Notifiers, req \in RequestFlags :
                  Notify(context, src, req)
             \/ SendNotification(context)
             \/ NotifyReturns(context)
  \/ torn = FALSE /\ IsrDone /\ PopRaces /\ UNCHANGED nvars

NSpec == NInit /\ [][NNext]_<<vars, nvars>>

(***************************************************************************)
NTypeOK ==
  /\ TypeOK
  /\ subs \in [Notifiers -> Seq(Entities)]
  /\ freeSubs \in 0..MaxSubscriptions
  /\ notifying \in [Contexts -> Call \cup {None}]

(* Subscription structures are neither leaked nor invented, and no target  *)
(* is subscribed twice to a source, so none is notified twice by one call; *)
(* all variables have their types.                                         *)
Taken == UNION {{<<e, i>> : i \in DOMAIN subs[e]} : e \in Notifiers}
SubscriptionsConserved ==
  /\ NTypeOK
  /\ freeSubs + Cardinality(Taken) = MaxSubscriptions
  /\ \A e \in Notifiers : Distinct(subs[e])

(* While the thread notifies, interrupts may put events and empty the      *)
(* pool, yet what it has queued so far, at the tail of the event queue and *)
(* on its way there, is one notification per subscriber from the head of   *)
(* the list on, and sent counts exactly those.                             *)
PutByThread == queue \o (IF moving = None THEN <<>> ELSE <<moving>>)
BatchFollowsSubscriptions ==
  notifying["thread"] # None =>
    LET call == notifying["thread"]
        end == Len(PutByThread)
        batch == SubSeq(PutByThread, end - call.sent + 1, end)
    IN /\ call.sent <= end
       /\ \A i \in DOMAIN batch :
            /\ slot[batch[i]].isNotification
            /\ slot[batch[i]].src = call.src
            /\ slot[batch[i]].tgt = subs[call.src][i]
=============================================================================
