-------------------------------- MODULE Rpmsg --------------------------------
(***************************************************************************)
(* The endpoints of an rpmsg device, framework/src/openamp/rpmsg.c, and    *)
(* the list, bitmap and lock of libmetal they are kept with: callers       *)
(* create and destroy endpoints under the lock of the device, one of them  *)
(* at any point within its writes; handlers of interrupts look endpoints   *)
(* up without the lock, between any two of these writes.                   *)
(***************************************************************************)
EXTENDS Integers, FiniteSets

CONSTANTS
  Callers,      (* who creates and destroys endpoints                      *)
  Endpoints,    (* their memory, zeroed by fwk_mm_calloc                   *)
  BmpSize,      (* RPMSG_ADDR_BMP_SIZE                                     *)
  IntLimit,     (* the first uint32_t that is negative as an int           *)
  Sources, Dests,    (* bound: the addresses that callers ask for          *)
  ListHead,     (* rdev->endpoints, the head of the list                   *)
  ANY,          (* RPMSG_ADDR_ANY                                          *)
  Nobody

ASSUME RpmsgAssumption ==
  /\ IsFiniteSet(Endpoints)
  /\ BmpSize \in Nat /\ IntLimit \in Nat /\ BmpSize <= IntLimit
  /\ Sources \subseteq Nat \cup {ANY} /\ Dests \subseteq Nat \cup {ANY}
  /\ ANY \notin Nat
  /\ ListHead \notin Endpoints
  /\ Nobody \notin Callers \cup Endpoints \cup {ListHead} \cup Nat \cup {ANY}

VARIABLES
  next, prev,   (* struct metal_list of the head and the endpoints, Nobody *)
                (* for a null pointer                                      *)
  addr, dest,   (* ept->addr and ept->dest_addr                            *)
  bitmap,       (* the addresses marked as used                            *)
  lock,         (* who holds the mutex, or Nobody                          *)
  call,         (* what each caller is at                                  *)
  strayed,      (* history: a bit was set outside the bitmap               *)
  owners        (* history: for an endpoint that is registered, its        *)
                (* address; for the others, Nobody                         *)

listVars == <<next, prev>>
eptVars == <<addr, dest>>
rpmsgVars == <<listVars, eptVars, bitmap, lock, call, strayed, owners>>

Idle == [step |-> "idle", ept |-> Nobody, src |-> ANY, dst |-> ANY]

(* init_rpmsg *)
RpmsgInit ==
  /\ next = [n \in Endpoints \cup {ListHead} |->
               IF n = ListHead THEN ListHead ELSE Nobody]
  /\ prev = next
  /\ addr = [e \in Endpoints |-> 0]
  /\ dest = [e \in Endpoints |-> 0]
  /\ bitmap = {} /\ lock = Nobody /\ strayed = FALSE
  /\ call = [c \in Callers |-> Idle]
  /\ owners = [e \in Endpoints |-> Nobody]

At(c, step) == call[c].step = step
Goto(c, step) == call' = [call EXCEPT ![c].step = step]
Returns(c) == call' = [call EXCEPT ![c] = Idle]
Busy(e) == \E c \in Callers : call[c].ept = e

(* metal_mutex_acquire and metal_mutex_release *)
Acquire(c) == lock = Nobody /\ lock' = c
Release(c) == lock = c /\ lock' = Nobody

(* metal_bitmap_next_clear_bit from bit 0; BmpSize if all are set.         *)
NextClearBit ==
  CHOOSE a \in 0..BmpSize :
    /\ a \notin bitmap
    /\ \A b \in 0..(a - 1) : b \in bitmap

(***************************************************************************)
(* rpmsg_create_ept                                                        *)
(***************************************************************************)
BeginCreate(c, e, src, dst) ==
  /\ At(c, "idle") /\ ~Busy(e) /\ owners[e] = Nobody
  /\ Acquire(c)
  /\ call' = [call EXCEPT ![c] =
                [step |-> "address", ept |-> e, src |-> src, dst |-> dst]]
  /\ UNCHANGED <<listVars, eptVars, bitmap, owners>>

(* rpmsg_init_ept *)
InitEpt(c, a) ==
  /\ addr' = [addr EXCEPT ![call[c].ept] = a]
  /\ dest' = [dest EXCEPT ![call[c].ept] = call[c].dst]
  /\ Goto(c, "new_prev")

(* RPMSG_ADDR_ANY asks for any address: rpmsg_get_address gives the first  *)
(* that is clear, and RPMSG_ADDR_ANY itself when there is none.            *)
TakeAnyAddress(c) ==
  /\ At(c, "address") /\ call[c].src = ANY
  /\ IF NextClearBit < BmpSize
     THEN InitEpt(c, NextClearBit) /\ bitmap' = bitmap \cup {NextClearBit}
     ELSE InitEpt(c, ANY) /\ UNCHANGED bitmap
  /\ UNCHANGED <<listVars, lock, owners>>

(* Mutant: the address is not marked.                                      *)
TakeAddressUnmarked(c) ==
  /\ At(c, "address") /\ call[c].src \in (0..(BmpSize - 1)) \ bitmap
  /\ InitEpt(c, call[c].src)
  /\ UNCHANGED <<bitmap, listVars, lock, owners>>

(* rpmsg_is_address_set is 0: the address is marked.                       *)
TakeAddress(c) ==
  /\ At(c, "address") /\ call[c].src \in (0..(BmpSize - 1)) \ bitmap
  /\ InitEpt(c, call[c].src)
  /\ bitmap' = bitmap \cup {call[c].src}
  /\ UNCHANGED <<listVars, lock, owners>>

(* It is 1, and the call returns RPMSG_SUCCESS with the endpoint as it     *)
(* was; or negative, the address being out of the bitmap.  From IntLimit   *)
(* on the address is negative as an int and passes for one of the bitmap:  *)
(* this is the case that the word read outside the bitmap has the bit set. *)
AddressNotFree(c) ==
  /\ At(c, "address") /\ call[c].src # ANY
  /\ call[c].src \in bitmap \/ call[c].src >= BmpSize
  /\ Release(c) /\ Returns(c)
  /\ UNCHANGED <<listVars, eptVars, bitmap, owners>>

(* It has it clear: rpmsg_set_address sets it, in the memory of somebody   *)
(* else.  What the system does then is not modelled.                       *)
StrayAddress(c) ==
  /\ At(c, "address") /\ call[c].src # ANY /\ call[c].src >= IntLimit
  /\ strayed' = TRUE
  /\ UNCHANGED <<listVars, eptVars, bitmap, lock, call, owners>>

(* rpmsg_register_endpoint: metal_list_add_before the head, write by write *)
LinkNewPrev(c) ==
  /\ At(c, "new_prev")
  /\ prev' = [prev EXCEPT ![call[c].ept] = prev[ListHead]]
  /\ Goto(c, "new_next")
  /\ UNCHANGED <<next, eptVars, bitmap, lock, owners>>

(* Mutant: the endpoint is linked before its own next pointer is set.      *)
LinkNewNextLate(c) ==
  /\ At(c, "new_next")
  /\ next' = [next EXCEPT ![prev[call[c].ept]] = call[c].ept]
  /\ Goto(c, "next_prev")
  /\ UNCHANGED <<prev, eptVars, bitmap, lock, owners>>

LinkNewNext(c) ==
  /\ At(c, "new_next")
  /\ next' = [next EXCEPT ![call[c].ept] = ListHead]
  /\ Goto(c, "next_prev")
  /\ UNCHANGED <<prev, eptVars, bitmap, lock, owners>>

LinkNextPrev(c) ==
  /\ At(c, "next_prev")
  /\ prev' = [prev EXCEPT ![next[call[c].ept]] = call[c].ept]
  /\ Goto(c, "prev_next")
  /\ UNCHANGED <<next, eptVars, bitmap, lock, owners>>

LinkPrevNext(c) ==
  LET e == call[c].ept IN
  /\ At(c, "prev_next")
  /\ next' = [next EXCEPT ![prev[e]] = e]
  /\ owners' = [owners EXCEPT ![e] = addr[e]]
  /\ Goto(c, "registered")
  /\ UNCHANGED <<prev, eptVars, bitmap, lock>>

(* An endpoint of a known destination is ready; one of any destination is  *)
(* announced with the lock released.                                       *)
Registered(c) ==
  /\ At(c, "registered")
  /\ Release(c)
  /\ IF dest[call[c].ept] = ANY THEN Goto(c, "announce") ELSE Returns(c)
  /\ UNCHANGED <<listVars, eptVars, bitmap, owners>>

(* rpmsg_send_ns_message, whose answer is the remote processor's; when it  *)
(* fails the endpoint is taken back.                                       *)
Announced(c) ==
  /\ At(c, "announce") /\ Acquire(c)
  /\ Goto(c, "unlock") \/ Goto(c, "unregister")
  /\ UNCHANGED <<listVars, eptVars, bitmap, owners>>

Unlock(c) ==
  /\ At(c, "unlock")
  /\ Release(c) /\ Returns(c)
  /\ UNCHANGED <<listVars, eptVars, bitmap, owners>>

(***************************************************************************)
(* rpmsg_destroy_ept, of an endpoint that is registered                    *)
(***************************************************************************)
(* The name service is told, without the lock and whatever it answers.     *)
BeginDestroy(c, e) ==
  /\ At(c, "idle") /\ ~Busy(e) /\ owners[e] # Nobody
  /\ call' = [call EXCEPT ![c] = [Idle EXCEPT !.step = "farewell", !.ept = e]]
  /\ UNCHANGED <<listVars, eptVars, bitmap, lock, owners>>

DestroyLocks(c) ==
  /\ At(c, "farewell") /\ Acquire(c)
  /\ Goto(c, "unregister")
  /\ UNCHANGED <<listVars, eptVars, bitmap, owners>>

(* rpmsg_unregister_endpoint: the address is given back, ...               *)
ReleaseAddress(c) ==
  LET e == call[c].ept IN
  /\ At(c, "unregister")
  /\ bitmap' = bitmap \ {addr[e]}
  /\ owners' = [owners EXCEPT ![e] = Nobody]
  /\ Goto(c, "del_prev")
  /\ UNCHANGED <<listVars, eptVars, lock>>

(* ... and the node is taken off the list, write by write.                 *)
DelNextPrev(c) ==
  LET e == call[c].ept IN
  /\ At(c, "del_prev")
  /\ prev' = [prev EXCEPT ![next[e]] = prev[e]]
  /\ Goto(c, "del_next")
  /\ UNCHANGED <<next, eptVars, bitmap, lock, owners>>

DelPrevNext(c) ==
  LET e == call[c].ept IN
  /\ At(c, "del_next")
  /\ next' = [next EXCEPT ![prev[e]] = next[e]]
  /\ Goto(c, "del_self")
  /\ UNCHANGED <<prev, eptVars, bitmap, lock, owners>>

DelSelf(c) ==
  LET e == call[c].ept IN
  /\ At(c, "del_self")
  /\ next' = [next EXCEPT ![e] = e]
  /\ prev' = [prev EXCEPT ![e] = e]
  /\ Goto(c, "unlock")
  /\ UNCHANGED <<eptVars, bitmap, lock, owners>>

CreateSteps(c) ==
  \/ TakeAnyAddress(c) \/ TakeAddress(c) \/ AddressNotFree(c)
  \/ LinkNewPrev(c) \/ LinkNewNext(c) \/ LinkNextPrev(c) \/ LinkPrevNext(c)
  \/ Registered(c) \/ Announced(c) \/ Unlock(c)
DestroySteps(c) ==
  \/ DestroyLocks(c) \/ ReleaseAddress(c)
  \/ DelNextPrev(c) \/ DelPrevNext(c) \/ DelSelf(c)

CallersNext == \E c \in Callers :
  \/ \E e \in Endpoints, src \in Sources, dst \in Dests :
       BeginCreate(c, e, src, dst)
  \/ \E e \in Endpoints : BeginDestroy(c, e)
  \/ CreateSteps(c)
  \/ DestroySteps(c)

RpmsgNext ==
  /\ ~strayed
  /\ \/ CallersNext /\ UNCHANGED strayed
     \/ \E c \in Callers : StrayAddress(c)

RpmsgSpec == RpmsgInit /\ [][RpmsgNext]_rpmsgVars

(***************************************************************************)
(* Lookups: a handler of an interrupt walks the list from its head, while  *)
(* the callers stand still.                                                *)
(***************************************************************************)
(* The node after n steps; it stays at the head, or at a null pointer.     *)
Walked[n \in 0..(Cardinality(Endpoints) + 1)] ==
  IF n = 0 THEN next[ListHead]
  ELSE IF Walked[n - 1] \in Endpoints THEN next[Walked[n - 1]] ELSE Walked[n - 1]
Visited == {Walked[n] : n \in DOMAIN Walked}

(* rpmsg_get_endpoint stops at the first endpoint that matches.  All       *)
(* endpoints have the name of rpmsg_client.c.                              *)
Matches(e, named, a, d) ==
  \/ a # ANY /\ addr[e] = a
  \/ a = addr[e] /\ d = dest[e]
  \/ named /\ d # ANY /\ dest[e] = d
  \/ named /\ a = ANY /\ dest[e] = ANY

GetEndpoint(named, a, d) ==
  LET found == {n \in DOMAIN Walked : /\ Walked[n] \in Endpoints
                                    /\ Matches(Walked[n], named, a, d)}
  IN IF found = {} THEN Nobody
     ELSE Walked[CHOOSE n \in found : \A m \in found : n <= m]

(* rpmsg_get_ept_from_addr *)
GetEptFromAddr(a) == GetEndpoint(FALSE, a, ANY)

(***************************************************************************)
(* Properties                                                              *)
(***************************************************************************)
RpmsgTypeOK ==
  /\ {next, prev} \subseteq
       [Endpoints \cup {ListHead} -> Endpoints \cup {ListHead, Nobody}]
  /\ bitmap \subseteq 0..(BmpSize - 1)
  /\ lock \in Callers \cup {Nobody} /\ strayed \in BOOLEAN
  /\ owners \in [Endpoints -> Nat \cup {ANY, Nobody}]

Linking(c) ==
  call[c].step \in {"new_prev", "new_next", "next_prev", "prev_next"}

(* "a unique address", says rpmsg_get_address of what it gives, and the    *)
(* endpoints that are registered differ in their addresses.  They do not:  *)
(* it gives RPMSG_ADDR_ANY to all that ask when the bitmap is full.        *)
AddressesUnique ==
  \A e, f \in Endpoints :
    e # f /\ owners[e] # Nobody => owners[e] # owners[f]

(* No two endpoints share an address of the bitmap, whoever creates and    *)
(* destroys, and an address is marked exactly as long as an endpoint has   *)
(* it or a caller is about to register it: none is given twice and none is *)
(* lost to later endpoints.  RPMSG_ADDR_ANY is not of the bitmap, and      *)
(* nothing is said of what comes after StrayAddress.                       *)
AddressesOwned ==
  /\ \A e, f \in Endpoints :
       (e # f /\ owners[e] \notin {ANY, Nobody}) => owners[e] # owners[f]
  /\ bitmap = ({owners[e] : e \in Endpoints}
               \cup {addr[call[c].ept] : c \in {x \in Callers : Linking(x)}})
              \ {ANY, Nobody}

(* A handler that looks an endpoint up between any two writes of a caller  *)
(* comes to the end of the list, meets every endpoint that is registered,  *)
(* meets none that is not but for the one being taken off, and finds each  *)
(* by its address, and by its destination unless an endpoint of any        *)
(* destination is found first.                                             *)
LookupsFind ==
  /\ ListHead \in Visited
  /\ {e \in Endpoints : owners[e] # Nobody} \subseteq Visited
  /\ \A e \in Visited \cap Endpoints : owners[e] = Nobody =>
       \E c \in Callers :
         call[c].ept = e /\ call[c].step \in {"del_prev", "del_next"}
  /\ \A e \in Endpoints : owners[e] # Nobody =>
       /\ addr[e] # ANY => GetEptFromAddr(addr[e]) = e
       /\ dest[e] # ANY =>
            dest[GetEndpoint(TRUE, ANY, dest[e])] \in {dest[e], ANY}
=============================================================================
