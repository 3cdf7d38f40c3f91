----------------------------- MODULE BleNotify -----------------------------
(***************************************************************************)
(* The Bluetooth output: the callbacks of components/protocol/Bluetooth.cpp*)
(* in the host task of NimBLE, and gatt_report_notify (gatt_svr.c), which  *)
(* the sending tasks call on the other core and which asserts that the     *)
(* notification could be queued.                                           *)
(*                                                                         *)
(* NimBLE is external.  Its host task handles one event of the controller  *)
(* after the other; of a broken link it reports the end of subscriptions,  *)
(* deletes the connection and then reports the disconnection; after a      *)
(* reset it refuses to advertise until it is in sync again.                *)
(***************************************************************************)
EXTENDS Naturals, Sequences, FiniteSets

CONSTANTS
    Senders,    \* common_send_task and the simulation's task
    Handles,    \* connection handles; NimBLE keeps several links
    Blocks      \* buffers of NimBLE, one for a notification

ASSUME BleAssumption ==
    /\ IsFiniteSet(Senders) /\ IsFiniteSet(Handles) /\ 0 \notin Handles
    /\ Blocks \in Nat

VARIABLES
    prompt,         \* timing, fixed per behaviour: no link is deleted between a
                    \* sender's test of notify_state and its notification
    others,         \* fixed per behaviour: the client configures Service Changed too
    host,           \* the host task: "off", "synced" or "reset"
    todo,           \* what it has yet to do for the event it handles
    adv,            \* advertising
    links,          \* the connections
    subscribed,     \* what the client asked for: notifications of the messages
    conn_handle,    \* 0: not set yet
    notify_state,
    senders,        \* per sender: the next step, and if it holds a buffer
    inflight,       \* notifications not yet sent, each in a buffer
    refused,        \* history: advertising could not be started
    crashed         \* an assertion failed: on a notification, for want of a "link"
                    \* or "memory", or on the "identity" to advertise with

fixed == <<prompt, others>>
stack == <<host, todo, adv, links, subscribed>>
vars  == <<prompt, others, host, todo, adv, links, subscribed, conn_handle, notify_state,
           senders, inflight, refused, crashed>>

Init ==
    /\ prompt \in BOOLEAN /\ others \in BOOLEAN
    /\ host = "off" /\ todo = <<>> /\ adv = FALSE /\ links = {} /\ subscribed = FALSE
    /\ conn_handle = 0 /\ notify_state = FALSE
    /\ senders = [s \in Senders |-> [pc |-> "idle", om |-> FALSE]]
    /\ inflight = 0 /\ refused = FALSE /\ crashed = "none"

Up == crashed = "none"

Between(s) == senders[s].pc \in {"build", "notify"}

-----------------------------------------------------------------------------
(* Events of the controller.  An entry of todo is a callback or "delete".  *)

Event(entries) == Up /\ todo = <<>> /\ todo' = entries

Callback(type) == [type |-> type, handle |-> 0, on |-> FALSE]
Connected(h)   == [type |-> "connect", handle |-> h, on |-> TRUE]
Subscribed(on) == [type |-> "subscribe", handle |-> 0, on |-> on]
Deleted(h)     == [type |-> "delete", handle |-> h, on |-> FALSE]

Sync ==
    /\ host # "synced" /\ Event(<<Callback("sync")>>) /\ host' = "synced"
    /\ UNCHANGED <<fixed, adv, links, subscribed, conn_handle, notify_state, senders, inflight,
                   refused, crashed>>

(* Advertising ends with a connection, or with an attempt that failed. *)
LinkUp(h) ==
    /\ adv /\ h \notin links
    /\ Event(<<Connected(h)>>)
    /\ adv' = FALSE /\ links' = links \cup {h}
    /\ UNCHANGED <<fixed, host, subscribed, conn_handle, notify_state, senders, inflight, refused,
                   crashed>>

LinkFails ==
    /\ adv /\ \E type \in {"connect", "adv complete"} : Event(<<Callback(type)>>)
    /\ adv' = FALSE
    /\ UNCHANGED <<fixed, host, links, subscribed, conn_handle, notify_state, senders, inflight,
                   refused, crashed>>

Broken(h) ==
    IF subscribed THEN <<Subscribed(FALSE), Deleted(h), Callback("disconnect")>>
                  ELSE <<Deleted(h), Callback("disconnect")>>

LinkDown(h) ==
    /\ h \in links /\ Event(Broken(h))
    /\ subscribed' = FALSE
    /\ UNCHANGED <<fixed, host, adv, links, conn_handle, notify_state, senders, inflight, refused,
                   crashed>>

(* The controller is reset and the link breaks; blehr_on_reset only logs. *)
Reset ==
    /\ host = "synced" /\ host' = "reset" /\ adv' = FALSE
    /\ IF links = {} THEN Event(<<>>) ELSE \E h \in links : Event(Broken(h))
    /\ subscribed' = FALSE
    /\ UNCHANGED <<fixed, links, conn_handle, notify_state, senders, inflight, refused, crashed>>

(* The client writes the descriptor of the messages, or of Service Changed, *)
(* which only indicates: cur_notify is 0.                                   *)
ClientSubscribes(on) ==
    /\ links # {} /\ Event(<<Subscribed(on)>>)
    /\ subscribed' = on
    /\ UNCHANGED <<fixed, host, adv, links, conn_handle, notify_state, senders, inflight, refused,
                   crashed>>

ClientConfigures ==
    /\ others /\ links # {} /\ Event(<<Subscribed(FALSE)>>)
    /\ UNCHANGED <<fixed, host, adv, links, subscribed, conn_handle, notify_state, senders,
                   inflight, refused, crashed>>

-----------------------------------------------------------------------------
(* The callbacks, one after the other in the host task. *)

Doing(type) == Up /\ todo # <<>> /\ Head(todo).type = type /\ todo' = Tail(todo)

(* blehr_advertise: an error is logged, and nothing tries again. *)
Advertise ==
    \/ adv' = (host = "synced") /\ UNCHANGED refused
    \/ refused' = TRUE /\ UNCHANGED adv

(* Fault: advertising goes on while there is a connection. *)
OnConnectAlways ==
    /\ Doing("connect")
    /\ Advertise
    /\ conn_handle' = Head(todo).handle
    /\ UNCHANGED <<fixed, host, links, subscribed, notify_state, senders, inflight, crashed>>

OnConnect ==
    /\ Doing("connect")
    /\ IF Head(todo).on THEN UNCHANGED <<adv, refused>> ELSE Advertise
    /\ conn_handle' = Head(todo).handle
    /\ UNCHANGED <<fixed, host, links, subscribed, notify_state, senders, inflight, crashed>>

(* Fault: a disconnection is only logged. *)
OnDisconnectLogs ==
    /\ \E type \in {"disconnect", "adv complete"} : Doing(type)
    /\ IF Head(todo).type = "disconnect" THEN UNCHANGED <<adv, refused>> ELSE Advertise
    /\ UNCHANGED <<fixed, host, links, subscribed, conn_handle, notify_state, senders, inflight,
                   crashed>>

(* DISCONNECT and ADV_COMPLETE advertise. *)
OnDisconnect ==
    /\ \E type \in {"disconnect", "adv complete"} : Doing(type)
    /\ Advertise
    /\ UNCHANGED <<fixed, host, links, subscribed, conn_handle, notify_state, senders, inflight,
                   crashed>>

(* blehr_on_sync asserts that there is an address to use, and advertises.  *)
OnSync ==
    /\ Doing("sync")
    /\ \/ Advertise /\ UNCHANGED crashed
       \/ crashed' = "identity" /\ UNCHANGED <<adv, refused>>
    /\ UNCHANGED <<fixed, host, links, subscribed, conn_handle, notify_state, senders, inflight>>

(* Fault: only a new subscription is heeded. *)
OnSubscribeSticky ==
    /\ Doing("subscribe")
    /\ notify_state' = (notify_state \/ Head(todo).on)
    /\ UNCHANGED <<fixed, host, adv, links, subscribed, conn_handle, senders, inflight, refused,
                   crashed>>

(* SUBSCRIBE: both branches store cur_notify, whatever the attribute is. *)
OnSubscribe ==
    /\ Doing("subscribe")
    /\ notify_state' = Head(todo).on
    /\ UNCHANGED <<fixed, host, adv, links, subscribed, conn_handle, senders, inflight, refused,
                   crashed>>

(* NimBLE deletes the connection with what was queued for it. *)
Delete ==
    /\ Doing("delete")
    /\ prompt => \A s \in Senders : ~Between(s)
    /\ links' = links \ {Head(todo).handle}
    /\ inflight' = 0
    /\ UNCHANGED <<fixed, host, adv, subscribed, conn_handle, notify_state, senders, refused, crashed>>

-----------------------------------------------------------------------------
(* gatt_report_notify, step by step, in a sending task. *)

At(s, pc) == Up /\ senders[s].pc = pc

Goes(s, pc, om) == senders' = [senders EXCEPT ![s] = [pc |-> pc, om |-> om]]

Call(s) ==
    /\ At(s, "idle") /\ Goes(s, "test", FALSE)
    /\ UNCHANGED <<fixed, stack, conn_handle, notify_state, inflight, refused, crashed>>

(* Fault: notify_state is not tested. *)
TestNothing(s) ==
    /\ At(s, "test") /\ Goes(s, "build", FALSE)
    /\ UNCHANGED <<fixed, stack, conn_handle, notify_state, inflight, refused, crashed>>

Test(s) ==
    /\ At(s, "test") /\ Goes(s, IF notify_state THEN "build" ELSE "idle", FALSE)
    /\ UNCHANGED <<fixed, stack, conn_handle, notify_state, inflight, refused, crashed>>

FreeBlocks == Blocks - inflight - Cardinality({s \in Senders : senders[s].om})

(* ble_hs_mbuf_from_flat may return NULL. *)
Build(s) ==
    /\ At(s, "build") /\ Goes(s, "notify", FreeBlocks > 0)
    /\ UNCHANGED <<fixed, stack, conn_handle, notify_state, inflight, refused, crashed>>

(* ble_gattc_notify_custom consumes the buffer, or looks for one if it is  *)
(* given none; assert(rc == 0).                                            *)
Notified(s) ==
    /\ LET rc == CASE conn_handle \notin links -> "link"
                   [] conn_handle \in links /\ ~senders[s].om /\ FreeBlocks = 0 -> "memory"
                   [] OTHER -> "none"
       IN crashed' = rc /\ inflight' = IF rc = "none" THEN inflight + 1 ELSE inflight
    /\ UNCHANGED <<fixed, stack, conn_handle, notify_state, refused>>

(* Fault: the buffer is notified again although it has been consumed. *)
NotifyAgain(s) == At(s, "notify") /\ UNCHANGED senders /\ Notified(s)

Notify(s) == At(s, "notify") /\ Goes(s, "idle", FALSE) /\ Notified(s)

(* The controller sends. *)
Transmit ==
    /\ Up /\ inflight > 0 /\ inflight' = inflight - 1
    /\ UNCHANGED <<fixed, stack, conn_handle, notify_state, senders, refused, crashed>>

Next ==
    \/ Sync \/ LinkFails \/ Reset \/ ClientConfigures
    \/ \E h \in Handles : LinkUp(h) \/ LinkDown(h)
    \/ \E on \in BOOLEAN : ClientSubscribes(on)
    \/ OnSync \/ OnConnect \/ OnDisconnect \/ OnSubscribe \/ Delete
    \/ \E s \in Senders : Call(s) \/ Test(s) \/ Build(s) \/ Notify(s)
    \/ Transmit

(* The host task runs, gets in sync after a reset, and the senders run.    *)
Fairness ==
    /\ WF_vars(Sync) /\ WF_vars(OnSync)
    /\ WF_vars(OnConnect) /\ WF_vars(OnDisconnect) /\ WF_vars(OnSubscribe)
    /\ WF_vars(Delete)
    /\ \A s \in Senders : WF_vars(Test(s)) /\ WF_vars(Build(s)) /\ WF_vars(Notify(s))

Spec     == Init /\ [][Next]_vars
FairSpec == Spec /\ Fairness

-----------------------------------------------------------------------------
(* Properties. *)

Todo == [type : {"sync", "connect", "adv complete", "subscribe", "delete", "disconnect"},
         handle : Handles \cup {0}, on : BOOLEAN]

TypeOK ==
    /\ prompt \in BOOLEAN /\ others \in BOOLEAN
    /\ host \in {"off", "synced", "reset"} /\ todo \in Seq(Todo)
    /\ adv \in BOOLEAN /\ links \subseteq Handles /\ subscribed \in BOOLEAN
    /\ conn_handle \in Handles \cup {0} /\ notify_state \in BOOLEAN
    /\ senders \in [Senders -> [pc : {"idle", "test", "build", "notify"}, om : BOOLEAN]]
    /\ inflight \in 0..Blocks /\ refused \in BOOLEAN /\ crashed \in {"none", "link", "memory", "identity"}

(* There is one link at a time, and none while the device advertises: the  *)
(* one conn_handle there is can name it (Bluetooth.cpp:163).               *)
OneLink == Cardinality(links) <= 1 /\ (adv => links = {})

(* Between two events notify_state is what the client asked for, and then  *)
(* conn_handle is its connection; a client that configures Service Changed *)
(* as well loses its notifications (Bluetooth.cpp:193).                    *)
NotifyFollowsClient ==
    todo = <<>> => /\ notify_state => subscribed /\ links = {conn_handle}
                   /\ ~others => notify_state = subscribed

(* The assertion on a notification never restarts the device for want of a *)
(* link, whatever links, resets and subscriptions come and go, if no link  *)
(* is deleted between the test and the notification (gatt_svr.c:212-221).  *)
NoAbortIfPrompt == prompt => crashed # "link"

(* The steps of an event, and how links, handle and flag go with them:     *)
(* between two events, and what is yet to be done for one.                 *)
Unlinked == links = {} /\ ~notify_state /\ ~subscribed
Linked   == links = {conn_handle} /\ conn_handle \in Handles

NoLink == todo = <<>> /\ Unlinked
InLink == /\ todo = <<>> /\ Linked /\ host = "synced"
          /\ notify_state => subscribed
          /\ ~others => (notify_state <=> subscribed)

Visible       == \E type \in {"sync", "connect", "adv complete"} :
                    todo = <<Callback(type)>> /\ Unlinked /\ host = "synced"
Connecting    == \E h \in Handles : /\ todo = <<Connected(h)>> /\ links = {h}
                                    /\ host = "synced" /\ ~notify_state /\ ~subscribed
Subscribing   == \E on \in BOOLEAN : /\ todo = <<Subscribed(on)>> /\ Linked /\ host = "synced"
                                     /\ on => subscribed
                                     /\ ~others => (on <=> subscribed)
Unsubscribing == /\ todo = <<Subscribed(FALSE), Deleted(conn_handle), Callback("disconnect")>>
                 /\ Linked /\ ~subscribed
Deleting      == /\ todo = <<Deleted(conn_handle), Callback("disconnect")>>
                 /\ Linked /\ ~subscribed /\ ~notify_state
Disconnecting == todo = <<Callback("disconnect")>> /\ Unlinked

LinkInv ==
    /\ adv => NoLink /\ host = "synced"
    /\ \/ NoLink \/ InLink \/ Visible \/ Connecting \/ Subscribing
       \/ Unsubscribing \/ Deleting \/ Disconnecting

SenderInv == prompt => crashed # "link" /\ \A s \in Senders : Between(s) => links = {conn_handle}

MemoryInv == inflight + Cardinality({s \in Senders : senders[s].om}) <= Blocks

(* The safety half of the next property: between two events, without a     *)
(* link and in sync, the device advertises, unless a call to start it      *)
(* failed: no sequence of events leaves it silent (Bluetooth.cpp:146-226). *)
NeverSilent == Up /\ todo = <<>> /\ links = {} /\ host = "synced" => adv \/ refused

(* Without a link the device becomes visible again, unless a call to start *)
(* advertising failed: nothing repeats it (Bluetooth.cpp:146).             *)
VisibleAgain == links = {} ~> adv \/ links # {} \/ refused \/ ~Up
=============================================================================
