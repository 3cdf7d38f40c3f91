-------------------------- MODULE BleNotifyProofs --------------------------
(***************************************************************************)
(* Theorems about the Bluetooth output, for every number of sending tasks, *)
(* connections and buffers.                                                *)
(***************************************************************************)
EXTENDS BleNotify, FiniteSetTheorems, TLAPS

-----------------------------------------------------------------------------
(* The events as sequences. *)

(* What the host task does next, and what is left then. *)
LEMMA NextToDo ==
  /\ Visible => /\ Head(todo).type \in {"sync", "connect", "adv complete"} /\ ~Head(todo).on
                /\ Head(todo).handle = 0 /\ Tail(todo) = <<>>
  /\ Connecting => /\ Head(todo).type = "connect" /\ Head(todo).on
                   /\ links = {Head(todo).handle} /\ Head(todo).handle \in Handles
                   /\ Tail(todo) = <<>>
  /\ Subscribing => /\ Head(todo).type = "subscribe" /\ Head(todo).on \in BOOLEAN
                    /\ Head(todo).on => subscribed
                    /\ ~others => (Head(todo).on <=> subscribed)
                    /\ Tail(todo) = <<>>
  /\ Unsubscribing => /\ Head(todo).type = "subscribe" /\ Head(todo).on = FALSE
                      /\ Tail(todo) = <<Deleted(conn_handle), Callback("disconnect")>>
  /\ Deleting => /\ Head(todo).type = "delete" /\ Head(todo).handle = conn_handle
                 /\ Tail(todo) = <<Callback("disconnect")>>
  /\ Disconnecting => Head(todo).type = "disconnect" /\ Tail(todo) = <<>>
<1>1. \A a : Head(<<a>>) = a /\ Tail(<<a>>) = <<>>
  OBVIOUS
<1>2. \A a, b : Head(<<a, b>>) = a /\ Tail(<<a, b>>) = <<b>>
  OBVIOUS
<1>3. \A a, b, c : Head(<<a, b, c>>) = a /\ Tail(<<a, b, c>>) = <<b, c>>
  OBVIOUS
<1>4. Visible => /\ Head(todo).type \in {"sync", "connect", "adv complete"} /\ ~Head(todo).on
                 /\ Head(todo).handle = 0 /\ Tail(todo) = <<>>
  <2>1. ASSUME NEW type \in {"sync", "connect", "adv complete"}, todo = <<Callback(type)>>
        PROVE  /\ Head(todo).type \in {"sync", "connect", "adv complete"} /\ ~Head(todo).on
               /\ Head(todo).handle = 0 /\ Tail(todo) = <<>>
    <3>1. Head(todo) = Callback(type) /\ Tail(todo) = <<>>
      BY <1>1, <2>1
    <3>2. Callback(type).type = type /\ Callback(type).handle = 0 /\ Callback(type).on = FALSE
      BY DEF Callback
    <3>. QED
      BY <3>1, <3>2
  <2>. QED
    BY <2>1 DEF Visible
<1>5. Connecting => /\ Head(todo).type = "connect" /\ Head(todo).on
                    /\ links = {Head(todo).handle} /\ Head(todo).handle \in Handles
                    /\ Tail(todo) = <<>>
  BY <1>1 DEF Connecting, Connected
<1>6. Subscribing => /\ Head(todo).type = "subscribe" /\ Head(todo).on \in BOOLEAN
                     /\ Head(todo).on => subscribed
                     /\ ~others => (Head(todo).on <=> subscribed)
                     /\ Tail(todo) = <<>>
  BY <1>1 DEF Subscribing, Subscribed
<1>7. Unsubscribing => /\ Head(todo).type = "subscribe" /\ Head(todo).on = FALSE
                       /\ Tail(todo) = <<Deleted(conn_handle), Callback("disconnect")>>
  BY <1>3 DEF Unsubscribing, Subscribed
<1>8. Deleting => /\ Head(todo).type = "delete" /\ Head(todo).handle = conn_handle
                  /\ Tail(todo) = <<Callback("disconnect")>>
  BY <1>2 DEF Deleting, Deleted
<1>9. Disconnecting => Head(todo).type = "disconnect" /\ Tail(todo) = <<>>
  BY <1>1 DEF Disconnecting, Callback
<1>. QED
  BY <1>4, <1>5, <1>6, <1>7, <1>8, <1>9

LEMMA Busy ==
  Visible \/ Connecting \/ Subscribing \/ Unsubscribing \/ Deleting \/ Disconnecting => todo # <<>>
<1>1. \A a, b, c : <<a>> # <<>> /\ <<a, b>> # <<>> /\ <<a, b, c>> # <<>>
  OBVIOUS
<1>2. Visible \/ Connecting \/ Subscribing => todo # <<>>
  BY <1>1 DEF Visible, Connecting, Subscribing
<1>3. Unsubscribing \/ Deleting \/ Disconnecting => todo # <<>>
  BY <1>1 DEF Unsubscribing, Deleting, Disconnecting
<1>. QED
  BY <1>2, <1>3

-----------------------------------------------------------------------------
(* Links, handle and flag. *)

LEMMA LinkInit == Init => LinkInv
  BY DEF Init, LinkInv, NoLink, Unlinked

LEMMA LinkEvents ==
  ASSUME LinkInv, others \in BOOLEAN, subscribed \in BOOLEAN, notify_state \in BOOLEAN,
         Sync \/ LinkFails \/ Reset \/ ClientConfigures
         \/ (\E h \in Handles : LinkUp(h) \/ LinkDown(h))
         \/ (\E on \in BOOLEAN : ClientSubscribes(on))
  PROVE  LinkInv'
<1>. USE DEF fixed, Unlinked, Linked
<1>1. todo = <<>>
  BY DEF Sync, LinkFails, Reset, ClientConfigures, LinkUp, LinkDown, ClientSubscribes, Event
<1>2. NoLink \/ (InLink /\ ~adv)
  BY <1>1, Busy DEF LinkInv, NoLink, InLink
<1>3. ASSUME links # {}
      PROVE  InLink /\ ~adv
  BY <1>2, <1>3 DEF NoLink
<1>4. CASE Sync
  <2>1. NoLink /\ ~adv
    BY <1>2, <1>4 DEF Sync, InLink, LinkInv
  <2>2. Visible' /\ ~adv'
    BY <1>4, <2>1 DEF Sync, Event, NoLink, Visible
  <2>. QED
    BY <2>2 DEF LinkInv
<1>5. CASE LinkFails
  <2>1. NoLink /\ host = "synced"
    BY <1>5 DEF LinkFails, LinkInv
  <2>2. Visible' /\ ~adv'
    BY <1>5, <2>1 DEF LinkFails, Event, NoLink, Visible
  <2>. QED
    BY <2>2 DEF LinkInv
<1>6. CASE Reset /\ links = {}
  <2>1. NoLink' /\ ~adv'
    BY <1>2, <1>6 DEF Reset, Event, NoLink, InLink
  <2>. QED
    BY <2>1 DEF LinkInv
<1>7. ASSUME links # {}, UNCHANGED <<links, conn_handle, notify_state>>,
             todo' = Broken(conn_handle), ~subscribed', ~adv'
      PROVE  LinkInv'
  <2>1. CASE subscribed
    <3>1. Unsubscribing'
      BY <1>3, <1>7, <2>1 DEF Broken, Unsubscribing, InLink
    <3>. QED
      BY <1>7, <3>1 DEF LinkInv
  <2>2. CASE ~subscribed
    <3>1. Deleting'
      BY <1>3, <1>7, <2>2 DEF Broken, Deleting, InLink
    <3>. QED
      BY <1>7, <3>1 DEF LinkInv
  <2>. QED
    BY <2>1, <2>2
<1>8. CASE Reset /\ links # {}
  <2>1. links = {conn_handle}
    BY <1>3, <1>8 DEF InLink
  <2>2. todo' = Broken(conn_handle)
    BY <1>8, <2>1 DEF Reset, Event
  <2>. QED
    BY <1>7, <1>8, <2>2 DEF Reset
<1>9. CASE ClientConfigures
  <2>1. Subscribing' /\ ~adv'
    BY <1>3, <1>9 DEF ClientConfigures, Event, InLink, Subscribing
  <2>. QED
    BY <2>1 DEF LinkInv
<1>10. ASSUME NEW h \in Handles, LinkUp(h)
       PROVE  LinkInv'
  <2>1. NoLink /\ host = "synced"
    BY <1>10 DEF LinkUp, LinkInv
  <2>2. links' = {h}
    BY <1>10, <2>1 DEF LinkUp, NoLink
  <2>3. Connecting' /\ ~adv'
    BY <1>10, <2>1, <2>2 DEF LinkUp, Event, NoLink, Connecting
  <2>. QED
    BY <2>3 DEF LinkInv
<1>11. ASSUME NEW h \in Handles, LinkDown(h)
       PROVE  LinkInv'
  <2>1. links # {} /\ h = conn_handle
    BY <1>3, <1>11 DEF LinkDown, InLink
  <2>. QED
    BY <1>3, <1>7, <1>11, <2>1 DEF LinkDown, Event
<1>12. ASSUME NEW on \in BOOLEAN, ClientSubscribes(on)
       PROVE  LinkInv'
  <2>1. Subscribing' /\ ~adv'
    BY <1>3, <1>12 DEF ClientSubscribes, Event, InLink, Subscribing
  <2>. QED
    BY <2>1 DEF LinkInv
<1>. QED
  BY <1>4, <1>5, <1>6, <1>8, <1>9, <1>10, <1>11, <1>12

LEMMA LinkCallbacks ==
  ASSUME LinkInv, others \in BOOLEAN, subscribed \in BOOLEAN, notify_state \in BOOLEAN,
         OnConnect \/ OnDisconnect \/ OnSync \/ OnSubscribe \/ Delete
  PROVE  LinkInv'
<1>. USE DEF fixed, Unlinked, Linked
<1>0. todo # <<>> /\ ~adv /\ todo' = Tail(todo)
  BY DEF OnConnect, OnDisconnect, OnSync, OnSubscribe, Delete, Doing, LinkInv, NoLink
<1>1. \/ Visible \/ Connecting \/ Subscribing \/ Unsubscribing \/ Deleting \/ Disconnecting
  BY <1>0 DEF LinkInv, NoLink, InLink
<1>2. CASE OnConnect
  <2>1. Head(todo).type = "connect"
    BY <1>2 DEF OnConnect, Doing
  <2>2. CASE Visible
    <3>1. NoLink' /\ host' = "synced"
      BY <1>0, <1>2, <2>2, NextToDo DEF OnConnect, NoLink, Visible
    <3>. QED
      BY <3>1 DEF LinkInv
  <2>3. CASE Connecting
    <3>1. InLink' /\ ~adv'
      BY <1>0, <1>2, <2>3, NextToDo DEF OnConnect, InLink, Connecting
    <3>. QED
      BY <3>1 DEF LinkInv
  <2>. QED
    BY <1>1, <2>1, <2>2, <2>3, NextToDo
<1>3. CASE OnDisconnect \/ OnSync
  <2>1. Head(todo).type \in {"disconnect", "adv complete", "sync"}
    BY <1>3 DEF OnDisconnect, OnSync, Doing
  <2>2. Visible \/ Disconnecting
    BY <1>1, <2>1, NextToDo
  <2>3. NoLink' /\ (adv' => host' = "synced")
    <3>1. todo' = <<>>
      BY <1>0, <2>2, NextToDo
    <3>2. Unlinked
      BY <2>2 DEF Visible, Disconnecting
    <3>3. UNCHANGED <<links, notify_state, subscribed, host>>
      BY <1>3 DEF OnDisconnect, OnSync
    <3>4. adv' => host' = "synced"
      BY <1>0, <1>3 DEF OnDisconnect, OnSync, Advertise
    <3>. QED
      BY <3>1, <3>2, <3>3, <3>4 DEF NoLink
  <2>. QED
    BY <2>3 DEF LinkInv
<1>4. CASE OnSubscribe
  <2>1. Head(todo).type = "subscribe"
    BY <1>4 DEF OnSubscribe, Doing
  <2>2. CASE Subscribing
    <3>1. InLink' /\ ~adv'
      BY <1>0, <1>4, <2>2, NextToDo DEF OnSubscribe, InLink, Subscribing
    <3>. QED
      BY <3>1 DEF LinkInv
  <2>3. CASE Unsubscribing
    <3>1. Deleting' /\ ~adv'
      BY <1>0, <1>4, <2>3, NextToDo DEF OnSubscribe, Deleting, Unsubscribing
    <3>. QED
      BY <3>1 DEF LinkInv
  <2>. QED
    BY <1>1, <2>1, <2>2, <2>3, NextToDo
<1>5. CASE Delete
  <2>1. Head(todo).type = "delete"
    BY <1>5 DEF Delete, Doing
  <2>2. Deleting
    BY <1>1, <2>1, NextToDo
  <2>3. Disconnecting' /\ ~adv'
    BY <1>0, <1>5, <2>2, NextToDo DEF Delete, Deleting, Disconnecting
  <2>. QED
    BY <2>3 DEF LinkInv
<1>. QED
  BY <1>2, <1>3, <1>4, <1>5

LEMMA LinkOthers ==
  ASSUME LinkInv, (\E s \in Senders : Call(s) \/ Test(s) \/ Build(s) \/ Notify(s))
                  \/ Transmit \/ UNCHANGED vars
  PROVE  LinkInv'
<1>1. UNCHANGED <<others, host, todo, adv, links, subscribed, conn_handle, notify_state>>
  BY DEF Call, Test, Build, Notify, Notified, Transmit, vars, fixed, stack
<1>. QED
  BY <1>1 DEF LinkInv, Linked, Unlinked, NoLink, InLink, Visible, Connecting, Subscribing,
     Unsubscribing, Deleting, Disconnecting

FlagTypes == others \in BOOLEAN /\ subscribed \in BOOLEAN /\ notify_state \in BOOLEAN

LEMMA FlagStep ==
  ASSUME LinkInv, FlagTypes, [Next]_vars
  PROVE  FlagTypes'
<1>. USE DEF FlagTypes, fixed, stack
<1>1. CASE OnSubscribe
  <2>1. Head(todo).on \in BOOLEAN
    BY <1>1, NextToDo DEF OnSubscribe, Doing, LinkInv, NoLink, InLink
  <2>. QED
    BY <1>1, <2>1 DEF OnSubscribe
<1>2. CASE Sync \/ LinkFails \/ Reset \/ ClientConfigures \/ OnConnect \/ OnDisconnect \/ OnSync \/ Delete
           \/ Transmit \/ UNCHANGED vars
  BY <1>2 DEF Sync, LinkFails, Reset, ClientConfigures, OnConnect, OnDisconnect, OnSync, Delete, Transmit, vars
<1>3. CASE \E h \in Handles : LinkUp(h) \/ LinkDown(h)
  BY <1>3 DEF LinkUp, LinkDown
<1>4. CASE \E on \in BOOLEAN : ClientSubscribes(on)
  BY <1>4 DEF ClientSubscribes
<1>5. CASE \E s \in Senders : Call(s) \/ Test(s) \/ Build(s) \/ Notify(s)
  BY <1>5 DEF Call, Test, Build, Notify, Notified
<1>. QED
  BY <1>1, <1>2, <1>3, <1>4, <1>5 DEF Next

LEMMA LinkStep ==
  ASSUME LinkInv, FlagTypes, [Next]_vars
  PROVE  LinkInv'
  BY LinkEvents, LinkCallbacks, LinkOthers DEF Next, FlagTypes

LEMMA LinkInvariant == Spec => [](LinkInv /\ FlagTypes)
<1>1. Init => LinkInv /\ FlagTypes
  BY LinkInit DEF Init, FlagTypes
<1>2. LinkInv /\ FlagTypes /\ [Next]_vars => (LinkInv /\ FlagTypes)'
  BY LinkStep, FlagStep
<1>. QED
  BY <1>1, <1>2, PTL DEF Spec

(* One conn_handle is enough (Bluetooth.cpp:163): the device never         *)
(* advertises while it is connected.                                       *)
THEOREM OnlyOneLink == Spec => []OneLink
<1>1. LinkInv => OneLink
  <2> SUFFICES ASSUME LinkInv PROVE OneLink
    OBVIOUS
  <2>1. links = {} \/ \E h : links = {h}
    BY DEF LinkInv, NoLink, InLink, Visible, Connecting, Subscribing, Unsubscribing, Deleting,
       Disconnecting, Unlinked, Linked
  <2>2. adv => links = {}
    BY DEF LinkInv, NoLink, Unlinked
  <2>3. Cardinality(links) <= 1
    <3>1. CASE links = {}
      BY <3>1, FS_EmptySet
    <3>2. ASSUME NEW h, links = {h} PROVE Cardinality(links) <= 1
      <4>1. Cardinality({h}) = 1
        BY FS_Singleton
      <4>. QED
        BY <3>2, <4>1
    <3>. QED
      BY <2>1, <3>1, <3>2
  <2>. QED
    BY <2>2, <2>3 DEF OneLink
<1>. QED
  BY <1>1, LinkInvariant, PTL

(* The flag follows the client through connections, resets and broken      *)
(* links, for a client that configures nothing else (Bluetooth.cpp:193).   *)
THEOREM FlagFollowsClient == Spec => []NotifyFollowsClient
<1>1. LinkInv /\ FlagTypes => NotifyFollowsClient
  <2> SUFFICES ASSUME LinkInv, FlagTypes, todo = <<>>
               PROVE  /\ notify_state => subscribed /\ links = {conn_handle}
                      /\ ~others => notify_state = subscribed
    BY DEF NotifyFollowsClient
  <2>1. NoLink \/ InLink
    BY Busy DEF LinkInv
  <2>. QED
    BY <2>1 DEF NoLink, InLink, Unlinked, Linked, FlagTypes
<1>. QED
  BY <1>1, LinkInvariant, PTL

LEMMA SilentStep ==
  ASSUME LinkInv, LinkInv', NeverSilent, [Next]_vars
  PROVE  NeverSilent'
<1>. USE DEF fixed, stack
<1> SUFFICES ASSUME Up', todo' = <<>>, links' = {}, host' = "synced"
             PROVE  adv' \/ refused'
  BY DEF NeverSilent
<1>0. \A a, b, c : <<a>> # <<>> /\ <<a, b>> # <<>> /\ <<a, b, c>> # <<>>
  OBVIOUS
<1>1. CASE Sync \/ LinkFails \/ ClientConfigures
  BY <1>0, <1>1 DEF Sync, LinkFails, ClientConfigures, Event
<1>2. CASE \E on \in BOOLEAN : ClientSubscribes(on)
  BY <1>0, <1>2 DEF ClientSubscribes, Event
<1>3. CASE \E h \in Handles : LinkUp(h) \/ LinkDown(h)
  <2>1. PICK h \in Handles : LinkUp(h) \/ LinkDown(h)
    BY <1>3
  <2>2. Broken(h) # <<>>
    BY <1>0 DEF Broken
  <2>. QED
    BY <1>0, <2>1, <2>2 DEF LinkUp, LinkDown, Event
<1>4. CASE Reset
  BY <1>4 DEF Reset
<1>5. ASSUME Advertise, host = "synced"
      PROVE  adv' \/ refused'
  <2>1. (host = "synced") = TRUE
    BY <1>5
  <2>. QED
    BY <1>5, <2>1 DEF Advertise
<1>6. CASE OnDisconnect \/ OnSync
  <2>1. Advertise /\ host = "synced"
    BY <1>6 DEF OnDisconnect, OnSync, Up
  <2>. QED
    BY <1>5, <2>1
<1>7. CASE OnConnect
  <2>1. todo # <<>> /\ Head(todo).type = "connect"
    BY <1>7 DEF OnConnect, Doing
  <2>2. links = {} /\ host = "synced"
    BY <1>7 DEF OnConnect
  <2>3. Visible
    BY <2>1, <2>2, NextToDo DEF LinkInv, NoLink, InLink, Linked, Connecting, Subscribing,
       Unsubscribing, Deleting
  <2>4. ~Head(todo).on
    BY <2>3, NextToDo
  <2>5. Advertise
    BY <1>7, <2>4 DEF OnConnect
  <2>. QED
    BY <1>5, <2>2, <2>5
<1>8. CASE OnSubscribe
  <2>1. todo # <<>> /\ Head(todo).type = "subscribe" /\ links = {}
    BY <1>8 DEF OnSubscribe, Doing
  <2>2. ~Linked
    BY <2>1 DEF Linked
  <2>. QED
    BY <2>1, <2>2, NextToDo DEF LinkInv, NoLink, InLink, Connecting, Subscribing, Unsubscribing,
       Deleting
<1>9. CASE Delete
  <2>1. todo # <<>> /\ Head(todo).type = "delete" /\ todo' = Tail(todo)
    BY <1>9 DEF Delete, Doing
  <2>2. Deleting
    BY <2>1, NextToDo DEF LinkInv, NoLink, InLink
  <2>. QED
    BY <1>0, <2>1, <2>2, NextToDo
<1>10. CASE (\E s \in Senders : Call(s) \/ Test(s) \/ Build(s) \/ Notify(s)) \/ Transmit
            \/ UNCHANGED vars
  <2>1. UNCHANGED <<todo, links, host, adv, refused>> /\ (Up \/ UNCHANGED crashed)
    BY <1>10 DEF At, Call, Test, Build, Notify, Notified, Transmit, vars
  <2>. QED
    BY <2>1 DEF NeverSilent, Up
<1>. QED
  BY <1>1, <1>2, <1>3, <1>4, <1>6, <1>7, <1>8, <1>9, <1>10 DEF Next

(* No order of connections, failures, disconnections and resets leaves the *)
(* device in sync, without a link and not advertising, but a refused call  *)
(* to start (Bluetooth.cpp:146-226).                                       *)
THEOREM DeviceNeverSilent == Spec => []NeverSilent
<1>1. Init => NeverSilent
  BY DEF Init, NeverSilent
<1>2. LinkInv /\ LinkInv' /\ NeverSilent /\ [Next]_vars => NeverSilent'
  BY SilentStep
<1>. QED
  BY <1>1, <1>2, LinkInvariant, PTL DEF Spec

-----------------------------------------------------------------------------
(* The senders. *)

SenderTypes == senders \in [Senders -> [pc : {"idle", "test", "build", "notify"}, om : BOOLEAN]]

(* What a step of a sender leaves of the others and makes of its own. *)
LEMMA OneGoes ==
  ASSUME SenderTypes, NEW s \in Senders, NEW pc \in {"idle", "test", "build", "notify"},
         NEW om \in BOOLEAN, Goes(s, pc, om)
  PROVE  /\ SenderTypes'
         /\ senders'[s].pc = pc /\ senders'[s].om = om
         /\ \A r \in Senders \ {s} : senders'[r] = senders[r]
<1>1. DOMAIN senders = Senders
  BY DEF SenderTypes
<1>2. senders' = [senders EXCEPT ![s] = [pc |-> pc, om |-> om]]
  BY DEF Goes
<1>3. SenderTypes'
  BY <1>2 DEF SenderTypes
<1>4. senders'[s] = [pc |-> pc, om |-> om]
  BY <1>1, <1>2
<1>5. \A r \in Senders \ {s} : senders'[r] = senders[r]
  BY <1>1, <1>2
<1>. QED
  BY <1>3, <1>4, <1>5

(* The senders that hold a buffer, and how many buffers are free. *)
Holders == {s \in Senders : senders[s].om}

LEMMA HoldersCount ==
  IsFiniteSet(Holders) /\ Cardinality(Holders) \in Nat
<1>1. IsFiniteSet(Senders) /\ Holders \subseteq Senders
  BY BleAssumption DEF Holders
<1>2. IsFiniteSet(Holders)
  BY <1>1, FS_Subset
<1>. QED
  BY <1>2, FS_CardinalityType

LEMMA FreeIsInt == ASSUME inflight \in Nat PROVE FreeBlocks \in Int
<1>1. FreeBlocks = Blocks - inflight - Cardinality(Holders)
  BY DEF FreeBlocks, Holders
<1>. QED
  BY <1>1, HoldersCount, BleAssumption

LEMMA SenderTypesStep ==
  ASSUME SenderTypes, notify_state \in BOOLEAN, inflight \in Nat, [Next]_vars
  PROVE  SenderTypes'
<1>1. ASSUME NEW s \in Senders, Call(s) \/ Test(s) \/ Build(s) \/ Notify(s)
      PROVE  SenderTypes'
  <2>1. PICK pc \in {"idle", "test", "build", "notify"}, om \in BOOLEAN : Goes(s, pc, om)
    <3>1. CASE Call(s)
      BY <3>1 DEF Call
    <3>2. CASE Test(s)
      BY <3>2 DEF Test
    <3>3. CASE Build(s)
      <4>1. (FreeBlocks > 0) \in BOOLEAN
        BY FreeIsInt
      <4>. QED
        BY <3>3, <4>1 DEF Build
    <3>4. CASE Notify(s)
      BY <3>4 DEF Notify, Notified
    <3>. QED
      BY <1>1, <3>1, <3>2, <3>3, <3>4
  <2>. QED
    BY <2>1, OneGoes
<1>2. CASE UNCHANGED senders
  BY <1>2 DEF SenderTypes
<1>3. (\A s \in Senders : ~(Call(s) \/ Test(s) \/ Build(s) \/ Notify(s))) => UNCHANGED senders
  BY DEF Next, vars, Sync, LinkFails, Reset, ClientConfigures, LinkUp, LinkDown, ClientSubscribes,
     OnConnect, OnDisconnect, OnSync, OnSubscribe, Delete, Transmit
<1>. QED
  BY <1>1, <1>2, <1>3

(* A flag that is set says that there is the link conn_handle names. *)
LEMMA FlagMeansLink ==
  ASSUME LinkInv, notify_state
  PROVE  links = {conn_handle}
  BY DEF LinkInv, NoLink, InLink, Visible, Connecting, Subscribing, Unsubscribing, Deleting,
     Disconnecting, Unlinked, Linked

LEMMA SenderStep ==
  ASSUME LinkInv, SenderTypes, SenderInv, prompt' = prompt, [Next]_vars
  PROVE  SenderInv'
<1> SUFFICES ASSUME prompt
             PROVE  crashed' # "link" /\ \A s \in Senders : Between(s)' => links' = {conn_handle'}
  BY DEF SenderInv
<1>. USE DEF fixed, stack
<1>1. crashed # "link" /\ \A s \in Senders : Between(s) => links = {conn_handle}
  BY DEF SenderInv
<1>2. ASSUME UNCHANGED <<senders, links, conn_handle, crashed>>
      PROVE  crashed' # "link" /\ \A s \in Senders : Between(s)' => links' = {conn_handle'}
  BY <1>1, <1>2 DEF Between
<1>3. ASSUME UNCHANGED <<senders, crashed>>, \A s \in Senders : ~Between(s)
      PROVE  crashed' # "link" /\ \A s \in Senders : Between(s)' => links' = {conn_handle'}
  BY <1>1, <1>3 DEF Between
<1>4. links = {} => \A s \in Senders : ~Between(s)
  BY <1>1
<1>5. CASE Sync \/ LinkFails \/ Reset \/ ClientConfigures \/ OnDisconnect \/ OnSubscribe
           \/ Transmit \/ UNCHANGED vars
  BY <1>2, <1>5 DEF Sync, LinkFails, Reset, ClientConfigures, OnDisconnect, OnSubscribe, Transmit, vars
<1>a. CASE OnSync
  BY <1>1, <1>a DEF OnSync, Between
<1>6. CASE \E h \in Handles : LinkDown(h)
  BY <1>2, <1>6 DEF LinkDown
<1>7. CASE \E on \in BOOLEAN : ClientSubscribes(on)
  BY <1>2, <1>7 DEF ClientSubscribes
<1>8. CASE \E h \in Handles : LinkUp(h)
  <2>1. links = {}
    BY <1>8 DEF LinkUp, LinkInv, NoLink, Unlinked
  <2>. QED
    BY <1>3, <1>4, <1>8, <2>1 DEF LinkUp
<1>9. CASE OnConnect
  <2>1. Head(todo).type = "connect" /\ todo # <<>>
    BY <1>9 DEF OnConnect, Doing
  <2>2. Visible \/ Connecting
    BY <2>1, NextToDo DEF LinkInv, NoLink, InLink
  <2>3. CASE Visible
    BY <1>3, <1>4, <1>9, <2>3 DEF OnConnect, Visible, Unlinked
  <2>4. CASE Connecting
    <3>1. links' = {conn_handle'}
      BY <1>9, <2>4, NextToDo DEF OnConnect
    <3>. QED
      BY <1>1, <1>9, <3>1 DEF OnConnect, Between
  <2>. QED
    BY <2>2, <2>3, <2>4
<1>10. CASE Delete
  BY <1>3, <1>10 DEF Delete
<1>11. ASSUME NEW s \in Senders, Call(s)
       PROVE  crashed' # "link" /\ \A r \in Senders : Between(r)' => links' = {conn_handle'}
  <2>1. Goes(s, "test", FALSE) /\ UNCHANGED <<links, conn_handle, crashed>>
    BY <1>11 DEF Call
  <2>. QED
    BY <1>1, <2>1, OneGoes DEF Between
<1>12. ASSUME NEW s \in Senders, Test(s)
       PROVE  crashed' # "link" /\ \A r \in Senders : Between(r)' => links' = {conn_handle'}
  <2>1. Goes(s, IF notify_state THEN "build" ELSE "idle", FALSE)
        /\ UNCHANGED <<links, conn_handle, crashed>>
    BY <1>12 DEF Test
  <2>2. CASE notify_state
    BY <1>1, <2>1, <2>2, OneGoes, FlagMeansLink DEF Between
  <2>3. CASE ~notify_state
    BY <1>1, <2>1, <2>3, OneGoes DEF Between
  <2>. QED
    BY <2>2, <2>3
<1>13. ASSUME NEW s \in Senders, Build(s)
       PROVE  crashed' # "link" /\ \A r \in Senders : Between(r)' => links' = {conn_handle'}
  <2>1. Goes(s, "notify", FreeBlocks > 0) /\ UNCHANGED <<links, conn_handle, crashed>>
    BY <1>13 DEF Build
  <2>2. links = {conn_handle}
    BY <1>1, <1>13 DEF Build, At, Between
  <2>. QED
    BY <1>1, <2>1, <2>2
<1>14. ASSUME NEW s \in Senders, Notify(s)
       PROVE  crashed' # "link" /\ \A r \in Senders : Between(r)' => links' = {conn_handle'}
  <2>1. Goes(s, "idle", FALSE) /\ UNCHANGED <<links, conn_handle>>
    BY <1>14 DEF Notify, Notified
  <2>2. conn_handle \in links
    BY <1>1, <1>14 DEF Notify, Notified, At, Between
  <2>3. crashed' # "link"
    BY <1>14, <2>2 DEF Notify, Notified
  <2>. QED
    BY <1>1, <2>1, <2>3, OneGoes DEF Between
<1>. QED
  BY <1>5, <1>a, <1>6, <1>7, <1>8, <1>9, <1>10, <1>11, <1>12, <1>13, <1>14 DEF Next

LEMMA PromptIsFixed == ASSUME [Next]_vars PROVE prompt' = prompt
  BY DEF Next, vars, fixed, Sync, LinkFails, Reset, ClientConfigures, LinkUp, LinkDown,
     ClientSubscribes, OnConnect, OnDisconnect, OnSync, OnSubscribe, Delete, Call, Test, Build, Notify, Notified,
     Transmit

LEMMA InflightStep ==
  ASSUME inflight \in Nat, [Next]_vars
  PROVE  inflight' \in Nat
<1>. USE DEF fixed, stack
<1>1. CASE UNCHANGED inflight
  BY <1>1
<1>2. CASE Delete
  BY <1>2 DEF Delete
<1>3. CASE Transmit
  BY <1>3 DEF Transmit
<1>4. CASE \E s \in Senders : Notify(s)
  <2>1. PICK s \in Senders : Notify(s)
    BY <1>4
  <2>2. inflight' = inflight + 1 \/ inflight' = inflight
    BY <2>1 DEF Notify, Notified
  <2>. QED
    BY <2>2
<1>5. \/ Delete \/ Transmit \/ (\E s \in Senders : Notify(s)) \/ UNCHANGED inflight
  BY DEF Next, vars, Sync, LinkFails, Reset, ClientConfigures, LinkUp, LinkDown, ClientSubscribes,
     OnConnect, OnDisconnect, OnSync, OnSubscribe, Call, Test, Build
<1>. QED
  BY <1>1, <1>2, <1>3, <1>4, <1>5

LEMMA SenderInvariant == Spec => [](SenderTypes /\ inflight \in Nat)
<1>1. Init => SenderTypes /\ inflight \in Nat
  BY DEF Init, SenderTypes
<1>2. (SenderTypes /\ inflight \in Nat) /\ (LinkInv /\ FlagTypes) /\ [Next]_vars
      => (SenderTypes /\ inflight \in Nat)'
  BY SenderTypesStep, InflightStep DEF FlagTypes
<1>. QED
  BY <1>1, <1>2, LinkInvariant, PTL DEF Spec

(* No notification finds its link gone, whatever links, resets and         *)
(* subscriptions come and go, if no link is deleted between the test of    *)
(* notify_state and the notification (gatt_svr.c:212-221).                 *)
THEOREM NoAbortForALink == Spec => []NoAbortIfPrompt
<1>1. Init => SenderInv
  BY DEF Init, SenderInv, Between
<1>2. SenderInv /\ (SenderTypes /\ inflight \in Nat) /\ (LinkInv /\ FlagTypes) /\ [Next]_vars
      => SenderInv'
  BY SenderStep, PromptIsFixed
<1>3. SenderInv => NoAbortIfPrompt
  BY DEF SenderInv, NoAbortIfPrompt
<1>. QED
  BY <1>1, <1>2, <1>3, LinkInvariant, SenderInvariant, PTL DEF Spec

-----------------------------------------------------------------------------
(* The buffers. *)

(* Only a sender about to notify holds a buffer. *)
HoldersNotify == \A s \in Senders : senders[s].om => senders[s].pc = "notify"

MemoryTypes == SenderTypes /\ inflight \in Nat /\ HoldersNotify /\ MemoryInv

LEMMA MemoryIs == MemoryInv <=> inflight + Cardinality(Holders) <= Blocks
  BY DEF MemoryInv, Holders

LEMMA HoldersAfter ==
  ASSUME SenderTypes, HoldersNotify, NEW s \in Senders,
         NEW pc \in {"idle", "test", "build", "notify"}, NEW om \in BOOLEAN,
         Goes(s, pc, om), om => pc = "notify"
  PROVE  /\ HoldersNotify'
         /\ Holders' = IF om THEN Holders \cup {s} ELSE Holders \ {s}
<1>1. /\ senders'[s].pc = pc /\ senders'[s].om = om
      /\ \A r \in Senders \ {s} : senders'[r] = senders[r]
  BY OneGoes
<1>2. HoldersNotify'
  BY <1>1 DEF HoldersNotify
<1>3. CASE om
  BY <1>1, <1>2, <1>3 DEF Holders
<1>4. CASE ~om
  BY <1>1, <1>2, <1>4 DEF Holders
<1>. QED
  BY <1>2, <1>3, <1>4

LEMMA MemoryStep ==
  ASSUME MemoryTypes, FlagTypes, [Next]_vars
  PROVE  HoldersNotify' /\ MemoryInv'
<1>. USE DEF fixed, stack
<1>0. /\ SenderTypes /\ HoldersNotify /\ inflight \in Nat /\ Blocks \in Nat
      /\ inflight + Cardinality(Holders) <= Blocks
      /\ FreeBlocks = Blocks - inflight - Cardinality(Holders)
  BY MemoryIs, BleAssumption DEF MemoryTypes, FreeBlocks, Holders
<1>1. /\ IsFiniteSet(Holders) /\ Cardinality(Holders) \in Nat
  BY HoldersCount
<1>2. ASSUME NEW s
      PROVE  /\ Cardinality(Holders \ {s}) \in Nat /\ Cardinality(Holders \cup {s}) \in Nat
             /\ Cardinality(Holders \ {s}) <= Cardinality(Holders)
             /\ s \in Holders => Cardinality(Holders \ {s}) = Cardinality(Holders) - 1
             /\ Cardinality(Holders \cup {s}) <= Cardinality(Holders) + 1
  <2>1. /\ Cardinality(Holders \ {s})
               = IF s \in Holders THEN Cardinality(Holders) - 1 ELSE Cardinality(Holders)
        /\ IsFiniteSet(Holders \ {s})
    BY <1>1, FS_RemoveElement
  <2>2. /\ Cardinality(Holders \cup {s})
               = IF s \in Holders THEN Cardinality(Holders) ELSE Cardinality(Holders) + 1
        /\ IsFiniteSet(Holders \cup {s})
    BY <1>1, FS_AddElement
  <2>3. Cardinality(Holders \ {s}) \in Nat /\ Cardinality(Holders \cup {s}) \in Nat
    BY <2>1, <2>2, FS_CardinalityType
  <2>. QED
    BY <1>1, <2>1, <2>2, <2>3
<1>3. ASSUME UNCHANGED senders, inflight' \in Nat, inflight' <= inflight
      PROVE  HoldersNotify' /\ MemoryInv'
  <2>1. HoldersNotify' /\ Holders' = Holders
    BY <1>0, <1>3 DEF HoldersNotify, Holders
  <2>2. inflight' + Cardinality(Holders') <= Blocks
    BY <1>0, <1>1, <1>3, <2>1
  <2>. QED
    BY <2>1, <2>2 DEF MemoryInv, Holders
<1>4. CASE UNCHANGED <<senders, inflight>>
  BY <1>0, <1>3, <1>4
<1>5. CASE Delete
  BY <1>0, <1>3, <1>5 DEF Delete
<1>6. CASE Transmit
  BY <1>0, <1>3, <1>6 DEF Transmit
<1>7. ASSUME NEW s \in Senders, NEW pc \in {"idle", "test", "build"}, Goes(s, pc, FALSE),
             UNCHANGED inflight
      PROVE  HoldersNotify' /\ MemoryInv'
  <2>1. HoldersNotify' /\ Holders' = Holders \ {s}
    BY <1>0, <1>7, HoldersAfter
  <2>2. inflight' + Cardinality(Holders') <= Blocks
    <3>1. Cardinality(Holders') = Cardinality(Holders \ {s})
      BY <2>1
    <3>2. Cardinality(Holders \ {s}) \in Nat /\ Cardinality(Holders \ {s}) <= Cardinality(Holders)
      BY <1>2
    <3>. QED
      BY <1>0, <1>1, <1>7, <3>1, <3>2
  <2>. QED
    BY <2>1, <2>2 DEF MemoryInv, Holders
<1>8. ASSUME NEW s \in Senders, Call(s) \/ Test(s)
      PROVE  HoldersNotify' /\ MemoryInv'
  <2>1. PICK pc \in {"idle", "test", "build"} : Goes(s, pc, FALSE)
    BY <1>8 DEF Call, Test
  <2>2. UNCHANGED inflight
    BY <1>8 DEF Call, Test
  <2>. QED
    BY <1>7, <2>1, <2>2
<1>9. ASSUME NEW s \in Senders, Build(s)
      PROVE  HoldersNotify' /\ MemoryInv'
  <2>1. Goes(s, "notify", FreeBlocks > 0) /\ UNCHANGED inflight
    BY <1>9 DEF Build
  <2>2. (FreeBlocks > 0) \in BOOLEAN
    BY <1>0, FreeIsInt
  <2>3. HoldersNotify' /\ Holders' = IF FreeBlocks > 0 THEN Holders \cup {s} ELSE Holders \ {s}
    BY <1>0, <2>1, <2>2, HoldersAfter
  <2>4. inflight' + Cardinality(Holders') <= Blocks
    <3>1. CASE FreeBlocks > 0
      <4>1. Cardinality(Holders') = Cardinality(Holders \cup {s})
        BY <2>3, <3>1
      <4>2. /\ Cardinality(Holders \cup {s}) \in Nat
            /\ Cardinality(Holders \cup {s}) <= Cardinality(Holders) + 1
        BY <1>2
      <4>. QED
        BY <1>0, <1>1, <2>1, <3>1, <4>1, <4>2
    <3>2. CASE ~(FreeBlocks > 0)
      <4>1. Cardinality(Holders') = Cardinality(Holders \ {s})
        BY <2>3, <3>2
      <4>2. /\ Cardinality(Holders \ {s}) \in Nat
            /\ Cardinality(Holders \ {s}) <= Cardinality(Holders)
        BY <1>2
      <4>. QED
        BY <1>0, <1>1, <2>1, <4>1, <4>2
    <3>. QED
      BY <3>1, <3>2
  <2>. QED
    BY <2>3, <2>4 DEF MemoryInv, Holders
<1>10. ASSUME NEW s \in Senders, Notify(s)
       PROVE  HoldersNotify' /\ MemoryInv'
  <2>1. Goes(s, "idle", FALSE)
    BY <1>10 DEF Notify, Notified
  <2>2. HoldersNotify' /\ Holders' = Holders \ {s}
    BY <1>0, <2>1, HoldersAfter
  <2>3. inflight' = inflight \/ inflight' = inflight + 1
    BY <1>10 DEF Notify, Notified
  <2>4. inflight' # inflight => s \in Holders \/ FreeBlocks # 0
    BY <1>10 DEF Notify, Notified, Holders
  <2>5. inflight' + Cardinality(Holders') <= Blocks
    <3>1. Cardinality(Holders') = Cardinality(Holders \ {s})
      BY <2>2
    <3>2. /\ Cardinality(Holders \ {s}) \in Nat
          /\ Cardinality(Holders \ {s}) <= Cardinality(Holders)
          /\ s \in Holders => Cardinality(Holders \ {s}) = Cardinality(Holders) - 1
      BY <1>2
    <3>. QED
      BY <1>0, <1>1, <2>3, <2>4, <3>1, <3>2
  <2>. QED
    BY <2>2, <2>5 DEF MemoryInv, Holders
<1>11. \/ \E s \in Senders : Call(s) \/ Test(s) \/ Build(s) \/ Notify(s)
       \/ Delete \/ Transmit \/ UNCHANGED <<senders, inflight>>
  BY DEF Next, vars, Sync, LinkFails, Reset, ClientConfigures, LinkUp, LinkDown, ClientSubscribes,
     OnConnect, OnDisconnect, OnSync, OnSubscribe
<1>. QED
  BY <1>4, <1>5, <1>6, <1>8, <1>9, <1>10, <1>11

LEMMA MemoryInvariant == Spec => []MemoryTypes
<1>1. Init => MemoryTypes
  <2> SUFFICES ASSUME Init PROVE MemoryTypes
    OBVIOUS
  <2>1. SenderTypes /\ inflight = 0 /\ HoldersNotify /\ Holders = {}
    BY DEF Init, SenderTypes, HoldersNotify, Holders
  <2>2. MemoryInv
    BY <2>1, FS_EmptySet, BleAssumption, MemoryIs
  <2>. QED
    BY <2>1, <2>2 DEF MemoryTypes
<1>2. MemoryTypes /\ (LinkInv /\ FlagTypes) /\ [Next]_vars => MemoryTypes'
  BY MemoryStep, SenderTypesStep, InflightStep DEF MemoryTypes, FlagTypes
<1>. QED
  BY <1>1, <1>2, LinkInvariant, PTL DEF Spec

-----------------------------------------------------------------------------
(* Type correctness. *)

TodoTypes == todo \in Seq(Todo)

LinkTypes == links \subseteq Handles /\ conn_handle \in Handles \cup {0}

StateTypes ==
    /\ prompt \in BOOLEAN /\ adv \in BOOLEAN /\ refused \in BOOLEAN
    /\ host \in {"off", "synced", "reset"} /\ crashed \in {"none", "link", "memory", "identity"}

LEMMA Entries ==
  /\ \A type \in {"sync", "connect", "adv complete", "disconnect"} : Callback(type) \in Todo
  /\ \A h \in Handles : Connected(h) \in Todo /\ Deleted(h) \in Todo /\ Broken(h) \in Seq(Todo)
  /\ \A on \in BOOLEAN : Subscribed(on) \in Todo
<1>1. \A type \in {"sync", "connect", "adv complete", "disconnect"} : Callback(type) \in Todo
  BY DEF Callback, Todo
<1>2. \A h \in Handles : Connected(h) \in Todo /\ Deleted(h) \in Todo
  BY DEF Connected, Deleted, Todo
<1>3. \A on \in BOOLEAN : Subscribed(on) \in Todo
  BY DEF Subscribed, Todo
<1>4. \A h \in Handles : Broken(h) \in Seq(Todo)
  <2> SUFFICES ASSUME NEW h \in Handles PROVE Broken(h) \in Seq(Todo)
    OBVIOUS
  <2>1. \A a, b, c \in Todo : <<a, b, c>> \in Seq(Todo) /\ <<b, c>> \in Seq(Todo)
    OBVIOUS
  <2>. QED
    BY <1>1, <1>2, <1>3, <2>1 DEF Broken
<1>. QED
  BY <1>1, <1>2, <1>3, <1>4

LEMMA TodoStep ==
  ASSUME TodoTypes, LinkTypes, [Next]_vars
  PROVE  TodoTypes'
<1>. USE DEF fixed, stack
<1>0. <<>> \in Seq(Todo) /\ \A e \in Todo : <<e>> \in Seq(Todo)
  OBVIOUS
<1>1. CASE Sync
  BY <1>0, <1>1, Entries DEF Sync, Event, TodoTypes
<1>2. ASSUME NEW h \in Handles, LinkUp(h)
      PROVE  TodoTypes'
  BY <1>0, <1>2, Entries DEF LinkUp, Event, TodoTypes
<1>3. CASE LinkFails
  <2>1. PICK type \in {"connect", "adv complete"} : todo' = <<Callback(type)>>
    BY <1>3 DEF LinkFails, Event
  <2>2. Callback(type) \in Todo
    BY Entries
  <2>. QED
    BY <1>0, <2>1, <2>2 DEF TodoTypes
<1>4. ASSUME NEW h \in Handles, LinkDown(h)
      PROVE  TodoTypes'
  BY <1>4, Entries DEF LinkDown, Event, TodoTypes
<1>5. CASE Reset
  <2>1. todo' = <<>> \/ \E h \in links : todo' = Broken(h)
    BY <1>5 DEF Reset, Event
  <2>. QED
    BY <1>0, <2>1, Entries DEF TodoTypes, LinkTypes
<1>6. ASSUME NEW on \in BOOLEAN, ClientSubscribes(on)
      PROVE  TodoTypes'
  BY <1>0, <1>6, Entries DEF ClientSubscribes, Event, TodoTypes
<1>7. CASE ClientConfigures
  BY <1>0, <1>7, Entries DEF ClientConfigures, Event, TodoTypes
<1>8. CASE OnConnect \/ OnDisconnect \/ OnSync \/ OnSubscribe \/ Delete
  <2>1. todo # <<>> /\ todo' = Tail(todo)
    BY <1>8 DEF OnConnect, OnDisconnect, OnSync, OnSubscribe, Delete, Doing
  <2>. QED
    BY <2>1 DEF TodoTypes
<1>9. CASE UNCHANGED todo
  BY <1>9 DEF TodoTypes
<1>10. (\E s \in Senders : Call(s) \/ Test(s) \/ Build(s) \/ Notify(s)) \/ Transmit \/ UNCHANGED vars
       => UNCHANGED todo
  BY DEF Call, Test, Build, Notify, Notified, Transmit, vars
<1>. QED
  BY <1>1, <1>2, <1>3, <1>4, <1>5, <1>6, <1>7, <1>8, <1>9, <1>10 DEF Next

LEMMA LinkTypesStep ==
  ASSUME TodoTypes, LinkTypes, [Next]_vars
  PROVE  LinkTypes'
<1>. USE DEF fixed, stack
<1>1. CASE \E h \in Handles : LinkUp(h)
  BY <1>1 DEF LinkUp, LinkTypes
<1>2. CASE OnConnect
  <2>1. todo # <<>> /\ UNCHANGED links /\ conn_handle' = Head(todo).handle
    BY <1>2 DEF OnConnect, Doing
  <2>2. Head(todo) \in Todo
    BY <2>1 DEF TodoTypes
  <2>3. Head(todo).handle \in Handles \cup {0}
    BY <2>2 DEF Todo
  <2>. QED
    BY <2>1, <2>3 DEF LinkTypes
<1>3. CASE Delete
  BY <1>3 DEF Delete, LinkTypes
<1>4. CASE UNCHANGED <<links, conn_handle>>
  BY <1>4 DEF LinkTypes
<1>5. \/ \E h \in Handles : LinkUp(h)
      \/ OnConnect \/ Delete \/ UNCHANGED <<links, conn_handle>>
  BY DEF Next, vars, Sync, LinkFails, Reset, ClientConfigures, LinkDown, ClientSubscribes,
     OnDisconnect, OnSync, OnSubscribe, Call, Test, Build, Notify, Notified, Transmit
<1>. QED
  BY <1>1, <1>2, <1>3, <1>4, <1>5

LEMMA StateTypesStep ==
  ASSUME StateTypes, [Next]_vars
  PROVE  StateTypes'
<1>. USE DEF fixed, stack
<1>1. CASE Sync \/ LinkFails \/ Reset \/ ClientConfigures \/ OnSubscribe \/ Delete \/ Transmit
           \/ UNCHANGED vars
  BY <1>1 DEF Sync, LinkFails, Reset, ClientConfigures, OnSubscribe, Delete, Transmit, vars, StateTypes
<1>2. CASE OnConnect \/ OnDisconnect \/ OnSync
  BY <1>2 DEF OnConnect, OnDisconnect, OnSync, Advertise, StateTypes
<1>3. CASE \E h \in Handles : LinkUp(h) \/ LinkDown(h)
  BY <1>3 DEF LinkUp, LinkDown, StateTypes
<1>4. CASE \E on \in BOOLEAN : ClientSubscribes(on)
  BY <1>4 DEF ClientSubscribes, StateTypes
<1>5. ASSUME NEW s \in Senders, Call(s) \/ Test(s) \/ Build(s)
      PROVE  StateTypes'
  BY <1>5 DEF Call, Test, Build, StateTypes
<1>6. ASSUME NEW s \in Senders, Notify(s)
      PROVE  StateTypes'
  <2>1. crashed' \in {"none", "link", "memory", "identity"}
    BY <1>6 DEF Notify, Notified
  <2>. QED
    BY <1>6, <2>1 DEF Notify, Notified, StateTypes
<1>. QED
  BY <1>1, <1>2, <1>3, <1>4, <1>5, <1>6 DEF Next

(* The types, with the bound on the notifications in NimBLE's buffers.     *)
THEOREM BleTypeCorrect == Spec => []TypeOK
<1>1. Init => TodoTypes /\ LinkTypes /\ StateTypes
  <2>1. Init => TodoTypes
    BY DEF Init, TodoTypes
  <2>2. Init => LinkTypes /\ StateTypes
    BY DEF Init, LinkTypes, StateTypes
  <2>. QED
    BY <2>1, <2>2
<1>2. (TodoTypes /\ LinkTypes /\ StateTypes) /\ [Next]_vars
      => (TodoTypes /\ LinkTypes /\ StateTypes)'
  BY TodoStep, LinkTypesStep, StateTypesStep
<1>3. (TodoTypes /\ LinkTypes /\ StateTypes) /\ FlagTypes /\ MemoryTypes => TypeOK
  <2> SUFFICES ASSUME TodoTypes, LinkTypes, StateTypes, FlagTypes, MemoryTypes
               PROVE  TypeOK
    OBVIOUS
  <2>1. inflight \in 0..Blocks
    <3>1. inflight \in Nat /\ inflight + Cardinality(Holders) <= Blocks
      BY MemoryIs DEF MemoryTypes
    <3>. QED
      BY <3>1, HoldersCount, BleAssumption
  <2>. QED
    BY <2>1 DEF TypeOK, TodoTypes, LinkTypes, StateTypes, FlagTypes, MemoryTypes, SenderTypes
<1>. QED
  BY <1>1, <1>2, <1>3, LinkInvariant, MemoryInvariant, PTL DEF Spec
=============================================================================
