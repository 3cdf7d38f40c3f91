------------------------- MODULE WifiStationProofs -------------------------
(***************************************************************************)
(* Theorems about the Wi-Fi station, for every length of the event loop's  *)
(* queue, every width of the retry counter, and with or without memory.    *)
(***************************************************************************)
EXTENDS WifiStation, TLAPS

USE DEF Events, TaskPcs

-----------------------------------------------------------------------------
(* The event queue. *)

LEMMA QueueAppend ==
  ASSUME NEW q \in Seq(Events), NEW e \in Events
  PROVE  /\ Append(q, e) \in Seq(Events)
         /\ Len(Append(q, e)) = Len(q) + 1
         /\ \A i \in 1..Len(q) : Append(q, e)[i] = q[i]
         /\ Append(q, e)[Len(q) + 1] = e
  OBVIOUS

LEMMA QueueTail ==
  ASSUME NEW q \in Seq(Events), q # <<>>
  PROVE  /\ Head(q) \in Events /\ Tail(q) \in Seq(Events)
         /\ Head(q) = q[1]
         /\ Len(q) \in Nat \ {0} /\ Len(Tail(q)) = Len(q) - 1
         /\ \A i \in 1..Len(Tail(q)) : Tail(q)[i] = q[i + 1]
  OBVIOUS

LEMMA CounterFits ==
  ASSUME NEW a \in 0..AttemptMod - 1
  PROVE  /\ (a + 1) % AttemptMod \in 0..AttemptMod - 1
         /\ (a + 1) % AttemptMod <= a + 1
<1>1. AttemptMod \in Nat \ {0, 1}
  BY StationAssumption
<1>2. CASE a + 1 = AttemptMod
  <2>1. (a + 1) % AttemptMod = 0
    BY <1>1, <1>2
  <2>. QED
    BY <1>1, <2>1
<1>3. CASE a + 1 # AttemptMod
  <2>1. a + 1 \in 0..AttemptMod - 1
    BY <1>1, <1>3
  <2>2. (a + 1) % AttemptMod = a + 1
    BY <1>1, <2>1
  <2>. QED
    BY <1>1, <2>1, <2>2
<1>. QED
  BY <1>2, <1>3

-----------------------------------------------------------------------------
(* Types.  The state, the flags and the tasks are three goals: the        *)
(* provers take them one by one.                                           *)

LEMMA StateStep ==
  ASSUME TypeOK, [Next]_vars
  PROVE  StateTypes'
<1>. USE DEF TypeOK, StateTypes, fixed, external, flags
<1>1. CASE Main
  BY <1>1 DEF Main, CreateStatus, SuspendStatus, CreateReconnect, SuspendReconnect,
     CreationFails, WaitForIp, StartWifi
<1>2. CASE ScanStartsStation
  BY <1>2 DEF ScanStartsStation
<1>3. CASE Driver
  BY <1>3 DEF Driver, Associates, FailsToAssociate, LinkBreaks, GetsLease, LosesLease
<1>4. CASE Dispatch
  BY <1>4, QueueTail DEF Dispatch, QueueTypes
<1>5. CASE EventLoop /\ ~Dispatch
  BY <1>5 DEF EventLoop, HandleStart, Connect, HandleConnected, ConnectedResets, ConnectedTracks,
     ConnectedStopsReconnecting, HandleDisconnected, DisconnectedUntracks,
     DisconnectedReconnects, DisconnectedClears, HandleGotIp, HandleLostIp
<1>6. CASE ReconnectTask
  BY <1>6 DEF ReconnectTask, RetryLoad, RetryStore, RetryDelayOver, Reconnect, SuspendSelf, Connect
<1>7. CASE StatusTask
  BY <1>7 DEF StatusTask, StatusRead, StatusWrite
<1>8. CASE UNCHANGED vars
  BY <1>8 DEF vars
<1>. QED
  BY <1>1, <1>2, <1>3, <1>4, <1>5, <1>6, <1>7, <1>8 DEF Next

(* What a step does to the queue: nothing, an event at its end, or the     *)
(* first one taken.                                                        *)
LEMMA QueueStep ==
  ASSUME TypeOK, [Next]_vars
  PROVE  \/ events' = events
         \/ Room /\ \E e \in Events : events' = Append(events, e)
         \/ events # <<>> /\ events' = Tail(events)
<1>. USE DEF fixed, external, flags
<1>1. CASE Main
  BY <1>1 DEF Main, CreateStatus, SuspendStatus, CreateReconnect, SuspendReconnect,
     CreationFails, WaitForIp, StartWifi
<1>2. CASE ScanStartsStation
  BY <1>2 DEF ScanStartsStation
<1>3. CASE Driver
  BY <1>3 DEF Driver, Associates, FailsToAssociate, LinkBreaks, GetsLease, LosesLease, Post
<1>4. CASE EventLoop
  BY <1>4 DEF EventLoop, Dispatch, HandleStart, HandleConnected, ConnectedResets, ConnectedTracks,
     ConnectedStopsReconnecting, HandleDisconnected, DisconnectedUntracks,
     DisconnectedReconnects, DisconnectedClears, HandleGotIp, HandleLostIp
<1>5. CASE ReconnectTask \/ StatusTask
  BY <1>5 DEF ReconnectTask, RetryLoad, RetryStore, RetryDelayOver, Reconnect, SuspendSelf,
     StatusTask, StatusRead, StatusWrite
<1>6. CASE UNCHANGED vars
  BY <1>6 DEF vars
<1>. QED
  BY <1>1, <1>2, <1>3, <1>4, <1>5, <1>6 DEF Next

LEMMA QueueTypeStep ==
  ASSUME TypeOK, [Next]_vars
  PROVE  QueueTypes'
<1>1. LoopSize \in Nat /\ events \in Seq(Events) /\ Len(events) <= LoopSize
  BY StationAssumption DEF TypeOK, QueueTypes
<1>. QED
  BY <1>1, QueueStep, QueueAppend, QueueTail DEF QueueTypes, Room

LEMMA FlagStep ==
  ASSUME TypeOK, [Next]_vars
  PROVE  FlagTypes'
<1>. USE DEF TypeOK, FlagTypes, TaskTypes, fixed, external, flags
<1>1. CASE Main
  BY <1>1 DEF Main, CreateStatus, SuspendStatus, CreateReconnect, SuspendReconnect,
     CreationFails, WaitForIp, StartWifi
<1>2. CASE ScanStartsStation \/ Driver
  BY <1>2 DEF ScanStartsStation, Driver, Associates, FailsToAssociate, LinkBreaks, GetsLease,
     LosesLease
<1>3. CASE EventLoop
  BY <1>3 DEF EventLoop, Dispatch, HandleStart, HandleConnected, ConnectedResets, ConnectedTracks,
     ConnectedStopsReconnecting, HandleDisconnected, DisconnectedUntracks,
     DisconnectedReconnects, DisconnectedClears, HandleGotIp, HandleLostIp
<1>4. CASE ReconnectTask
  BY <1>4 DEF ReconnectTask, RetryLoad, RetryStore, RetryDelayOver, Reconnect, SuspendSelf
<1>5. CASE StatusTask
  BY <1>5 DEF StatusTask, StatusRead, StatusWrite
<1>6. CASE UNCHANGED vars
  BY <1>6 DEF vars
<1>. QED
  BY <1>1, <1>2, <1>3, <1>4, <1>5, <1>6 DEF Next

LEMMA TaskStep ==
  ASSUME TypeOK, [Next]_vars
  PROVE  TaskTypes'
<1>. USE DEF TypeOK, FlagTypes, TaskTypes, fixed, external, flags
<1>1. AttemptMod \in Nat \ {0, 1}
  BY StationAssumption
<1>2. CASE Main
  BY <1>2 DEF Main, CreateStatus, SuspendStatus, CreateReconnect, SuspendReconnect, Suspended,
     CreationFails, WaitForIp, StartWifi
<1>3. CASE ScanStartsStation \/ Driver
  BY <1>3 DEF ScanStartsStation, Driver, Associates, FailsToAssociate, LinkBreaks, GetsLease,
     LosesLease
<1>4. CASE EventLoop
  <2>1. CASE HandleDisconnected
    BY <1>1, <2>1 DEF HandleDisconnected
  <2>2. CASE ConnectedResets
    BY <1>1, <2>2 DEF ConnectedResets
  <2>3. CASE \/ ConnectedTracks \/ ConnectedStopsReconnecting
             \/ DisconnectedUntracks \/ DisconnectedReconnects
    BY <2>3 DEF ConnectedTracks, ConnectedStopsReconnecting, DisconnectedUntracks,
       DisconnectedReconnects, Suspended, Resumed
  <2>4. CASE \/ Dispatch \/ HandleStart \/ HandleConnected \/ DisconnectedClears
             \/ HandleGotIp \/ HandleLostIp
    BY <2>4 DEF Dispatch, HandleStart, HandleConnected, DisconnectedClears, HandleGotIp,
       HandleLostIp
  <2>. QED
    BY <1>4, <2>1, <2>2, <2>3, <2>4 DEF EventLoop
<1>5. CASE RetryStore
  BY <1>1, <1>5, CounterFits DEF RetryStore
<1>6. CASE ReconnectTask /\ ~RetryStore
  BY <1>6 DEF ReconnectTask, RetryLoad, RetryDelayOver, Reconnect, SuspendSelf
<1>7. CASE StatusTask
  BY <1>7 DEF StatusTask, StatusRead, StatusWrite
<1>8. CASE UNCHANGED vars
  BY <1>8 DEF vars
<1>. QED
  BY <1>2, <1>3, <1>4, <1>5, <1>6, <1>7, <1>8 DEF Next

LEMMA TypeInit == Init => TypeOK
<1> SUFFICES ASSUME Init PROVE TypeOK
  OBVIOUS
<1>1. LoopSize \in Nat /\ AttemptMod \in Nat \ {0, 1}
  BY StationAssumption
<1>2. StateTypes
  BY DEF Init, StateTypes
<1>3. QueueTypes
  <2>1. events = <<>>
    BY DEF Init
  <2>. QED
    BY <1>1, <2>1 DEF QueueTypes
<1>4. FlagTypes
  BY DEF Init, FlagTypes
<1>5. TaskTypes
  <2>1. /\ rtask = [pc |-> "absent", suspended |-> FALSE, read |-> 0]
        /\ stask = [pc |-> "absent", suspended |-> FALSE, read |-> FALSE]
        /\ attempts = 0 /\ failures = 0
    BY DEF Init
  <2>. QED
    BY <1>1, <2>1 DEF TaskTypes
<1>. QED
  BY <1>2, <1>3, <1>4, <1>5 DEF TypeOK

LEMMA TypeStep ==
  ASSUME TypeOK, [Next]_vars
  PROVE  TypeOK'
  BY StateStep, QueueTypeStep, FlagStep, TaskStep DEF TypeOK

(* The types of the station, among them the width of the retry counter and *)
(* the length of the event loop's queue.                                   *)
THEOREM StationTypeCorrect == Spec => []TypeOK
  BY TypeInit, TypeStep, PTL DEF Spec

-----------------------------------------------------------------------------
(* The start.                                                              *)

LEMMA StartInit == Init => StartInv
<1> SUFFICES ASSUME Init PROVE StartInv
  OBVIOUS
<1>1. /\ driver = "stopped" /\ events = <<>> /\ step = "none" /\ lease = "none" /\ failures = 0
      /\ rtask.pc = "absent" /\ main = IF sta_enable THEN "create status" ELSE "start"
  BY DEF Init
<1>2. ~Starting
  <2>1. Len(events) = 0 /\ step # "STA_START"
    BY <1>1
  <2>. QED
    BY <2>1 DEF Starting
<1>3. ~Started /\ ~Runs(rtask)
  BY <1>1 DEF Started, Runs
<1>. QED
  BY <1>1, <1>2, <1>3 DEF StartInv

LEMMA StartStep ==
  ASSUME TypeOK, StartInv, [Next]_vars
  PROVE  StartInv'
<1>. USE DEF StartInv, Started, Starting, Runs, fixed, external, flags
<1>0. /\ events \in Seq(Events) /\ sta_enable \in BOOLEAN
      /\ rtask \in [pc : TaskPcs, suspended : BOOLEAN, read : 0..AttemptMod - 1]
  BY DEF TypeOK, QueueTypes, FlagTypes, TaskTypes
<1>1. CASE Main
  <2>1. CASE CreateStatus \/ SuspendStatus \/ CreationFails
    BY <1>0, <2>1 DEF CreateStatus, SuspendStatus, CreationFails
  <2>2. CASE CreateReconnect
    <3>1. /\ main = "create reconnect" /\ main' = "suspend reconnect" /\ driver = "stopped"
          /\ UNCHANGED <<driver, lease, events, step, sta_enable, failures>>
          /\ events = <<>> /\ step = "none" /\ sta_enable
      BY <2>2 DEF CreateReconnect
    <3>. QED
      BY <1>0, <3>1
  <2>5. CASE SuspendReconnect
    BY <1>0, <2>5 DEF SuspendReconnect, Suspended
  <2>3. CASE StartWifi
    BY <1>0, <2>3 DEF StartWifi
  <2>4. CASE WaitForIp
    BY <1>0, <2>4 DEF WaitForIp
  <2>. QED
    BY <1>1, <2>1, <2>2, <2>3, <2>4, <2>5 DEF Main
<1>2. CASE ScanStartsStation
  BY <1>0, <1>2 DEF ScanStartsStation
<1>3. CASE Driver
  <2>1. driver # "stopped" /\ ~Starting
    BY <1>3 DEF Driver, Associates, FailsToAssociate, LinkBreaks, GetsLease, LosesLease
  <2>2. /\ driver' # "stopped"
        /\ \E e \in Events \ {"STA_START"} : events' = Append(events, e)
        /\ UNCHANGED <<main, sta_enable, step, rtask>>
    BY <1>3, <2>1 DEF Driver, Associates, FailsToAssociate, LinkBreaks, GetsLease, LosesLease, Post
  <2>3. ~Starting'
    BY <1>0, <2>1, <2>2, QueueAppend
  <2>. QED
    BY <2>1, <2>2, <2>3
<1>4. CASE Dispatch
  BY <1>0, <1>4, QueueTail DEF Dispatch
<1>5. CASE EventLoop /\ ~Dispatch
  <2>1. driver # "stopped" /\ step # "none" /\ events' = events
    BY <1>5 DEF EventLoop, HandleStart, HandleConnected, ConnectedResets, ConnectedTracks,
       ConnectedStopsReconnecting, HandleDisconnected, DisconnectedUntracks,
       DisconnectedReconnects, DisconnectedClears, HandleGotIp, HandleLostIp
  <2>2. CASE HandleStart
    BY <1>0, <2>1, <2>2 DEF HandleStart, Connect
  <2>3. CASE ~HandleStart
    <3>1. ~Starting
      BY <1>5, <2>1, <2>3 DEF EventLoop, HandleConnected, ConnectedResets, ConnectedTracks,
         ConnectedStopsReconnecting, HandleDisconnected, DisconnectedUntracks,
         DisconnectedReconnects, DisconnectedClears, HandleGotIp, HandleLostIp
    <3>2. /\ step' # "STA_START" /\ driver' = driver /\ sta_enable' = sta_enable
          /\ (rtask' = rtask \/ rtask' = Suspended(rtask) \/ rtask' = Resumed(rtask))
          /\ (main' = main \/ (Started /\ Started'))
      BY <1>5, <2>3 DEF EventLoop, HandleConnected, ConnectedResets, ConnectedTracks,
         ConnectedStopsReconnecting, HandleDisconnected, DisconnectedUntracks,
         DisconnectedReconnects, DisconnectedClears, HandleGotIp, HandleLostIp
    <3>. QED
      BY <1>0, <2>1, <3>1, <3>2 DEF Suspended, Resumed
  <2>. QED
    BY <2>2, <2>3
<1>6. CASE ReconnectTask
  BY <1>0, <1>6 DEF ReconnectTask, RetryLoad, RetryStore, RetryDelayOver, Reconnect, SuspendSelf,
     Connect
<1>7. CASE StatusTask
  BY <1>7 DEF StatusTask, StatusRead, StatusWrite
<1>8. CASE UNCHANGED vars
  BY <1>8 DEF vars
<1>. QED
  BY <1>1, <1>2, <1>3, <1>4, <1>5, <1>6, <1>7, <1>8 DEF Next

-----------------------------------------------------------------------------
(* The connector.                                                          *)

LEMMA ConnectorInit == Init => ConnectorInv
<1> SUFFICES ASSUME Init PROVE ConnectorInv
  OBVIOUS
<1>1. events = <<>> /\ step = "none" /\ rtask.pc = "absent"
  BY DEF Init
<1>. QED
  BY <1>1 DEF ConnectorInv, Disconnecting, Reconnecting, Runs

LEMMA ConnectorStep ==
  ASSUME TypeOK, StartInv, ConnectorInv, [Next]_vars
  PROVE  ConnectorInv'
<1>. USE DEF ConnectorInv, Disconnecting, Reconnecting, OnlyLosses, Runs, fixed, external, flags
<1>0. /\ events \in Seq(Events) /\ sta_enable \in BOOLEAN
      /\ rtask \in [pc : TaskPcs, suspended : BOOLEAN, read : 0..AttemptMod - 1]
  BY DEF TypeOK, QueueTypes, FlagTypes, TaskTypes
<1>1. CASE Main
  <2>1. CASE CreateStatus \/ SuspendStatus \/ CreationFails \/ WaitForIp
    BY <1>0, <2>1 DEF CreateStatus, SuspendStatus, CreationFails, WaitForIp
  <2>2. CASE CreateReconnect \/ SuspendReconnect
    <3>1. /\ driver = "stopped" /\ events = <<>> /\ step = "none"
          /\ UNCHANGED <<driver, events, step>>
      BY <2>2 DEF StartInv, Started, CreateReconnect, SuspendReconnect
    <3>. QED
      BY <3>1
  <2>3. CASE StartWifi
    BY <1>0, <2>3 DEF StartInv, Started, StartWifi
  <2>. QED
    BY <1>1, <2>1, <2>2, <2>3 DEF Main
<1>2. CASE ScanStartsStation
  BY <1>0, <1>2 DEF StartInv, Started, ScanStartsStation
<1>3. CASE Driver
  <2>1. UNCHANGED <<step, rtask>>
    BY <1>3 DEF Driver, Associates, FailsToAssociate, LinkBreaks, GetsLease, LosesLease
  <2>2. CASE LosesLease
    <3>1. events' = Append(events, "LOST_IP") /\ driver' = driver
      BY <2>2 DEF LosesLease, Post
    <3>2. /\ Len(events') = Len(events) + 1
          /\ \A i \in 1..Len(events) : events'[i] = events[i]
          /\ events'[Len(events) + 1] = "LOST_IP" /\ Len(events) \in Nat
      BY <1>0, <3>1, QueueAppend
    <3>3. OnlyLosses => OnlyLosses'
      BY <3>2
    <3>4. \A i \in 1..Len(events') : events'[i] = "STA_DISCONNECTED" =>
             driver' = "idle" /\ \A j \in i + 1..Len(events') : events'[j] = "LOST_IP"
      BY <3>1, <3>2
    <3>. QED
      BY <2>1, <3>1, <3>3, <3>4
  <2>3. CASE ~LosesLease
    <3>1. /\ driver \notin {"idle", "stopped"}
          /\ \E e \in Events : /\ events' = Append(events, e)
                               /\ e = "STA_DISCONNECTED" => driver' = "idle"
      BY <1>3, <2>3 DEF Driver, Associates, FailsToAssociate, LinkBreaks, GetsLease, Post
    <3>2. PICK e \in Events : /\ events' = Append(events, e)
                              /\ e = "STA_DISCONNECTED" => driver' = "idle"
      BY <3>1
    <3>3. /\ ~Disconnecting /\ ~Reconnecting
          /\ \A i \in 1..Len(events) : events[i] # "STA_DISCONNECTED"
      BY <3>1
    <3>4. /\ Len(events') = Len(events) + 1
          /\ \A i \in 1..Len(events) : events'[i] = events[i]
          /\ events'[Len(events) + 1] = e /\ Len(events) \in Nat
      BY <1>0, <3>2, QueueAppend
    <3>5. \A i \in 1..Len(events') : events'[i] = "STA_DISCONNECTED" =>
             driver' = "idle" /\ \A j \in i + 1..Len(events') : events'[j] = "LOST_IP"
      BY <3>2, <3>3, <3>4
    <3>. QED
      BY <2>1, <3>3, <3>5
  <2>. QED
    BY <2>2, <2>3
<1>4. CASE Dispatch
  BY <1>0, <1>4, QueueTail DEF Dispatch
<1>5. CASE HandleStart
  BY <1>0, <1>5 DEF StartInv, Starting, HandleStart, Connect
<1>6. CASE EventLoop /\ ~Dispatch /\ ~HandleStart
  BY <1>0, <1>6 DEF EventLoop, HandleConnected, ConnectedResets,
     ConnectedTracks, ConnectedStopsReconnecting, HandleDisconnected, DisconnectedUntracks,
     DisconnectedReconnects, DisconnectedClears, HandleGotIp, HandleLostIp, Suspended, Resumed
<1>7. CASE ReconnectTask
  BY <1>0, <1>7 DEF ReconnectTask, RetryLoad, RetryStore, RetryDelayOver, Reconnect, SuspendSelf,
     Connect
<1>8. CASE StatusTask
  BY <1>8 DEF StatusTask, StatusRead, StatusWrite
<1>9. CASE UNCHANGED vars
  BY <1>9 DEF vars
<1>. QED
  BY <1>1, <1>2, <1>3, <1>4, <1>5, <1>6, <1>7, <1>8, <1>9 DEF Next

StationInv == TypeOK /\ StartInv /\ ConnectorInv

LEMMA StationInvariant == Spec => []StationInv
<1>1. Init => StationInv
  BY TypeInit, StartInit, ConnectorInit DEF StationInv
<1>2. StationInv /\ [Next]_vars => StationInv'
  BY TypeStep, StartStep, ConnectorStep DEF StationInv
<1>. QED
  BY <1>1, <1>2, PTL DEF Spec

(* The reconnect task and the event handlers never both connect, and the   *)
(* counter is never reset between its load and its store (retry.c:82),     *)
(* whatever they interleave.                                               *)
THEOREM StationHasOneConnector == Spec => []SoleConnector
<1>1. StationInv => SoleConnector
  BY DEF StationInv, ConnectorInv, SoleConnector
<1>. QED
  BY <1>1, StationInvariant, PTL

-----------------------------------------------------------------------------
(* The address bit.                                                        *)

LEMMA AnnouncedAppend ==
  ASSUME events \in Seq(Events), NEW e \in Events, events' = Append(events, e),
         UNCHANGED <<step, ipBit>>
  PROVE  /\ e = "GOT_IP" => Announced'
         /\ e \in Clearing => ~Announced'
         /\ e \notin Clearing \cup {"GOT_IP"} => (Announced' <=> Announced)
<1>1. /\ Len(events') = Len(events) + 1 /\ Len(events) \in Nat
      /\ \A i \in 1..Len(events) : events'[i] = events[i]
      /\ events'[Len(events) + 1] = e
  BY QueueAppend
<1>2. e = "GOT_IP" => Announced'
  BY <1>1 DEF Announced
<1>3. e \in Clearing => ~Announced'
  BY <1>1 DEF Announced, Clearing
<1>4. ASSUME e \notin Clearing \cup {"GOT_IP"}
      PROVE  Announced' <=> Announced
  <2>1. (\A i \in 1..Len(events') : events'[i] \notin Clearing)
        <=> (\A i \in 1..Len(events) : events[i] \notin Clearing)
    BY <1>1, <1>4
  <2>2. ASSUME NEW i \in 1..Len(events)
        PROVE  (\A j \in i + 1..Len(events') : events'[j] \notin Clearing)
               <=> (\A j \in i + 1..Len(events) : events[j] \notin Clearing)
    BY <1>1, <1>4
  <2>3. (\E i \in 1..Len(events') : /\ events'[i] = "GOT_IP"
                                   /\ \A j \in i + 1..Len(events') : events'[j] \notin Clearing)
        <=> (\E i \in 1..Len(events) : /\ events[i] = "GOT_IP"
                                      /\ \A j \in i + 1..Len(events) : events[j] \notin Clearing)
    BY <1>1, <1>4, <2>2
  <2>. QED
    BY <2>1, <2>3 DEF Announced
<1>. QED
  BY <1>2, <1>3, <1>4

LEMMA AnnouncedDispatch ==
  ASSUME events \in Seq(Events), Dispatch
  PROVE  Announced' <=> Announced
<1>1. /\ Len(events) = Len(events') + 1 /\ Len(events') \in Nat
      /\ \A i \in 1..Len(events') : events'[i] = events[i + 1]
      /\ step = "none" /\ step' = events[1] /\ events[1] \in Events
      /\ ipBit' = ipBit
  BY QueueTail DEF Dispatch, flags
<1>2. ASSUME NEW i \in 1..Len(events')
      PROVE  (\A j \in i + 1..Len(events') : events'[j] \notin Clearing)
             <=> (\A j \in i + 2..Len(events) : events[j] \notin Clearing)
  <2>1. ASSUME \A j \in i + 1..Len(events') : events'[j] \notin Clearing,
               NEW j \in i + 2..Len(events)
        PROVE  events[j] \notin Clearing
    <3>1. j - 1 \in i + 1..Len(events') /\ j - 1 \in 1..Len(events') /\ (j - 1) + 1 = j
      BY <1>1
    <3>. QED
      BY <1>1, <2>1, <3>1
  <2>2. ASSUME \A j \in i + 2..Len(events) : events[j] \notin Clearing,
               NEW j \in i + 1..Len(events')
        PROVE  events'[j] \notin Clearing
    <3>1. j + 1 \in i + 2..Len(events) /\ j \in 1..Len(events')
      BY <1>1
    <3>. QED
      BY <1>1, <2>2, <3>1
  <2>. QED
    BY <2>1, <2>2
<1>3. (\A i \in 1..Len(events') : events'[i] \notin Clearing)
      <=> (\A i \in 2..Len(events) : events[i] \notin Clearing)
  <2>1. ASSUME \A i \in 1..Len(events') : events'[i] \notin Clearing,
               NEW i \in 2..Len(events)
        PROVE  events[i] \notin Clearing
    <3>1. i - 1 \in 1..Len(events') /\ (i - 1) + 1 = i
      BY <1>1
    <3>. QED
      BY <1>1, <2>1, <3>1
  <2>2. ASSUME \A i \in 2..Len(events) : events[i] \notin Clearing,
               NEW i \in 1..Len(events')
        PROVE  events'[i] \notin Clearing
    <3>1. i + 1 \in 2..Len(events)
      BY <1>1
    <3>. QED
      BY <1>1, <2>2, <3>1
  <2>. QED
    BY <2>1, <2>2
<1>. DEFINE Gets == \E i \in 2..Len(events) :
                      /\ events[i] = "GOT_IP"
                      /\ \A j \in i + 1..Len(events) : events[j] \notin Clearing
            Clean == \A i \in 2..Len(events) : events[i] \notin Clearing
<1>4. (\E i \in 1..Len(events') : /\ events'[i] = "GOT_IP"
                                 /\ \A j \in i + 1..Len(events') : events'[j] \notin Clearing)
      <=> Gets
  <2>1. ASSUME NEW i \in 1..Len(events'), events'[i] = "GOT_IP",
               \A j \in i + 1..Len(events') : events'[j] \notin Clearing
        PROVE  Gets
    <3>1. i + 1 \in 2..Len(events) /\ events[i + 1] = "GOT_IP" /\ (i + 1) + 1 = i + 2
      BY <1>1, <2>1
    <3>2. \A j \in i + 2..Len(events) : events[j] \notin Clearing
      BY <1>2, <2>1
    <3>. QED
      BY <3>1, <3>2
  <2>2. ASSUME NEW i \in 2..Len(events), events[i] = "GOT_IP",
               \A j \in i + 1..Len(events) : events[j] \notin Clearing
        PROVE  \E k \in 1..Len(events') :
                  /\ events'[k] = "GOT_IP"
                  /\ \A j \in k + 1..Len(events') : events'[j] \notin Clearing
    <3>1. i - 1 \in 1..Len(events') /\ (i - 1) + 1 = i /\ (i - 1) + 2 = i + 1
      BY <1>1
    <3>2. \A j \in (i - 1) + 1..Len(events') : events'[j] \notin Clearing
      BY <1>2, <2>2, <3>1
    <3>. QED
      BY <1>1, <2>2, <3>1, <3>2
  <2>. QED
    BY <2>1, <2>2
<1>5. Announced' <=> \/ Gets
                     \/ /\ Clean
                        /\ \/ events[1] = "GOT_IP"
                           \/ ipBit /\ events[1] \notin Clearing
  BY <1>1, <1>3, <1>4 DEF Announced, Clearing
<1>6. Announced <=> \/ Gets
                    \/ events[1] = "GOT_IP" /\ Clean
                    \/ events[1] \notin Clearing /\ Clean /\ ipBit
  <2>1. 1 \in 1..Len(events) /\ 1 + 1 = 2 /\ \A i \in 1..Len(events) : i = 1 \/ i \in 2..Len(events)
    BY <1>1
  <2>2. 2..Len(events) \subseteq 1..Len(events)
    BY <1>1
  <2>3. (\E i \in 1..Len(events) : /\ events[i] = "GOT_IP"
                                  /\ \A j \in i + 1..Len(events) : events[j] \notin Clearing)
        <=> Gets \/ (events[1] = "GOT_IP" /\ Clean)
    BY <2>1, <2>2
  <2>4. (\A i \in 1..Len(events) : events[i] \notin Clearing)
        <=> events[1] \notin Clearing /\ Clean
    BY <2>1, <2>2
  <2>. QED
    BY <1>1, <2>3, <2>4 DEF Announced, Clearing
<1>7. events[1] = "GOT_IP" => events[1] \notin Clearing
  BY DEF Clearing
<1>. HIDE DEF Gets, Clean
<1>. QED
  BY <1>5, <1>6, <1>7

LEMMA LeaseStep ==
  ASSUME TypeOK, StartInv, LeaseInv, [Next]_vars
  PROVE  LeaseInv'
<1>. USE DEF fixed, external, flags
<1>0. events \in Seq(Events)
  BY DEF TypeOK, QueueTypes
<1>1. ASSUME UNCHANGED <<events, step, ipBit, lease>>,
             driver' = driver \/ driver = "idle" \/ driver = "stopped"
      PROVE  LeaseInv'
  <2>1. Announced' <=> Announced
    BY <1>1 DEF Announced
  <2>2. lease' = "held" => driver' = "connected"
    BY <1>1 DEF LeaseInv, StartInv
  <2>. QED
    BY <1>1, <2>1, <2>2 DEF LeaseInv
<1>2. CASE CreateStatus \/ SuspendStatus \/ CreateReconnect \/ SuspendReconnect \/ CreationFails
           \/ WaitForIp
  BY <1>1, <1>2 DEF CreateStatus, SuspendStatus, CreateReconnect, SuspendReconnect, CreationFails,
     WaitForIp
<1>3. CASE StartWifi \/ ScanStartsStation
  <2>1. driver = "stopped" /\ lease = "none" /\ UNCHANGED <<lease, step, ipBit>>
    BY <1>3 DEF StartInv, Started, StartWifi, ScanStartsStation
  <2>2. CASE events' = Append(events, "STA_START")
    BY <1>0, <2>1, <2>2, AnnouncedAppend DEF LeaseInv, Clearing
  <2>3. CASE events' = events
    <3>1. Announced' <=> Announced
      BY <2>1, <2>3 DEF Announced
    <3>. QED
      BY <2>1, <3>1 DEF LeaseInv
  <2>. QED
    BY <1>3, <2>2, <2>3 DEF StartWifi, ScanStartsStation
<1>4. CASE Associates
  BY <1>0, <1>4, AnnouncedAppend DEF Associates, Post, LeaseInv, Clearing
<1>5. CASE FailsToAssociate
  BY <1>0, <1>5, AnnouncedAppend DEF FailsToAssociate, Post, LeaseInv, Clearing
<1>6. CASE LinkBreaks
  BY <1>0, <1>6, AnnouncedAppend DEF LinkBreaks, Post, LeaseInv, Clearing
<1>7. CASE GetsLease
  BY <1>0, <1>7, AnnouncedAppend DEF GetsLease, Post, LeaseInv, Clearing
<1>8. CASE LosesLease
  BY <1>0, <1>8, AnnouncedAppend DEF LosesLease, Post, LeaseInv, Clearing
<1>9. CASE Dispatch
  BY <1>0, <1>9, AnnouncedDispatch DEF Dispatch, LeaseInv
<1>10. CASE EventLoop /\ ~Dispatch
  <2>1. UNCHANGED <<events, lease>>
    BY <1>10 DEF EventLoop, HandleStart, HandleConnected, ConnectedResets, ConnectedTracks,
       ConnectedStopsReconnecting, HandleDisconnected, DisconnectedUntracks,
       DisconnectedReconnects, DisconnectedClears, HandleGotIp, HandleLostIp
  <2>2. driver' = "connected" <=> driver = "connected"
    BY <1>10 DEF EventLoop, HandleStart, Connect, HandleConnected, ConnectedResets, ConnectedTracks,
       ConnectedStopsReconnecting, HandleDisconnected, DisconnectedUntracks,
       DisconnectedReconnects, DisconnectedClears, HandleGotIp, HandleLostIp
  <2>3. \/ /\ step \in {"STA_START", "STA_CONNECTED", "reset", "track", "stop reconnecting"}
           /\ step' \in {"none", "reset", "track", "stop reconnecting"} /\ ipBit' = ipBit
        \/ /\ step \in {"STA_DISCONNECTED", "untrack", "reconnect"}
           /\ step' \in {"untrack", "reconnect", "clear"}
        \/ step \in {"clear", "LOST_IP"} /\ step' = "none" /\ ~ipBit'
        \/ step = "GOT_IP" /\ step' = "none" /\ ipBit'
    BY <1>10 DEF EventLoop, HandleStart, HandleConnected, ConnectedResets, ConnectedTracks,
       ConnectedStopsReconnecting, HandleDisconnected, DisconnectedUntracks,
       DisconnectedReconnects, DisconnectedClears, HandleGotIp, HandleLostIp
  <2>4. (step' = "GOT_IP" \/ (ipBit' /\ step' \notin Clearing \cup {"untrack", "reconnect", "clear"}))
        <=> (step = "GOT_IP" \/ (ipBit /\ step \notin Clearing \cup {"untrack", "reconnect", "clear"}))
    <3>1. CASE step = "GOT_IP"
      BY <2>3, <3>1 DEF Clearing
    <3>2. CASE step \in {"STA_START", "STA_CONNECTED", "reset", "track", "stop reconnecting"}
      <4>1. step' \in {"none", "reset", "track", "stop reconnecting"} /\ ipBit' = ipBit
        BY <2>3, <3>2
      <4>2. step' # "GOT_IP" /\ step' \notin Clearing \cup {"untrack", "reconnect", "clear"}
        BY <4>1 DEF Clearing
      <4>3. step # "GOT_IP" /\ step \notin Clearing \cup {"untrack", "reconnect", "clear"}
        BY <3>2 DEF Clearing
      <4>. QED
        BY <4>1, <4>2, <4>3
    <3>3. CASE step \in {"STA_DISCONNECTED", "untrack", "reconnect", "clear", "LOST_IP"}
      BY <2>3, <3>3 DEF Clearing
    <3>. QED
      BY <2>3, <3>1, <3>2, <3>3
  <2>5. Announced' <=> Announced
    BY <2>1, <2>4 DEF Announced
  <2>. QED
    BY <2>1, <2>2, <2>5 DEF LeaseInv
<1>11. CASE ReconnectTask
  BY <1>1, <1>11 DEF ReconnectTask, RetryLoad, RetryStore, RetryDelayOver, Reconnect, SuspendSelf,
     Connect
<1>12. CASE StatusTask
  BY <1>1, <1>12 DEF StatusTask, StatusRead, StatusWrite
<1>13. CASE UNCHANGED vars
  BY <1>1, <1>13 DEF vars
<1>. QED
  BY <1>2, <1>3, <1>4, <1>5, <1>6, <1>7, <1>8, <1>9, <1>10, <1>11, <1>12, <1>13
  DEF Next, Main, Driver

(* Once every event is handled, the bit wait_for_ip waits for says whether *)
(* the station holds an address, however long the queue and whatever order *)
(* the events of old and new links come in (wifi.c:249).                   *)
THEOREM StationBitIsLease == Spec => []IpBitFollowsLease
<1>1. Init => LeaseInv
  <2> SUFFICES ASSUME Init PROVE LeaseInv
    OBVIOUS
  <2>1. Len(events) = 0 /\ step = "none" /\ ~ipBit /\ lease = "none"
    BY DEF Init
  <2>. QED
    BY <2>1 DEF LeaseInv, Announced
<1>2. TypeOK /\ StartInv /\ LeaseInv /\ [Next]_vars => LeaseInv'
  BY LeaseStep
<1>3. LeaseInv => IpBitFollowsLease
  <2> SUFFICES ASSUME LeaseInv, Quiet PROVE ipBit <=> lease = "held"
    BY DEF IpBitFollowsLease
  <2>1. Len(events) = 0 /\ step = "none"
    BY DEF Quiet
  <2>2. Announced <=> ipBit
    BY <2>1 DEF Announced, Clearing
  <2>. QED
    BY <2>2 DEF LeaseInv
<1>4. StationInv => TypeOK /\ StartInv
  BY DEF StationInv
<1>. QED
  BY <1>1, <1>2, <1>3, <1>4, StationInvariant, PTL DEF Spec

-----------------------------------------------------------------------------
(* The back-off.                                                           *)

LEMMA CreationStep ==
  ASSUME TypeOK, CreationOrder, [Next]_vars
  PROVE  CreationOrder'
<1>0. rtask \in [pc : TaskPcs, suspended : BOOLEAN, read : 0..AttemptMod - 1]
  BY DEF TypeOK, TaskTypes
<1>. USE DEF CreationOrder, fixed, external, flags
<1>1. CASE Main \/ ScanStartsStation \/ Driver
  BY <1>1 DEF Main, CreateStatus, SuspendStatus, CreateReconnect, SuspendReconnect, CreationFails,
     WaitForIp, StartWifi, ScanStartsStation, Driver, Associates, FailsToAssociate, LinkBreaks,
     GetsLease, LosesLease
<1>2. CASE EventLoop
  BY <1>0, <1>2 DEF EventLoop, Dispatch, HandleStart, HandleConnected, ConnectedResets, ConnectedTracks,
     ConnectedStopsReconnecting, HandleDisconnected, DisconnectedUntracks,
     DisconnectedReconnects, DisconnectedClears, HandleGotIp, HandleLostIp, Suspended, Resumed
<1>3. CASE ReconnectTask \/ StatusTask
  BY <1>0, <1>3 DEF ReconnectTask, RetryLoad, RetryStore, RetryDelayOver, Reconnect, SuspendSelf,
     StatusTask, StatusRead, StatusWrite, Runs
<1>4. CASE UNCHANGED vars
  BY <1>4 DEF vars
<1>. QED
  BY <1>1, <1>2, <1>3, <1>4 DEF Next

LEMMA BackoffStep ==
  ASSUME TypeOK, StartInv, ConnectorInv, CreationOrder, BackoffInv, [Next]_vars
  PROVE  BackoffInv'
<1>. USE DEF BackoffInv, Reconnecting, Runs, fixed, external, flags
<1>0. /\ AttemptMod \in Nat \ {0, 1} /\ sta_enable \in BOOLEAN
      /\ rtask \in [pc : TaskPcs, suspended : BOOLEAN, read : 0..AttemptMod - 1]
      /\ attempts \in 0..AttemptMod - 1 /\ failures \in 0..AttemptMod
  BY StationAssumption DEF TypeOK, FlagTypes, TaskTypes
<1>1. CASE CreateStatus \/ SuspendStatus \/ CreationFails \/ WaitForIp \/ StartWifi
           \/ ScanStartsStation
  BY <1>0, <1>1 DEF CreateStatus, SuspendStatus, CreationFails, WaitForIp, StartWifi,
     ScanStartsStation
<1>2. CASE CreateReconnect
  <2>1. rtask.pc = "absent" /\ attempts = 0 /\ step = "none" /\ failures = 0
    BY <1>2 DEF CreateReconnect, CreationOrder, StartInv, Started
  <2>2. rtask' = [rtask EXCEPT !.pc = "load"] /\ UNCHANGED <<attempts, failures, step>>
    BY <1>2 DEF CreateReconnect
  <2>. QED
    BY <1>0, <2>1, <2>2
<1>3. CASE SuspendReconnect
  <2>1. failures = 0 /\ step = "none"
    BY <1>3 DEF SuspendReconnect, StartInv, Started
  <2>2. rtask.pc = "store" => rtask.read = 0 /\ attempts = 0
    BY <1>0, <2>1
  <2>3. rtask' = Suspended(rtask) /\ UNCHANGED <<attempts, failures, step>>
    BY <1>3 DEF SuspendReconnect
  <2>. QED
    BY <1>0, <2>1, <2>2, <2>3 DEF Suspended
<1>4. CASE Driver
  BY <1>0, <1>4 DEF Driver, Associates, FailsToAssociate, LinkBreaks, GetsLease, LosesLease
<1>5. CASE Dispatch
  <2>1. step' \notin {"untrack", "reconnect"}
    BY <1>5, QueueTail DEF Dispatch, TypeOK, QueueTypes
  <2>. QED
    BY <1>0, <1>5, <2>1 DEF Dispatch
<1>6. CASE ConnectedResets
  <2>1. ~Reconnecting
    BY <1>6 DEF ConnectedResets, ConnectorInv
  <2>. QED
    BY <1>0, <1>6, <2>1 DEF ConnectedResets
<1>7. CASE ConnectedStopsReconnecting
  <2>1. ~Reconnecting
    BY <1>7 DEF ConnectedStopsReconnecting, ConnectorInv
  <2>. QED
    BY <1>0, <1>7, <2>1 DEF ConnectedStopsReconnecting, Suspended
<1>8. CASE HandleDisconnected
  BY <1>0, <1>8 DEF HandleDisconnected
<1>9. CASE DisconnectedReconnects
  BY <1>0, <1>9 DEF DisconnectedReconnects, Resumed
<1>10. CASE HandleStart \/ HandleConnected \/ ConnectedTracks \/ DisconnectedUntracks
            \/ DisconnectedClears \/ HandleGotIp \/ HandleLostIp
  BY <1>0, <1>10 DEF HandleStart, HandleConnected, ConnectedTracks, DisconnectedUntracks,
     DisconnectedClears, HandleGotIp, HandleLostIp
<1>11. CASE RetryStore
  <2>1. /\ step \notin {"untrack", "reconnect"} /\ rtask.read <= attempts /\ attempts <= failures
    BY <1>0, <1>11 DEF RetryStore, ConnectorInv
  <2>2. attempts' <= rtask.read + 1
    BY <1>0, <1>11, CounterFits DEF RetryStore
  <2>3. attempts' \in Nat
    BY <1>0, <1>11, CounterFits DEF RetryStore
  <2>. QED
    BY <1>0, <1>11, <2>1, <2>2, <2>3 DEF RetryStore
<1>12. CASE ReconnectTask /\ ~RetryStore
  BY <1>0, <1>12 DEF ReconnectTask, RetryLoad, RetryDelayOver, Reconnect, SuspendSelf
<1>13. CASE StatusTask
  BY <1>13 DEF StatusTask, StatusRead, StatusWrite
<1>14. CASE UNCHANGED vars
  BY <1>14 DEF vars
<1>. QED
  BY <1>1, <1>2, <1>3, <1>4, <1>5, <1>6, <1>7, <1>8, <1>9, <1>10, <1>11, <1>12, <1>13, <1>14
  DEF Next, Main, EventLoop

LEMMA BackoffInvariant == Spec => [](StationInv /\ CreationOrder /\ BackoffInv)
<1>1. Init => BackoffInv /\ CreationOrder
  <2> SUFFICES ASSUME Init PROVE BackoffInv /\ CreationOrder
    OBVIOUS
  <2>1. attempts = 0 /\ failures = 0 /\ rtask.pc = "absent" /\ step = "none"
    BY DEF Init
  <2>. QED
    BY <2>1 DEF BackoffInv, CreationOrder
<1>2. StationInv /\ BackoffInv /\ CreationOrder /\ [Next]_vars => (BackoffInv /\ CreationOrder)'
  BY BackoffStep, CreationStep DEF StationInv
<1>. QED
  BY <1>1, <1>2, StationInvariant, PTL DEF Spec

(* The back-off never runs ahead of the failures, though task and handler  *)
(* write the counter without a lock (retry.c:82).                          *)
THEOREM StationBackoff == Spec => []BackoffFollowsFailures
<1>1. BackoffInv => BackoffFollowsFailures
  BY DEF BackoffInv, BackoffFollowsFailures
<1>. QED
  BY <1>1, BackoffInvariant, PTL

(* A step of the station is a step of the atomic counter, or leaves it.    *)
LEMMA CounterStep ==
  ASSUME BackoffInv, [Next]_vars
  PROVE  [C!retry_delay \/ C!retry_reset]_attempts
<1>. USE DEF C!retry_delay, C!retry_reset
<1>1. CASE RetryStore
  <2>1. rtask.read = attempts
    BY <1>1 DEF RetryStore, BackoffInv
  <2>. QED
    BY <1>1, <2>1 DEF RetryStore
<1>2. CASE ConnectedResets
  BY <1>2 DEF ConnectedResets
<1>3. CASE UNCHANGED attempts
  BY <1>3
<1>4. CASE Main \/ ScanStartsStation \/ Driver \/ StatusTask \/ UNCHANGED vars
  BY <1>3, <1>4 DEF Main, CreateStatus, SuspendStatus, CreateReconnect, SuspendReconnect,
     CreationFails, WaitForIp, StartWifi, ScanStartsStation, Driver, Associates,
     FailsToAssociate, LinkBreaks, GetsLease, LosesLease, StatusTask, StatusRead, StatusWrite, vars
<1>5. CASE EventLoop /\ ~ConnectedResets
  BY <1>3, <1>5 DEF EventLoop, Dispatch, HandleStart, HandleConnected, ConnectedTracks,
     ConnectedStopsReconnecting, HandleDisconnected, DisconnectedUntracks,
     DisconnectedReconnects, DisconnectedClears, HandleGotIp, HandleLostIp
<1>6. CASE ReconnectTask /\ ~RetryStore
  BY <1>3, <1>6 DEF ReconnectTask, RetryLoad, RetryDelayOver, Reconnect, SuspendSelf
<1>. QED
  BY <1>1, <1>2, <1>4, <1>5, <1>6 DEF Next

(* The unlocked counter implements the atomic one: whatever suspends and   *)
(* resumes the reconnect task between the load and the store of            *)
(* retry_delay (retry.c:63, :82), no retry_reset (wifi.c:122) falls there  *)
(* and is lost.                                                            *)
THEOREM StationCounterIsAtomic == Spec => RefinesCounter
<1>1. Init => C!retry_init
  BY DEF Init, C!retry_init
<1>2. BackoffInv /\ [Next]_vars => [C!retry_delay \/ C!retry_reset]_attempts
  BY CounterStep
<1>. QED
  BY <1>1, <1>2, BackoffInvariant, PTL DEF Spec, RefinesCounter, C!Calls

-----------------------------------------------------------------------------
(* The wake-up of the reconnect task.                                      *)

LEMMA WindowStep ==
  ASSUME TypeOK, StartInv, ConnectorInv, WindowInv, [Next]_vars
  PROVE  WindowInv'
<1>. USE DEF WindowInv, Started, Runs, OutsideWindow, fixed, external, flags
<1>0. /\ sta_enable \in BOOLEAN /\ prompt \in BOOLEAN
      /\ rtask \in [pc : TaskPcs, suspended : BOOLEAN, read : 0..AttemptMod - 1]
  BY DEF TypeOK, FlagTypes, TaskTypes
<1>a. CASE /\ UNCHANGED <<prompt, sta_enable, driver, rtask>>
           /\ main' = main \/ main' \in {"suspend status", "create reconnect", "suspended"}
              \/ (Started /\ Started')
  <2>1. /\ prompt' = prompt /\ sta_enable' = sta_enable /\ driver' = driver /\ rtask' = rtask
        /\ (Started \/ main \in {"suspend reconnect", "start"})'
              => (Started \/ main \in {"suspend reconnect", "start"})
    BY <1>a
  <2>. HIDE DEF Started
  <2>. QED
    BY <2>1
<1>1. CASE CreateStatus \/ SuspendStatus \/ CreationFails \/ WaitForIp
  BY <1>a, <1>1 DEF CreateStatus, SuspendStatus, CreationFails, WaitForIp
<1>2. CASE CreateReconnect
  BY <1>0, <1>2 DEF CreateReconnect
<1>3. CASE SuspendReconnect
  BY <1>0, <1>3 DEF SuspendReconnect, Suspended
<1>4. CASE StartWifi
  BY <1>0, <1>4 DEF StartWifi, StartInv
<1>5. CASE ScanStartsStation
  BY <1>0, <1>5 DEF ScanStartsStation, StartInv
<1>6. CASE Driver
  <2>1. UNCHANGED <<prompt, sta_enable, main, rtask>>
    BY <1>6 DEF Driver, Associates, FailsToAssociate, LinkBreaks, GetsLease, LosesLease
  <2>2. ASSUME prompt, rtask.pc = "suspend" PROVE driver' = driver
    <3>1. ~rtask.suspended
      BY <2>2
    <3>2. driver # "connected"
      BY <2>2
    <3>. QED
      BY <1>6, <2>2, <3>1, <3>2
      DEF Driver, Associates, FailsToAssociate, LinkBreaks, GetsLease, LosesLease
  <2>. QED
    BY <2>1, <2>2
<1>7. CASE HandleStart
  BY <1>0, <1>7 DEF HandleStart, Connect
<1>8. CASE ConnectedStopsReconnecting
  BY <1>0, <1>8 DEF ConnectedStopsReconnecting, Suspended
<1>9. CASE DisconnectedReconnects
  BY <1>0, <1>9 DEF DisconnectedReconnects, Resumed
<1>10. CASE Dispatch \/ HandleConnected \/ ConnectedResets \/ ConnectedTracks \/ HandleDisconnected
            \/ DisconnectedUntracks \/ DisconnectedClears \/ HandleLostIp
  BY <1>a, <1>10 DEF Dispatch, HandleConnected, ConnectedResets, ConnectedTracks,
     HandleDisconnected, DisconnectedUntracks, DisconnectedClears, HandleLostIp
<1>11. CASE HandleGotIp
  BY <1>0, <1>11 DEF HandleGotIp, StartInv
<1>12. CASE Reconnect
  <2>1. driver \in {"stopped", "idle"}
    BY <1>12 DEF Reconnect, ConnectorInv, Reconnecting
  <2>. QED
    BY <1>0, <1>12, <2>1 DEF Reconnect, Connect
<1>13. CASE RetryLoad \/ RetryStore \/ RetryDelayOver \/ SuspendSelf
  BY <1>0, <1>13 DEF RetryLoad, RetryStore, RetryDelayOver, SuspendSelf
<1>14. CASE StatusTask \/ UNCHANGED vars
  BY <1>a, <1>14 DEF StatusTask, StatusRead, StatusWrite, vars
<1>. QED
  BY <1>1, <1>2, <1>3, <1>4, <1>5, <1>6, <1>7, <1>8, <1>9, <1>10, <1>11, <1>12, <1>13, <1>14
  DEF Next, Main, EventLoop, ReconnectTask

(* An event stays to be handled until its handler takes it.                *)
LEMMA PendingAppend ==
  ASSUME events \in Seq(Events), NEW e \in Events, events' = Append(events, e),
         NEW f \in Events, step' = step
  PROVE  /\ Pending(f) => Pending(f)'
         /\ e = f => Pending(f)'
  BY QueueAppend DEF Pending

LEMMA PendingDispatch ==
  ASSUME events \in Seq(Events), Dispatch, NEW f \in Events, Pending(f)
  PROVE  Pending(f)'
<1>1. /\ step = "none" /\ step' = events[1] /\ Len(events) = Len(events') + 1
      /\ Len(events') \in Nat /\ \A i \in 1..Len(events') : events'[i] = events[i + 1]
  BY QueueTail DEF Dispatch
<1>2. f # "none"
  BY DEF Events
<1>3. PICK i \in 1..Len(events) : events[i] = f
  BY <1>1, <1>2 DEF Pending
<1>4. CASE i = 1
  BY <1>1, <1>3, <1>4 DEF Pending
<1>5. CASE i # 1
  <2>1. i - 1 \in 1..Len(events') /\ (i - 1) + 1 = i
    BY <1>1, <1>5
  <2>2. events'[i - 1] = f
    BY <1>1, <1>3, <2>1
  <2>. QED
    BY <2>1, <2>2 DEF Pending
<1>. QED
  BY <1>4, <1>5

LEMMA StrandedStep ==
  ASSUME TypeOK, StartInv, ConnectorInv, WindowInv, NeverStranded, [Next]_vars
  PROVE  NeverStranded'
<1>. USE DEF fixed, external, flags
<1>0. /\ events \in Seq(Events) /\ sta_enable \in BOOLEAN /\ prompt \in BOOLEAN
      /\ rtask \in [pc : TaskPcs, suspended : BOOLEAN, read : 0..AttemptMod - 1]
      /\ prompt' = prompt /\ sta_enable' = sta_enable
  <2>1. prompt' = prompt /\ sta_enable' = sta_enable
    BY DEF Next, Main, CreateStatus, SuspendStatus, CreateReconnect, SuspendReconnect,
       CreationFails, WaitForIp, StartWifi, ScanStartsStation, Driver, Associates,
       FailsToAssociate, LinkBreaks, GetsLease, LosesLease, StatusTask, StatusRead, StatusWrite,
       EventLoop, Dispatch, HandleStart, HandleConnected, ConnectedResets, ConnectedTracks,
       ConnectedStopsReconnecting, HandleDisconnected, DisconnectedUntracks,
       DisconnectedReconnects, DisconnectedClears, HandleGotIp, HandleLostIp,
       ReconnectTask, RetryLoad, RetryStore, RetryDelayOver, Reconnect, SuspendSelf, vars
  <2>. QED
    BY <2>1 DEF TypeOK, QueueTypes, FlagTypes, TaskTypes
<1>. SUFFICES ASSUME prompt, sta_enable, driver' = "idle"
              PROVE  (\/ Starting \/ Pending("STA_DISCONNECTED")
                      \/ step \in {"untrack", "reconnect"} \/ Reconnecting)'
  BY <1>0 DEF NeverStranded
<1>d. "STA_DISCONNECTED" \in Events /\ "STA_START" \in Events
  BY DEF Events
<1>1. CASE StartWifi
  <2>1. events' = Append(events, "STA_START")
    BY <1>1 DEF StartWifi
  <2>2. /\ Len(events') = Len(events) + 1 /\ Len(events) \in Nat
        /\ events'[Len(events) + 1] = "STA_START"
    BY <1>0, <1>d, <2>1, QueueAppend
  <2>3. Starting'
    BY <2>2 DEF Starting
  <2>. QED
    BY <2>3
<1>2. ~ScanStartsStation
  BY DEF ScanStartsStation, StartInv, Started
<1>3. CASE FailsToAssociate \/ LinkBreaks
  <2>1. events' = Append(events, "STA_DISCONNECTED") /\ step' = step
    BY <1>3 DEF FailsToAssociate, LinkBreaks, Post
  <2>. QED
    BY <1>0, <1>d, <2>1, PendingAppend
<1>4. ASSUME driver = "idle"
      PROVE  Starting \/ Pending("STA_DISCONNECTED") \/ step \in {"untrack", "reconnect"} \/ Reconnecting
  BY <1>4 DEF NeverStranded
<1>5. CASE Associates
  BY <1>5 DEF Associates
<1>6. CASE LosesLease \/ GetsLease
  <2>1. PICK e \in Events : events' = Append(events, e)
    BY <1>6 DEF LosesLease, GetsLease, Post, Events
  <2>2. UNCHANGED <<driver, step, rtask>>
    BY <1>6 DEF LosesLease, GetsLease
  <2>3. Starting => Starting'
    <3>1. Starting <=> Pending("STA_START")
      BY DEF Starting, Pending
    <3>2. Starting' <=> Pending("STA_START")'
      BY DEF Starting, Pending
    <3>. QED
      BY <1>0, <1>d, <2>1, <2>2, <3>1, <3>2, PendingAppend
  <2>4. Pending("STA_DISCONNECTED") => Pending("STA_DISCONNECTED")'
    BY <1>0, <1>d, <2>1, <2>2, PendingAppend
  <2>5. Reconnecting' <=> Reconnecting
    BY <2>2 DEF Reconnecting, Runs
  <2>. QED
    BY <1>4, <2>2, <2>3, <2>4, <2>5
<1>7. CASE UNCHANGED <<driver, events, step, rtask>>
  <2>1. /\ Starting' <=> Starting
        /\ Pending("STA_DISCONNECTED")' <=> Pending("STA_DISCONNECTED")
        /\ Reconnecting' <=> Reconnecting
    BY <1>7 DEF Starting, Pending, Reconnecting, Runs
  <2>. QED
    BY <1>4, <1>7, <2>1
<1>8. CASE CreateReconnect \/ SuspendReconnect
  BY <1>8 DEF CreateReconnect, SuspendReconnect, StartInv, Started
<1>9. CASE Dispatch
  <2>1. UNCHANGED <<driver, rtask>> /\ step = "none"
    BY <1>9 DEF Dispatch
  <2>2. Starting => Starting'
    <3>1. Starting <=> Pending("STA_START")
      BY DEF Starting, Pending
    <3>2. Starting' <=> Pending("STA_START")'
      BY DEF Starting, Pending
    <3>. QED
      BY <1>0, <1>d, <1>9, <3>1, <3>2, PendingDispatch
  <2>3. Pending("STA_DISCONNECTED") => Pending("STA_DISCONNECTED")'
    BY <1>0, <1>d, <1>9, PendingDispatch
  <2>4. Reconnecting' <=> Reconnecting
    BY <2>1 DEF Reconnecting, Runs
  <2>. QED
    BY <1>4, <2>1, <2>2, <2>3, <2>4
<1>10. CASE HandleStart
  BY <1>10 DEF HandleStart, Connect
<1>11. CASE HandleDisconnected \/ DisconnectedUntracks
  BY <1>11 DEF HandleDisconnected, DisconnectedUntracks
<1>12. CASE DisconnectedReconnects
  <2>1. /\ rtask' = Resumed(rtask) /\ driver' = driver
    BY <1>12 DEF DisconnectedReconnects
  <2>2. driver # "stopped" /\ rtask.pc \notin {"absent", "suspend"}
    <3>1. driver = "idle"
      BY <2>1
    <3>2. Started
      BY <3>1 DEF StartInv
    <3>. QED
      BY <3>1, <3>2 DEF WindowInv
  <2>3. Reconnecting'
    BY <1>0, <2>1, <2>2 DEF Reconnecting, Runs, Resumed, TaskPcs
  <2>. QED
    BY <2>3
<1>13. CASE ConnectedStopsReconnecting
  <2>1. /\ step = "stop reconnecting" /\ step' = "none" /\ UNCHANGED <<driver, events>>
    BY <1>13 DEF ConnectedStopsReconnecting
  <2>2. ~Starting /\ ~Reconnecting
    BY <2>1 DEF StartInv, ConnectorInv
  <2>3. Pending("STA_DISCONNECTED")
    BY <1>4, <2>1, <2>2
  <2>. QED
    BY <2>1, <2>3 DEF Pending
<1>14. CASE HandleConnected \/ ConnectedResets \/ ConnectedTracks \/ DisconnectedClears
            \/ HandleGotIp \/ HandleLostIp
  <2>1. /\ step \in {"STA_CONNECTED", "reset", "track", "clear", "GOT_IP", "LOST_IP"}
        /\ step' \notin Events
        /\ UNCHANGED <<driver, events, rtask>>
    BY <1>14 DEF HandleConnected, ConnectedResets, ConnectedTracks, DisconnectedClears,
       HandleGotIp, HandleLostIp, Events
  <2>2. Reconnecting' <=> Reconnecting
    BY <2>1 DEF Reconnecting, Runs
  <2>3. Pending("STA_DISCONNECTED") => Pending("STA_DISCONNECTED")'
    BY <2>1 DEF Pending
  <2>4. Starting => Starting'
    BY <2>1 DEF Starting
  <2>. QED
    BY <1>4, <2>1, <2>2, <2>3, <2>4
<1>15. CASE RetryLoad \/ RetryStore \/ RetryDelayOver
  <2>1. UNCHANGED <<driver, events, step>> /\ Reconnecting'
    BY <1>0, <1>15 DEF RetryLoad, RetryStore, RetryDelayOver, Reconnecting, Runs
  <2>. QED
    BY <2>1
<1>16. CASE Reconnect
  BY <1>16 DEF Reconnect, Connect
<1>17. CASE SuspendSelf
  <2>1. driver' = driver /\ rtask.pc = "suspend"
    BY <1>17 DEF SuspendSelf
  <2>. QED
    BY <2>1 DEF WindowInv
<1>18. CASE CreateStatus \/ SuspendStatus \/ CreationFails \/ WaitForIp \/ StatusTask \/ UNCHANGED vars
  BY <1>7, <1>18 DEF CreateStatus, SuspendStatus, CreationFails, WaitForIp, StatusTask,
     StatusRead, StatusWrite, vars
<1>. QED
  BY <1>1, <1>2, <1>3, <1>5, <1>6, <1>8, <1>9, <1>10, <1>11, <1>12, <1>13, <1>14, <1>15, <1>16,
     <1>17, <1>18 DEF Next, Main, Driver, EventLoop, ReconnectTask

(* No wake-up of the reconnect task is lost (wifi.c:96), unless one falls  *)
(* into the window before vTaskSuspend: without a link the station always  *)
(* has an event under way that will wake the task, or a task that runs.    *)
THEOREM StationNeverStranded == Spec => []NeverStranded
<1>1. Init => WindowInv /\ NeverStranded
  <2>. SUFFICES ASSUME Init PROVE WindowInv /\ NeverStranded
    OBVIOUS
  <2>1. /\ driver = "stopped" /\ rtask.pc = "absent"
        /\ main = IF sta_enable THEN "create status" ELSE "start"
    BY DEF Init
  <2>. QED
    BY <2>1 DEF WindowInv, NeverStranded, Started
<1>2. StationInv /\ WindowInv /\ NeverStranded /\ [Next]_vars => (WindowInv /\ NeverStranded)'
  BY WindowStep, StrandedStep DEF StationInv
<1>. QED
  BY <1>1, <1>2, StationInvariant, PTL DEF Spec
=============================================================================
