---------------------------- MODULE WifiStation ----------------------------
(***************************************************************************)
(* The Wi-Fi station of main/wifi.c: the event handlers, which run one     *)
(* after the other in the default event loop task, the status and the      *)
(* reconnect task, which those handlers suspend and resume from outside,   *)
(* wifi_init, which creates them, and the main task that waits for an      *)
(* address.  The retry counter of main/retry.c is shared by the reconnect  *)
(* task and a handler.                                                     *)
(*                                                                         *)
(* The Wi-Fi driver, the DHCP client and the event loop are external: they *)
(* are modelled by the calls wifi.c makes and the events it receives.      *)
(***************************************************************************)
EXTENDS Naturals, Sequences

CONSTANTS
    LoopSize,       \* length of the event loop's queue (32 in the build)
    AttemptMod,     \* 2^16: attempts is a uint16_t
    LowMemory       \* xTaskCreate may fail

ASSUME StationAssumption ==
    /\ LoopSize \in Nat \ {0}
    /\ AttemptMod \in Nat \ {0, 1}
    /\ LowMemory \in BOOLEAN

VARIABLES
    sta_enable, \* the configuration switches the station on
    prompt,     \* timing, fixed per behaviour: nothing suspends or answers the
                \* reconnect task between esp_wifi_connect and vTaskSuspend
    main,       \* the main task: wifi_init, then wait_for_ip
    driver,     \* the station of the Wi-Fi driver
    lease,      \* the address: "none", "held", or "losing" (its timer runs)
    events,     \* the queue of the event loop, oldest first
    step,       \* the next step of the handler that runs ("none": idle)
    active,     \* sta_active
    connected,  \* sta_connected
    ipBit,      \* WIFI_STA_GOT_IPV4_BIT
    rtask,      \* the reconnect task: control point, suspended, attempts read
    stask,      \* the status task: control point, suspended, what it read
    attempts,   \* the retry counter
    failures    \* history: disconnections handled since the last connection

fixed    == <<sta_enable, prompt>>
external == <<driver, lease>>
flags    == <<active, connected, ipBit>>
vars == <<sta_enable, prompt, main, driver, lease, events, step, active, connected, ipBit,
          rtask, stask, attempts, failures>>

Events == {"STA_START", "STA_CONNECTED", "STA_DISCONNECTED", "GOT_IP", "LOST_IP"}

-----------------------------------------------------------------------------
(* What the tasks may do to each other. *)

Runs(task)    == task.pc # "absent" /\ ~task.suspended
Suspended(t)  == [t EXCEPT !.suspended = TRUE]
Resumed(t)    == [t EXCEPT !.suspended = FALSE]

(* The timing assumption, put on whatever would hit the reconnect task in  *)
(* the window before its own vTaskSuspend.                                 *)
OutsideWindow == prompt => ~(rtask.pc = "suspend" /\ ~rtask.suspended)

Room == Len(events) < LoopSize

(* esp_wifi_connect has an effect on a started, unconnected station only.  *)
(* Nobody looks at an error it returns (wifi.c:93, 105), after which no    *)
(* event would follow; the model has a station with a name to connect to,  *)
(* for which the driver takes the call.                                    *)
Connect == driver' = IF driver = "idle" THEN "connecting" ELSE driver

Init ==
    /\ sta_enable \in BOOLEAN /\ prompt \in BOOLEAN
    /\ main = IF sta_enable THEN "create status" ELSE "start"
    /\ driver = "stopped" /\ lease = "none"
    /\ events = <<>> /\ step = "none"
    /\ active = FALSE /\ connected = FALSE /\ ipBit = FALSE
    /\ rtask = [pc |-> "absent", suspended |-> FALSE, read |-> 0]
    /\ stask = [pc |-> "absent", suspended |-> FALSE, read |-> FALSE]
    /\ attempts = 0 /\ failures = 0

-----------------------------------------------------------------------------
(* The main task.  A created task may run on the other core before the     *)
(* next line suspends it.                                                  *)

CreateStatus ==
    /\ main = "create status"
    /\ stask' = [stask EXCEPT !.pc = "read"]
    /\ main' = "suspend status"
    /\ UNCHANGED <<fixed, external, events, step, flags, rtask, attempts, failures>>

SuspendStatus ==
    /\ main = "suspend status"
    /\ stask' = Suspended(stask)
    /\ main' = "create reconnect"
    /\ UNCHANGED <<fixed, external, events, step, flags, rtask, attempts, failures>>

CreateReconnect ==
    /\ main = "create reconnect"
    /\ rtask' = [rtask EXCEPT !.pc = "load"]
    /\ main' = "suspend reconnect"
    /\ UNCHANGED <<fixed, external, events, step, flags, stask, attempts, failures>>

(* Fault: the reconnect task is left running until the first connection. *)
SuspendReconnectNever ==
    /\ main = "suspend reconnect"
    /\ main' = "start"
    /\ UNCHANGED <<fixed, external, events, step, flags, rtask, stask, attempts, failures>>

SuspendReconnect ==
    /\ main = "suspend reconnect"
    /\ OutsideWindow
    /\ rtask' = Suspended(rtask)
    /\ main' = "start"
    /\ UNCHANGED <<fixed, external, events, step, flags, stask, attempts, failures>>

(* A failed creation leaves a NULL handle, and vTaskSuspend(NULL) suspends *)
(* the caller, the main task, which nobody resumes.                        *)
CreationFails ==
    /\ LowMemory
    /\ main \in {"create status", "create reconnect"}
    /\ main' = "suspended"
    /\ UNCHANGED <<fixed, external, events, step, flags, rtask, stask, attempts, failures>>

(* esp_wifi_start: a station that is switched on reports STA_START. *)
StartWifi ==
    /\ main = "start"
    /\ Room
    /\ IF sta_enable
       THEN driver' = "idle" /\ events' = Append(events, "STA_START")
       ELSE UNCHANGED <<driver, events>>
    /\ main' = "started"
    /\ UNCHANGED <<fixed, lease, step, flags, rtask, stask, attempts, failures>>

(* wait_for_ip, for an input or an output that needs the network. *)
WaitForIp ==
    /\ main = "started"
    /\ main' = IF ipBit THEN "running" ELSE "waiting"
    /\ UNCHANGED <<fixed, external, events, step, flags, rtask, stask, attempts, failures>>

Main == CreateStatus \/ SuspendStatus \/ CreateReconnect \/ SuspendReconnect
        \/ CreationFails \/ StartWifi \/ WaitForIp

(* wifi_scan, from the web server, switches an access point to both modes. *)
ScanStartsStation ==
    /\ main \in {"started", "waiting"} /\ driver = "stopped" /\ Room
    /\ driver' = "idle" /\ events' = Append(events, "STA_START")
    /\ UNCHANGED <<fixed, main, lease, step, flags, rtask, stask, attempts, failures>>

-----------------------------------------------------------------------------
(* The driver and the DHCP client (external). *)

Post(e) == Room /\ events' = Append(events, e)

Associates ==
    /\ driver = "connecting" /\ sta_enable /\ OutsideWindow
    /\ driver' = "connected" /\ Post("STA_CONNECTED")
    /\ UNCHANGED <<fixed, main, lease, step, flags, rtask, stask, attempts, failures>>

FailsToAssociate ==
    /\ driver = "connecting" /\ OutsideWindow
    /\ driver' = "idle" /\ Post("STA_DISCONNECTED")
    /\ UNCHANGED <<fixed, main, lease, step, flags, rtask, stask, attempts, failures>>

LinkBreaks ==
    /\ driver = "connected" /\ OutsideWindow
    /\ driver' = "idle" /\ Post("STA_DISCONNECTED")
    /\ lease' = IF lease = "held" THEN "losing" ELSE lease
    /\ UNCHANGED <<fixed, main, step, flags, rtask, stask, attempts, failures>>

(* The DHCP client starts when the event loop has seen the connection.     *)
(* Assumed of driver and DHCP client, whose code is not here: no address   *)
(* is announced for a link that is broken already, so that no GOT_IP is    *)
(* posted behind a STA_DISCONNECTED but by a new link.                     *)
GetsLease ==
    /\ driver = "connected" /\ lease # "held"
    /\ \A i \in 1..Len(events) : events[i] # "STA_CONNECTED"
    /\ lease' = "held" /\ Post("GOT_IP")
    /\ UNCHANGED <<fixed, main, driver, step, flags, rtask, stask, attempts, failures>>

LosesLease ==
    /\ lease = "losing"
    /\ lease' = "none" /\ Post("LOST_IP")
    /\ UNCHANGED <<fixed, main, driver, step, flags, rtask, stask, attempts, failures>>

Driver == Associates \/ FailsToAssociate \/ LinkBreaks \/ GetsLease \/ LosesLease

-----------------------------------------------------------------------------
(* The event handlers: one at a time, each statement that another task can *)
(* observe a step of its own.                                              *)

Dispatch ==
    /\ step = "none" /\ events # <<>>
    /\ step' = Head(events) /\ events' = Tail(events)
    /\ UNCHANGED <<fixed, main, external, flags, rtask, stask, attempts, failures>>

HandleStart ==
    /\ step = "STA_START" /\ step' = "none"
    /\ active' = TRUE
    /\ Connect
    /\ UNCHANGED <<fixed, main, lease, events, connected, ipBit, rtask, stask, attempts, failures>>

HandleConnected ==
    /\ step = "STA_CONNECTED" /\ step' = "reset"
    /\ connected' = TRUE
    /\ UNCHANGED <<fixed, main, external, events, active, ipBit, rtask, stask, attempts, failures>>

(* Fault: the counter is not reset. *)
ConnectedKeepsAttempts ==
    /\ step = "reset" /\ step' = "track"
    /\ failures' = 0
    /\ UNCHANGED <<fixed, main, external, events, flags, rtask, stask, attempts>>

ConnectedResets ==
    /\ step = "reset" /\ step' = "track"
    /\ attempts' = 0 /\ failures' = 0
    /\ UNCHANGED <<fixed, main, external, events, flags, rtask, stask>>

ConnectedTracks ==
    /\ step = "track" /\ step' = "stop reconnecting"
    /\ stask' = Resumed(stask)
    /\ UNCHANGED <<fixed, main, external, events, flags, rtask, attempts, failures>>

ConnectedStopsReconnecting ==
    /\ step = "stop reconnecting" /\ step' = "none"
    /\ OutsideWindow
    /\ rtask' = Suspended(rtask)
    /\ UNCHANGED <<fixed, main, external, events, flags, stask, attempts, failures>>

HandleDisconnected ==
    /\ step = "STA_DISCONNECTED" /\ step' = "untrack"
    /\ connected' = FALSE
    /\ failures' = IF failures < AttemptMod THEN failures + 1 ELSE failures
    /\ UNCHANGED <<fixed, main, external, events, active, ipBit, rtask, stask, attempts>>

DisconnectedUntracks ==
    /\ step = "untrack" /\ step' = "reconnect"
    /\ stask' = IF sta_enable THEN Suspended(stask) ELSE stask
    /\ UNCHANGED <<fixed, main, external, events, flags, rtask, attempts, failures>>

(* Fault: the reconnect task is not woken. *)
DisconnectedGivesUp ==
    /\ step = "reconnect" /\ step' = "clear"
    /\ UNCHANGED <<fixed, main, external, events, flags, rtask, stask, attempts, failures>>

DisconnectedReconnects ==
    /\ step = "reconnect" /\ step' = "clear"
    /\ rtask' = IF sta_enable THEN Resumed(rtask) ELSE rtask
    /\ UNCHANGED <<fixed, main, external, events, flags, stask, attempts, failures>>

(* Fault: the address bit outlives the connection. *)
DisconnectedKeepsBit ==
    /\ step = "clear" /\ step' = "none"
    /\ UNCHANGED <<fixed, main, external, events, flags, rtask, stask, attempts, failures>>

DisconnectedClears ==
    /\ step = "clear" /\ step' = "none"
    /\ ipBit' = FALSE
    /\ UNCHANGED <<fixed, main, external, events, active, connected, rtask, stask, attempts, failures>>

(* Setting the bit releases a waiting main task in the same step. *)
HandleGotIp ==
    /\ step = "GOT_IP" /\ step' = "none"
    /\ ipBit' = TRUE
    /\ main' = IF main = "waiting" THEN "running" ELSE main
    /\ UNCHANGED <<fixed, external, events, active, connected, rtask, stask, attempts, failures>>

HandleLostIp ==
    /\ step = "LOST_IP" /\ step' = "none"
    /\ ipBit' = FALSE
    /\ UNCHANGED <<fixed, main, external, events, active, connected, rtask, stask, attempts, failures>>

EventLoop ==
    \/ Dispatch \/ HandleStart
    \/ HandleConnected \/ ConnectedResets \/ ConnectedTracks \/ ConnectedStopsReconnecting
    \/ HandleDisconnected \/ DisconnectedUntracks \/ DisconnectedReconnects \/ DisconnectedClears
    \/ HandleGotIp \/ HandleLostIp

-----------------------------------------------------------------------------
(* wifi_sta_reconnect_task.  retry_delay reads the counter, stores it      *)
(* incremented, and delays (Retry.tla has the lengths of the delays).      *)

RetryLoad ==
    /\ Runs(rtask) /\ rtask.pc = "load"
    /\ rtask' = [rtask EXCEPT !.pc = "store", !.read = attempts]
    /\ UNCHANGED <<fixed, main, external, events, step, flags, stask, attempts, failures>>

(* Fault: the counter is an int. *)
RetryStoreWide ==
    /\ Runs(rtask) /\ rtask.pc = "store"
    /\ attempts' = rtask.read + 1
    /\ rtask' = [rtask EXCEPT !.pc = "delay"]
    /\ UNCHANGED <<fixed, main, external, events, step, flags, stask, failures>>

RetryStore ==
    /\ Runs(rtask) /\ rtask.pc = "store"
    /\ attempts' = (rtask.read + 1) % AttemptMod
    /\ rtask' = [rtask EXCEPT !.pc = "delay"]
    /\ UNCHANGED <<fixed, main, external, events, step, flags, stask, failures>>

(* The delay is over; a suspension and a resumption end it early. *)
RetryDelayOver ==
    /\ Runs(rtask) /\ rtask.pc = "delay"
    /\ rtask' = [rtask EXCEPT !.pc = "connect"]
    /\ UNCHANGED <<fixed, main, external, events, step, flags, stask, attempts, failures>>

Reconnect ==
    /\ Runs(rtask) /\ rtask.pc = "connect"
    /\ Connect
    /\ rtask' = [rtask EXCEPT !.pc = "suspend"]
    /\ UNCHANGED <<fixed, main, lease, events, step, flags, stask, attempts, failures>>

SuspendSelf ==
    /\ Runs(rtask) /\ rtask.pc = "suspend"
    /\ rtask' = [rtask EXCEPT !.pc = "load", !.suspended = TRUE]
    /\ UNCHANGED <<fixed, main, external, events, step, flags, stask, attempts, failures>>

ReconnectTask == RetryLoad \/ RetryStore \/ RetryDelayOver \/ Reconnect \/ SuspendSelf

(* wifi_sta_status_task: asks the driver, then writes what it was told.    *)
StatusRead ==
    /\ Runs(stask) /\ stask.pc = "read"
    /\ stask' = [stask EXCEPT !.pc = "write", !.read = (driver = "connected")]
    /\ UNCHANGED <<fixed, main, external, events, step, flags, rtask, attempts, failures>>

(* Fault: the task suspends itself after each answer, as the reconnect     *)
(* task does.                                                              *)
StatusWriteOnce ==
    /\ Runs(stask) /\ stask.pc = "write"
    /\ connected' = stask.read
    /\ stask' = [stask EXCEPT !.pc = "read", !.suspended = TRUE]
    /\ UNCHANGED <<fixed, main, external, events, step, active, ipBit, rtask, attempts, failures>>

StatusWrite ==
    /\ Runs(stask) /\ stask.pc = "write"
    /\ connected' = stask.read
    /\ stask' = [stask EXCEPT !.pc = "read"]
    /\ UNCHANGED <<fixed, main, external, events, step, active, ipBit, rtask, attempts, failures>>

StatusTask == StatusRead \/ StatusWrite

-----------------------------------------------------------------------------
Next == Main \/ ScanStartsStation \/ Driver \/ EventLoop \/ ReconnectTask \/ StatusTask

Spec == Init /\ [][Next]_vars

(* Every task that can run does, the DHCP client answers, an attempt to    *)
(* associate comes to an end; the link need not break.                     *)
Fairness ==
    /\ WF_vars(Main) /\ WF_vars(EventLoop)
    /\ WF_vars(ReconnectTask) /\ WF_vars(StatusTask)
    /\ WF_vars(Associates \/ FailsToAssociate)
    /\ WF_vars(GetsLease) /\ WF_vars(LosesLease)

FairSpec == Spec /\ Fairness

(* An access point that is there often enough: not every attempt fails.    *)
ReachableSpec == FairSpec /\ SF_vars(Associates)

-----------------------------------------------------------------------------
(* Safety. *)

TaskPcs == {"absent", "load", "store", "delay", "connect", "suspend"}

StateTypes ==
    /\ main \in {"create status", "suspend status", "create reconnect",
                 "suspend reconnect", "suspended", "start", "started",
                 "waiting", "running"}
    /\ driver \in {"stopped", "idle", "connecting", "connected"}
    /\ lease \in {"none", "held", "losing"}
    /\ step \in Events \cup {"none", "reset", "track", "stop reconnecting",
                            "untrack", "reconnect", "clear"}

QueueTypes == events \in Seq(Events) /\ Len(events) <= LoopSize

FlagTypes ==
    /\ sta_enable \in BOOLEAN /\ prompt \in BOOLEAN
    /\ active \in BOOLEAN /\ connected \in BOOLEAN /\ ipBit \in BOOLEAN

TaskTypes ==
    /\ rtask \in [pc : TaskPcs, suspended : BOOLEAN, read : 0..AttemptMod - 1]
    /\ stask \in [pc : {"absent", "read", "write"}, suspended : BOOLEAN, read : BOOLEAN]
    /\ attempts \in 0..AttemptMod - 1
    /\ failures \in 0..AttemptMod

TypeOK == StateTypes /\ QueueTypes /\ FlagTypes /\ TaskTypes

Quiet == events = <<>> /\ step = "none"

(* Where the station is while nothing can have happened to it yet, and     *)
(* while STA_START is on its way.                                          *)
Started  == main \in {"started", "waiting", "running"}
Starting == step = "STA_START" \/ \E i \in 1..Len(events) : events[i] = "STA_START"

StartInv ==
    /\ driver = "stopped" => events = <<>> /\ step = "none" /\ lease = "none" /\ failures = 0
    /\ ~Started => driver = "stopped"
    /\ ~Started /\ main \notin {"start", "suspended"} => sta_enable
    /\ Started /\ sta_enable => driver # "stopped"
    /\ ~sta_enable => rtask.pc = "absent"
    /\ main = "start" => ~Runs(rtask)
    /\ Starting => /\ driver = "idle" /\ lease = "none" /\ ~Runs(rtask)
                   /\ \/ events = <<"STA_START">> /\ step = "none"
                      \/ events = <<>> /\ step = "STA_START"

(* The reconnect task is on its way to esp_wifi_connect. *)
Reconnecting == Runs(rtask) /\ rtask.pc \in {"load", "store", "delay", "connect"}

OnlyLosses    == \A i \in 1..Len(events) : events[i] = "LOST_IP"
Disconnecting == step \in {"STA_DISCONNECTED", "untrack", "reconnect"}

(* While it is nobody else has connected the station.  So retry_reset      *)
(* never falls between the counter's load and its store, and no live link  *)
(* is asked to connect.                                                    *)
SoleConnector ==
    Reconnecting => driver \in {"stopped", "idle"} /\ step \notin {"reset", "track"}

(* It rests on what is in the queue: behind a disconnection, and once it   *)
(* was handled, come losses of the address only, and the station is idle.  *)
ConnectorInv ==
    /\ Disconnecting => driver = "idle" /\ OnlyLosses
    /\ \A i \in 1..Len(events) :
          events[i] = "STA_DISCONNECTED" =>
              driver = "idle" /\ \A j \in i + 1..Len(events) : events[j] = "LOST_IP"
    /\ Reconnecting => /\ driver \in {"stopped", "idle"} /\ OnlyLosses
                       /\ step \in {"none", "LOST_IP", "clear"}

(* What wait_for_ip waits for is the address: once every event is handled, *)
(* the bit is set exactly while the station holds one, in whatever order   *)
(* links broke and addresses came, expired and came back.                  *)
IpBitFollowsLease == Quiet => (ipBit <=> lease = "held")

(* What the bit will be when the events there are have been handled.       *)
Clearing == {"STA_DISCONNECTED", "LOST_IP"}
Announced ==
    \/ \E i \in 1..Len(events) :
          events[i] = "GOT_IP" /\ \A j \in i + 1..Len(events) : events[j] \notin Clearing
    \/ /\ \A i \in 1..Len(events) : events[i] \notin Clearing
       /\ step = "GOT_IP" \/ (ipBit /\ step \notin Clearing \cup {"untrack", "reconnect", "clear"})

LeaseInv == (lease = "held" => driver = "connected") /\ (Announced <=> lease = "held")

(* The wait before a reconnection grows with the failures since the last   *)
(* connection; the first run, before wifi_init suspends the task, may      *)
(* count one more.                                                         *)
BackoffFollowsFailures == attempts <= failures + 1

CreationOrder ==
    main \in {"create status", "suspend status", "create reconnect"} => rtask.pc = "absent"

BackoffInv ==
    /\ attempts <= failures + 1
    /\ Reconnecting /\ rtask.pc \in {"load", "store"} => attempts <= failures
    /\ step \in {"untrack", "reconnect"} => attempts <= failures
    /\ rtask.pc = "absent" => attempts = 0
    /\ rtask.pc = "store" => rtask.read = attempts /\ (Runs(rtask) \/ rtask.read = 0)

(* Though retry_delay loads and stores the counter in two steps, without a *)
(* lock, and the handler resets it meanwhile from another task, task and   *)
(* handler together make the atomic calls of module RetryAttempts: no      *)
(* reset is lost (retry.c:63 and 82, wifi.c:122).                          *)
C == INSTANCE RetryAttempts

RefinesCounter == C!Calls

(* No wake-up is lost outside the window before vTaskSuspend: a station    *)
(* without a link has its start or its disconnection still to be handled,  *)
(* or a reconnect task that runs towards esp_wifi_connect.  What           *)
(* ReconnectsIfPrompt adds is only that tasks which can run do.  It rests  *)
(* on the window being entered and left with no link to wait for.          *)
Pending(e) == step = e \/ \E i \in 1..Len(events) : events[i] = e

WindowInv ==
    /\ prompt /\ rtask.pc = "suspend" => ~rtask.suspended /\ driver \in {"stopped", "connecting"}
    /\ sta_enable /\ (Started \/ main \in {"suspend reconnect", "start"}) => rtask.pc # "absent"

NeverStranded ==
    prompt /\ sta_enable /\ driver = "idle" =>
        Starting \/ Pending("STA_DISCONNECTED") \/ step \in {"untrack", "reconnect"} \/ Reconnecting

-----------------------------------------------------------------------------
(* Liveness. *)

(* "Reconnect when disconnected" (wifi.c:441): a station that lost its     *)
(* link, or never got it, tries again.                                     *)
ReconnectsForever ==
    sta_enable /\ active /\ driver = "idle" ~> driver \in {"connecting", "connected"}

(* It does if no wake-up falls into the window before vTaskSuspend. *)
ReconnectsIfPrompt ==
    prompt /\ sta_enable /\ active /\ driver = "idle"
        ~> driver \in {"connecting", "connected"}

(* With an access point in reach, and links that last until the address    *)
(* has come, the main task gets past wait_for_ip.                          *)
MainProceeds ==
    (/\ prompt /\ sta_enable
     /\ <>[][LinkBreaks => lease = "held"]_vars) => <>(main \in {"running", "suspended"})

(* The status page comes to say "connected" while the link stays up, even  *)
(* if the status task was suspended with an old answer in its hands.       *)
StatusCatchesUp == <>[](driver = "connected") => <>[]connected
=============================================================================
