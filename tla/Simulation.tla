----------------------------- MODULE Simulation -----------------------------
(***************************************************************************)
(* The simulation of components/protocol/simulation.cpp: the request that  *)
(* starts and stops it (web_server.c), the tasks it creates, the server it *)
(* switches on, and the bridge's own send task, which is silent meanwhile  *)
(* and shares the UART with it.                                            *)
(*                                                                         *)
(* External: the write mutex of the UART driver, which a deleted task      *)
(* never gives back, and NimBLE, which refuses to be set up a second time  *)
(* while it advertises or has a connection.                                *)
(***************************************************************************)
EXTENDS Sockets

CONSTANTS
    MaxStarts,      \* bound: starts after a boot
    Boards          \* bound: inputs, outputs and the protocols the pages choose

ASSUME SimulationAssumption == MaxStarts \in Nat /\ Boards \subseteq Protos \X Protos \X SUBSET Protos

Tasks  == 1..MaxStarts
Bridge == MaxStarts + 1 \* the send task, as an owner of the mutex

VARIABLES
    choices,    \* the protocols the pages choose, fixed per behaviour
    proto,      \* simulation_info.protocol
    start,      \* simulation_info.simulation_start
    sender,     \* simulation_connection.send_u8, by what it sends over
    handle,     \* xSimulationSendHandle, None for NULL
    tasks,      \* per start, the simulation_send_task it created
    lock,       \* the owner of the UART's write mutex
    bridge,     \* common_send_task, when input and output are the UART
    http,       \* the next step of the request handler
    ble,        \* NimBLE has been set up
    starts,     \* bound: starts so far
    twice,      \* history: started while the handle named a task
    astray      \* history: simulation data went into a foreign socket

simulation == <<choices, proto, start, sender, handle, tasks, lock, bridge, http, ble, starts, twice, astray>>
vars == <<board, used, client, peer, datagram, tserver, userver, crashed, choices, proto, start, sender,
          handle, tasks, lock, bridge, http, ble, starts, twice, astray>>

Init ==
    /\ SocketsInit /\ choices \in SUBSET Protos
    /\ <<board.input, board.output, choices>> \in Boards
    /\ proto = "ble" /\ start = FALSE /\ sender = "none"
    /\ handle = None /\ tasks = [t \in Tasks |-> "none"]
    /\ lock = None /\ bridge = "idle" /\ http = "idle"
    /\ ble = Uses("ble")
    /\ starts = 0 /\ twice = FALSE /\ astray = FALSE

-----------------------------------------------------------------------------
(* The request.  The page posts the protocol and the switch together; more *)
(* than one page may be open, and a page that is loaded again shows "off". *)

Post(option, on) ==
    /\ Up /\ option \in choices /\ http = "idle" /\ Sessions # {}
    /\ on => starts < MaxStarts
    /\ proto' = option /\ start' = on
    /\ starts' = IF on THEN starts + 1 ELSE starts
    /\ http' = IF on THEN "start" ELSE "stop"
    /\ UNCHANGED <<sockets, choices, sender, handle, tasks, lock, bridge, ble, twice, astray>>

(* Bluetooth_init asserts that the services could be added and the name    *)
(* set, for which the memory may be short the first time too.              *)
BluetoothInit ==
    /\ ble' = TRUE
    /\ crashed' \in {"none", IF ble THEN "again" ELSE "ble"}

StartUnless(ownsBluetooth) ==
    /\ Up /\ http = "start" /\ http' = "create"
    /\ sender' = IF proto = "can" THEN sender ELSE proto
    /\ IF proto = "ble" /\ ~ownsBluetooth THEN BluetoothInit ELSE UNCHANGED <<ble, crashed>>
    /\ userver' \in IF proto = "udp" /\ ~Uses("udp") THEN BroadcastOn(userver) ELSE {userver}
    /\ tserver' \in IF proto = "tcp" /\ ~Uses("tcp") THEN ServerOn(tserver) ELSE {tserver}
    /\ UNCHANGED <<board, used, client, peer, datagram, choices, proto, start, handle, tasks, lock, bridge,
                   starts, twice, astray>>

(* Fault: only the input is asked whether it is Bluetooth. *)
StartAsksInput == StartUnless(board.input = "ble")

(* simulation_start up to its last line: for CAN send_u8 stays what it was. *)
Start == StartUnless(Uses("ble"))

(* Its last line, xTaskCreate, which overwrites the handle unless it fails. *)
Create ==
    /\ Up /\ http = "create" /\ http' = "idle"
    /\ \/ /\ handle' = starts /\ tasks' = [tasks EXCEPT ![starts] = "run"]
          /\ twice' = (twice \/ handle # None)
       \/ UNCHANGED <<handle, tasks, twice>>
    /\ UNCHANGED <<sockets, choices, proto, start, sender, lock, bridge, ble, starts, astray>>

StopWith(state) ==
    /\ Up /\ http = "stop"
    /\ IF handle # None
       THEN /\ tasks' = [tasks EXCEPT ![handle] = state]
            /\ handle' = None /\ http' = "destroy"
       ELSE http' = "idle" /\ UNCHANGED <<tasks, handle>>
    /\ UNCHANGED <<sockets, choices, proto, start, sender, lock, bridge, ble, starts, twice, astray>>

(* Fault: the task is suspended, not deleted. *)
StopSuspends == StopWith("suspended")

(* Fault: the task is left running. *)
StopLeaves == StopWith(IF handle = None THEN "none" ELSE tasks[handle])

(* simulation_stop deletes the task wherever it is, in a write too ... *)
Stop == StopWith("deleted")

(* Fault: the lines commented out in TCP_Server_Destroy are put back. *)
DestroyCloses ==
    /\ Up /\ http = "destroy" /\ http' = "idle"
    /\ tserver' = IF proto = "tcp" THEN ServerOff(tserver) ELSE tserver
    /\ used' = IF proto = "tcp" THEN Closed(tserver.sock) ELSE used
    /\ UNCHANGED <<board, client, peer, datagram, userver, crashed, choices, proto, start, sender, handle,
                   tasks, lock, bridge, ble, starts, twice, astray>>

(* ... and switches off the TCP server if that is the protocol chosen now. *)
Destroy ==
    /\ Up /\ http = "destroy" /\ http' = "idle"
    /\ tserver' = IF proto = "tcp" THEN ServerOff(tserver) ELSE tserver
    /\ UNCHANGED <<board, used, client, peer, datagram, userver, crashed, choices, proto, start, sender,
                   handle, tasks, lock, bridge, ble, starts, twice, astray>>

-----------------------------------------------------------------------------
(* A simulation task sends over whatever send_u8 is at that moment. *)

Foreign(f, kind) == f # None /\ used[f] \notin {"free", kind}

(* TCP_Server_Send heeds the switch, UDP_Server_Send has none. *)
SimulationSend(t) ==
    /\ Up /\ tasks[t] = "run"
    /\ astray' = \/ astray
                 \/ sender = "tcp" /\ tserver.connected /\ Foreign(tserver.sock, "accepted")
                 \/ sender = "udp" /\ Foreign(userver.sock, "broadcast")
    /\ UNCHANGED <<sockets, choices, proto, start, sender, handle, tasks, lock, bridge, http, ble, starts, twice>>

(* simulation_uart_send; the driver is installed if the input is the UART. *)
SimulationUart(t) ==
    /\ Up /\ tasks[t] = "run" /\ sender = "uart" /\ board.input = "uart"
    /\ tasks' = [tasks EXCEPT ![t] = "take"]
    /\ UNCHANGED <<sockets, choices, proto, start, sender, handle, lock, bridge, http, ble, starts,
                   twice, astray>>

SimulationTake(t) ==
    /\ Up /\ tasks[t] = "take" /\ lock = None
    /\ lock' = t /\ tasks' = [tasks EXCEPT ![t] = "write"]
    /\ UNCHANGED <<sockets, choices, proto, start, sender, handle, bridge, http, ble, starts, twice,
                   astray>>

SimulationWritten(t) ==
    /\ Up /\ tasks[t] = "write"
    /\ lock' = None /\ tasks' = [tasks EXCEPT ![t] = "run"]
    /\ UNCHANGED <<sockets, choices, proto, start, sender, handle, bridge, http, ble, starts, twice,
                   astray>>

(* The bridge: an item received during a simulation is dropped. *)
BridgeReceive ==
    /\ Up /\ board = [input |-> "uart", output |-> "uart"]
    /\ bridge = "idle" /\ ~start /\ bridge' = "take"
    /\ UNCHANGED <<sockets, choices, proto, start, sender, handle, tasks, lock, http, ble, starts,
                   twice, astray>>

BridgeTake ==
    /\ Up /\ bridge = "take" /\ lock = None
    /\ lock' = Bridge /\ bridge' = "write"
    /\ UNCHANGED <<sockets, choices, proto, start, sender, handle, tasks, http, ble, starts, twice,
                   astray>>

BridgeWritten ==
    /\ Up /\ bridge = "write"
    /\ lock' = None /\ bridge' = "idle"
    /\ UNCHANGED <<sockets, choices, proto, start, sender, handle, tasks, http, ble, starts, twice,
                   astray>>

-----------------------------------------------------------------------------
Next ==
    \/ SocketsNext /\ UNCHANGED simulation
    \/ http = "idle" /\ (WebAccept \/ WebClose) /\ UNCHANGED simulation
    \/ \E option \in Protos, on \in BOOLEAN : Post(option, on)
    \/ Start \/ Create \/ Stop \/ Destroy
    \/ \E t \in Tasks : \/ SimulationSend(t) \/ SimulationUart(t)
                        \/ SimulationTake(t) \/ SimulationWritten(t)
    \/ BridgeReceive \/ BridgeTake \/ BridgeWritten

(* The mutex wakes the waiting task of the highest priority, so the bridge *)
(* gets it if it is given back again and again.                            *)
Fairness ==
    /\ SocketsFairness
    /\ WF_vars(Start) /\ WF_vars(Create) /\ WF_vars(Stop) /\ WF_vars(Destroy)
    /\ \A t \in Tasks : WF_vars(SimulationTake(t)) /\ WF_vars(SimulationWritten(t))
    /\ SF_vars(BridgeTake) /\ WF_vars(BridgeWritten)

Spec     == Init /\ [][Next]_vars
FairSpec == Spec /\ Fairness

-----------------------------------------------------------------------------
(* Properties. *)

RequestTypes ==
    /\ choices \subseteq Protos /\ proto \in Protos /\ start \in BOOLEAN /\ sender \in Protos \cup {"none"}
    /\ http \in {"idle", "start", "create", "stop", "destroy"}
    /\ ble \in BOOLEAN /\ starts \in 0..MaxStarts

TaskTypes ==
    /\ handle \in Tasks \cup {None}
    /\ tasks \in [Tasks -> {"none", "run", "take", "write", "deleted"}]
    /\ lock \in 0..Bridge /\ bridge \in {"idle", "take", "write"}
    /\ twice \in BOOLEAN /\ astray \in BOOLEAN

TypeOK == SocketsTypeOK /\ RequestTypes /\ TaskTypes

Live == {t \in Tasks : tasks[t] \in {"run", "take", "write"}}

(* Unless a second start overwrote the handle (simulation.cpp:115), the    *)
(* handle names the only task there is, and a stop ends all sending; and   *)
(* between requests the bridge is silenced exactly while a stop could do   *)
(* so, unless the task could not be created: then it stays silent for a    *)
(* simulation there is not (web_server.c:787).                             *)
SoleSender ==
    /\ ~twice => Live = {handle} \ {None}
    /\ http = "idle" => (handle # None => start) /\ (start /\ handle = None => tasks[starts] = "none")

(* Bluetooth is set up once, at boot for a board with Bluetooth at either  *)
(* end or else by a start (simulation.cpp:88): it is set up again, where   *)
(* the device may abort, only by a second start, on a board without.       *)
BluetoothSetUpOnce == crashed = "again" => starts > 1 /\ ~Uses("ble")

(* Between requests a simulation that has a task sends over the protocol   *)
(* chosen last, whatever starts and stops there were before, CAN apart     *)
(* (simulation.cpp:93).  Over TCP its server is switched on, and the data  *)
(* goes to the client accepted last, if it could be accepted: the earlier  *)
(* ones get none of it (TCP_Server.cpp:180).                               *)
SenderIsHeard ==
    http = "idle" /\ handle # None /\ proto # "can" =>
        /\ sender = proto
        /\ proto = "tcp" /\ ~Uses("tcp") =>
              tserver.connected /\ (tserver.sock # None => used[tserver.sock] = "accepted")

(* Simulation data goes into the socket of somebody else only once the UDP *)
(* server has ended and its number was given out again (UDP_Server.cpp:169). *)
NothingStrays == astray => userver.pc = "ended"

(* Why they hold: what a request in progress has done already, ...         *)
StartedInv ==
    http = "create" /\ proto # "can" =>
        sender = proto /\ (proto = "tcp" /\ ~Uses("tcp") => tserver.connected)

RequestInv ==
    /\ start => starts \in Tasks
    /\ handle <= starts
    /\ http \in {"start", "create"} => start
    /\ http \in {"stop", "destroy"} => ~start
    /\ http = "destroy" => handle = None
    /\ \A t \in Tasks :
          t > starts \/ (t = starts /\ http \in {"start", "create"}) => tasks[t] = "none"
    /\ StartedInv

(* ... NimBLE is set up for a simulation in the course of a start, ...     *)
BleInv == ble /\ ~Uses("ble") => starts > 1 \/ (starts = 1 /\ http # "start")

(* ... and the UDP server has no socket before it opens one.               *)
BroadcastInv == userver.pc \in {"absent", "socket"} => userver.sock = None

(* A stop in the middle of a write takes the mutex with it. *)
LockLost == lock \in Tasks /\ tasks[lock] = "deleted"

(* One task writes to the UART at a time, left-over simulation tasks       *)
(* included, and the mutex is held by the one that does or is lost.        *)
OneWriter ==
    /\ lock = Bridge <=> bridge = "write"
    /\ \A t \in Tasks : tasks[t] = "write" => lock = t
    /\ lock \in Tasks => tasks[lock] = "write" \/ LockLost

(* A mutex that is lost stays so: no later stop, start or end of a write   *)
(* gives it back, and the bridge never writes again (simulation.cpp:124).  *)
LostForGood == [][LockLost => LockLost' /\ bridge' # "write"]_vars

(* Otherwise the bridge always gets to write. *)
BridgeWrites == bridge = "take" ~> bridge = "write" \/ LockLost \/ ~Up
=============================================================================
