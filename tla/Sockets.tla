------------------------------ MODULE Sockets ------------------------------
(***************************************************************************)
(* The tasks of components/protocol that hold a socket: the TCP client     *)
(* (TCP.cpp), the UDP input (UDP.cpp), the TCP server (TCP_Server.cpp) and *)
(* the UDP server (UDP_Server.cpp) of the simulation, with the sessions of *)
(* the web server, which all take their sockets from the one pool of lwip. *)
(*                                                                         *)
(* lwip is external: socket and accept take the lowest free number, fail   *)
(* when there is none and may fail for want of memory, and a number closed *)
(* is given out again.                                                     *)
(***************************************************************************)
EXTENDS Naturals, FiniteSets

CONSTANTS Pool, MaxWeb  \* sockets there are, and sessions the web server takes

ASSUME SocketsAssumption == Pool \in Nat \ {0} /\ MaxWeb \in Nat

Fd     == 1..Pool
None   == 0             \* -1, and the 0 a static starts with: no socket of lwip
Protos == {"uart", "ble", "can", "udp", "tcp"}
Ends   == [input : Protos, output : Protos]
Kinds  == {"free", "client", "datagram", "listen", "accepted", "broadcast", "web"}

VARIABLES
    board,      \* board_data.input and .output, fixed per behaviour
    used,       \* per socket, what it is open as
    client,     \* TCP_Task: its next step and sock
    peer,       \* the connection of the client's socket, as recvfrom sees it
    datagram,   \* UDP_Task: its next step and sock
    tserver,    \* TCP_Server_Task: next step, listen_sock, sock, connected
    userver,    \* UDP_Server_Task: next step, sock (nothing reads its switch)
    crashed     \* what aborted

sockets == <<board, used, client, peer, datagram, tserver, userver, crashed>>

Uses(proto) == proto \in {board.input, board.output}

(* What common_protocol_init leaves, with the tasks it could create; it is *)
(* one boot: an abort ends the behaviour, and nothing here is kept.        *)
SocketsInit ==
    /\ board \in Ends
    /\ used = [f \in Fd |-> "free"]
    /\ \E pc \in {"absent", "socket"} :
          client = [pc |-> pc, sock |-> None] /\ (pc = "socket" => Uses("tcp"))
    /\ peer = "none"
    /\ \E pc \in {"absent", "socket"} :
          datagram = [pc |-> pc, sock |-> None] /\ (pc = "socket" => Uses("udp"))
    /\ tserver = [pc |-> "absent", listen |-> None, sock |-> None, connected |-> FALSE]
    /\ userver = [pc |-> "absent", sock |-> None]
    /\ crashed = "none"

-----------------------------------------------------------------------------
(* The pool. *)

Free == {f \in Fd : used[f] = "free"}

(* socket() or accept(): f is the number, or None when it fails. *)
Opens(kind, f) ==
    \/ f = None /\ UNCHANGED used
    \/ /\ f \in Free /\ \A g \in Free : f <= g
       /\ used' = [used EXCEPT ![f] = kind]

Closed(f) == [g \in Fd |-> IF g = f THEN "free" ELSE used[g]]

Up == crashed = "none"

-----------------------------------------------------------------------------
(* The TCP client.  Neither a failed socket() nor a failed connect() leaves *)
(* the loop: recvfrom then reports the error.                              *)

ClientSocket ==
    /\ Up /\ client.pc = "socket"
    /\ \E f \in Fd \cup {None} :
          Opens("client", f) /\ client' = [pc |-> "connect", sock |-> f]
    /\ UNCHANGED <<board, peer, datagram, tserver, userver, crashed>>

ClientConnect ==
    /\ Up /\ client.pc = "connect"
    /\ client' = [client EXCEPT !.pc = "recv"]
    /\ peer' \in IF client.sock = None THEN {"none"} ELSE {"none", "up"}
    /\ UNCHANGED <<board, used, datagram, tserver, userver, crashed>>

(* Fault: an error of recvfrom is taken like an empty packet. *)
ClientErrorContinues ==
    /\ Up /\ client.pc = "recv" /\ peer \in {"none", "reset"}
    /\ UNCHANGED sockets

(* An error leaves the inner loop.  "silent" is a connection closed in     *)
(* order, of which recvfrom returns 0 at once and the task continues, or a *)
(* peer that vanished, of which it never returns.                          *)
ClientError ==
    /\ Up /\ client.pc = "recv" /\ peer \in {"none", "reset"}
    /\ client' = [client EXCEPT !.pc = "close"]
    /\ UNCHANGED <<board, used, peer, datagram, tserver, userver, crashed>>

(* Fault: the socket of a failed connection is not closed. *)
ClientCloseNothing ==
    /\ Up /\ client.pc = "close"
    /\ client' = [client EXCEPT !.pc = "socket"] /\ peer' = "none"
    /\ UNCHANGED <<board, used, datagram, tserver, userver, crashed>>

ClientClose ==
    /\ Up /\ client.pc = "close"
    /\ used' = Closed(client.sock)
    /\ client' = [client EXCEPT !.pc = "socket"] /\ peer' = "none"
    /\ UNCHANGED <<board, datagram, tserver, userver, crashed>>

(* The network. *)
PeerLeaves ==
    /\ Up /\ peer = "up"
    /\ peer' \in {"silent", "reset"}
    /\ UNCHANGED <<board, used, client, datagram, tserver, userver, crashed>>

-----------------------------------------------------------------------------
(* The UDP input.  A failed socket() or bind() returns from the task       *)
(* function, which aborts; an error of recvfrom ends the task for good.    *)

DatagramSocket ==
    /\ Up /\ datagram.pc = "socket"
    /\ \E f \in Fd \cup {None} :
          /\ Opens("datagram", f)
          /\ datagram' = [pc |-> "bind", sock |-> f]
          /\ crashed' = IF f = None THEN "datagram" ELSE crashed
    /\ UNCHANGED <<board, client, peer, tserver, userver>>

DatagramBind ==
    /\ Up /\ datagram.pc = "bind"
    /\ \/ datagram' = [datagram EXCEPT !.pc = "recv"] /\ UNCHANGED crashed
       \/ crashed' = "datagram" /\ UNCHANGED datagram
    /\ UNCHANGED <<board, used, client, peer, tserver, userver>>

DatagramError ==
    /\ Up /\ datagram.pc = "recv"
    /\ used' = Closed(datagram.sock)
    /\ datagram' = [datagram EXCEPT !.pc = "ended"]
    /\ UNCHANGED <<board, client, peer, tserver, userver, crashed>>

-----------------------------------------------------------------------------
(* The TCP server.  A second client is accepted while the first is still   *)
(* open; the first one's socket is then forgotten, never closed.           *)

ServerSocket ==
    /\ Up /\ tserver.pc = "socket"
    /\ \E f \in Fd \cup {None} :
          Opens("listen", f) /\ tserver' = [tserver EXCEPT !.pc = "bind", !.listen = f]
    /\ UNCHANGED <<board, client, peer, datagram, userver, crashed>>

(* bind() and listen(). *)
ServerBind ==
    /\ Up /\ tserver.pc = "bind"
    /\ \E pc \in {"close", "accept"} :
          (pc = "accept" => tserver.listen # None) /\ tserver' = [tserver EXCEPT !.pc = pc]
    /\ UNCHANGED <<board, used, client, peer, datagram, userver, crashed>>

ServerAccept ==
    /\ Up /\ tserver.pc = "accept"
    /\ \E f \in Fd \cup {None} :
          /\ Opens("accepted", f)
          /\ tserver' = IF f = None THEN [tserver EXCEPT !.pc = "close", !.sock = f]
                        ELSE [tserver EXCEPT !.sock = f, !.connected = TRUE]
    /\ UNCHANGED <<board, client, peer, datagram, userver, crashed>>

(* Fault: the task ends after an error. *)
ServerCloseEnds ==
    /\ Up /\ tserver.pc = "close"
    /\ used' = Closed(tserver.listen)
    /\ tserver' = [tserver EXCEPT !.pc = "ended"]
    /\ UNCHANGED <<board, client, peer, datagram, userver, crashed>>

ServerClose ==
    /\ Up /\ tserver.pc = "close"
    /\ used' = Closed(tserver.listen)
    /\ tserver' = [tserver EXCEPT !.pc = "socket"]
    /\ UNCHANGED <<board, client, peer, datagram, userver, crashed>>

-----------------------------------------------------------------------------
(* The UDP server.  When it ends, sock keeps the number and the handle     *)
(* stays set, so that no later start creates the task again.               *)

BroadcastSocket ==
    /\ Up /\ userver.pc = "socket"
    /\ \E f \in Fd \cup {None} :
          /\ Opens("broadcast", f)
          /\ userver' = [pc |-> IF f = None THEN "ended" ELSE "option", sock |-> f]
    /\ UNCHANGED <<board, client, peer, datagram, tserver, crashed>>

(* setsockopt() allows the broadcast ... *)
BroadcastOption ==
    /\ Up /\ userver.pc = "option"
    /\ userver' = [userver EXCEPT !.pc = "send"]
    /\ UNCHANGED <<board, used, client, peer, datagram, tserver, crashed>>

(* ... or fails; and so may sendto(), later. *)
BroadcastError ==
    /\ Up /\ userver.pc \in {"option", "send"}
    /\ used' = Closed(userver.sock)
    /\ userver' = [userver EXCEPT !.pc = "ended"]
    /\ UNCHANGED <<board, client, peer, datagram, tserver, crashed>>

-----------------------------------------------------------------------------
(* What the simulation calls. *)

(* Fault: a server that exists is not switched on again. *)
ServerOnOnce(server) ==
    IF server.pc # "absent" THEN {server}
    ELSE {[server EXCEPT !.connected = TRUE, !.pc = pc] : pc \in {"absent", "socket"}}

(* TCP_Server_Init and UDP_Server_Init, the server after the call.  The    *)
(* switch of the former is set even if there is no memory for the task;    *)
(* then a later start tries again.                                         *)
ServerOn(server) ==
    LET on == [server EXCEPT !.connected = TRUE] IN
    {on} \cup IF server.pc = "absent" THEN {[on EXCEPT !.pc = "socket"]} ELSE {}
BroadcastOn(server) ==
    {server} \cup IF server.pc = "absent" THEN {[server EXCEPT !.pc = "socket"]} ELSE {}

(* TCP_Server_Destroy; what UDP_Server_Destroy clears is not read. *)
ServerOff(server) == [server EXCEPT !.connected = FALSE]

-----------------------------------------------------------------------------
(* The sessions of the web server, whose task also runs the handlers. *)

Sessions == {f \in Fd : used[f] = "web"}

WebAccept ==
    /\ Up /\ Cardinality(Sessions) < MaxWeb /\ Free # {}
    /\ \E f \in Fd : Opens("web", f)
    /\ UNCHANGED <<board, client, peer, datagram, tserver, userver, crashed>>

WebClose ==
    /\ Up
    /\ \E f \in Sessions : used' = Closed(f)
    /\ UNCHANGED <<board, client, peer, datagram, tserver, userver, crashed>>

SocketsNext ==
    \/ ClientSocket \/ ClientConnect \/ ClientError \/ ClientClose \/ PeerLeaves
    \/ DatagramSocket \/ DatagramBind \/ DatagramError
    \/ ServerSocket \/ ServerBind \/ ServerAccept \/ ServerClose
    \/ BroadcastSocket \/ BroadcastOption \/ BroadcastError

(* The tasks run; nothing is assumed of peers, clients and errors.         *)
SocketsFairness ==
    /\ WF_sockets(ClientSocket) /\ WF_sockets(ClientConnect)
    /\ WF_sockets(ClientError) /\ WF_sockets(ClientClose)
    /\ WF_sockets(ServerSocket) /\ WF_sockets(ServerBind) /\ WF_sockets(ServerClose)

-----------------------------------------------------------------------------
(* Properties. *)

SocketsTypeOK ==
    /\ board \in Ends /\ used \in [Fd -> Kinds]
    /\ client \in [pc : {"absent", "socket", "connect", "recv", "close"}, sock : Fd \cup {None}]
    /\ peer \in {"none", "up", "silent", "reset"}
    /\ datagram \in [pc : {"absent", "socket", "bind", "recv", "ended"}, sock : Fd \cup {None}]
    /\ tserver \in [pc : {"absent", "socket", "bind", "accept", "close"},
                    listen : Fd \cup {None}, sock : Fd \cup {None}, connected : BOOLEAN]
    /\ userver \in [pc : {"absent", "socket", "option", "send", "ended"}, sock : Fd \cup {None}]
    /\ crashed \in {"none", "datagram", "ble", "again"}

(* The sockets a task holds at its present step, by kind. *)
Held(kind) ==
    CASE kind = "client"    -> IF client.pc \in {"connect", "recv", "close"} THEN {client.sock} ELSE {}
      [] kind = "datagram"  -> IF datagram.pc \in {"bind", "recv"} THEN {datagram.sock} ELSE {}
      [] kind = "listen"    -> IF tserver.pc \in {"bind", "accept", "close"} THEN {tserver.listen} ELSE {}
      [] kind = "broadcast" -> IF userver.pc \in {"option", "send"} THEN {userver.sock} ELSE {}

(* No task loses a socket and none uses another's: whatever errors, closes *)
(* and reuses of numbers there were, the open sockets of a kind are those  *)
(* its task holds.  Only the connections accept() returned are left open   *)
(* (TCP_Server.cpp:180), and of those the server's sock is the last.       *)
SocketsAreTheirs ==
    /\ \A kind \in {"client", "datagram", "listen", "broadcast"} :
          {f \in Fd : used[f] = kind} = Held(kind) \ {None}
    /\ tserver.sock # None => used[tserver.sock] = "accepted"

(* A connection the peer reset is given up and tried again (TCP.cpp:108).  *)
ClientRetries == client.pc = "recv" /\ peer = "reset" ~> client.pc = "connect" \/ ~Up
=============================================================================
