-------------------------- MODULE SimulationProofs --------------------------
(***************************************************************************)
(* Proofs about Simulation.tla and the sockets under it: the variables     *)
(* keep their types, every socket is its task's, who sends, to whom, in a  *)
(* simulation, and who writes to the UART; for any pool, any boards and    *)
(* any number of starts.                                                   *)
(***************************************************************************)
EXTENDS Simulation, TLAPS

(* SocketsAreTheirs, socket by socket. *)
ClientOwn    == \A f \in Fd : used[f] = "client"    <=> client.pc \in {"connect", "recv", "close"} /\ f = client.sock
DatagramOwn  == \A f \in Fd : used[f] = "datagram"  <=> datagram.pc \in {"bind", "recv"} /\ f = datagram.sock
ListenOwn    == \A f \in Fd : used[f] = "listen"    <=> tserver.pc \in {"bind", "accept", "close"} /\ f = tserver.listen
BroadcastOwn == \A f \in Fd : used[f] = "broadcast" <=> userver.pc \in {"option", "send"} /\ f = userver.sock
AcceptedOwn  == tserver.sock # None => used[tserver.sock] = "accepted"

Owned == ClientOwn /\ DatagramOwn /\ ListenOwn /\ BroadcastOwn /\ AcceptedOwn

LEMMA Numbers == None \notin Fd /\ Fd \subseteq Nat
BY SocketsAssumption DEF None, Fd

LEMMA OwnedIsTheirs == ASSUME SocketsTypeOK, Owned PROVE SocketsAreTheirs
<1>1. {f \in Fd : used[f] = "client"} = Held("client") \ {None}
  BY Numbers DEF SocketsTypeOK, Owned, ClientOwn, Held
<1>2. {f \in Fd : used[f] = "datagram"} = Held("datagram") \ {None}
  BY Numbers DEF SocketsTypeOK, Owned, DatagramOwn, Held
<1>3. {f \in Fd : used[f] = "listen"} = Held("listen") \ {None}
  BY Numbers DEF SocketsTypeOK, Owned, ListenOwn, Held
<1>4. {f \in Fd : used[f] = "broadcast"} = Held("broadcast") \ {None}
  BY Numbers DEF SocketsTypeOK, Owned, BroadcastOwn, Held
<1> QED
  BY <1>1, <1>2, <1>3, <1>4 DEF SocketsAreTheirs, Owned, AcceptedOwn

-----------------------------------------------------------------------------
(* The pool. *)

(* What opening a socket leaves of the others, and of what it may be.      *)
LEMMA Opened ==
    ASSUME SocketsTypeOK, NEW kind \in Kinds, NEW f, Opens(kind, f)
    PROVE  /\ f \in Fd \cup {None} /\ used' \in [Fd -> Kinds]
           /\ f # None => used[f] = "free" /\ used'[f] = kind
           /\ \A g \in Fd \ {f} : used'[g] = used[g]
<1>0. used \in [Fd -> Kinds]
  BY DEF SocketsTypeOK
<1>1. CASE f = None /\ UNCHANGED used
  BY <1>0, <1>1
<1>2. CASE f \in Free /\ used' = [used EXCEPT ![f] = kind]
  BY <1>0, <1>2, Numbers DEF Free
<1> QED
  BY <1>1, <1>2 DEF Opens

LEMMA ClosedOne ==
    ASSUME SocketsTypeOK, NEW f \in Fd \cup {None}, used' = Closed(f)
    PROVE  /\ used' \in [Fd -> Kinds]
           /\ f # None => used'[f] = "free"
           /\ \A g \in Fd \ {f} : used'[g] = used[g]
BY Numbers DEF SocketsTypeOK, Closed, Kinds

LEMMA KindsThereAre == {"free", "client", "datagram", "listen", "accepted", "broadcast", "web"} = Kinds
BY DEF Kinds

LEMMA ClientStep ==
    ASSUME SocketsTypeOK, Owned, ClientSocket \/ ClientConnect \/ ClientError \/ ClientClose \/ PeerLeaves
    PROVE  SocketsTypeOK' /\ Owned'
<1> USE DEF Owned
<1>1. CASE ClientSocket
  <2>1. PICK f \in Fd \cup {None} : Opens("client", f) /\ client' = [pc |-> "connect", sock |-> f]
    BY <1>1 DEF ClientSocket
  <2>2. client.pc = "socket" /\ UNCHANGED <<board, peer, datagram, tserver, userver, crashed>>
    BY <1>1 DEF ClientSocket
  <2>3. /\ used' \in [Fd -> Kinds]
        /\ f # None => used[f] = "free" /\ used'[f] = "client"
        /\ \A g \in Fd \ {f} : used'[g] = used[g]
    BY <2>1, Opened, KindsThereAre
  <2>4. SocketsTypeOK'
    BY <2>1, <2>2, <2>3 DEF SocketsTypeOK
  <2>5. ClientOwn' /\ DatagramOwn' /\ ListenOwn' /\ BroadcastOwn'
    BY <2>1, <2>2, <2>3, Numbers DEF ClientOwn, DatagramOwn, ListenOwn, BroadcastOwn
  <2>6. AcceptedOwn'
    BY <2>1, <2>2, <2>3, Numbers DEF AcceptedOwn, SocketsTypeOK
  <2> QED
    BY <2>4, <2>5, <2>6
<1>2. CASE ClientConnect
  <2>1. /\ client.pc = "connect" /\ client' = [client EXCEPT !.pc = "recv"] /\ peer' \in {"none", "up"}
        /\ UNCHANGED <<board, used, datagram, tserver, userver, crashed>>
    BY <1>2 DEF ClientConnect
  <2>2. client'.pc = "recv" /\ client'.sock = client.sock /\ SocketsTypeOK'
    BY <2>1 DEF SocketsTypeOK
  <2> QED
    BY <2>1, <2>2 DEF ClientOwn, DatagramOwn, ListenOwn, BroadcastOwn, AcceptedOwn
<1>3. CASE ClientError
  <2>1. /\ client.pc = "recv" /\ client' = [client EXCEPT !.pc = "close"]
        /\ UNCHANGED <<board, used, peer, datagram, tserver, userver, crashed>>
    BY <1>3 DEF ClientError
  <2>2. client'.pc = "close" /\ client'.sock = client.sock /\ SocketsTypeOK'
    BY <2>1 DEF SocketsTypeOK
  <2> QED
    BY <2>1, <2>2 DEF ClientOwn, DatagramOwn, ListenOwn, BroadcastOwn, AcceptedOwn
<1>4. CASE ClientClose
  <2>1. /\ client.pc = "close" /\ used' = Closed(client.sock)
        /\ client' = [client EXCEPT !.pc = "socket"] /\ peer' = "none"
        /\ UNCHANGED <<board, datagram, tserver, userver, crashed>>
    BY <1>4 DEF ClientClose
  <2>2. client.sock \in Fd \cup {None} /\ client'.pc = "socket" /\ client'.sock = client.sock
    BY <2>1 DEF SocketsTypeOK
  <2>3. /\ used' \in [Fd -> Kinds]
        /\ client.sock # None => used'[client.sock] = "free"
        /\ \A g \in Fd \ {client.sock} : used'[g] = used[g]
    BY <2>1, <2>2, ClosedOne
  <2>4. SocketsTypeOK'
    BY <2>1, <2>3 DEF SocketsTypeOK
  <2>5. ClientOwn' /\ DatagramOwn' /\ ListenOwn' /\ BroadcastOwn'
    BY <2>1, <2>2, <2>3, Numbers DEF ClientOwn, DatagramOwn, ListenOwn, BroadcastOwn
  <2>6. AcceptedOwn'
    BY <2>1, <2>2, <2>3, Numbers DEF ClientOwn, AcceptedOwn, SocketsTypeOK
  <2> QED
    BY <2>4, <2>5, <2>6
<1>5. CASE PeerLeaves
  <2>1. peer' \in {"silent", "reset"} /\ UNCHANGED <<board, used, client, datagram, tserver, userver, crashed>>
    BY <1>5 DEF PeerLeaves
  <2> QED
    BY <2>1 DEF SocketsTypeOK, ClientOwn, DatagramOwn, ListenOwn, BroadcastOwn, AcceptedOwn
<1> QED
  BY <1>1, <1>2, <1>3, <1>4, <1>5

LEMMA DatagramStep ==
    ASSUME SocketsTypeOK, Owned, DatagramSocket \/ DatagramBind \/ DatagramError
    PROVE  SocketsTypeOK' /\ Owned'
<1> USE DEF Owned
<1>1. CASE DatagramSocket
  <2>1. PICK f \in Fd \cup {None} :
            /\ Opens("datagram", f) /\ datagram' = [pc |-> "bind", sock |-> f]
            /\ crashed' \in {"datagram", crashed}
    BY <1>1 DEF DatagramSocket
  <2>2. datagram.pc = "socket" /\ UNCHANGED <<board, client, peer, tserver, userver>>
    BY <1>1 DEF DatagramSocket
  <2>3. /\ used' \in [Fd -> Kinds]
        /\ f # None => used[f] = "free" /\ used'[f] = "datagram"
        /\ \A g \in Fd \ {f} : used'[g] = used[g]
    BY <2>1, Opened, KindsThereAre
  <2>4. SocketsTypeOK'
    BY <2>1, <2>2, <2>3 DEF SocketsTypeOK
  <2>5. ClientOwn' /\ DatagramOwn' /\ ListenOwn' /\ BroadcastOwn'
    BY <2>1, <2>2, <2>3, Numbers DEF ClientOwn, DatagramOwn, ListenOwn, BroadcastOwn
  <2>6. AcceptedOwn'
    BY <2>1, <2>2, <2>3, Numbers DEF AcceptedOwn, SocketsTypeOK
  <2> QED
    BY <2>4, <2>5, <2>6
<1>2. CASE DatagramBind
  <2>1. /\ datagram.pc = "bind" /\ crashed' \in {"datagram", crashed}
        /\ datagram' \in {datagram, [datagram EXCEPT !.pc = "recv"]}
        /\ UNCHANGED <<board, used, client, peer, tserver, userver>>
    BY <1>2 DEF DatagramBind
  <2>2. datagram'.pc \in {"bind", "recv"} /\ datagram'.sock = datagram.sock /\ SocketsTypeOK'
    BY <2>1 DEF SocketsTypeOK
  <2> QED
    BY <2>1, <2>2 DEF ClientOwn, DatagramOwn, ListenOwn, BroadcastOwn, AcceptedOwn
<1>3. CASE DatagramError
  <2>1. /\ datagram.pc = "recv" /\ used' = Closed(datagram.sock)
        /\ datagram' = [datagram EXCEPT !.pc = "ended"]
        /\ UNCHANGED <<board, client, peer, tserver, userver, crashed>>
    BY <1>3 DEF DatagramError
  <2>2. datagram.sock \in Fd \cup {None} /\ datagram'.pc = "ended" /\ datagram'.sock = datagram.sock
    BY <2>1 DEF SocketsTypeOK
  <2>3. /\ used' \in [Fd -> Kinds]
        /\ datagram.sock # None => used'[datagram.sock] = "free"
        /\ \A g \in Fd \ {datagram.sock} : used'[g] = used[g]
    BY <2>1, <2>2, ClosedOne
  <2>4. SocketsTypeOK'
    BY <2>1, <2>3 DEF SocketsTypeOK
  <2>5. ClientOwn' /\ DatagramOwn' /\ ListenOwn' /\ BroadcastOwn'
    BY <2>1, <2>2, <2>3, Numbers DEF ClientOwn, DatagramOwn, ListenOwn, BroadcastOwn
  <2>6. AcceptedOwn'
    BY <2>1, <2>2, <2>3, Numbers DEF DatagramOwn, AcceptedOwn, SocketsTypeOK
  <2> QED
    BY <2>4, <2>5, <2>6
<1> QED
  BY <1>1, <1>2, <1>3

Servers == [pc : {"absent", "socket", "bind", "accept", "close"},
            listen : Fd \cup {None}, sock : Fd \cup {None}, connected : BOOLEAN]

LEMMA ServerStep ==
    ASSUME SocketsTypeOK, Owned, ServerSocket \/ ServerBind \/ ServerAccept \/ ServerClose
    PROVE  SocketsTypeOK' /\ Owned'
<1> USE DEF Owned
<1>1. CASE ServerSocket
  <2>1. PICK f \in Fd \cup {None} :
            Opens("listen", f) /\ tserver' = [tserver EXCEPT !.pc = "bind", !.listen = f]
    BY <1>1 DEF ServerSocket
  <2>2. tserver.pc = "socket" /\ UNCHANGED <<board, client, peer, datagram, userver, crashed>>
    BY <1>1 DEF ServerSocket
  <2>3. /\ used' \in [Fd -> Kinds]
        /\ f # None => used[f] = "free" /\ used'[f] = "listen"
        /\ \A g \in Fd \ {f} : used'[g] = used[g]
    BY <2>1, Opened, KindsThereAre
  <2>4. tserver'.pc = "bind" /\ tserver'.listen = f /\ tserver'.sock = tserver.sock
    BY <2>1 DEF SocketsTypeOK
  <2>5. SocketsTypeOK'
    <3>1. tserver' \in Servers
      BY <2>1 DEF SocketsTypeOK, Servers
    <3> QED
      BY <2>2, <2>3, <3>1 DEF SocketsTypeOK, Servers
  <2>6. ClientOwn' /\ DatagramOwn' /\ ListenOwn' /\ BroadcastOwn'
    <3>1. ClientOwn' /\ DatagramOwn' /\ BroadcastOwn'
      BY <2>2, <2>3, Numbers DEF ClientOwn, DatagramOwn, BroadcastOwn
    <3>2. ListenOwn'
      BY <2>2, <2>3, <2>4, Numbers DEF ListenOwn
    <3> QED
      BY <3>1, <3>2
  <2>7. AcceptedOwn'
    BY <2>2, <2>3, <2>4, Numbers DEF AcceptedOwn, SocketsTypeOK
  <2> QED
    BY <2>5, <2>6, <2>7
<1>2. CASE ServerBind
  <2>1. /\ tserver.pc = "bind" /\ UNCHANGED <<board, used, client, peer, datagram, userver, crashed>>
        /\ \E pc \in {"close", "accept"} : tserver' = [tserver EXCEPT !.pc = pc]
    BY <1>2 DEF ServerBind
  <2>2. /\ tserver'.pc \in {"close", "accept"} /\ tserver'.listen = tserver.listen
        /\ tserver'.sock = tserver.sock /\ SocketsTypeOK'
    BY <2>1 DEF SocketsTypeOK
  <2> QED
    BY <2>1, <2>2 DEF ClientOwn, DatagramOwn, ListenOwn, BroadcastOwn, AcceptedOwn
<1>3. CASE ServerAccept
  <2>1. PICK f \in Fd \cup {None} :
            /\ Opens("accepted", f)
            /\ tserver' = IF f = None THEN [tserver EXCEPT !.pc = "close", !.sock = f]
                          ELSE [tserver EXCEPT !.sock = f, !.connected = TRUE]
    BY <1>3 DEF ServerAccept
  <2>2. tserver.pc = "accept" /\ UNCHANGED <<board, client, peer, datagram, userver, crashed>>
    BY <1>3 DEF ServerAccept
  <2>3. /\ used' \in [Fd -> Kinds]
        /\ f # None => used[f] = "free" /\ used'[f] = "accepted"
        /\ \A g \in Fd \ {f} : used'[g] = used[g]
    BY <2>1, Opened, KindsThereAre
  <2>4. tserver'.pc \in {"accept", "close"} /\ tserver'.listen = tserver.listen /\ tserver'.sock = f
    BY <2>1, <2>2 DEF SocketsTypeOK
  <2>5. SocketsTypeOK'
    <3>1. tserver' \in Servers
      BY <2>1 DEF SocketsTypeOK, Servers
    <3> QED
      BY <2>2, <2>3, <3>1 DEF SocketsTypeOK, Servers
  <2>6. ClientOwn' /\ DatagramOwn' /\ ListenOwn' /\ BroadcastOwn'
    BY <2>2, <2>3, <2>4, Numbers DEF ClientOwn, DatagramOwn, ListenOwn, BroadcastOwn
  <2>7. AcceptedOwn'
    BY <2>3, <2>4 DEF AcceptedOwn
  <2> QED
    BY <2>5, <2>6, <2>7
<1>4. CASE ServerClose
  <2>1. /\ tserver.pc = "close" /\ used' = Closed(tserver.listen)
        /\ tserver' = [tserver EXCEPT !.pc = "socket"]
        /\ UNCHANGED <<board, client, peer, datagram, userver, crashed>>
    BY <1>4 DEF ServerClose
  <2>2. /\ tserver.listen \in Fd \cup {None} /\ tserver'.pc = "socket"
        /\ tserver'.listen = tserver.listen /\ tserver'.sock = tserver.sock
    BY <2>1 DEF SocketsTypeOK
  <2>3. /\ used' \in [Fd -> Kinds]
        /\ tserver.listen # None => used'[tserver.listen] = "free"
        /\ \A g \in Fd \ {tserver.listen} : used'[g] = used[g]
    BY <2>1, <2>2, ClosedOne
  <2>4. SocketsTypeOK'
    BY <2>1, <2>3 DEF SocketsTypeOK
  <2>5. ClientOwn' /\ DatagramOwn' /\ ListenOwn' /\ BroadcastOwn'
    BY <2>1, <2>2, <2>3, Numbers DEF ClientOwn, DatagramOwn, ListenOwn, BroadcastOwn
  <2>6. AcceptedOwn'
    BY <2>1, <2>2, <2>3, Numbers DEF ListenOwn, AcceptedOwn, SocketsTypeOK
  <2> QED
    BY <2>4, <2>5, <2>6
<1> QED
  BY <1>1, <1>2, <1>3, <1>4

LEMMA BroadcastStep ==
    ASSUME SocketsTypeOK, Owned, BroadcastSocket \/ BroadcastOption \/ BroadcastError
    PROVE  SocketsTypeOK' /\ Owned'
<1> USE DEF Owned
<1>1. CASE BroadcastSocket
  <2>1. PICK f \in Fd \cup {None} :
            /\ Opens("broadcast", f)
            /\ userver' = [pc |-> IF f = None THEN "ended" ELSE "option", sock |-> f]
    BY <1>1 DEF BroadcastSocket
  <2>2. userver.pc = "socket" /\ UNCHANGED <<board, client, peer, datagram, tserver, crashed>>
    BY <1>1 DEF BroadcastSocket
  <2>3. /\ used' \in [Fd -> Kinds]
        /\ f # None => used[f] = "free" /\ used'[f] = "broadcast"
        /\ \A g \in Fd \ {f} : used'[g] = used[g]
    BY <2>1, Opened, KindsThereAre
  <2>4. userver'.pc = (IF f = None THEN "ended" ELSE "option") /\ userver'.sock = f
    BY <2>1 DEF SocketsTypeOK
  <2>5. SocketsTypeOK'
    <3>1. userver' \in [pc : {"absent", "socket", "option", "send", "ended"}, sock : Fd \cup {None}]
      BY <2>1 DEF SocketsTypeOK
    <3> QED
      BY <2>2, <2>3, <3>1 DEF SocketsTypeOK
  <2>6. ClientOwn' /\ DatagramOwn' /\ ListenOwn' /\ BroadcastOwn'
    BY <2>2, <2>3, <2>4, Numbers DEF ClientOwn, DatagramOwn, ListenOwn, BroadcastOwn
  <2>7. AcceptedOwn'
    BY <2>2, <2>3, Numbers DEF AcceptedOwn, SocketsTypeOK
  <2> QED
    BY <2>5, <2>6, <2>7
<1>2. CASE BroadcastError
  <2>1. /\ userver.pc \in {"option", "send"} /\ used' = Closed(userver.sock)
        /\ userver' = [userver EXCEPT !.pc = "ended"]
        /\ UNCHANGED <<board, client, peer, datagram, tserver, crashed>>
    BY <1>2 DEF BroadcastError
  <2>2. userver.sock \in Fd \cup {None} /\ userver'.pc = "ended" /\ userver'.sock = userver.sock
    BY <2>1 DEF SocketsTypeOK
  <2>3. /\ used' \in [Fd -> Kinds]
        /\ userver.sock # None => used'[userver.sock] = "free"
        /\ \A g \in Fd \ {userver.sock} : used'[g] = used[g]
    BY <2>1, <2>2, ClosedOne
  <2>4. SocketsTypeOK'
    BY <2>1, <2>3 DEF SocketsTypeOK
  <2>5. ClientOwn' /\ DatagramOwn' /\ ListenOwn' /\ BroadcastOwn'
    BY <2>1, <2>2, <2>3, Numbers DEF ClientOwn, DatagramOwn, ListenOwn, BroadcastOwn
  <2>6. AcceptedOwn'
    BY <2>1, <2>2, <2>3, Numbers DEF BroadcastOwn, AcceptedOwn, SocketsTypeOK
  <2> QED
    BY <2>4, <2>5, <2>6
<1>3. CASE BroadcastOption
  <2>1. /\ userver.pc = "option" /\ userver' = [userver EXCEPT !.pc = "send"]
        /\ UNCHANGED <<board, used, client, peer, datagram, tserver, crashed>>
    BY <1>3 DEF BroadcastOption
  <2>2. userver'.pc = "send" /\ userver'.sock = userver.sock /\ SocketsTypeOK'
    BY <2>1 DEF SocketsTypeOK
  <2> QED
    BY <2>1, <2>2 DEF ClientOwn, DatagramOwn, ListenOwn, BroadcastOwn, AcceptedOwn
<1> QED
  BY <1>1, <1>2, <1>3

LEMMA WebStep ==
    ASSUME SocketsTypeOK, Owned, WebAccept \/ WebClose
    PROVE  SocketsTypeOK' /\ Owned'
<1> USE DEF Owned
<1>1. UNCHANGED <<board, client, peer, datagram, tserver, userver, crashed>>
  BY DEF WebAccept, WebClose
<1>2. \E f \in Fd :
        /\ used' \in [Fd -> Kinds] /\ used[f] \in {"free", "web"} /\ used'[f] \in {"free", "web"}
        /\ \A g \in Fd \ {f} : used'[g] = used[g]
  <2>1. CASE WebAccept
    <3>1. PICK f \in Fd : Opens("web", f)
      BY <2>1 DEF WebAccept
    <3> QED
      BY <3>1, Opened, KindsThereAre, Numbers
  <2>2. CASE WebClose
    <3>1. PICK f \in Sessions : used' = Closed(f)
      BY <2>2 DEF WebClose
    <3>2. f \in Fd /\ used[f] = "web"
      BY <3>1 DEF Sessions
    <3> QED
      BY <3>1, <3>2, ClosedOne, Numbers
  <2> QED
    BY <2>1, <2>2
<1>3. PICK f \in Fd :
        /\ used' \in [Fd -> Kinds] /\ used[f] \in {"free", "web"} /\ used'[f] \in {"free", "web"}
        /\ \A g \in Fd \ {f} : used'[g] = used[g]
  BY <1>2
<1>4. SocketsTypeOK'
  BY <1>1, <1>3 DEF SocketsTypeOK
<1>5. ClientOwn' /\ DatagramOwn' /\ ListenOwn' /\ BroadcastOwn'
  BY <1>1, <1>3 DEF ClientOwn, DatagramOwn, ListenOwn, BroadcastOwn
<1>6. AcceptedOwn'
  BY <1>1, <1>3 DEF AcceptedOwn, SocketsTypeOK
<1> QED
  BY <1>4, <1>5, <1>6

LEMMA SocketsStep ==
    ASSUME SocketsTypeOK, Owned, [Next]_vars
    PROVE  SocketsTypeOK' /\ Owned'
<1>1. CASE SocketsNext \/ WebAccept \/ WebClose
  BY <1>1, ClientStep, DatagramStep, ServerStep, BroadcastStep, WebStep DEF SocketsNext
<1>2. CASE UNCHANGED sockets
  BY <1>2 DEF sockets, SocketsTypeOK, Owned, ClientOwn, DatagramOwn, ListenOwn, BroadcastOwn, AcceptedOwn
<1>3. CASE Start
  <2>1. /\ UNCHANGED <<board, used, client, peer, datagram>>
        /\ crashed' \in {crashed, "none", "ble", "again"}
        /\ userver' = userver \/ userver' \in BroadcastOn(userver)
        /\ tserver' = tserver \/ tserver' \in ServerOn(tserver)
    BY <1>3 DEF Start, StartUnless, BluetoothInit
  <2>2. /\ userver' \in [pc : {"absent", "socket", "option", "send", "ended"}, sock : Fd \cup {None}]
        /\ userver'.sock = userver.sock
        /\ userver'.pc \in {"option", "send"} <=> userver.pc \in {"option", "send"}
    BY <2>1 DEF SocketsTypeOK, BroadcastOn
  <2>3. /\ tserver' \in Servers
        /\ tserver'.sock = tserver.sock /\ tserver'.listen = tserver.listen
        /\ tserver'.pc # tserver.pc => tserver.pc = "absent" /\ tserver'.pc = "socket"
    BY <2>1 DEF SocketsTypeOK, ServerOn, Servers
  <2>4. SocketsTypeOK'
    BY <2>1, <2>2, <2>3 DEF SocketsTypeOK, Servers
  <2>5. Owned'
    BY <2>1, <2>2, <2>3 DEF Owned, ClientOwn, DatagramOwn, ListenOwn, BroadcastOwn, AcceptedOwn
  <2> QED
    BY <2>4, <2>5
<1>4. CASE Destroy
  <2>1. /\ UNCHANGED <<board, used, client, peer, datagram, userver, crashed>>
        /\ tserver' = tserver \/ tserver' = ServerOff(tserver)
    BY <1>4 DEF Destroy
  <2>2. /\ tserver' \in Servers /\ tserver'.pc = tserver.pc
        /\ tserver'.sock = tserver.sock /\ tserver'.listen = tserver.listen
    BY <2>1 DEF SocketsTypeOK, ServerOff, Servers
  <2>3. SocketsTypeOK'
    BY <2>1, <2>2 DEF SocketsTypeOK, Servers
  <2>4. Owned'
    BY <2>1, <2>2 DEF Owned, ClientOwn, DatagramOwn, ListenOwn, BroadcastOwn, AcceptedOwn
  <2> QED
    BY <2>3, <2>4
<1>5. UNCHANGED vars => UNCHANGED sockets
  BY DEF vars, sockets
<1> QED
  BY <1>1, <1>2, <1>3, <1>4, <1>5 DEF Next, Post, Create, Stop, StopWith, SimulationSend, SimulationUart,
      SimulationTake, SimulationWritten, BridgeReceive, BridgeTake, BridgeWritten

(* Whatever the tasks do, the server stays switched on, a connection it    *)
(* has stays the last one, and a server that has ended stays so.           *)
LEMMA ServersKeep ==
    ASSUME SocketsTypeOK, SocketsNext \/ WebAccept \/ WebClose
    PROVE  /\ board' = board /\ crashed' \in {crashed, "datagram"}
           /\ tserver.connected => tserver'.connected
           /\ BroadcastInv => BroadcastInv'
           /\ userver.pc = "ended" => userver'.pc = "ended"
<1>1. board' = board /\ crashed' \in {crashed, "datagram"}
  BY DEF SocketsNext, ClientSocket, ClientConnect, ClientError, ClientClose, PeerLeaves, DatagramSocket,
      DatagramBind, DatagramError, ServerSocket, ServerBind, ServerAccept, ServerClose, BroadcastSocket,
      BroadcastOption, BroadcastError, WebAccept, WebClose
<1>2. tserver.connected => tserver'.connected
  <2>1. \/ tserver' = tserver
        \/ \E pc \in {"bind", "close", "accept", "socket"}, f \in Fd \cup {None} :
              \/ tserver' = [tserver EXCEPT !.pc = pc, !.listen = f]
              \/ tserver' = [tserver EXCEPT !.pc = pc]
              \/ tserver' = [tserver EXCEPT !.pc = pc, !.sock = f]
              \/ tserver' = [tserver EXCEPT !.sock = f, !.connected = TRUE]
    BY DEF SocketsNext, ClientSocket, ClientConnect, ClientError, ClientClose, PeerLeaves, DatagramSocket,
        DatagramBind, DatagramError, ServerSocket, ServerBind, ServerAccept, ServerClose, BroadcastSocket,
        BroadcastOption, BroadcastError, WebAccept, WebClose
  <2> QED
    BY <2>1 DEF SocketsTypeOK
<1>3. \/ userver' = userver
      \/ userver.pc = "socket" /\ userver'.pc \in {"option", "ended"}
      \/ userver.pc \in {"option", "send"} /\ userver'.pc \in {"send", "ended"}
  <2>1. CASE BroadcastSocket
    <3>1. userver.pc = "socket" /\ \E pc \in {"option", "ended"}, f \in Fd \cup {None} : userver' = [pc |-> pc, sock |-> f]
      BY <2>1 DEF BroadcastSocket
    <3> QED
      BY <3>1
  <2>2. CASE BroadcastOption \/ BroadcastError
    <3>1. /\ userver.pc \in {"option", "send"}
          /\ \E pc \in {"send", "ended"} : userver' = [userver EXCEPT !.pc = pc]
      BY <2>2 DEF BroadcastOption, BroadcastError
    <3> QED
      BY <3>1 DEF SocketsTypeOK
  <2>3. BroadcastSocket \/ BroadcastOption \/ BroadcastError \/ userver' = userver
    BY DEF SocketsNext, ClientSocket, ClientConnect, ClientError, ClientClose, PeerLeaves, DatagramSocket,
        DatagramBind, DatagramError, ServerSocket, ServerBind, ServerAccept, ServerClose, WebAccept, WebClose
  <2> QED
    BY <2>1, <2>2, <2>3
<1> QED
  BY <1>1, <1>2, <1>3 DEF BroadcastInv
-----------------------------------------------------------------------------
(* The requests and the tasks.                                             *)

control == <<choices, proto, start, sender, handle, http, ble, starts, twice>>

LEMMA TaskNumbers == None \notin Tasks /\ Tasks \subseteq Nat /\ (\A n \in Nat : n \in Tasks <=> n >= 1 /\ n <= MaxStarts)
BY SimulationAssumption DEF None, Tasks

(* A step that is no request's changes a task only from one state of life  *)
(* to another.                                                             *)
LEMMA TaskSteps ==
    ASSUME TypeOK, [Next]_vars
    PROVE  \/ \E option \in Protos, on \in BOOLEAN : Post(option, on)
           \/ Start \/ Create \/ Stop \/ Destroy
           \/ /\ UNCHANGED control
              /\ \/ UNCHANGED tasks
                 \/ \E t \in Tasks : \E state \in {"run", "take", "write"} :
                       /\ tasks[t] \in {"run", "take", "write"}
                       /\ tasks' = [tasks EXCEPT ![t] = state]
              /\ \/ UNCHANGED sockets
                 \/ SocketsNext \/ WebAccept \/ WebClose
<1>1. CASE UNCHANGED vars
  BY <1>1 DEF vars, control, sockets
<1>2. CASE SocketsNext /\ UNCHANGED simulation
  BY <1>2 DEF simulation, control
<1>3. CASE http = "idle" /\ (WebAccept \/ WebClose) /\ UNCHANGED simulation
  BY <1>3 DEF simulation, control
<1>4. ASSUME NEW t \in Tasks, SimulationSend(t) \/ SimulationUart(t) \/ SimulationTake(t) \/ SimulationWritten(t)
      PROVE  /\ UNCHANGED control /\ UNCHANGED sockets
             /\ \/ UNCHANGED tasks
                \/ \E state \in {"run", "take", "write"} :
                       /\ tasks[t] \in {"run", "take", "write"}
                       /\ tasks' = [tasks EXCEPT ![t] = state]
  BY <1>4 DEF SimulationSend, SimulationUart, SimulationTake, SimulationWritten, control
<1>5. CASE BridgeReceive \/ BridgeTake \/ BridgeWritten
  BY <1>5 DEF BridgeReceive, BridgeTake, BridgeWritten, control
<1> QED
  BY <1>1, <1>2, <1>3, <1>4, <1>5 DEF Next

LEMMA TypeStep ==
    ASSUME TypeOK, Owned, RequestInv, [Next]_vars
    PROVE  TypeOK'
<1>1. SocketsTypeOK'
  BY SocketsStep DEF TypeOK
<1>2. RequestTypes'
  <2>1. ASSUME NEW option \in Protos, NEW on \in BOOLEAN, Post(option, on) PROVE RequestTypes'
    BY <2>1, SimulationAssumption DEF Post, TypeOK, RequestTypes
  <2>2. CASE Start
    <3>1. UNCHANGED <<choices, proto, start, starts>> /\ http' = "create"
      BY <2>2 DEF Start, StartUnless
    <3>2. sender' \in {sender, proto} /\ ble' \in {ble, TRUE}
      BY <2>2 DEF Start, StartUnless, BluetoothInit
    <3> QED
      BY <3>1, <3>2 DEF TypeOK, RequestTypes
  <2>3. CASE Create
    BY <2>3 DEF Create, TypeOK, RequestTypes
  <2>4. CASE Stop
    <3>1. UNCHANGED <<choices, proto, start, sender, ble, starts>> /\ http' \in {"destroy", "idle"}
      BY <2>4 DEF Stop, StopWith
    <3> QED
      BY <3>1 DEF TypeOK, RequestTypes
  <2>5. CASE Destroy
    BY <2>5 DEF Destroy, TypeOK, RequestTypes
  <2>6. CASE UNCHANGED control
    BY <2>6 DEF control, TypeOK, RequestTypes
  <2> QED
    BY <2>1, <2>2, <2>3, <2>4, <2>5, <2>6, TaskSteps
<1>3. handle' \in Tasks \cup {None} /\ twice' \in BOOLEAN /\ tasks' \in [Tasks -> {"none", "run", "take", "write", "deleted"}]
  <2>1. CASE \E option \in Protos, on \in BOOLEAN : Post(option, on)
    BY <2>1 DEF Post, TypeOK, TaskTypes
  <2>2. CASE Start \/ Destroy
    BY <2>2 DEF Start, StartUnless, Destroy, TypeOK, TaskTypes
  <2>3. CASE Create
    <3>1. starts \in Tasks
      BY <2>3 DEF Create, RequestInv
    <3> QED
      BY <2>3, <3>1 DEF Create, TypeOK, TaskTypes
  <2>4. CASE Stop
    BY <2>4 DEF Stop, StopWith, TypeOK, TaskTypes
  <2>5. CASE UNCHANGED control /\ UNCHANGED tasks
    BY <2>5 DEF control, TypeOK, TaskTypes
  <2>6. ASSUME UNCHANGED control, NEW t \in Tasks, NEW state \in {"run", "take", "write"},
               tasks' = [tasks EXCEPT ![t] = state]
        PROVE  handle' \in Tasks \cup {None} /\ twice' \in BOOLEAN /\ tasks' \in [Tasks -> {"none", "run", "take", "write", "deleted"}]
    BY <2>6 DEF control, TypeOK, TaskTypes
  <2> QED
    BY <2>1, <2>2, <2>3, <2>4, <2>5, <2>6, TaskSteps
<1>4. lock' \in 0..Bridge /\ bridge' \in {"idle", "take", "write"} /\ astray' \in BOOLEAN
  <2>1. Bridge \in 0..Bridge /\ None \in 0..Bridge /\ Tasks \subseteq 0..Bridge
    BY SimulationAssumption DEF Bridge, None, Tasks
  <2>2. lock' \in {lock, None, Bridge} \cup Tasks /\ bridge' \in {bridge, "idle", "take", "write"}
    BY DEF Next, vars, Post, Start, StartUnless, Create, Stop, StopWith, Destroy, SimulationSend, SimulationUart,
        SimulationTake, SimulationWritten, BridgeReceive, BridgeTake, BridgeWritten, simulation
  <2>3. astray' = astray \/ astray' \in BOOLEAN
    <3>1. ASSUME NEW t \in Tasks, SimulationSend(t) PROVE astray' \in BOOLEAN
      BY <3>1, Zenon DEF SimulationSend, TypeOK, TaskTypes
    <3>2. CASE ~\E t \in Tasks : SimulationSend(t)
      BY <3>2 DEF Next, vars, Post, Start, StartUnless, Create, Stop, StopWith, Destroy, SimulationUart,
          SimulationTake, SimulationWritten, BridgeReceive, BridgeTake, BridgeWritten, simulation
    <3> QED
      BY <3>1, <3>2
  <2> QED
    BY <2>1, <2>2, <2>3 DEF TypeOK, TaskTypes
<1> QED
  BY <1>1, <1>2, <1>3, <1>4 DEF TypeOK, TaskTypes

LEMMA ServerHeard ==
    ASSUME SocketsTypeOK, UNCHANGED sockets \/ SocketsNext \/ WebAccept \/ WebClose
    PROVE  board' = board /\ (tserver.connected => tserver'.connected)
BY ServersKeep DEF sockets

LEMMA RequestStep ==
    ASSUME TypeOK, Owned, RequestInv, SoleSender, SenderIsHeard, [Next]_vars
    PROVE  RequestInv' /\ SoleSender' /\ SenderIsHeard'
<1>0. tasks \in [Tasks -> {"none", "run", "take", "write", "deleted"}] /\ handle \in Tasks \cup {None} /\ starts \in Nat
  BY SimulationAssumption DEF TypeOK, TaskTypes, RequestTypes
<1>a. AcceptedOwn'
  BY SocketsStep DEF TypeOK, Owned
<1>1. ASSUME NEW option \in Protos, NEW on \in BOOLEAN, Post(option, on)
      PROVE  RequestInv' /\ SoleSender' /\ SenderIsHeard'
  <2>1. /\ http = "idle" /\ (on => starts < MaxStarts) /\ proto' = option /\ start' = on
        /\ starts' = (IF on THEN starts + 1 ELSE starts) /\ http' = (IF on THEN "start" ELSE "stop")
        /\ UNCHANGED <<sockets, handle, tasks, twice>>
    BY <1>1 DEF Post
  <2>2. http' # "idle" /\ http' # "create" /\ http' # "destroy"
    BY <2>1
  <2>3. SoleSender' /\ SenderIsHeard'
    BY <2>1, <2>2 DEF SoleSender, SenderIsHeard, Live
  <2>4. RequestInv'
    <3>1. StartedInv'
      BY <2>2 DEF StartedInv
    <3>2. /\ starts' \in Nat /\ starts <= starts' /\ (on => starts' \in Tasks /\ starts' = starts + 1)
          /\ http' \in {"start", "stop"} /\ (http' = "start" <=> on)
      BY <1>0, <2>1, TaskNumbers, SimulationAssumption
    <3>3. handle' <= starts'
      BY <1>0, <2>1, <3>2, TaskNumbers DEF RequestInv, None
    <3>4. \A t \in Tasks : t > starts => tasks[t] = "none"
      BY DEF RequestInv
    <3>5. \A t \in Tasks : t > starts' \/ (t = starts' /\ on) => t > starts
      BY <1>0, <3>2, TaskNumbers
    <3> QED
      BY <2>1, <3>1, <3>2, <3>3, <3>4, <3>5 DEF RequestInv
  <2> QED
    BY <2>3, <2>4
<1>2. CASE Start
  <2>1. /\ http = "start" /\ http' = "create" /\ UNCHANGED <<board, proto, start, starts, handle, tasks, twice>>
        /\ proto # "can" => sender' = proto
        /\ proto = "tcp" /\ ~Uses("tcp") => tserver' \in ServerOn(tserver)
    BY <1>2 DEF Start, StartUnless
  <2>2. /\ proto = "tcp" /\ ~Uses("tcp") => tserver'.connected
        /\ Uses("tcp")' = Uses("tcp")
    BY <2>1 DEF ServerOn, TypeOK, SocketsTypeOK, Uses
  <2>3. SoleSender' /\ SenderIsHeard'
    BY <2>1 DEF SoleSender, SenderIsHeard, Live
  <2>4. RequestInv'
    BY <2>1, <2>2 DEF RequestInv, StartedInv
  <2> QED
    BY <2>3, <2>4
<1>3. CASE Create
  <2>1. http = "create" /\ http' = "idle" /\ UNCHANGED <<sockets, proto, start, starts, sender>>
    BY <1>3 DEF Create
  <2>2. start /\ starts \in Tasks /\ tasks[starts] = "none" /\ starts # None
    BY <2>1, TaskNumbers DEF RequestInv, StartedInv
  <2>3. SenderIsHeard'
    BY <1>a, <2>1 DEF SenderIsHeard, RequestInv, StartedInv, sockets, AcceptedOwn, Uses
  <2>4. CASE UNCHANGED <<handle, tasks, twice>>
    <3>1. SoleSender'
      BY <2>1, <2>2, <2>4 DEF SoleSender, Live
    <3>2. RequestInv'
      BY <2>1, <2>4 DEF RequestInv, StartedInv, sockets
    <3> QED
      BY <2>3, <3>1, <3>2
  <2>5. CASE /\ handle' = starts /\ tasks' = [tasks EXCEPT ![starts] = "run"]
             /\ twice' = (twice \/ handle # None)
    <3>1. ~twice' => Live' = {handle'} \ {None}
      <4> SUFFICES ASSUME ~twice' PROVE Live' = {handle'} \ {None}
        OBVIOUS
      <4>1. handle = None /\ Live = {}
        BY <2>5 DEF SoleSender
      <4>2. Live' = {starts}
        BY <1>0, <2>2, <2>5, <4>1 DEF Live
      <4> QED
        BY <2>2, <2>5, <4>2
    <3>2. SoleSender'
      BY <2>1, <2>2, <2>5, <3>1 DEF SoleSender
    <3>3. \A t \in Tasks : t > starts => tasks'[t] = "none"
      BY <1>0, <2>1, <2>5, TaskNumbers DEF RequestInv, StartedInv
    <3>4. RequestInv'
      BY <1>0, <2>1, <2>2, <2>5, <3>3 DEF RequestInv, StartedInv
    <3> QED
      BY <2>3, <3>2, <3>4
  <2> QED
    BY <1>3, <2>4, <2>5 DEF Create
<1>4. CASE Stop
  <2>1. /\ http = "stop" /\ UNCHANGED <<sockets, proto, start, starts, twice>> /\ handle' = None
        /\ http' \in {"destroy", "idle"}
        /\ IF handle # None THEN tasks' = [tasks EXCEPT ![handle] = "deleted"] ELSE tasks' = tasks
    BY <1>4, <1>0 DEF Stop, StopWith
  <2>2. ~start
    BY <2>1 DEF RequestInv, StartedInv
  <2>3. ~twice' => Live' = {}
    BY <1>0, <2>1, TaskNumbers DEF SoleSender, Live
  <2>4. SoleSender' /\ SenderIsHeard'
    BY <2>1, <2>2, <2>3 DEF SoleSender, SenderIsHeard
  <2>5. \A t \in Tasks : t > starts => tasks'[t] = "none"
    BY <1>0, <2>1, TaskNumbers DEF RequestInv, StartedInv
  <2>6. RequestInv'
    BY <1>0, <2>1, <2>2, <2>5 DEF RequestInv, StartedInv, None
  <2> QED
    BY <2>4, <2>6
<1>5. CASE Destroy
  <2>1. http = "destroy" /\ http' = "idle" /\ UNCHANGED <<start, starts, handle, tasks, twice>>
    BY <1>5 DEF Destroy
  <2>2. ~start /\ handle = None
    BY <2>1 DEF RequestInv, StartedInv
  <2> QED
    BY <2>1, <2>2 DEF RequestInv, StartedInv, SoleSender, SenderIsHeard, Live
<1>6. ASSUME UNCHANGED control,
             UNCHANGED sockets \/ SocketsNext \/ WebAccept \/ WebClose,
             \/ UNCHANGED tasks
             \/ \E t \in Tasks : \E state \in {"run", "take", "write"} :
                       /\ tasks[t] \in {"run", "take", "write"}
                       /\ tasks' = [tasks EXCEPT ![t] = state]
      PROVE  RequestInv' /\ SoleSender' /\ SenderIsHeard'
  <2>1. board' = board /\ (tserver.connected => tserver'.connected)
    BY <1>6, ServerHeard DEF TypeOK
  <2>2. \A t \in Tasks : /\ tasks'[t] \in {"run", "take", "write"} <=> tasks[t] \in {"run", "take", "write"}
                         /\ tasks[t] = "none" => tasks'[t] = "none"
    BY <1>0, <1>6
  <2>3. Live' = Live
    BY <2>2 DEF Live
  <2>4. RequestInv'
    BY <1>6, <2>1, <2>2 DEF RequestInv, StartedInv, control, Uses
  <2>5. SenderIsHeard'
    BY <1>a, <1>6, <2>1 DEF SenderIsHeard, control, AcceptedOwn, Uses
  <2>6. SoleSender'
    BY <1>6, <2>2, <2>3 DEF SoleSender, RequestInv, StartedInv, control
  <2> QED
    BY <2>4, <2>5, <2>6
<1> QED
  BY <1>1, <1>2, <1>3, <1>4, <1>5, <1>6, TaskSteps

-----------------------------------------------------------------------------
(* Bluetooth, and the UDP server.                                          *)

LEMMA BleStep ==
    ASSUME TypeOK, RequestInv, BleInv, BluetoothSetUpOnce, [Next]_vars
    PROVE  BleInv' /\ BluetoothSetUpOnce'
<1>0. starts \in Nat
  BY SimulationAssumption DEF TypeOK, RequestTypes
<1>1. ASSUME NEW option \in Protos, NEW on \in BOOLEAN, Post(option, on) PROVE BleInv' /\ BluetoothSetUpOnce'
  <2>1. /\ http = "idle" /\ starts' = (IF on THEN starts + 1 ELSE starts) /\ http' = (IF on THEN "start" ELSE "stop")
        /\ board' = board /\ crashed' = crashed /\ ble' = ble
    BY <1>1 DEF Post, sockets
  <2> QED
    BY <1>0, <2>1 DEF BleInv, BluetoothSetUpOnce, Uses
<1>2. CASE Start
  <2>1. /\ http = "start" /\ http' = "create" /\ starts' = starts /\ board' = board /\ starts \in Tasks
    BY <1>2 DEF Start, StartUnless, RequestInv
  <2>2. starts >= 1 /\ Uses("ble")' = Uses("ble")
    BY <1>0, <2>1, TaskNumbers DEF Uses
  <2>3. BleInv'
    BY <1>0, <2>1, <2>2 DEF BleInv
  <2>4. crashed' = "again" => ~Uses("ble") /\ ble
    BY <1>2 DEF Start, StartUnless, BluetoothInit, Up
  <2>5. BluetoothSetUpOnce'
    BY <2>1, <2>2, <2>4 DEF BleInv, BluetoothSetUpOnce
  <2> QED
    BY <2>3, <2>5
<1>3. CASE Create \/ Stop \/ Destroy
  <2>1. UNCHANGED <<board, crashed, ble, starts>> /\ http' # "start"
    BY <1>3 DEF Create, Stop, StopWith, Destroy, sockets
  <2> QED
    BY <1>0, <2>1 DEF BleInv, BluetoothSetUpOnce, Uses
<1>4. ASSUME UNCHANGED control, UNCHANGED sockets \/ SocketsNext \/ WebAccept \/ WebClose
      PROVE  BleInv' /\ BluetoothSetUpOnce'
  <2>1. board' = board /\ crashed' \in {crashed, "datagram"}
    BY <1>4, ServersKeep DEF TypeOK, sockets
  <2> QED
    BY <1>4, <2>1 DEF BleInv, BluetoothSetUpOnce, control, Uses
<1> QED
  BY <1>1, <1>2, <1>3, <1>4, TaskSteps

LEMMA StrayStep ==
    ASSUME TypeOK, Owned, BroadcastInv, NothingStrays, [Next]_vars
    PROVE  BroadcastInv' /\ NothingStrays'
<1>1. (userver.pc = "ended" => userver'.pc = "ended") /\ BroadcastInv'
  <2>1. CASE Start
    <3>1. userver' = userver \/ userver' \in BroadcastOn(userver)
      BY <2>1 DEF Start, StartUnless
    <3>2. userver'.sock = userver.sock /\ (userver'.pc = userver.pc \/ (userver.pc = "absent" /\ userver'.pc = "socket"))
      BY <3>1 DEF BroadcastOn, TypeOK, SocketsTypeOK
    <3> QED
      BY <3>2 DEF BroadcastInv
  <2>2. CASE userver' = userver
    BY <2>2 DEF BroadcastInv
  <2>3. CASE SocketsNext \/ WebAccept \/ WebClose
    BY <2>3, ServersKeep DEF TypeOK
  <2>4. Start \/ userver' = userver \/ SocketsNext \/ WebAccept \/ WebClose
    <3>1. UNCHANGED sockets => userver' = userver
      BY DEF sockets
    <3>2. (\E option \in Protos, on \in BOOLEAN : Post(option, on)) \/ Create \/ Stop \/ Destroy => userver' = userver
      BY <3>1 DEF Post, Create, Stop, StopWith, Destroy
    <3> QED
      BY <3>1, <3>2, TaskSteps
  <2> QED
    BY <2>1, <2>2, <2>3, <2>4
<1>2. astray' => userver'.pc = "ended"
  <2>1. ASSUME NEW t \in Tasks, SimulationSend(t), astray' PROVE userver'.pc = "ended"
    <3>1. userver' = userver
      BY <2>1 DEF SimulationSend, sockets
    <3>2. ~Foreign(tserver.sock, "accepted")
      BY DEF Foreign, Owned, AcceptedOwn
    <3>3. astray \/ Foreign(userver.sock, "broadcast")
      BY <2>1, <3>2 DEF SimulationSend
    <3>4. ASSUME Foreign(userver.sock, "broadcast") PROVE userver.pc = "ended"
      <4>1. userver.sock # None /\ userver.sock \in Fd /\ used[userver.sock] # "broadcast"
        BY <3>4 DEF Foreign, TypeOK, SocketsTypeOK
      <4>2. userver.pc \notin {"option", "send"}
        BY <4>1 DEF Owned, BroadcastOwn
      <4>3. userver.pc \notin {"absent", "socket"}
        BY <4>1 DEF BroadcastInv
      <4> QED
        BY <4>2, <4>3 DEF TypeOK, SocketsTypeOK
    <3> QED
      BY <3>1, <3>3, <3>4 DEF NothingStrays
  <2>2. (\E t \in Tasks : SimulationSend(t)) \/ astray' = astray
    BY DEF Next, vars, Post, Start, StartUnless, Create, Stop, StopWith, Destroy, SimulationUart,
        SimulationTake, SimulationWritten, BridgeReceive, BridgeTake, BridgeWritten, simulation
  <2> QED
    BY <1>1, <2>1, <2>2 DEF NothingStrays
<1> QED
  BY <1>1, <1>2 DEF NothingStrays

-----------------------------------------------------------------------------

IInv ==
    /\ TypeOK /\ Owned
    /\ RequestInv /\ SoleSender /\ SenderIsHeard
    /\ BleInv /\ BluetoothSetUpOnce
    /\ BroadcastInv /\ NothingStrays

LEMMA Initially == Init => IInv
<1> SUFFICES ASSUME Init PROVE IInv
  OBVIOUS
<1>1. /\ board \in Ends
      /\ used = [f \in Fd |-> "free"] /\ peer = "none" /\ crashed = "none"
      /\ \E pc \in {"absent", "socket"} : client = [pc |-> pc, sock |-> None]
      /\ \E pc \in {"absent", "socket"} : datagram = [pc |-> pc, sock |-> None]
      /\ tserver = [pc |-> "absent", listen |-> None, sock |-> None, connected |-> FALSE]
      /\ userver = [pc |-> "absent", sock |-> None]
  BY DEF Init, SocketsInit
<1>2. SocketsTypeOK
  <2>1. used \in [Fd -> Kinds]
    BY <1>1 DEF Kinds
  <2>2. /\ client \in [pc : {"absent", "socket", "connect", "recv", "close"}, sock : Fd \cup {None}]
        /\ datagram \in [pc : {"absent", "socket", "bind", "recv", "ended"}, sock : Fd \cup {None}]
    BY <1>1
  <2> QED
    BY <1>1, <2>1, <2>2 DEF SocketsTypeOK
<1>3. Owned
  BY <1>1 DEF Owned, ClientOwn, DatagramOwn, ListenOwn, BroadcastOwn, AcceptedOwn
<1>4. RequestTypes
  <2>1. Uses("ble") \in BOOLEAN
    BY DEF Uses
  <2>2. ble \in BOOLEAN
    BY <2>1 DEF Init
  <2>3. choices \subseteq Protos /\ proto \in Protos /\ start \in BOOLEAN
    BY DEF Init, Protos
  <2>4. sender = "none" /\ http = "idle" /\ starts \in 0..MaxStarts
    BY SimulationAssumption DEF Init
  <2> QED
    BY <2>2, <2>3, <2>4 DEF RequestTypes
<1>5. TaskTypes
  <2>1. tasks \in [Tasks -> {"none", "run", "take", "write", "deleted"}]
    BY DEF Init
  <2>2. lock \in 0..Bridge
    BY SimulationAssumption DEF Init, Bridge, None
  <2> QED
    BY <2>1, <2>2 DEF Init, TaskTypes
<1>6. RequestInv /\ SoleSender /\ SenderIsHeard
  BY TaskNumbers DEF Init, RequestInv, StartedInv, SoleSender, SenderIsHeard, Live, None
<1>7. BleInv /\ BluetoothSetUpOnce
  BY <1>1 DEF Init, BleInv, BluetoothSetUpOnce
<1>8. BroadcastInv /\ NothingStrays
  BY <1>1 DEF Init, BroadcastInv, NothingStrays
<1> QED
  BY <1>2, <1>3, <1>4, <1>5, <1>6, <1>7, <1>8 DEF IInv, TypeOK

LEMMA Always == Spec => []IInv
<1>1. IInv /\ [Next]_vars => IInv'
  BY TypeStep, SocketsStep, RequestStep, BleStep, StrayStep DEF IInv, TypeOK
<1> QED
  BY Initially, <1>1, PTL DEF Spec

(* The variables keep their types: no task number, socket or step that the *)
(* code does not have.                                                     *)
THEOREM SimulationTypeCorrect == Spec => []TypeOK
<1>1. IInv => TypeOK
  BY DEF IInv
<1> QED
  BY Always, <1>1, PTL

(* However errors, closes and reused numbers interleave, the sockets open  *)
(* as one kind are those of its task, and the server's connection is open. *)
THEOREM EverySocketIsOwned == Spec => []SocketsAreTheirs
<1>1. IInv => SocketsAreTheirs
  BY OwnedIsTheirs DEF IInv, TypeOK
<1> QED
  BY Always, <1>1, PTL

(* Unless a start overwrote the handle of a running task, a stop ends all  *)
(* sending, and the bridge is silent exactly meanwhile (simulation.cpp:115). *)
THEOREM OneSenderAtATime == Spec => []SoleSender
<1>1. IInv => SoleSender
  BY DEF IInv
<1> QED
  BY Always, <1>1, PTL

(* Boot and simulation never both set Bluetooth up, whichever end of the   *)
(* board it is (simulation.cpp:88); only two starts may.                   *)
THEOREM BluetoothOnce == Spec => []BluetoothSetUpOnce
<1>1. IInv => BluetoothSetUpOnce
  BY DEF IInv
<1> QED
  BY Always, <1>1, PTL

(* Between requests a simulation's task sends over the protocol chosen, to *)
(* a server that is on and a client whose socket is open, if there is one. *)
THEOREM SenderHasServer == Spec => []SenderIsHeard
<1>1. IInv => SenderIsHeard
  BY DEF IInv
<1> QED
  BY Always, <1>1, PTL

(* Simulation data goes astray only after the UDP server has ended.        *)
THEOREM OnlyUdpStrays == Spec => []NothingStrays
<1>1. IInv => NothingStrays
  BY DEF IInv
<1> QED
  BY Always, <1>1, PTL

-----------------------------------------------------------------------------
(* The write mutex of the UART. *)

(* Each task by itself: what a step of a request or of another task leaves *)
(* of the mutex.                                                           *)
LEMMA WriterStep ==
    ASSUME IInv, OneWriter, [Next]_vars
    PROVE  OneWriter' /\ (LockLost => LockLost')
<1>. DEFINE Writers == {"write", "deleted"}
<1>0. /\ tasks \in [Tasks -> {"none", "run", "take", "write", "deleted"}]
      /\ handle \in Tasks \cup {None} /\ Bridge \notin Tasks /\ None \notin Tasks /\ None # Bridge
  BY TaskNumbers, SimulationAssumption DEF IInv, TypeOK, TaskTypes, Bridge, Tasks, None
<1>1. /\ lock = Bridge <=> bridge = "write"
      /\ \A t \in Tasks : tasks[t] = "write" => lock = t
      /\ lock \in Tasks => tasks[lock] \in Writers
  BY DEF OneWriter, LockLost
<1>2. ASSUME lock' = Bridge <=> bridge' = "write",
             \A t \in Tasks : tasks'[t] = "write" => lock' = t,
             lock' \in Tasks => tasks'[lock'] \in Writers,
             LockLost => lock' = lock /\ tasks'[lock] = "deleted"
      PROVE  OneWriter' /\ (LockLost => LockLost')
  BY <1>2 DEF OneWriter, LockLost
<1>3. CASE UNCHANGED <<lock, bridge, tasks>>
  BY <1>1, <1>2, <1>3 DEF LockLost
<1>4. CASE Create
  <2>1. starts \in Tasks /\ tasks[starts] = "none" /\ UNCHANGED <<lock, bridge>>
    BY <1>4 DEF Create, IInv, RequestInv
  <2>2. UNCHANGED tasks \/ tasks' = [tasks EXCEPT ![starts] = "run"]
    BY <1>4 DEF Create
  <2>3. lock # starts
    BY <1>1, <2>1
  <2>4. \A t \in Tasks : tasks'[t] = tasks[t] \/ (t = starts /\ tasks'[t] = "run")
    BY <1>0, <2>2
  <2>. QED
    BY <1>1, <1>2, <2>1, <2>3, <2>4 DEF LockLost
<1>5. CASE Stop
  <2>1. UNCHANGED <<lock, bridge>>
    BY <1>5 DEF Stop, StopWith
  <2>2. UNCHANGED tasks \/ (handle \in Tasks /\ tasks' = [tasks EXCEPT ![handle] = "deleted"])
    BY <1>0, <1>5 DEF Stop, StopWith
  <2>3. \A t \in Tasks : tasks'[t] = tasks[t] \/ tasks'[t] = "deleted"
    BY <1>0, <2>2
  <2>. QED
    BY <1>1, <1>2, <2>1, <2>3 DEF LockLost
<1>6. ASSUME NEW t \in Tasks, SimulationUart(t)
      PROVE  OneWriter' /\ (LockLost => LockLost')
  <2>1. tasks[t] = "run" /\ tasks' = [tasks EXCEPT ![t] = "take"] /\ UNCHANGED <<lock, bridge>>
    BY <1>6 DEF SimulationUart
  <2>2. lock # t
    BY <1>1, <2>1
  <2>3. \A u \in Tasks : tasks'[u] = tasks[u] \/ (u = t /\ tasks'[u] = "take")
    BY <1>0, <2>1
  <2>. QED
    BY <1>1, <1>2, <2>1, <2>2, <2>3 DEF LockLost
<1>7. ASSUME NEW t \in Tasks, SimulationTake(t)
      PROVE  OneWriter' /\ (LockLost => LockLost')
  <2>1. /\ tasks[t] = "take" /\ lock = None /\ lock' = t
        /\ tasks' = [tasks EXCEPT ![t] = "write"] /\ UNCHANGED bridge
    BY <1>7 DEF SimulationTake
  <2>2. tasks'[t] = "write" /\ \A u \in Tasks : u # t => tasks'[u] = tasks[u]
    BY <1>0, <2>1
  <2>3. \A u \in Tasks : tasks[u] # "write"
    BY <1>0, <1>1, <2>1
  <2>4. ~LockLost
    BY <1>0, <2>1 DEF LockLost
  <2>. QED
    BY <1>0, <1>1, <1>2, <2>1, <2>2, <2>3, <2>4
<1>8. ASSUME NEW t \in Tasks, SimulationWritten(t)
      PROVE  OneWriter' /\ (LockLost => LockLost')
  <2>1. /\ tasks[t] = "write" /\ lock' = None
        /\ tasks' = [tasks EXCEPT ![t] = "run"] /\ UNCHANGED bridge
    BY <1>8 DEF SimulationWritten
  <2>2. tasks'[t] = "run" /\ \A u \in Tasks : u # t => tasks'[u] = tasks[u]
    BY <1>0, <2>1
  <2>3. lock = t
    BY <1>1, <2>1
  <2>4. \A u \in Tasks : tasks'[u] # "write"
    BY <1>1, <2>2, <2>3
  <2>5. ~LockLost
    BY <2>1, <2>3 DEF LockLost
  <2>. QED
    BY <1>0, <1>1, <1>2, <2>1, <2>3, <2>4, <2>5
<1>9. CASE BridgeReceive
  <2>1. bridge = "idle" /\ bridge' = "take" /\ UNCHANGED <<lock, tasks>>
    BY <1>9 DEF BridgeReceive
  <2>. QED
    BY <1>1, <1>2, <2>1 DEF LockLost
<1>10. CASE BridgeTake
  <2>1. lock = None /\ lock' = Bridge /\ bridge' = "write" /\ UNCHANGED tasks
    BY <1>10 DEF BridgeTake
  <2>2. \A u \in Tasks : tasks[u] # "write"
    BY <1>0, <1>1, <2>1
  <2>3. ~LockLost
    BY <1>0, <2>1 DEF LockLost
  <2>. QED
    BY <1>0, <1>2, <2>1, <2>2, <2>3
<1>11. CASE BridgeWritten
  <2>1. bridge = "write" /\ lock' = None /\ bridge' = "idle" /\ UNCHANGED tasks
    BY <1>11 DEF BridgeWritten
  <2>2. lock = Bridge /\ \A u \in Tasks : tasks[u] # "write"
    BY <1>0, <1>1, <2>1
  <2>3. ~LockLost
    BY <1>0, <2>2 DEF LockLost
  <2>. QED
    BY <1>0, <1>2, <2>1, <2>2, <2>3
<1>12. \/ UNCHANGED <<lock, bridge, tasks>> \/ Create \/ Stop
       \/ \E t \in Tasks : SimulationUart(t) \/ SimulationTake(t) \/ SimulationWritten(t)
       \/ BridgeReceive \/ BridgeTake \/ BridgeWritten
  BY DEF Next, vars, simulation, Post, Start, StartUnless, Destroy, SimulationSend
<1>. QED
  BY <1>3, <1>4, <1>5, <1>6, <1>7, <1>8, <1>9, <1>10, <1>11, <1>12

LEMMA WriterInvariant == Spec => []OneWriter
<1>1. Init => OneWriter
  <2>1. None \notin Tasks /\ None # Bridge
    BY TaskNumbers, SimulationAssumption DEF Bridge, None
  <2>. QED
    BY <2>1 DEF Init, OneWriter
<1>2. IInv /\ OneWriter /\ [Next]_vars => OneWriter'
  BY WriterStep
<1>. QED
  BY Always, <1>1, <1>2, PTL DEF Spec

(* The bridge and the simulation's tasks, those that a second start left   *)
(* behind included, never write to the UART together, and only a stop in   *)
(* the middle of a write takes the mutex away (simulation.cpp:124).        *)
THEOREM WritersAreAlone == Spec => []OneWriter
  BY WriterInvariant

(* After that nothing but a reboot lets the bridge write again.            *)
THEOREM LostMutexStaysLost == Spec => LostForGood
<1>1. IInv /\ OneWriter /\ OneWriter' /\ [Next]_vars => [LockLost => LockLost' /\ bridge' # "write"]_vars
  <2>. SUFFICES ASSUME IInv, OneWriter, OneWriter', [Next]_vars, LockLost
                PROVE  LockLost' /\ bridge' # "write"
    OBVIOUS
  <2>1. LockLost'
    BY WriterStep
  <2>2. Bridge \notin Tasks
    BY TaskNumbers, SimulationAssumption DEF Bridge, Tasks
  <2>3. lock' \in Tasks
    BY <2>1 DEF LockLost
  <2>. QED
    BY <2>1, <2>2, <2>3 DEF OneWriter
<1>. QED
  BY Always, WriterInvariant, <1>1, PTL DEF Spec, LostForGood
=============================================================================
