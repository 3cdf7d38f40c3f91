---------------------------- MODULE MCSimulation ----------------------------
(* The simulation and the sockets, for TLC: three sockets, two starts, and *)
(* with every board the protocols that meet it in a socket, a write mutex, *)
(* a sender left over or a Bluetooth set up before, at either end.         *)
EXTENDS Simulation

Meeting == {<<"uart", "uart", {"uart", "ble"}>>, <<"uart", "uart", {"uart", "udp"}>>,
            <<"uart", "uart", {"can", "tcp"}>>, <<"uart", "ble", {"ble", "tcp"}>>,
            <<"ble", "uart", {"udp", "tcp"}>>, <<"udp", "uart", {"udp", "tcp"}>>,
            <<"tcp", "uart", {"udp"}>>}
=============================================================================
