---------------------------- MODULE MCBleNotify ----------------------------
(* The Bluetooth output for TLC: both senders, two handles, two buffers.   *)
EXTENDS BleNotify
=============================================================================
