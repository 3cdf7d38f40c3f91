--------------------------- MODULE MCWifiStation ---------------------------
(***************************************************************************)
(* Instances of the Wi-Fi station: the queue of the event loop is cut to   *)
(* LoopSize, and attempts wraps at AttemptMod instead of 2^16.             *)
(***************************************************************************)
EXTENDS WifiStation
=============================================================================
