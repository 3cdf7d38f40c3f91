--------------------------- MODULE RetryAttempts ---------------------------
(***************************************************************************)
(* What wifi.c takes for granted of the one struct retry_delay it shares   *)
(* between two tasks: a retry_delay of wifi_sta_reconnect_task and a       *)
(* retry_reset of handle_sta_connected each change handle->attempts at     *)
(* once, and neither is half done when the other happens.                  *)
(***************************************************************************)
EXTENDS Naturals

CONSTANT AttemptMod     \* the width of attempts: there it wraps

VARIABLE attempts       \* since the station was last connected

retry_init  == attempts = 0
retry_delay == attempts' = (attempts + 1) % AttemptMod
retry_reset == attempts' = 0

Calls == retry_init /\ [][retry_delay \/ retry_reset]_attempts
=============================================================================
