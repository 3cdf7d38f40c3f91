------------------------------ MODULE MCRetry ------------------------------
(***************************************************************************)
(* The retry counter with the code's table, the arguments of both callers  *)
(* of retry_init (short_count 5, short_delay 2000, max_delay 60000 and 0)  *)
(* and others around the edges of the table, and a counter that wraps      *)
(* early but long after the table has ended.                               *)
(***************************************************************************)
EXTENDS Retry

CodeDelays == <<1000, 2000, 5000, 10000, 15000, 30000, 45000, 60000, 90000,
                120000, 300000, 600000, 900000, 1800000, 2700000, 3600000>>
=============================================================================
