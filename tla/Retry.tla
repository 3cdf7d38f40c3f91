------------------------------- MODULE Retry -------------------------------
(***************************************************************************)
(* The retry counter of main/retry.c: how long wifi_sta_reconnect_task     *)
(* waits before its next attempt.  The fields of struct retry_delay are    *)
(* the record handle; Reset and Delay are called any number of times, in   *)
(* any order, each in one step: that the two callers, in two tasks, never  *)
(* fall into each other is WifiStation's RefinesCounter.                   *)
(***************************************************************************)
EXTENDS Integers, Sequences, FiniteSets

CONSTANTS
    Delays,         \* the table delays, in the code's ascending order
    AttemptMod,     \* 2^16: attempts is a uint16_t
    FirstInstants, ShortCounts, ShortDelays, MaxDelays
                    \* the arguments retry_init may be called with

ASSUME RetryAssumption ==
    /\ Delays \in Seq(Nat) /\ Delays # <<>>
    /\ \A i, j \in 1..Len(Delays) : i <= j => Delays[i] <= Delays[j]
    /\ AttemptMod \in Nat \ {0}
    /\ FirstInstants \subseteq BOOLEAN
    /\ ShortCounts \subseteq Nat
    /\ ShortDelays \subseteq Nat
    /\ MaxDelays \subseteq Int

VARIABLES
    pc,         \* "init" in the loop of retry_init, then "ready"
    handle,     \* the struct
    delay       \* what retry_delay last slept for, in ms

vars == <<pc, handle, delay>>

Init ==
    /\ pc = "init"
    /\ handle \in [attempts : {0}, first_instant : FirstInstants,
                   short_count : ShortCounts, short_delay : ShortDelays,
                   max_delay : MaxDelays, delays_offset : {0}]
    /\ delay = 0

(* Fault: the loop skips the delay that equals short_delay, too. *)
SkipsEqual(h) ==
    /\ h.delays_offset < Len(Delays)
    /\ Delays[h.delays_offset + 1] <= h.short_delay

(* Whether the loop of retry_init goes round once more. *)
Skips(h) ==
    /\ h.delays_offset < Len(Delays)
    /\ Delays[h.delays_offset + 1] < h.short_delay

SkipDelay ==
    /\ pc = "init" /\ Skips(handle)
    /\ handle' = [handle EXCEPT !.delays_offset = @ + 1]
    /\ UNCHANGED <<pc, delay>>

InitDone ==
    /\ pc = "init" /\ ~Skips(handle)
    /\ pc' = "ready"
    /\ UNCHANGED <<handle, delay>>

-----------------------------------------------------------------------------
(* Fault: the table is entered at its beginning. *)
TableDelayFromStart(h) ==
    LET i == h.attempts - h.short_count
    IN  IF i < Len(Delays) THEN Delays[i + 1] ELSE Delays[Len(Delays)]

(* The delays of the table from delays_offset on, the last one for ever. *)
TableDelay(h) ==
    LET i == h.attempts - h.short_count + h.delays_offset
    IN  IF i < Len(Delays) THEN Delays[i + 1] ELSE Delays[Len(Delays)]

(* Fault: the longest delay is not cut. *)
CappedNever(d, h) == d

Capped(d, h) == IF h.max_delay > 0 /\ d > h.max_delay THEN h.max_delay ELSE d

DelayOf(h) ==
    IF h.attempts = 0 /\ h.first_instant THEN 0
    ELSE IF h.attempts < h.short_count THEN h.short_delay
    ELSE Capped(TableDelay(h), h)

(* Fault: the counter is an int. *)
RetryDelayWide ==
    /\ pc = "ready"
    /\ delay' = DelayOf(handle)
    /\ handle' = [handle EXCEPT !.attempts = @ + 1]
    /\ UNCHANGED pc

RetryDelay ==
    /\ pc = "ready"
    /\ delay' = DelayOf(handle)
    /\ handle' = [handle EXCEPT !.attempts = (@ + 1) % AttemptMod]
    /\ UNCHANGED pc

RetryReset ==
    /\ pc = "ready"
    /\ handle' = [handle EXCEPT !.attempts = 0]
    /\ UNCHANGED <<pc, delay>>

Next == SkipDelay \/ InitDone \/ RetryDelay \/ RetryReset

Spec == Init /\ [][Next]_vars

-----------------------------------------------------------------------------
Handles == [attempts : 0..AttemptMod - 1, first_instant : FirstInstants,
            short_count : ShortCounts, short_delay : ShortDelays,
            max_delay : MaxDelays, delays_offset : 0..Len(Delays)]

TypeOK ==
    /\ pc \in {"init", "ready"}
    /\ handle \in Handles
    /\ delay \in Nat

(* The arguments both callers keep to: the short delay is not longer than  *)
(* the longest one.                                                        *)
WellChosen(h) ==
    /\ h.short_delay <= Delays[Len(Delays)]
    /\ h.max_delay > 0 => h.short_delay <= h.max_delay

(* While attempts fail one after the other, the station never waits less   *)
(* than the last time.                                                     *)
BackoffGrows ==
    [][handle.attempts > 0 /\ handle'.attempts = handle.attempts + 1
        => (WellChosen(handle) => delay' >= delay)]_vars

(* max_delay bounds every delay, the short ones and the last one too. *)
NeverBeyondMax == WellChosen(handle) /\ handle.max_delay > 0 => delay <= handle.max_delay

-----------------------------------------------------------------------------
(* What retry_delay is to compute, without indices: after the short delays *)
(* every delay of the table that is no shorter, from the shortest on, each *)
(* once, then the longest for ever.                                        *)
Eligible(h) == {i \in 1..Len(Delays) : Delays[i] >= h.short_delay}

Reference(h, a) ==
    LET k   == a - h.short_count
        d   == IF k < Cardinality(Eligible(h))
               THEN Delays[CHOOSE i \in Eligible(h) :
                        Cardinality({j \in Eligible(h) : j < i}) = k]
               ELSE Delays[Len(Delays)]
    IN  CASE a = 0 /\ h.first_instant -> 0
          [] a < h.short_count /\ (a > 0 \/ ~h.first_instant) -> h.short_delay
          [] OTHER -> IF h.max_delay > 0 /\ h.max_delay < d THEN h.max_delay ELSE d

(* The delay the station last slept for is the one its count calls for. *)
DelayIsReference ==
    handle.attempts > 0 => delay = Reference(handle, handle.attempts - 1)

(* The number of attempts is the atomic one of module RetryAttempts, which *)
(* WifiStation implements too, one statement at a time.                    *)
C == INSTANCE RetryAttempts WITH attempts <- handle.attempts

RefinesCounter == C!Calls
=============================================================================
