------------------------------- MODULE Status -------------------------------
(***************************************************************************)
(* What the status page (status_get_handler of web_server.c) reports, and  *)
(* who writes it meanwhile: the stream statistics of stream_stats.c, fed   *)
(* by the serial task of uart.c while app_main is still starting up (the   *)
(* board's input is a UART), and the stations at the access point of       *)
(* wifi.c.  No lock protects any of it.                                    *)
(*                                                                         *)
(* External: the UART, the event loop and the driver of the access point.  *)
(* Serial and access point events are kept in two queues: their order in   *)
(* the one event loop matters to nobody.                                   *)
(***************************************************************************)
EXTENDS Naturals, Sequences, SequencesExt

CONSTANTS
    MaxInput,   \* bound: bytes from the serial line
    LoopSize,   \* length of the event loop's queue
    Clients     \* stations that come to the access point and leave

ASSUME StatusAssumption == MaxInput \in Nat /\ LoopSize \in Nat \ {0}

VARIABLES
    prompt,     \* timing, fixed per behaviour: the statistics task and an
                \* increment do not overlap on rate_in_period_count
    main,       \* the main task: the next step in Startup
    uart,       \* uart_task: next step, the bytes read, the count loaded
    total,      \* total_in
    count,      \* rate_in_period_count
    stats,      \* the statistics task: next step
    loopq,      \* serial events in the event loop, by their length
    counted,    \* history: what went into the rates
    heard,      \* history: bytes handed to the handler of the bridge
    lost,       \* history: bytes posted with no loop, or dispatched to nobody
    clients,    \* the stations the driver has
    apEvents,   \* access point events in the event loop
    apStep,     \* the handler of a disconnection has called wifi_ap_sta_list
    ap_sta_list,\* the one list there is, which the page fills too
    apBit       \* WIFI_AP_STA_CONNECTED_BIT

serial == <<uart, total, count, stats, loopq, counted, heard, lost>>
point  == <<clients, apEvents, apStep, ap_sta_list, apBit>>
vars   == <<prompt, main, uart, total, count, stats, loopq, counted, heard, lost,
            clients, apEvents, apStep, ap_sta_list, apBit>>

(* app_main, as far as it matters here.  The web server runs before the    *)
(* bridge registers its handler.                                           *)
Startup == <<"stats init", "uart_init", "event loop", "wifi", "web server", "register", "up">>

Before(step) == main <= IndexFirstSubSeq(<<step>>, Startup)

Init ==
    /\ prompt \in BOOLEAN /\ main = 1
    /\ uart = [pc |-> "read", n |-> 0, c |-> 0]
    /\ total = 0 /\ count = 0 /\ stats = "delay"
    /\ loopq = <<>> /\ counted = 0 /\ heard = 0 /\ lost = 0
    /\ clients = {} /\ apEvents = <<>> /\ apStep = "none" /\ ap_sta_list = {} /\ apBit = FALSE

AppMain ==
    /\ main < Len(Startup) /\ main' = main + 1
    /\ UNCHANGED <<prompt, serial, point>>

-----------------------------------------------------------------------------
(* uart_task.  stream_stats_increment adds to the total, and loads, adds   *)
(* to and stores the count of the period.                                  *)

UartRead ==
    /\ ~Before("uart_init") /\ uart.pc = "read"
    /\ \E n \in 1..MaxInput - total : uart' = [pc |-> "total", n |-> n, c |-> 0]
    /\ UNCHANGED <<prompt, main, total, count, stats, loopq, counted, heard, lost, point>>

IncrementTotal ==
    /\ uart.pc = "total" /\ uart' = [uart EXCEPT !.pc = "load"]
    /\ total' = total + uart.n
    /\ UNCHANGED <<prompt, main, count, stats, loopq, counted, heard, lost, point>>

IncrementLoad ==
    /\ uart.pc = "load" /\ uart' = [uart EXCEPT !.pc = "store", !.c = count]
    /\ prompt => stats # "zero"
    /\ UNCHANGED <<prompt, main, total, count, stats, loopq, counted, heard, lost, point>>

IncrementStore ==
    /\ uart.pc = "store" /\ uart' = [uart EXCEPT !.pc = "post"]
    /\ count' = uart.c + uart.n
    /\ UNCHANGED <<prompt, main, total, stats, loopq, counted, heard, lost, point>>

(* Fault: a post that finds no room or no loop is repeated together with   *)
(* the increment before it.                                                *)
UartPostRecounts ==
    /\ uart.pc = "post"
    /\ IF ~Before("event loop") /\ Len(loopq) < LoopSize
       THEN loopq' = Append(loopq, uart.n) /\ uart' = [pc |-> "read", n |-> 0, c |-> 0]
       ELSE uart' = [uart EXCEPT !.pc = "total"] /\ UNCHANGED loopq
    /\ UNCHANGED <<prompt, main, total, count, stats, counted, heard, lost, point>>

(* esp_event_post waits for room; without a loop it fails, unnoticed. *)
UartPost ==
    /\ uart.pc = "post" /\ uart' = [pc |-> "read", n |-> 0, c |-> 0]
    /\ \/ Before("event loop") /\ lost' = lost + uart.n /\ UNCHANGED loopq
       \/ /\ ~Before("event loop") /\ Len(loopq) < LoopSize
          /\ loopq' = Append(loopq, uart.n) /\ UNCHANGED lost
    /\ UNCHANGED <<prompt, main, total, count, stats, counted, heard, point>>

(* The event loop finds a handler once common_protocol_init registered it. *)
Dispatch ==
    /\ loopq # <<>> /\ loopq' = Tail(loopq)
    /\ IF Before("register") THEN lost' = lost + Head(loopq) /\ UNCHANGED heard
                             ELSE heard' = heard + Head(loopq) /\ UNCHANGED lost
    /\ UNCHANGED <<prompt, main, uart, total, count, stats, counted, point>>

-----------------------------------------------------------------------------
(* stream_stats_task: the count goes into the rate and is then cleared.    *)

(* Fault: the count is not cleared. *)
StatsZeroForgotten ==
    /\ stats = "zero" /\ stats' = "delay"
    /\ UNCHANGED <<prompt, main, uart, total, count, loopq, counted, heard, lost, point>>

StatsRate ==
    /\ ~Before("uart_init") /\ stats = "delay" /\ stats' = "zero"
    /\ prompt => uart.pc # "store"
    /\ counted' = counted + count
    /\ UNCHANGED <<prompt, main, uart, total, count, loopq, heard, lost, point>>

StatsZero ==
    /\ stats = "zero" /\ stats' = "delay"
    /\ count' = 0
    /\ UNCHANGED <<prompt, main, uart, total, loopq, counted, heard, lost, point>>

-----------------------------------------------------------------------------
(* The access point: its driver, the handlers in the event loop, and the   *)
(* page, whose wifi_ap_status fills the same list, at any time or never:   *)
(* it returns before it does while the access point is not active.         *)

PageStations ==
    /\ ~Before("web server") /\ ap_sta_list' = clients
    /\ UNCHANGED <<prompt, main, serial, clients, apEvents, apStep, apBit>>

StationComes(c) ==
    /\ ~Before("wifi") /\ c \notin clients /\ Len(apEvents) < LoopSize
    /\ clients' = clients \cup {c} /\ apEvents' = Append(apEvents, "STACONNECTED")
    /\ UNCHANGED <<prompt, main, serial, apStep, ap_sta_list, apBit>>

StationLeaves(c) ==
    /\ c \in clients /\ Len(apEvents) < LoopSize
    /\ clients' = clients \ {c} /\ apEvents' = Append(apEvents, "STADISCONNECTED")
    /\ UNCHANGED <<prompt, main, serial, apStep, ap_sta_list, apBit>>

HandleApStaConnected ==
    /\ apStep = "none" /\ apEvents # <<>> /\ Head(apEvents) = "STACONNECTED"
    /\ apEvents' = Tail(apEvents) /\ apBit' = TRUE
    /\ UNCHANGED <<prompt, main, serial, clients, apStep, ap_sta_list>>

HandleApStaDisconnected ==
    /\ apStep = "none" /\ apEvents # <<>> /\ Head(apEvents) = "STADISCONNECTED"
    /\ apEvents' = Tail(apEvents) /\ apStep' = "test"
    /\ ap_sta_list' = clients
    /\ UNCHANGED <<prompt, main, serial, clients, apBit>>

(* Fault: whoever leaves was the last. *)
ClearApBitAlways ==
    /\ apStep = "test" /\ apStep' = "none"
    /\ apBit' = FALSE
    /\ UNCHANGED <<prompt, main, serial, clients, apEvents, ap_sta_list>>

ClearApBit ==
    /\ apStep = "test" /\ apStep' = "none"
    /\ apBit' = (apBit /\ ap_sta_list # {})
    /\ UNCHANGED <<prompt, main, serial, clients, apEvents, ap_sta_list>>

Next ==
    \/ AppMain
    \/ UartRead \/ IncrementTotal \/ IncrementLoad \/ IncrementStore \/ UartPost \/ Dispatch
    \/ StatsRate \/ StatsZero
    \/ PageStations
    \/ \E c \in Clients : StationComes(c) \/ StationLeaves(c)
    \/ HandleApStaConnected \/ HandleApStaDisconnected \/ ClearApBit

Spec == Init /\ [][Next]_vars

-----------------------------------------------------------------------------
(* Properties. *)

(* The entries of q add up to n: t are the running totals, which never     *)
(* fall.                                                                   *)
AddsUp(q, n) ==
    \E t \in [0..Len(q) -> 0..n] :
        /\ t[0] = 0 /\ t[Len(q)] = n
        /\ \A i \in 1..Len(q) : t[i] = t[i - 1] + q[i]
        /\ \A i, j \in 0..Len(q) : i <= j => t[i] <= t[j]

(* The bytes of an increment under way that the total has already.         *)
Underway(steps) == IF uart.pc \in steps THEN uart.n ELSE 0

(* Every byte read is in the total, and is about to be posted, waits in    *)
(* the event loop, has been heard, or came before the bridge had           *)
(* registered (uart.c:236).                                                *)
BytesInv ==
    \E n \in 0..total :
        /\ AddsUp(loopq, n)
        /\ total = heard + lost + n + Underway({"load", "store", "post"})

(* It is in one rate exactly, if the tasks do not overlap: in one already, *)
(* in the count that will go into the next, or in the increment's hands    *)
(* (stream_stats.c:79).                                                    *)
RatesInv ==
    prompt =>
        /\ total = counted + (IF stats = "zero" THEN 0 ELSE count) + Underway({"load", "store"})
        /\ uart.pc = "store" => stats # "zero" /\ uart.c = count

(* Between two reads the books balance.                                    *)
InputAccounted ==
    uart.pc = "read" =>
        /\ \E n \in 0..total : AddsUp(loopq, n) /\ total = heard + lost + n
        /\ prompt => total = counted + (IF stats = "zero" THEN 0 ELSE count)

(* Once the events are handled, the bit says if there is a station, though *)
(* the page fills ap_sta_list between a handler's call and its test        *)
(* (wifi.c:216), and stations come and go meanwhile.                       *)
ApBitFollowsClients == apEvents = <<>> /\ apStep = "none" => (apBit <=> clients # {})

(* Why: a station that is there has its event in the queue or has set the  *)
(* bit, which then stays; the last of the events says that the last has    *)
(* left, and once it is handled the list it is tested against is empty.    *)
PointInv ==
    /\ clients # {} => \/ \E i \in 1..Len(apEvents) : apEvents[i] = "STACONNECTED"
                       \/ apBit /\ (apStep = "test" => ap_sta_list # {})
    /\ clients = {} /\ Len(apEvents) > 0 => apEvents[Len(apEvents)] = "STADISCONNECTED"
    /\ clients = {} /\ Len(apEvents) = 0 =>
            IF apStep = "test" THEN ap_sta_list = {} ELSE ~apBit

(* The bytes of an increment under way are in the count at most once.      *)
CountInv ==
    /\ uart.pc # "read" => uart.n > 0
    /\ uart.pc = "total" => total + uart.n <= MaxInput
    /\ uart.pc = "store" => uart.c + uart.n <= total
    /\ IF uart.pc \in {"load", "store"} THEN count + uart.n <= total ELSE count <= total

StartTypes == prompt \in BOOLEAN /\ main \in 1..Len(Startup)

CountTypes ==
    /\ uart \in [pc : {"read", "total", "load", "store", "post"}, n : 0..MaxInput, c : 0..MaxInput]
    /\ total \in 0..MaxInput /\ count \in 0..MaxInput

LoopTypes ==
    /\ stats \in {"delay", "zero"} /\ counted \in Nat /\ heard \in Nat /\ lost \in Nat
    /\ loopq \in Seq(1..MaxInput) /\ Len(loopq) <= LoopSize

PointTypes ==
    /\ clients \subseteq Clients /\ ap_sta_list \subseteq Clients
    /\ apEvents \in Seq({"STACONNECTED", "STADISCONNECTED"}) /\ Len(apEvents) <= LoopSize
    /\ apStep \in {"none", "test"} /\ apBit \in BOOLEAN

TypeOK == StartTypes /\ CountTypes /\ LoopTypes /\ PointTypes
=============================================================================
