---------------------------- MODULE StatusProofs ----------------------------
(***************************************************************************)
(* Proofs about Status.tla: its variables keep their types, the bit of the *)
(* access point follows the stations, and no byte is lost in the counts;   *)
(* for any number of stations, any input and any length of the queue.      *)
(***************************************************************************)
EXTENDS Status, TLAPS

IInv == TypeOK /\ CountInv /\ PointInv

(* What a queue keeps when an event is added to it or taken from it.       *)
LEMMA Appended ==
    ASSUME NEW S, NEW q \in Seq(S), NEW e \in S
    PROVE  /\ Append(q, e) \in Seq(S) /\ Len(Append(q, e)) = Len(q) + 1
           /\ Append(q, e)[Len(q) + 1] = e
           /\ \A i \in 1..Len(q) : Append(q, e)[i] = q[i]
OBVIOUS

LEMMA Taken ==
    ASSUME NEW S, NEW q \in Seq(S), q # <<>>
    PROVE  /\ Tail(q) \in Seq(S) /\ Len(Tail(q)) = Len(q) - 1 /\ Len(q) \in Nat /\ Len(q) > 0
           /\ Head(q) = q[1] /\ Head(q) \in S
           /\ \A i \in 1..Len(Tail(q)) : Tail(q)[i] = q[i + 1]
OBVIOUS

LEMMA Started == Len(Startup) = 7
BY DEF Startup

LEMMA Initially == Init => IInv
<1> SUFFICES ASSUME Init PROVE IInv
  OBVIOUS
<1> USE StatusAssumption DEF Init
<1>1. StartTypes
  BY Started DEF StartTypes
<1>2. CountTypes
  BY DEF CountTypes
<1>3. LoopTypes
  BY DEF LoopTypes
<1>4. PointTypes
  <2>1. clients = {} /\ ap_sta_list = {} /\ apEvents = <<>> /\ apStep = "none" /\ apBit = FALSE
    OBVIOUS
  <2>2. apEvents \in Seq({"STACONNECTED", "STADISCONNECTED"}) /\ Len(apEvents) = 0
    BY <2>1
  <2>3. apStep \in {"none", "test"} /\ apBit \in BOOLEAN
    BY <2>1
  <2>4. clients \subseteq Clients /\ ap_sta_list \subseteq Clients
    BY <2>1
  <2>5. Len(apEvents) <= LoopSize
    BY <2>2
  <2> QED
    BY <2>2, <2>3, <2>4, <2>5, Zenon DEF PointTypes
<1>5. CountInv
  BY DEF CountInv
<1>6. PointInv
  BY DEF PointInv
<1> QED
  BY <1>1, <1>2, <1>3, <1>4, <1>5, <1>6 DEF IInv, TypeOK

LEMMA StartStep == StartTypes /\ [Next]_vars => StartTypes'
<1> SUFFICES ASSUME StartTypes, [Next]_vars PROVE StartTypes'
  OBVIOUS
<1>1. CASE AppMain
  BY <1>1, Started DEF AppMain, StartTypes
<1>2. CASE ~AppMain
  <2>1. UNCHANGED <<prompt, main>>
    BY <1>2 DEF Next, vars, UartRead, IncrementTotal, IncrementLoad, IncrementStore, UartPost,
        Dispatch, StatsRate, StatsZero, PageStations, StationComes, StationLeaves,
        HandleApStaConnected, HandleApStaDisconnected, ClearApBit
  <2> QED
    BY <2>1 DEF StartTypes
<1> QED
  BY <1>1, <1>2

-----------------------------------------------------------------------------
(* The count of the period never exceeds the total, whatever overlaps.     *)

LEMMA CountStep ==
    ASSUME CountTypes, CountInv, LoopTypes, [Next]_vars
    PROVE  CountTypes' /\ CountInv'
<1> USE StatusAssumption
<1>1. CASE UartRead
  <2>1. PICK n \in 1..MaxInput - total : uart' = [pc |-> "total", n |-> n, c |-> 0]
    BY <1>1 DEF UartRead
  <2>2. n \in 0..MaxInput /\ total + n <= MaxInput
    BY <2>1 DEF CountTypes
  <2>3. total' = total /\ count' = count /\ uart.pc = "read"
    BY <1>1 DEF UartRead
  <2>4. CountTypes'
    BY <2>1, <2>2, <2>3 DEF CountTypes
  <2>5. CountInv'
    BY <2>1, <2>2, <2>3 DEF CountInv
  <2> QED
    BY <2>4, <2>5
<1>2. CASE IncrementTotal
  <2>1. uart.pc = "total" /\ uart' = [uart EXCEPT !.pc = "load"] /\ total' = total + uart.n /\ count' = count
    BY <1>2 DEF IncrementTotal
  <2>2. total + uart.n <= MaxInput /\ count <= total
    BY <2>1 DEF CountInv
  <2>3. uart'.pc = "load" /\ uart'.n = uart.n /\ uart'.c = uart.c
    BY <2>1 DEF CountTypes
  <2>4. CountTypes'
    BY <2>1, <2>2 DEF CountTypes
  <2>5. CountInv'
    BY <2>1, <2>2, <2>3 DEF CountInv, CountTypes
  <2> QED
    BY <2>4, <2>5
<1>3. CASE IncrementLoad
  <2>1. uart.pc = "load" /\ uart' = [uart EXCEPT !.pc = "store", !.c = count] /\ total' = total /\ count' = count
    BY <1>3 DEF IncrementLoad
  <2>2. uart'.pc = "store" /\ uart'.n = uart.n /\ uart'.c = count
    BY <2>1 DEF CountTypes
  <2>3. CountTypes'
    BY <2>1 DEF CountTypes
  <2>4. CountInv'
    BY <2>1, <2>2 DEF CountInv
  <2> QED
    BY <2>3, <2>4
<1>4. CASE IncrementStore
  <2>1. uart.pc = "store" /\ uart' = [uart EXCEPT !.pc = "post"] /\ total' = total /\ count' = uart.c + uart.n
    BY <1>4 DEF IncrementStore
  <2>2. uart'.pc = "post" /\ uart.c + uart.n <= total
    BY <2>1 DEF CountTypes, CountInv
  <2>3. CountTypes'
    BY <2>1, <2>2 DEF CountTypes
  <2>4. CountInv'
    BY <2>1, <2>2 DEF CountInv
  <2> QED
    BY <2>3, <2>4
<1>5. CASE UartPost
  <2>1. uart.pc = "post" /\ uart' = [pc |-> "read", n |-> 0, c |-> 0] /\ total' = total /\ count' = count
    BY <1>5 DEF UartPost
  <2>2. CountTypes'
    BY <2>1 DEF CountTypes
  <2>3. CountInv'
    BY <2>1 DEF CountInv
  <2> QED
    BY <2>2, <2>3
<1>6. CASE StatsZero
  <2>1. count' = 0 /\ total' = total /\ uart' = uart
    BY <1>6 DEF StatsZero
  <2> QED
    BY <2>1 DEF CountTypes, CountInv
<1>7. CASE UNCHANGED <<uart, total, count>>
  BY <1>7 DEF CountTypes, CountInv
<1> QED
  BY <1>1, <1>2, <1>3, <1>4, <1>5, <1>6, <1>7 DEF Next, vars, serial, AppMain, Dispatch, StatsRate,
      PageStations, StationComes, StationLeaves, HandleApStaConnected, HandleApStaDisconnected, ClearApBit

LEMMA LoopStep ==
    ASSUME CountTypes, CountInv, LoopTypes, [Next]_vars
    PROVE  LoopTypes'
<1> USE StatusAssumption
<1>1. CASE UartPost
  <2>1. /\ uart.pc = "post"
        /\ \/ lost' = lost + uart.n /\ loopq' = loopq
           \/ Len(loopq) < LoopSize /\ loopq' = Append(loopq, uart.n) /\ lost' = lost
        /\ UNCHANGED <<stats, counted, heard>>
    BY <1>1 DEF UartPost
  <2>2. CASE lost' = lost + uart.n /\ loopq' = loopq
    BY <2>1, <2>2 DEF LoopTypes, CountTypes
  <2>3. CASE Len(loopq) < LoopSize /\ loopq' = Append(loopq, uart.n) /\ lost' = lost
    <3>1. uart.n \in 1..MaxInput
      BY <2>1 DEF CountTypes, CountInv
    <3>2. loopq' \in Seq(1..MaxInput) /\ Len(loopq') = Len(loopq) + 1 /\ Len(loopq) \in Nat
      BY <2>3, <3>1, Appended DEF LoopTypes
    <3> QED
      BY <2>1, <2>3, <3>2 DEF LoopTypes
  <2> QED
    BY <2>1, <2>2, <2>3
<1>2. CASE Dispatch
  <2>1. loopq # <<>> /\ loopq' = Tail(loopq) /\ UNCHANGED <<stats, counted>>
    BY <1>2 DEF Dispatch
  <2>2. loopq' \in Seq(1..MaxInput) /\ Len(loopq') = Len(loopq) - 1 /\ Len(loopq) \in Nat /\ Head(loopq) \in Nat
    BY <2>1, Taken DEF LoopTypes
  <2>3. heard' \in Nat /\ lost' \in Nat
    BY <1>2, <2>2 DEF Dispatch, LoopTypes
  <2> QED
    BY <2>1, <2>2, <2>3 DEF LoopTypes
<1>3. CASE StatsRate
  BY <1>3 DEF StatsRate, LoopTypes, CountTypes
<1>4. CASE StatsZero
  BY <1>4 DEF StatsZero, LoopTypes
<1>5. CASE UNCHANGED <<stats, counted, heard, lost, loopq>>
  BY <1>5 DEF LoopTypes
<1> QED
  BY <1>1, <1>2, <1>3, <1>4, <1>5 DEF Next, vars, serial, AppMain, UartRead, IncrementTotal, IncrementLoad,
      IncrementStore, PageStations, StationComes, StationLeaves, HandleApStaConnected,
      HandleApStaDisconnected, ClearApBit
-----------------------------------------------------------------------------
(* The access point.                                                       *)

Events == {"STACONNECTED", "STADISCONNECTED"}

LEMMA PointStep ==
    ASSUME PointTypes, PointInv, [Next]_vars
    PROVE  PointTypes' /\ PointInv'
<1> USE StatusAssumption
<1>0. apEvents \in Seq(Events) /\ Len(apEvents) \in Nat
  BY DEF PointTypes, Events
<1>1. CASE PageStations
  <2>1. ap_sta_list' = clients /\ UNCHANGED <<clients, apEvents, apStep, apBit>>
    BY <1>1 DEF PageStations
  <2> QED
    BY <2>1 DEF PointTypes, PointInv
<1>2. ASSUME NEW c \in Clients, StationComes(c)
      PROVE  PointTypes' /\ PointInv'
  <2>1. /\ clients' = clients \cup {c} /\ apEvents' = Append(apEvents, "STACONNECTED")
        /\ Len(apEvents) < LoopSize /\ UNCHANGED <<apStep, ap_sta_list, apBit>>
    BY <1>2 DEF StationComes
  <2>2. /\ apEvents' \in Seq(Events) /\ Len(apEvents') = Len(apEvents) + 1
        /\ apEvents'[Len(apEvents) + 1] = "STACONNECTED"
    BY <2>1, <1>0, Appended DEF Events
  <2>3. PointTypes'
    BY <2>1, <2>2, <1>0 DEF PointTypes, Events
  <2>4. clients' # {} /\ \E i \in 1..Len(apEvents') : apEvents'[i] = "STACONNECTED"
    BY <2>1, <2>2, <1>0
  <2> QED
    BY <2>3, <2>4 DEF PointInv
<1>3. ASSUME NEW c \in Clients, StationLeaves(c)
      PROVE  PointTypes' /\ PointInv'
  <2>1. /\ c \in clients /\ clients' = clients \ {c} /\ apEvents' = Append(apEvents, "STADISCONNECTED")
        /\ Len(apEvents) < LoopSize /\ UNCHANGED <<apStep, ap_sta_list, apBit>>
    BY <1>3 DEF StationLeaves
  <2>2. /\ apEvents' \in Seq(Events) /\ Len(apEvents') = Len(apEvents) + 1
        /\ apEvents'[Len(apEvents')] = "STADISCONNECTED"
        /\ \A i \in 1..Len(apEvents) : apEvents'[i] = apEvents[i]
    BY <2>1, <1>0, Appended DEF Events
  <2>3. PointTypes'
    BY <2>1, <2>2, <1>0 DEF PointTypes, Events
  <2>4. \/ \E i \in 1..Len(apEvents) : apEvents[i] = "STACONNECTED"
        \/ apBit /\ (apStep = "test" => ap_sta_list # {})
    BY <2>1 DEF PointInv
  <2>5. \/ \E i \in 1..Len(apEvents') : apEvents'[i] = "STACONNECTED"
        \/ apBit' /\ (apStep' = "test" => ap_sta_list' # {})
    <3>1. CASE \E i \in 1..Len(apEvents) : apEvents[i] = "STACONNECTED"
      BY <3>1, <2>2, <1>0
    <3>2. CASE apBit /\ (apStep = "test" => ap_sta_list # {})
      BY <3>2, <2>1
    <3> QED
      BY <2>4, <3>1, <3>2
  <2>6. Len(apEvents') # 0
    BY <2>2, <1>0
  <2> QED
    BY <2>2, <2>3, <2>5, <2>6 DEF PointInv
<1>4. CASE HandleApStaConnected
  <2>1. /\ apStep = "none" /\ apEvents # <<>> /\ apEvents[1] = "STACONNECTED"
        /\ apEvents' = Tail(apEvents) /\ apBit' = TRUE
        /\ UNCHANGED <<clients, apStep, ap_sta_list>>
    BY <1>4, <1>0, Taken DEF HandleApStaConnected
  <2>2. /\ apEvents' \in Seq(Events) /\ Len(apEvents') = Len(apEvents) - 1 /\ Len(apEvents) > 0
        /\ \A i \in 1..Len(apEvents') : apEvents'[i] = apEvents[i + 1]
    BY <2>1, <1>0, Taken
  <2>3. PointTypes'
    BY <2>1, <2>2, <1>0 DEF PointTypes, Events
  <2>4. clients = {} => Len(apEvents) > 1 /\ apEvents'[Len(apEvents')] = "STADISCONNECTED"
    <3> SUFFICES ASSUME clients = {}
                 PROVE  Len(apEvents) > 1 /\ apEvents'[Len(apEvents')] = "STADISCONNECTED"
      OBVIOUS
    <3>1. apEvents[Len(apEvents)] = "STADISCONNECTED"
      BY <2>2 DEF PointInv
    <3>2. Len(apEvents) # 1
      BY <3>1, <2>1
    <3> QED
      BY <3>1, <3>2, <2>2, <1>0
  <2>5. apBit' /\ apStep' # "test"
    BY <2>1
  <2>6. clients' = clients /\ (clients = {} => Len(apEvents') # 0)
    BY <2>1, <2>2, <2>4, <1>0
  <2> QED
    BY <2>3, <2>4, <2>5, <2>6 DEF PointInv
<1>5. CASE HandleApStaDisconnected
  <2>1. /\ apStep = "none" /\ apEvents # <<>> /\ apEvents[1] = "STADISCONNECTED"
        /\ apEvents' = Tail(apEvents) /\ apStep' = "test" /\ ap_sta_list' = clients
        /\ UNCHANGED <<clients, apBit>>
    BY <1>5, <1>0, Taken DEF HandleApStaDisconnected
  <2>2. /\ apEvents' \in Seq(Events) /\ Len(apEvents') = Len(apEvents) - 1 /\ Len(apEvents) > 0
        /\ \A i \in 1..Len(apEvents') : apEvents'[i] = apEvents[i + 1]
    BY <2>1, <1>0, Taken
  <2>3. PointTypes'
    BY <2>1, <2>2, <1>0 DEF PointTypes, Events
  <2>4. clients' = {} /\ Len(apEvents') > 0 => apEvents'[Len(apEvents')] = "STADISCONNECTED"
    <3> SUFFICES ASSUME clients = {}, Len(apEvents') > 0
                 PROVE  apEvents'[Len(apEvents')] = "STADISCONNECTED"
      BY <2>1
    <3>1. apEvents[Len(apEvents)] = "STADISCONNECTED"
      BY <2>2 DEF PointInv
    <3> QED
      BY <3>1, <2>2, <1>0
  <2>5. clients' # {} => \/ \E i \in 1..Len(apEvents') : apEvents'[i] = "STACONNECTED"
                         \/ apBit' /\ ap_sta_list' # {}
    <3>1. CASE \E i \in 1..Len(apEvents) : apEvents[i] = "STACONNECTED"
      <4>1. PICK i \in 1..Len(apEvents) : apEvents[i] = "STACONNECTED"
        BY <3>1
      <4>2. i # 1
        BY <4>1, <2>1
      <4>3. i - 1 \in 1..Len(apEvents') /\ apEvents'[i - 1] = "STACONNECTED"
        BY <4>1, <4>2, <2>2, <1>0
      <4> QED
        BY <4>3
    <3>2. CASE clients # {} /\ apBit
      BY <3>2, <2>1
    <3> QED
      BY <3>1, <3>2, <2>1 DEF PointInv
  <2>6. clients' = {} => ap_sta_list' = {}
    BY <2>1
  <2>7. apStep' = "test"
    BY <2>1
  <2> QED
    BY <2>3, <2>4, <2>5, <2>6, <2>7 DEF PointInv
<1>6. CASE ClearApBit
  <2>1. /\ apStep = "test" /\ apStep' = "none" /\ apBit' = (apBit /\ ap_sta_list # {})
        /\ UNCHANGED <<clients, apEvents, ap_sta_list>>
    BY <1>6 DEF ClearApBit
  <2>2. PointTypes'
    <3>1. (apBit /\ ap_sta_list # {}) \in BOOLEAN
      OBVIOUS
    <3> QED
      BY <2>1, <3>1 DEF PointTypes
  <2>3. apBit' <=> apBit /\ ap_sta_list # {}
    BY <2>1
  <2> QED
    BY <2>1, <2>2, <2>3 DEF PointInv
<1>7. CASE UNCHANGED point
  BY <1>7 DEF PointTypes, PointInv, point
<1> QED
  BY <1>1, <1>2, <1>3, <1>4, <1>5, <1>6, <1>7 DEF Next, vars, point, AppMain, UartRead, IncrementTotal,
      IncrementLoad, IncrementStore, UartPost, Dispatch, StatsRate, StatsZero

-----------------------------------------------------------------------------
(* Sums of a queue's entries.                                              *)

LEMMA AddsNothing == AddsUp(<<>>, 0)
<1>. DEFINE t == [i \in 0..0 |-> 0]
<1>1. Len(<<>>) = 0
  OBVIOUS
<1>2. t \in [0..0 -> 0..0] /\ t[0] = 0
  OBVIOUS
<1>3. /\ \A i \in 1..0 : t[i] = t[i - 1] + <<>>[i]
      /\ \A i, j \in 0..0 : i <= j => t[i] <= t[j]
  BY <1>2
<1>. HIDE DEF t
<1>. QED
  BY <1>1, <1>2, <1>3 DEF AddsUp

LEMMA AddsOne ==
    ASSUME NEW q \in Seq(Nat), NEW n \in Nat, NEW e \in Nat, AddsUp(q, n)
    PROVE  AddsUp(Append(q, e), n + e)
<1>. DEFINE p == Append(q, e)
<1>1. /\ p \in Seq(Nat) /\ Len(p) = Len(q) + 1 /\ Len(q) \in Nat
      /\ p[Len(q) + 1] = e /\ \A i \in 1..Len(q) : p[i] = q[i]
  BY Appended
<1>. HIDE DEF p
<1>2. PICK t \in [0..Len(q) -> 0..n] :
        /\ t[0] = 0 /\ t[Len(q)] = n
        /\ \A i \in 1..Len(q) : t[i] = t[i - 1] + q[i]
        /\ \A i, j \in 0..Len(q) : i <= j => t[i] <= t[j]
  BY DEF AddsUp
<1>. DEFINE u == [i \in 0..Len(p) |-> IF i <= Len(q) THEN t[i] ELSE n + e]
<1>3. \A i \in 0..Len(q) : t[i] \in 0..n /\ u[i] = t[i]
  <2>. TAKE i \in 0..Len(q)
  <2>1. i \in 0..Len(p) /\ i <= Len(q)
    BY <1>1
  <2>. QED
    BY <2>1
<1>4. u[Len(p)] = n + e /\ u[0] = 0 /\ u[Len(q)] = n
  BY <1>1, <1>2
<1>5. u \in [0..Len(p) -> 0..n + e]
  BY <1>1, <1>3
<1>. HIDE DEF u
<1>6. \A i \in 1..Len(p) : u[i] = u[i - 1] + p[i]
  <2>. TAKE i \in 1..Len(p)
  <2>1. CASE i <= Len(q)
    <3>1. i \in 1..Len(q) /\ i \in 0..Len(q) /\ i - 1 \in 0..Len(q)
      BY <1>1, <2>1
    <3>. QED
      BY <1>1, <1>2, <1>3, <3>1
  <2>2. CASE i = Len(p)
    BY <1>1, <1>4, <2>2
  <2>. QED
    BY <1>1, <2>1, <2>2
<1>7. \A i, j \in 0..Len(p) : i <= j => u[i] <= u[j]
  <2>. SUFFICES ASSUME NEW i \in 0..Len(p), NEW j \in 0..Len(p), i <= j PROVE u[i] <= u[j]
    OBVIOUS
  <2>1. CASE j <= Len(q)
    <3>1. i \in 0..Len(q) /\ j \in 0..Len(q)
      BY <1>1, <2>1
    <3>. QED
      BY <1>2, <1>3, <3>1
  <2>2. CASE j = Len(p)
    <3>1. u[i] \in 0..n + e
      BY <1>5
    <3>. QED
      BY <1>4, <2>2, <3>1
  <2>. QED
    BY <1>1, <2>1, <2>2
<1>8. AddsUp(p, n + e)
  BY <1>4, <1>5, <1>6, <1>7 DEF AddsUp
<1>. QED
  BY <1>8 DEF p

LEMMA TakesOne ==
    ASSUME NEW q \in Seq(Nat), NEW n \in Nat, q # <<>>, AddsUp(q, n)
    PROVE  Head(q) \in 0..n /\ AddsUp(Tail(q), n - Head(q))
<1>. DEFINE p == Tail(q)
            h == Head(q)
<1>1. /\ p \in Seq(Nat) /\ Len(p) = Len(q) - 1 /\ Len(q) \in Nat \ {0}
      /\ h = q[1] /\ h \in Nat
      /\ \A i \in 1..Len(p) : p[i] = q[i + 1]
  BY Taken
<1>. HIDE DEF p, h
<1>2. PICK t \in [0..Len(q) -> 0..n] :
        /\ t[0] = 0 /\ t[Len(q)] = n
        /\ \A i \in 1..Len(q) : t[i] = t[i - 1] + q[i]
        /\ \A i, j \in 0..Len(q) : i <= j => t[i] <= t[j]
  BY DEF AddsUp
<1>3. t[1] = h
  BY <1>1, <1>2
<1>a. \A i \in 0..Len(q) : t[i] \in 0..n
  OBVIOUS
<1>4. \A i \in 0..Len(p) : /\ i + 1 \in 1..Len(q) /\ i + 1 \in 0..Len(q)
                           /\ t[i + 1] \in 0..n /\ h <= t[i + 1]
  <2>. TAKE i \in 0..Len(p)
  <2>1. i + 1 \in 1..Len(q) /\ i + 1 \in 0..Len(q) /\ 1 \in 0..Len(q) /\ 1 <= i + 1
    BY <1>1
  <2>. QED
    BY <1>a, <1>2, <1>3, <2>1
<1>5. h \in 0..n
  BY <1>1, <1>4
<1>. DEFINE u == [i \in 0..Len(p) |-> t[i + 1] - h]
<1>6. \A i \in 0..Len(p) : u[i] = t[i + 1] - h /\ u[i] \in 0..n - h
  BY <1>1, <1>4, <1>5
<1>7. u \in [0..Len(p) -> 0..n - h]
  BY <1>6
<1>. HIDE DEF u
<1>8. u[0] = 0 /\ u[Len(p)] = n - h
  <2>1. 0 \in 0..Len(p) /\ Len(p) \in 0..Len(p) /\ Len(p) + 1 = Len(q) /\ 0 + 1 = 1
    BY <1>1
  <2>2. u[0] = t[1] - h /\ u[Len(p)] = t[Len(q)] - h
    BY <1>6, <2>1
  <2>. QED
    BY <1>1, <1>2, <1>3, <2>2
<1>9. \A i \in 1..Len(p) : u[i] = u[i - 1] + p[i]
  <2>. TAKE i \in 1..Len(p)
  <2>1. i \in 0..Len(p) /\ i - 1 \in 0..Len(p) /\ i + 1 \in 1..Len(q) /\ (i - 1) + 1 = i
    BY <1>1
  <2>2. t[i + 1] = t[i] + q[i + 1] /\ p[i] = q[i + 1] /\ q[i + 1] \in Nat
    <3>1. p[i] = q[i + 1] /\ p[i] \in Nat
      BY <1>1
    <3>2. t[i + 1] = t[(i + 1) - 1] + q[i + 1] /\ (i + 1) - 1 = i
      BY <1>2, <2>1
    <3>. QED
      BY <3>1, <3>2
  <2>3. t[i + 1] \in Nat /\ t[i] \in Nat
    BY <1>a, <1>1, <2>1
  <2>. QED
    BY <1>1, <1>6, <2>1, <2>2, <2>3
<1>10. \A i, j \in 0..Len(p) : i <= j => u[i] <= u[j]
  <2>. SUFFICES ASSUME NEW i \in 0..Len(p), NEW j \in 0..Len(p), i <= j PROVE u[i] <= u[j]
    OBVIOUS
  <2>1. t[i + 1] <= t[j + 1] /\ t[i + 1] \in Nat /\ t[j + 1] \in Nat
    BY <1>1, <1>2, <1>4
  <2>. QED
    BY <1>1, <1>6, <2>1
<1>11. AddsUp(p, n - h)
  BY <1>7, <1>8, <1>9, <1>10 DEF AddsUp
<1>. QED
  BY <1>5, <1>11 DEF p, h

-----------------------------------------------------------------------------

LEMMA Always == Spec => []IInv
<1>1. ASSUME IInv, [Next]_vars PROVE IInv'
  BY <1>1, StartStep, CountStep, LoopStep, PointStep DEF IInv, TypeOK
<1> QED
  BY Initially, <1>1, PTL DEF Spec

(* The variables keep their types: of a serial line of MaxInput bytes no   *)
(* more are ever counted, and the event loop's queue keeps its length      *)
(* (stream_stats.c:79, uart.c:236).                                        *)
THEOREM StatusTypeCorrect == Spec => []TypeOK
<1>1. IInv => TypeOK
  BY DEF IInv
<1> QED
  BY Always, <1>1, PTL

(* Once the events are handled WIFI_AP_STA_CONNECTED_BIT says whether a    *)
(* station is there, however the page fills ap_sta_list in between         *)
(* (wifi.c:216).                                                           *)
THEOREM ApBitIsRight == Spec => []ApBitFollowsClients
<1>1. IInv => ApBitFollowsClients
  <2> SUFFICES ASSUME IInv, apEvents = <<>>, apStep = "none"
               PROVE  apBit <=> clients # {}
    BY DEF ApBitFollowsClients
  <2>1. Len(apEvents) = 0 /\ apStep # "test" /\ PointInv
    BY DEF IInv
  <2>2. ~\E i \in 1..Len(apEvents) : TRUE
    BY <2>1
  <2> QED
    BY <2>1, <2>2 DEF PointInv
<1> QED
  BY Always, <1>1, PTL

-----------------------------------------------------------------------------
(* The books of the bytes: a step moves bytes from one place to the next.  *)

(* What the proofs use of the types.                                       *)
LEMMA Numbers ==
    ASSUME IInv
    PROVE  /\ total \in Nat /\ count \in Nat /\ counted \in Nat /\ heard \in Nat /\ lost \in Nat
           /\ uart.n \in Nat /\ uart.c \in Nat
           /\ uart = [pc |-> uart.pc, n |-> uart.n, c |-> uart.c]
           /\ loopq \in Seq(Nat) /\ stats \in {"delay", "zero"}
<1>. USE StatusAssumption DEF IInv, TypeOK, CountTypes, LoopTypes
<1>1. /\ total \in Nat /\ count \in Nat /\ uart.n \in Nat /\ uart.c \in Nat
      /\ uart = [pc |-> uart.pc, n |-> uart.n, c |-> uart.c]
  OBVIOUS
<1>2. loopq \in Seq(Nat)
  <2>1. 1..MaxInput \subseteq Nat
    OBVIOUS
  <2>. QED
    BY <2>1
<1>. QED
  BY <1>1, <1>2

(* The books balance, whichever bytes are where.                           *)
Balance(n) ==
    AddsUp(loopq, n) /\ total = heard + lost + n + Underway({"load", "store", "post"})

LEMMA Balanced == ASSUME IInv PROVE BytesInv <=> \E n \in Nat : Balance(n)
<1>1. Underway({"load", "store", "post"}) \in Nat
  BY Numbers DEF Underway
<1>2. \A n \in Nat : total = heard + lost + n + Underway({"load", "store", "post"}) => n \in 0..total
  BY <1>1, Numbers
<1>. QED
  BY <1>2, Numbers DEF BytesInv, Balance

LEMMA BytesStep ==
    ASSUME IInv, IInv', BytesInv, [Next]_vars
    PROVE  BytesInv'
<1>1. PICK n \in Nat : Balance(n)
  BY Balanced
<1>a. /\ total \in Nat /\ heard \in Nat /\ lost \in Nat /\ uart.n \in Nat /\ loopq \in Seq(Nat)
      /\ AddsUp(loopq, n)
      /\ total = heard + lost + n + Underway({"load", "store", "post"})
  BY <1>1, Numbers DEF Balance
<1>b. Balance(n)' <=> /\ AddsUp(loopq', n)
                      /\ total' = heard' + lost' + n + Underway({"load", "store", "post"})'
  BY DEF Balance, AddsUp
<1>c. Underway({"load", "store", "post"})' = IF uart'.pc \in {"load", "store", "post"} THEN uart'.n ELSE 0
  BY DEF Underway
<1>. SUFFICES \E k \in Nat : /\ AddsUp(loopq', k)
                             /\ total' = heard' + lost' + k + Underway({"load", "store", "post"})'
  <2>1. \A k \in Nat : Balance(k)' <=>
            /\ AddsUp(loopq', k)
            /\ total' = heard' + lost' + k + Underway({"load", "store", "post"})'
    BY DEF Balance, AddsUp
  <2>2. BytesInv' <=> \E k \in 0..total' : Balance(k)'
    BY DEF BytesInv, Balance, AddsUp
  <2>3. Underway({"load", "store", "post"})' \in Nat /\ total' \in Nat /\ heard' \in Nat /\ lost' \in Nat
    <3>1. uart'.n \in Nat /\ total' \in Nat /\ heard' \in Nat /\ lost' \in Nat
      BY StatusAssumption DEF IInv, TypeOK, CountTypes, LoopTypes
    <3>. QED
      BY <1>c, <3>1
  <2>4. \A k \in Nat : Balance(k)' => k \in 0..total'
    BY <2>1, <2>3
  <2>. QED
    BY <2>1, <2>2, <2>4
<1>2. CASE UartRead
  <2>1. /\ uart.pc = "read" /\ uart'.pc = "total"
        /\ UNCHANGED <<total, loopq, heard, lost>>
    BY <1>2 DEF UartRead
  <2>. QED
    BY <1>a, <1>c, <2>1 DEF Underway
<1>3. CASE IncrementTotal
  <2>1. /\ uart.pc = "total" /\ uart'.pc = "load" /\ uart'.n = uart.n
        /\ total' = total + uart.n /\ UNCHANGED <<loopq, heard, lost>>
    BY <1>3, Numbers DEF IncrementTotal
  <2>. QED
    BY <1>a, <1>c, <2>1 DEF Underway
<1>4. CASE IncrementLoad \/ IncrementStore
  <2>1. /\ uart.pc \in {"load", "store"} /\ uart'.pc \in {"store", "post"} /\ uart'.n = uart.n
        /\ UNCHANGED <<total, loopq, heard, lost>>
    BY <1>4, Numbers DEF IncrementLoad, IncrementStore
  <2>. QED
    BY <1>a, <1>c, <2>1 DEF Underway
<1>5. CASE UartPost
  <2>1. /\ uart.pc = "post" /\ uart'.pc = "read" /\ UNCHANGED <<total, heard>>
        /\ \/ lost' = lost + uart.n /\ loopq' = loopq
           \/ loopq' = Append(loopq, uart.n) /\ lost' = lost
    BY <1>5 DEF UartPost
  <2>2. total = heard + lost + n + uart.n /\ Underway({"load", "store", "post"})' = 0
    BY <1>a, <1>c, <2>1 DEF Underway
  <2>3. CASE lost' = lost + uart.n /\ loopq' = loopq
    BY <1>a, <2>1, <2>2, <2>3
  <2>4. CASE loopq' = Append(loopq, uart.n) /\ lost' = lost
    <3>1. AddsUp(loopq', n + uart.n)
      BY <1>a, <2>4, AddsOne
    <3>2. n + uart.n \in Nat /\ total' = heard' + lost' + (n + uart.n) + Underway({"load", "store", "post"})'
      BY <1>a, <2>1, <2>2, <2>4
    <3>. QED
      BY <3>1, <3>2
  <2>. QED
    BY <2>1, <2>3, <2>4
<1>6. CASE Dispatch
  <2>1. /\ loopq # <<>> /\ loopq' = Tail(loopq) /\ UNCHANGED <<uart, total>>
        /\ \/ lost' = lost + Head(loopq) /\ heard' = heard
           \/ heard' = heard + Head(loopq) /\ lost' = lost
    BY <1>6 DEF Dispatch
  <2>2. Head(loopq) \in 0..n /\ AddsUp(loopq', n - Head(loopq))
    BY <1>a, <2>1, TakesOne
  <2>3. Underway({"load", "store", "post"})' = Underway({"load", "store", "post"})
    BY <2>1 DEF Underway
  <2>4. Underway({"load", "store", "post"}) \in Nat
    BY <1>a DEF Underway
  <2>5. n - Head(loopq) \in Nat /\ heard' + lost' + (n - Head(loopq)) = heard + lost + n
    <3>. DEFINE h == Head(loopq)
    <3>1. h \in 0..n /\ ((lost' = lost + h /\ heard' = heard) \/ (heard' = heard + h /\ lost' = lost))
      BY <2>1, <2>2
    <3>. HIDE DEF h
    <3>2. n - h \in Nat /\ heard' + lost' + (n - h) = heard + lost + n
      BY <1>a, <3>1
    <3>. QED
      BY <3>2 DEF h
  <2>6. total' = heard' + lost' + (n - Head(loopq)) + Underway({"load", "store", "post"})'
    BY <1>a, <2>1, <2>3, <2>5
  <2>. QED
    BY <2>2, <2>5, <2>6
<1>7. CASE UNCHANGED <<uart, total, loopq, heard, lost>>
  BY <1>a, <1>c, <1>7 DEF Underway
<1>. QED
  BY <1>2, <1>3, <1>4, <1>5, <1>6, <1>7 DEF Next, vars, serial, AppMain, StatsRate, StatsZero,
      PageStations, StationComes, StationLeaves, HandleApStaConnected, HandleApStaDisconnected, ClearApBit

(* Owed to the next rate.                                                  *)
Owed == IF stats = "zero" THEN 0 ELSE count

LEMMA RatesStep ==
    ASSUME IInv, RatesInv, [Next]_vars
    PROVE  RatesInv'
<1>. SUFFICES ASSUME prompt'
              PROVE  /\ total' = counted' + Owed' + Underway({"load", "store"})'
                     /\ uart'.pc = "store" => stats' # "zero" /\ uart'.c = count'
  BY DEF RatesInv, Owed
<1>0. prompt' = prompt
  BY DEF Next, vars, AppMain, UartRead, IncrementTotal, IncrementLoad, IncrementStore, UartPost,
      Dispatch, StatsRate, StatsZero, PageStations, StationComes, StationLeaves,
      HandleApStaConnected, HandleApStaDisconnected, ClearApBit
<1>a. /\ prompt /\ total \in Nat /\ count \in Nat /\ counted \in Nat /\ uart.n \in Nat /\ uart.c \in Nat
      /\ stats \in {"delay", "zero"}
      /\ total = counted + Owed + Underway({"load", "store"})
      /\ uart.pc = "store" => stats # "zero" /\ uart.c = count
  BY <1>0, Numbers DEF RatesInv, Owed
<1>b. /\ Owed' = IF stats' = "zero" THEN 0 ELSE count'
      /\ Underway({"load", "store"})' = IF uart'.pc \in {"load", "store"} THEN uart'.n ELSE 0
  BY DEF Owed, Underway
<1>1. CASE UartRead
  <2>1. /\ uart.pc = "read" /\ uart'.pc = "total" /\ UNCHANGED <<total, count, stats, counted>>
    BY <1>1 DEF UartRead
  <2>. QED
    BY <1>a, <1>b, <2>1 DEF Underway, Owed
<1>2. CASE IncrementTotal
  <2>1. /\ uart.pc = "total" /\ uart'.pc = "load" /\ uart'.n = uart.n
        /\ total' = total + uart.n /\ UNCHANGED <<count, stats, counted>>
    BY <1>2, Numbers DEF IncrementTotal
  <2>. QED
    BY <1>a, <1>b, <2>1 DEF Underway, Owed
<1>3. CASE IncrementLoad
  <2>1. /\ uart.pc = "load" /\ uart'.pc = "store" /\ uart'.n = uart.n /\ uart'.c = count
        /\ stats # "zero" /\ UNCHANGED <<total, count, stats, counted>>
    BY <1>3, <1>a, Numbers DEF IncrementLoad
  <2>. QED
    BY <1>a, <1>b, <2>1 DEF Underway, Owed
<1>4. CASE IncrementStore
  <2>1. /\ uart.pc = "store" /\ uart'.pc = "post" /\ uart'.n = uart.n
        /\ count' = uart.c + uart.n /\ UNCHANGED <<total, stats, counted>>
    BY <1>4, Numbers DEF IncrementStore
  <2>. QED
    BY <1>a, <1>b, <2>1 DEF Underway, Owed
<1>5. CASE UartPost
  <2>1. /\ uart.pc = "post" /\ uart'.pc = "read" /\ UNCHANGED <<total, count, stats, counted>>
    BY <1>5 DEF UartPost
  <2>. QED
    BY <1>a, <1>b, <2>1 DEF Underway, Owed
<1>6. CASE StatsRate
  <2>1. /\ stats = "delay" /\ stats' = "zero" /\ uart.pc # "store"
        /\ counted' = counted + count /\ UNCHANGED <<uart, total, count>>
    BY <1>6, <1>a DEF StatsRate
  <2>. QED
    BY <1>a, <1>b, <2>1 DEF Underway, Owed
<1>7. CASE StatsZero
  <2>1. /\ stats = "zero" /\ stats' = "delay" /\ count' = 0 /\ UNCHANGED <<uart, total, counted>>
    BY <1>7 DEF StatsZero
  <2>. QED
    BY <1>a, <1>b, <2>1 DEF Underway, Owed
<1>8. CASE UNCHANGED <<uart, total, count, stats, counted>>
  BY <1>a, <1>b, <1>8 DEF Underway, Owed
<1>. QED
  BY <1>1, <1>2, <1>3, <1>4, <1>5, <1>6, <1>7, <1>8 DEF Next, vars, serial, AppMain, Dispatch,
      PageStations, StationComes, StationLeaves, HandleApStaConnected, HandleApStaDisconnected, ClearApBit

(* No byte gets lost in the statistics: between two reads of the serial    *)
(* line each is heard, waits, or came too early, and it is in one rate     *)
(* exactly if the two tasks do not overlap on the count                    *)
(* (stream_stats.c:79, uart.c:236).                                        *)
THEOREM BytesAreAccounted == Spec => []InputAccounted
<1>1. Init => BytesInv /\ RatesInv
  <2>. SUFFICES ASSUME Init PROVE BytesInv /\ RatesInv
    OBVIOUS
  <2>1. BytesInv
    BY AddsNothing DEF Init, BytesInv, Underway
  <2>2. RatesInv
    BY DEF Init, RatesInv, Underway
  <2>. QED
    BY <2>1, <2>2
<1>2. IInv /\ IInv' /\ BytesInv /\ RatesInv /\ [Next]_vars => BytesInv' /\ RatesInv'
  BY BytesStep, RatesStep
<1>3. IInv /\ BytesInv /\ RatesInv => InputAccounted
  <2>. SUFFICES ASSUME IInv, BytesInv, RatesInv, uart.pc = "read"
                PROVE  /\ \E n \in 0..total : AddsUp(loopq, n) /\ total = heard + lost + n
                       /\ prompt => total = counted + (IF stats = "zero" THEN 0 ELSE count)
    BY DEF InputAccounted
  <2>1. \A S : "read" \notin S => Underway(S) = 0
    BY DEF Underway
  <2>2. Underway({"load", "store", "post"}) = 0 /\ Underway({"load", "store"}) = 0
    BY <2>1
  <2>3. \A x \in Nat : x + 0 = x
    OBVIOUS
  <2>. QED
    BY <2>2, <2>3, Numbers DEF BytesInv, RatesInv
<1>. QED
  BY Always, <1>1, <1>2, <1>3, PTL DEF Spec
=============================================================================
