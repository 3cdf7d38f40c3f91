---------------------- MODULE CommonProtocolRefinement ----------------------
(***************************************************************************)
(* The bridge core implements the lossy relay of module Relay, provided    *)
(* the handler never runs while a frame is in hand.                        *)
(***************************************************************************)
EXTENDS CommonProtocolProofs

LEMMA FrameType == \A item \in Item : FrameOf(item) \in ByteStrings
  BY BytesType DEF FrameOf, Item

LEMMA QueuedType ==
  ASSUME TypeOK
  PROVE  /\ Queued \in Seq(ByteStrings)
         /\ Len(Queued) = Len(queue)
         /\ \A k \in 1..Len(queue) : Queued[k] = FrameOf(queue[k])
         /\ Len(queue) \in Nat
<1>1. queue \in Seq(Item) /\ Len(queue) \in Nat
  BY DEF TypeOK
<1>2. \A k \in 1..Len(queue) : FrameOf(queue[k]) \in ByteStrings
  BY <1>1, FrameType, ElementOfSeq
<1>. QED
  BY <1>1, <1>2 DEF Queued

(* The abstract queue as the steps see it: the frame in hand comes first.  *)
LEMMA PendingCases ==
  ASSUME TypeOK
  PROVE  /\ ~FrameInHand => InHand \o Queued = Queued
         /\ FrameInHand => /\ InHand \o Queued # <<>>
                           /\ Head(InHand \o Queued) = FrameOf(buf)
                           /\ Tail(InHand \o Queued) = Queued
<1>1. Queued \in Seq(ByteStrings)
  BY QueuedType
<1>2. CASE ~FrameInHand
  BY <1>1, <1>2, ConcatEmptySeq DEF InHand
<1>3. CASE FrameInHand
  <2>1. FrameOf(buf) \in ByteStrings
    BY FrameType DEF TypeOK
  <2>2. InHand = <<FrameOf(buf)>> /\ InHand \in Seq(ByteStrings) /\ Len(InHand) = 1
    BY <1>3, <2>1 DEF InHand
  <2>. DEFINE s == InHand \o Queued
  <2>3. /\ s \in Seq(ByteStrings)
        /\ Len(s) = 1 + Len(Queued)
        /\ \A i \in 1..1 + Len(Queued) :
              s[i] = IF i <= 1 THEN InHand[i] ELSE Queued[i - 1]
    BY <1>1, <2>2, ConcatProperties
  <2>4. Len(Queued) \in Nat
    BY <1>1
  <2>5. s # <<>>
    BY <2>3, <2>4
  <2>6. Head(s) = FrameOf(buf)
    BY <2>2, <2>3, <2>4, <2>5
  <2>7. Tail(s) = Queued
    <3>1. /\ Tail(s) \in Seq(ByteStrings)
          /\ Len(Tail(s)) = Len(Queued)
          /\ \A i \in 1..Len(Queued) : Tail(s)[i] = s[i + 1]
      BY <2>3, <2>4, <2>5, HeadTailProperties
    <3>2. \A i \in 1..Len(Queued) : s[i + 1] = Queued[i]
      BY <2>3, <2>4
    <3>. QED
      BY <1>1, <3>1, <3>2, SeqEqual
  <2>. QED
    BY <1>3, <2>5, <2>6, <2>7
<1>. QED
  BY <1>2, <1>3

-----------------------------------------------------------------------------
(* A step that changes neither the frame in hand nor the queue. *)
LEMMA StutterStep ==
  ASSUME UNCHANGED <<queue, buf, tpc, wire>>
  PROVE  UNCHANGED R!vars
  BY DEF R!vars, InHand, FrameInHand, Queued, FrameOf

LEMMA PanicStep ==
  ASSUME Panic
  PROVE  R!Reset
<1>1. ~FrameInHand' /\ queue' = <<>> /\ wire' = wire
  BY DEF Panic, FrameInHand
<1>2. InHand' = <<>>
  BY <1>1 DEF InHand
<1>3. Queued' = <<>>
  BY <1>1 DEF Queued
<1>4. <<>> \o <<>> = <<>>
  BY ConcatEmptySeq, EmptySeq
<1>. QED
  BY <1>1, <1>2, <1>3, <1>4 DEF R!Reset

(* The handler's steps in the buffer are invisible: no frame is in hand.   *)
LEMMA BufferStep ==
  ASSUME ~FrameInHand, UNCHANGED <<queue, tpc, wire>>
  PROVE  UNCHANGED R!vars
  BY DEF R!vars, InHand, FrameInHand, Queued

LEMMA EnqueueStep ==
  ASSUME TypeOK, TypeOK', IntactInv, Enqueue
  PROVE  [R!Next]_(R!vars)
<1>1. CASE "queue" \notin made
  BY <1>1, PanicStep DEF Enqueue, R!Next
<1>2. CASE "queue" \in made /\ Len(queue) < QueueSize
  <2>1. ~FrameInHand /\ ~FrameInHand'
    BY <1>2 DEF IntactInv, Apart, Enqueue, HandlerInBuffer, FrameInHand, taskVars
  <2>2. /\ queue' = Append(queue, buf) /\ wire' = wire /\ buf' = buf
    BY <1>2 DEF Enqueue
  <2>3. Carries(buf, hmsg) /\ hmsg \in Message
    BY DEF IntactInv, HandlerProgress, Enqueue, TypeOK, Cell
  <2>4. FrameOf(buf) = Payload(hmsg) /\ FrameOf(buf) \in Frames
    BY <2>3, CarriedBytes DEF TypeOK, FrameOf, Frames
  <2>5. queue \in Seq(Item) /\ buf \in Item
    BY DEF TypeOK
  <2>6. FrameOf(buf) \in ByteStrings
    BY <2>5, FrameType
  <2>7. Queued' = Append(Queued, FrameOf(buf))
    <3>1. /\ Queued' \in Seq(ByteStrings)
          /\ Len(Queued') = Len(queue) + 1
          /\ \A k \in 1..Len(queue) + 1 : Queued'[k] = FrameOf(queue'[k])
      <4>1. Len(queue') = Len(queue) + 1
        BY <2>2, <2>5, AppendProperties
      <4>2. Queued' = [k \in 1..Len(queue') |-> FrameOf(queue'[k])]
        BY DEF Queued, FrameOf
      <4>3. \A k \in 1..Len(queue') : FrameOf(queue'[k]) \in ByteStrings
        BY FrameType, ElementOfSeq DEF TypeOK
      <4>4. Len(queue) \in Nat
        BY <2>5
      <4>. QED
        BY <4>1, <4>2, <4>3, <4>4
    <3>2. /\ Append(Queued, FrameOf(buf)) \in Seq(ByteStrings)
          /\ Len(Append(Queued, FrameOf(buf))) = Len(queue) + 1
          /\ \A k \in 1..Len(queue) : Append(Queued, FrameOf(buf))[k] = FrameOf(queue[k])
          /\ Append(Queued, FrameOf(buf))[Len(queue) + 1] = FrameOf(buf)
      BY <2>6, QueuedType, AppendProperties
    <3>3. /\ \A k \in 1..Len(queue) : queue'[k] = queue[k]
          /\ queue'[Len(queue) + 1] = buf
      BY <2>2, <2>5, AppendProperties
    <3>4. \A k \in 1..Len(queue) + 1 : Queued'[k] = Append(Queued, FrameOf(buf))[k]
      <4>. TAKE k \in 1..Len(queue) + 1
      <4>0. Len(queue) \in Nat
        BY <2>5
      <4>1. CASE k \in 1..Len(queue)
        BY <3>1, <3>2, <3>3, <4>1
      <4>2. CASE k = Len(queue) + 1
        BY <3>1, <3>2, <3>3, <4>2
      <4>3. k \in 1..Len(queue) \/ k = Len(queue) + 1
        BY <4>0
      <4>. QED
        BY <4>1, <4>2, <4>3
    <3>. QED
      BY <3>1, <3>2, <3>4, SeqEqual
  <2>8. InHand \o Queued = Queued /\ (InHand \o Queued)' = Queued'
    <3>1. InHand \o Queued = Queued
      BY <2>1, PendingCases
    <3>2. InHand' = <<>>
      BY <2>1 DEF InHand
    <3>3. Queued' \in Seq(ByteStrings)
      BY <2>6, <2>7, QueuedType, AppendProperties
    <3>. QED
      BY <3>1, <3>2, <3>3, ConcatEmptySeq
  <2>9. Len(InHand \o Queued) < QueueSize
    BY <1>2, <2>8, QueuedType
  <2>10. R!Accept(FrameOf(buf))
    BY <2>2, <2>7, <2>8, <2>9 DEF R!Accept
  <2>. QED
    BY <2>4, <2>10 DEF R!Next
<1>3. CASE "queue" \in made /\ ~(Len(queue) < QueueSize)
  BY <1>3, StutterStep DEF Enqueue, taskVars
<1>. QED
  BY <1>1, <1>2, <1>3

(* Taking an item with the simulation off moves the front of the queue     *)
(* into the hand, which the relay does not see; with it on, the item is    *)
(* discarded.                                                              *)
LEMMA ReceiveStep ==
  ASSUME TypeOK, TypeOK', Receive
  PROVE  [R!Next]_(R!vars)
<1>1. CASE "queue" \notin made
  BY <1>1, PanicStep DEF Receive, R!Next
<1>2. CASE "queue" \in made
  <2>1. /\ queue \in Seq(Item) /\ queue # <<>>
        /\ buf' = Head(queue) /\ queue' = Tail(queue)
        /\ wire' = wire /\ ~FrameInHand
    BY <1>2 DEF Receive, TypeOK, FrameInHand
  <2>2. InHand \o Queued = Queued
    BY <2>1, PendingCases
  <2>3. /\ Queued # <<>>
        /\ Head(Queued) = FrameOf(buf')
        /\ Tail(Queued) = Queued'
    <3>1. /\ Queued \in Seq(ByteStrings) /\ Len(Queued) = Len(queue)
          /\ \A k \in 1..Len(queue) : Queued[k] = FrameOf(queue[k])
      BY QueuedType
    <3>2. Len(queue) \in Nat \ {0} /\ queue[1] = Head(queue)
      BY <2>1, TakeHead
    <3>3. Queued # <<>> /\ Head(Queued) = Queued[1]
      BY <3>1, <3>2
    <3>4. Head(Queued) = FrameOf(buf')
      BY <2>1, <3>1, <3>2, <3>3
    <3>5. /\ Tail(Queued) \in Seq(ByteStrings)
          /\ Len(Tail(Queued)) = Len(queue) - 1
          /\ \A k \in 1..Len(queue) - 1 : Tail(Queued)[k] = Queued[k + 1]
      BY <3>1, <3>3, TakeHead
    <3>6. /\ Len(queue') = Len(queue) - 1
          /\ \A k \in 1..Len(queue) - 1 : queue'[k] = queue[k + 1]
      BY <2>1, TakeHead
    <3>7. /\ Queued' \in Seq(ByteStrings)
          /\ Len(Queued') = Len(queue) - 1
          /\ \A k \in 1..Len(queue) - 1 : Queued'[k] = FrameOf(queue'[k])
      <4>1. Queued' = [k \in 1..Len(queue') |-> FrameOf(queue'[k])]
        BY DEF Queued, FrameOf
      <4>2. \A k \in 1..Len(queue') : FrameOf(queue'[k]) \in ByteStrings
        BY FrameType, ElementOfSeq DEF TypeOK
      <4>. QED
        BY <3>2, <3>6, <4>1, <4>2
    <3>8. \A k \in 1..Len(queue) - 1 : Tail(Queued)[k] = Queued'[k]
      <4>. TAKE k \in 1..Len(queue) - 1
      <4>1. k + 1 \in 1..Len(queue)
        BY <3>2
      <4>. QED
        BY <3>1, <3>5, <3>6, <3>7, <4>1
    <3>. QED
      BY <3>3, <3>4, <3>5, <3>7, <3>8, SeqEqual
  <2>4. CASE sim
    <3>1. InHand' = <<>>
      BY <1>2, <2>4 DEF Receive, InHand, FrameInHand
    <3>2. (InHand \o Queued)' = Tail(Queued)
      BY <2>3, <3>1, QueuedType, TakeHead, ConcatEmptySeq
    <3>3. R!Discard
      BY <2>1, <2>2, <2>3, <3>2 DEF R!Discard
    <3>. QED
      BY <3>3 DEF R!Next
  <2>5. CASE ~sim
    <3>1. InHand' = <<FrameOf(buf')>>
      BY <1>2, <2>5 DEF Receive, InHand, FrameInHand, FrameOf
    <3>2. <<Head(Queued)>> \o Tail(Queued) = Queued
      <4>1. Queued \in Seq(ByteStrings)
        BY QueuedType
      <4>. DEFINE h == Head(Queued)
                  t == Tail(Queued)
      <4>2. /\ h \in ByteStrings /\ t \in Seq(ByteStrings)
            /\ Len(t) = Len(Queued) - 1 /\ Len(Queued) \in Nat \ {0}
            /\ Queued[1] = h
            /\ \A k \in 1..Len(Queued) - 1 : t[k] = Queued[k + 1]
        BY <2>3, <4>1, TakeHead
      <4>3. <<h>> \in Seq(ByteStrings) /\ Len(<<h>>) = 1 /\ <<h>>[1] = h
        BY <4>2
      <4>. HIDE DEF h, t
      <4>4. /\ <<h>> \o t \in Seq(ByteStrings)
            /\ Len(<<h>> \o t) = Len(Queued)
            /\ \A i \in 1..Len(Queued) :
                  (<<h>> \o t)[i] = IF i <= 1 THEN <<h>>[i] ELSE t[i - 1]
        BY <4>2, <4>3, ConcatProperties
      <4>5. \A i \in 1..Len(Queued) : (<<h>> \o t)[i] = Queued[i]
        BY <4>2, <4>3, <4>4
      <4>6. <<h>> \o t = Queued
        BY <4>1, <4>4, <4>5, SeqEqual
      <4>. QED
        BY <4>6 DEF h, t
    <3>3. (InHand \o Queued)' = InHand \o Queued
      BY <2>2, <2>3, <3>1, <3>2
    <3>. QED
      BY <2>1, <3>3 DEF R!vars
  <2>. QED
    BY <2>4, <2>5
<1>. QED
  BY <1>1, <1>2

(* Letting go of the frame in hand: forwarded by Transmit, discarded by    *)
(* CallSender when no sender is set.                                       *)
LEMMA LetGoStep ==
  ASSUME TypeOK, FrameInHand, ~FrameInHand', UNCHANGED <<queue, buf>>
  PROVE  /\ InHand \o Queued # <<>>
         /\ Head(InHand \o Queued) = FrameOf(buf)
         /\ (InHand \o Queued)' = Tail(InHand \o Queued)
<1>1. InHand' = <<>>
  BY DEF InHand
<1>2. Queued' = Queued
  BY DEF Queued
<1>3. Queued \in Seq(ByteStrings)
  BY QueuedType
<1>4. (InHand \o Queued)' = Queued
  BY <1>1, <1>2, <1>3, ConcatEmptySeq
<1>. QED
  BY <1>4, PendingCases

LEMMA SendTaskStep ==
  ASSUME TypeOK, TypeOK', IntactInv, SendTask
  PROVE  [R!Next]_(R!vars)
<1>1. CASE Receive
  BY <1>1, ReceiveStep
<1>2. CASE ReceiveNothing \/ Suspend
  <2>1. ~FrameInHand /\ ~FrameInHand' /\ queue' = queue /\ wire' = wire
    BY <1>2 DEF ReceiveNothing, Suspend, FrameInHand
  <2>. QED
    BY <2>1 DEF R!vars, InHand, Queued
<1>3. CASE LogMessage \/ AnnounceMessage
  <2>1. FrameInHand /\ FrameInHand' /\ queue' = queue /\ wire' = wire /\ buf' = buf
    BY <1>3 DEF LogMessage, AnnounceMessage, FrameInHand
  <2>. QED
    BY <2>1 DEF R!vars, InHand, Queued, FrameOf
<1>4. CASE CallSender
  <2>1. CASE HasSender
    <3>1. FrameInHand /\ FrameInHand' /\ queue' = queue /\ wire' = wire /\ buf' = buf
      BY <1>4, <2>1 DEF CallSender, FrameInHand
    <3>. QED
      BY <3>1 DEF R!vars, InHand, Queued, FrameOf
  <2>2. CASE ~HasSender
    <3>1. /\ FrameInHand /\ ~FrameInHand' /\ wire' = wire
          /\ UNCHANGED <<queue, buf>>
      BY <1>4, <2>2 DEF CallSender, FrameInHand
    <3>2. R!Discard
      BY <3>1, LetGoStep DEF R!Discard
    <3>. QED
      BY <3>2 DEF R!Next
  <2>. QED
    BY <2>1, <2>2
<1>5. CASE Transmit
  <2>1. FrameInHand /\ ~FrameInHand' /\ UNCHANGED <<queue, buf>>
    BY <1>5 DEF Transmit, FrameInHand
  <2>2. wire' = FrameOf(buf)
    BY <1>5 DEF Transmit, FrameOf, IntactInv, HandIntact, FrameInHand
  <2>3. R!Forward
    BY <2>1, <2>2, LetGoStep DEF R!Forward
  <2>. QED
    BY <2>3 DEF R!Next
<1>. QED
  BY <1>1, <1>2, <1>3, <1>4, <1>5 DEF SendTask

LEMMA HandlerStep ==
  ASSUME TypeOK, TypeOK', IntactInv, Handler \/ \E m \in Message : Arrive(m)
  PROVE  [R!Next]_(R!vars)
<1>1. CASE SetLen \/ CopyCell \/ ClearBuffer \/ ClearLen
  <2>1. ~FrameInHand /\ UNCHANGED <<queue, tpc, wire>>
    BY <1>1 DEF SetLen, CopyCell, ClearBuffer, ClearLen, taskVars, IntactInv, Apart,
       HandlerInBuffer
  <2>. QED
    BY <2>1, BufferStep
<1>2. CASE Enqueue
  BY <1>2, EnqueueStep
<1>3. CASE Resume
  <2>1. CASE "task" \notin made
    BY <1>3, <2>1, PanicStep DEF Resume, R!Next
  <2>2. CASE "task" \in made
    <3>1. (FrameInHand <=> FrameInHand') /\ UNCHANGED <<queue, buf, wire>>
      BY <1>3, <2>2 DEF Resume, FrameInHand
    <3>. QED
      BY <3>1 DEF R!vars, InHand, Queued, FrameOf
  <2>. QED
    BY <2>1, <2>2
<1>4. ASSUME NEW m \in Message, Arrive(m) PROVE [R!Next]_(R!vars)
  <2>1. CASE "stats" \in made
    BY <1>4, <2>1, StutterStep DEF Arrive, taskVars
  <2>2. CASE "stats" \notin made
    BY <1>4, <2>2, PanicStep DEF Arrive, R!Next
  <2>. QED
    BY <2>1, <2>2
<1>. QED
  BY <1>1, <1>2, <1>3, <1>4 DEF Handler

LEMMA NextStep ==
  ASSUME TypeOK, TypeOK', IntactInv, [Next]_vars
  PROVE  [R!Next]_(R!vars)
<1>1. CASE Startup
  <2>1. Panic \/ UNCHANGED <<queue, buf, tpc, wire>>
    BY <1>1 DEF Startup, CreateQueue, CreateStats, CreateTask, Create, CreateFails, taskVars
  <2>. QED
    BY <2>1, PanicStep, StutterStep DEF R!Next
<1>2. CASE WebServer
  BY <1>2, StutterStep DEF WebServer, ToggleSimulation, SimulationLogs, SimulationAnnounces,
     MessageLog, ReadMessage, ReadEvent, ResetEvent, Answer, AskAgain, taskVars
<1>3. CASE UNCHANGED vars
  BY <1>3, StutterStep DEF vars
<1>. QED
  BY <1>1, <1>2, <1>3, HandlerStep, SendTaskStep DEF Next

(* Under the timing assumption the bridge core is a lossy relay: every     *)
(* frame on the output was accepted from the input, unaltered, in order    *)
(* and once, for every message set, buffer size and queue length.          *)
THEOREM BridgeIsRelay ==
  ASSUME Exclusive
  PROVE  Spec => RefinesRelay
<1>1. Init => R!Init
  <2> SUFFICES ASSUME Init PROVE R!Init
    OBVIOUS
  <2>1. InHand = <<>> /\ Queued = <<>> /\ wire = NoFrame
    BY DEF Init, InHand, FrameInHand, Queued
  <2>2. <<>> \o <<>> = <<>>
    BY ConcatEmptySeq, EmptySeq
  <2>. QED
    BY <2>1, <2>2 DEF R!Init
<1>. QED
  BY <1>1, NextStep, TypeCorrect, Intact, PTL DEF Spec, RefinesRelay, R!Spec
=============================================================================
