------------------------ MODULE CommonProtocolProofs ------------------------
(***************************************************************************)
(* Theorems about the bridge core, for every set of messages, every length *)
(* of the buffer and of the queue, and every input and output.             *)
(***************************************************************************)
EXTENDS CommonProtocol, SequenceTheorems, TLAPS

-----------------------------------------------------------------------------
(* Lemmas about the data. *)

LEMMA ZeroType == Zero \in Cells
  BY ConstantsAssumption DEF Zero, Cells, Cell

LEMMA TextType == \A c \in Cells : Text(c) \in Cells
  BY ConstantsAssumption DEF Text, Cells, Cell

LEMMA TextsType == Zero \in Texts /\ \A c \in Cells : Text(c) \in Texts
  BY ZeroType, TextType DEF Texts

LEMMA BytesType ==
  ASSUME NEW c \in Cells, NEW n \in 0..BufSize
  PROVE  Bytes(c, n) \in ByteStrings
<1>1. Bytes(c, n) \in [1..n -> Cell]
  BY ConstantsAssumption DEF Bytes, Cells
<1>. QED
  BY <1>1 DEF ByteStrings

(* Taking the head off a non-empty queue. *)
LEMMA TakeHead ==
  ASSUME NEW S, NEW q \in Seq(S), q # <<>>
  PROVE  /\ Head(q) \in S
         /\ Tail(q) \in Seq(S)
         /\ Len(Tail(q)) = Len(q) - 1
         /\ Len(q) \in Nat \ {0}
         /\ q[1] = Head(q)
         /\ \A k \in 1..Len(q) - 1 : Tail(q)[k] = q[k + 1]
  BY HeadTailProperties

-----------------------------------------------------------------------------
(* Type correctness. *)

LEMMA ColdTypes ==
  /\ <<>> \in Seq(Item) /\ Len(<<>>) <= QueueSize
  /\ [len |-> 0, cells |-> Zero] \in Item
  /\ NoLog \in Logs
  /\ \A pc \in {"idle", "failed"}, t \in Texts :
        [pc |-> pc, text |-> Zero, new |-> FALSE, shown |-> t] \in Pages
  /\ 1 \in 1..BufSize /\ 0 \in 0..BufSize
  BY ZeroType, TextsType, ConstantsAssumption DEF Item, NoLog, Logs, Pages

LEMMA PanicTypes == TypeOK /\ Panic => TypeOK'
<1>. SUFFICES ASSUME TypeOK, Panic PROVE TypeOK'
  OBVIOUS
<1>1. page' \in Pages
  BY ColdTypes DEF TypeOK, Panic, Pages
<1>. QED
  BY <1>1, ColdTypes DEF TypeOK, Panic, Cell

LEMMA StartupTypes == TypeOK /\ Startup => TypeOK'
  BY PanicTypes DEF TypeOK, Startup, CreateQueue, CreateStats, CreateTask, Create,
     CreateFails, handlerVars, taskVars

LEMMA ArriveTypes == TypeOK /\ (\E m \in Message : Arrive(m)) => TypeOK'
  BY PanicTypes, ConstantsAssumption DEF TypeOK, Arrive, initVars, taskVars, Cell

LEMMA HandlerTypes == TypeOK /\ Handler => TypeOK'
<1> SUFFICES ASSUME TypeOK, Handler PROVE TypeOK'
  OBVIOUS
<1>. USE DEF initVars, taskVars
<1>0. hmsg # NUL => hmsg \in Message /\ Length[hmsg] \in 1..BufSize
  BY ConstantsAssumption DEF TypeOK, Cell
<1>1. CASE SetLen
  <2>1. buf' \in Item
    <3>1. buf \in Item /\ Length[hmsg] \in 0..BufSize
      BY <1>0, <1>1, ConstantsAssumption DEF TypeOK, SetLen
    <3>. QED
      BY <1>1, <3>1 DEF SetLen, Item
  <2>. QED
    BY <1>1, <2>1 DEF TypeOK, SetLen
<1>2. CASE CopyCell
  <2>1. hmsg \in Cell /\ hidx \in 1..BufSize
    BY DEF TypeOK
  <2>2. buf' \in Item
    BY <1>2, <2>1 DEF TypeOK, CopyCell, Item, Cells
  <2>3. hidx' \in 1..BufSize
    BY <1>0, <1>2, ConstantsAssumption DEF TypeOK, CopyCell
  <2>. QED
    BY <1>2, <2>2, <2>3 DEF TypeOK, CopyCell
<1>3. CASE Enqueue
  <2>1. CASE "queue" \in made
    <3>1. queue' \in Seq(Item) /\ Len(queue') <= QueueSize
      <4>1. queue \in Seq(Item) /\ buf \in Item /\ Len(queue) <= QueueSize
        BY DEF TypeOK
      <4>2. /\ Append(queue, buf) \in Seq(Item)
            /\ Len(Append(queue, buf)) = Len(queue) + 1
        BY <4>1
      <4>. QED
        BY <1>3, <2>1, <4>1, <4>2, ConstantsAssumption DEF Enqueue
    <3>. QED
      BY <1>3, <2>1, <3>1 DEF TypeOK, Enqueue
  <2>2. CASE "queue" \notin made
    BY <1>3, <2>2, PanicTypes DEF Enqueue
  <2>. QED
    BY <2>1, <2>2
<1>4. CASE ClearBuffer
  <2>1. buf' \in Item
    BY <1>4, ZeroType DEF TypeOK, ClearBuffer, Item
  <2>. QED
    BY <1>4, <2>1 DEF TypeOK, ClearBuffer
<1>5. CASE ClearLen
  <2>1. buf' \in Item
    <3>1. buf \in Item /\ 0 \in 0..BufSize
      BY ConstantsAssumption DEF TypeOK
    <3>. QED
      BY <1>5, <3>1 DEF ClearLen, Item
  <2>. QED
    BY <1>5, <2>1 DEF TypeOK, ClearLen
<1>6. CASE Resume
  BY <1>6, PanicTypes DEF TypeOK, Resume, Cell
<1>. QED
  BY <1>1, <1>2, <1>3, <1>4, <1>5, <1>6 DEF Handler

LEMMA SendTaskTypes == TypeOK /\ SendTask => TypeOK'
<1> SUFFICES ASSUME TypeOK, SendTask PROVE TypeOK'
  OBVIOUS
<1>. USE DEF initVars, handlerVars
<1>1. CASE Receive
  <2>1. CASE "queue" \in made
    <3>1. buf' \in Item /\ queue' \in Seq(Item) /\ Len(queue') <= QueueSize
      <4>1. queue \in Seq(Item) /\ Len(queue) <= QueueSize
        BY DEF TypeOK
      <4>2. queue # <<>> /\ buf' = Head(queue) /\ queue' = Tail(queue)
        BY <1>1, <2>1 DEF Receive
      <4>. QED
        BY <4>1, <4>2, TakeHead, ConstantsAssumption
    <3>. QED
      BY <1>1, <2>1, <3>1 DEF TypeOK, Receive
  <2>2. CASE "queue" \notin made
    BY <1>1, <2>2, PanicTypes DEF Receive
  <2>. QED
    BY <2>1, <2>2
<1>2. CASE ReceiveNothing \/ Suspend
  BY <1>2 DEF TypeOK, ReceiveNothing, Suspend
<1>3. CASE LogMessage
  <2>1. log' \in Logs
    BY <1>3, TextsType DEF TypeOK, LogMessage, Item, Logs
  <2>. QED
    BY <1>3, <2>1 DEF TypeOK, LogMessage
<1>6. CASE AnnounceMessage
  <2>1. log' \in Logs
    BY <1>6 DEF TypeOK, AnnounceMessage, Logs
  <2>. QED
    BY <1>6, <2>1 DEF TypeOK, AnnounceMessage
<1>4. CASE CallSender
  BY <1>4 DEF TypeOK, CallSender, Item
<1>5. CASE Transmit
  BY <1>5, BytesType, ConstantsAssumption DEF TypeOK, Transmit, Item
<1>. QED
  BY <1>1, <1>2, <1>3, <1>4, <1>5, <1>6 DEF SendTask

LEMMA WebServerTypes == TypeOK /\ WebServer => TypeOK'
<1> SUFFICES ASSUME TypeOK, WebServer PROVE TypeOK'
  OBVIOUS
<1>. USE DEF initVars, handlerVars, taskVars
<1>1. CASE ToggleSimulation
  BY <1>1 DEF TypeOK, ToggleSimulation
<1>2. CASE SimulationLogs \/ SimulationAnnounces
  <2>1. log' \in Logs
    BY <1>2 DEF TypeOK, SimulationLogs, SimulationAnnounces, Logs, Texts
  <2>. QED
    BY <1>2, <2>1 DEF TypeOK, SimulationLogs, SimulationAnnounces
<1>3. CASE MessageLog
  <2>0. log \in Logs /\ page \in Pages
    BY DEF TypeOK
  <2>1. log' \in Logs
    BY <1>3, <2>0 DEF MessageLog, ReadMessage, ReadEvent, ResetEvent, Answer, AskAgain, Logs
  <2>2. page' \in Pages
    <3>1. CASE ReadMessage \/ ReadEvent \/ ResetEvent \/ AskAgain
      BY <2>0, <3>1 DEF ReadMessage, ReadEvent, ResetEvent, AskAgain, Pages, Logs
    <3>2. CASE Answer
      <4>1. page.shown \in Texts /\ page.text \in Texts
        BY <2>0 DEF Pages
      <4>. QED
        BY <3>2, <4>1, ColdTypes DEF Answer
    <3>. QED
      BY <1>3, <3>1, <3>2 DEF MessageLog
  <2>3. UNCHANGED <<initVars, queue, buf, handlerVars, taskVars, sim, wire>>
    BY <1>3 DEF MessageLog, ReadMessage, ReadEvent, ResetEvent, Answer, AskAgain
  <2>. QED
    BY <2>1, <2>2, <2>3 DEF TypeOK
<1>. QED
  BY <1>1, <1>2, <1>3 DEF WebServer

(* Every variable keeps its type, whatever the interleaving of the tasks. *)
THEOREM TypeCorrect == Spec => []TypeOK
<1>1. Init => TypeOK
  <2>1. Init => page \in Pages
    BY ColdTypes, TextsType DEF Init
  <2>. QED
    BY <2>1, ColdTypes DEF Init, TypeOK, Cell
<1>2. TypeOK /\ [Next]_vars => TypeOK'
  <2>1. TypeOK /\ UNCHANGED vars => TypeOK'
    BY DEF TypeOK, vars
  <2>. QED
    BY <2>1, StartupTypes, ArriveTypes, HandlerTypes, SendTaskTypes, WebServerTypes
       DEF Next
<1>. QED
  BY <1>1, <1>2, PTL DEF Spec

-----------------------------------------------------------------------------
(* A bridge that is up stays up. *)

LEMMA StatsExistInvariant == StatsExist /\ [Next]_vars => StatsExist'
<1> SUFFICES ASSUME StatsExist, [Next]_vars PROVE StatsExist'
  OBVIOUS
<1>. USE DEF StatsExist
<1>0. CASE Panic
  BY <1>0 DEF Panic
<1>1. CASE Startup
  BY <1>0, <1>1 DEF Startup, CreateQueue, CreateStats, CreateTask, Create, CreateFails
<1>2. CASE \E m \in Message : Arrive(m)
  BY <1>0, <1>2 DEF Arrive, initVars
<1>3. CASE Handler
  BY <1>0, <1>3 DEF Handler, SetLen, CopyCell, Enqueue, ClearBuffer, ClearLen, Resume,
     initVars
<1>4. CASE SendTask
  BY <1>0, <1>4 DEF SendTask, Receive, ReceiveNothing, Suspend, LogMessage, AnnounceMessage,
     CallSender, Transmit, initVars
<1>5. CASE WebServer
  BY <1>5 DEF WebServer, ToggleSimulation, SimulationLogs, SimulationAnnounces, MessageLog,
     ReadMessage, ReadEvent, ResetEvent, Answer, AskAgain, initVars
<1>6. CASE UNCHANGED vars
  BY <1>6 DEF vars
<1>. QED
  BY <1>1, <1>2, <1>3, <1>4, <1>5, <1>6 DEF Next

(* However short the memory was during start-up: if the queue and the task *)
(* could be created, no input, no interleaving and no request restarts the *)
(* device after common_protocol_init returned.                             *)
THEOREM StaysUp == Spec => NoRestartOnceUp
<1>1. Init => StatsExist
  BY DEF Init, StatsExist
<1>2. StatsExist /\ [Next]_vars =>
        [initpc = "done" /\ {"queue", "task"} \subseteq made => initpc' = "done"]_vars
  <2> SUFFICES ASSUME StatsExist, Next, initpc = "done", {"queue", "task"} \subseteq made
               PROVE  initpc' = "done"
    BY DEF vars
  <2>0. "queue" \in made /\ "task" \in made /\ "stats" \in made
    BY DEF StatsExist
  <2>1. ~Startup
    BY DEF Startup, CreateQueue, CreateStats, CreateTask, Create, CreateFails
  <2>2. CASE \E m \in Message : Arrive(m)
    BY <2>0, <2>2 DEF Arrive, initVars
  <2>3. CASE Handler
    BY <2>0, <2>3 DEF Handler, SetLen, CopyCell, Enqueue, ClearBuffer, ClearLen, Resume,
       initVars
  <2>4. CASE SendTask
    BY <2>0, <2>4 DEF SendTask, Receive, ReceiveNothing, Suspend, LogMessage,
       AnnounceMessage, CallSender, Transmit, initVars
  <2>5. CASE WebServer
    BY <2>5 DEF WebServer, ToggleSimulation, SimulationLogs, SimulationAnnounces, MessageLog,
       ReadMessage, ReadEvent, ResetEvent, Answer, AskAgain, initVars
  <2>. QED
    BY <2>1, <2>2, <2>3, <2>4, <2>5 DEF Next
<1>. QED
  BY <1>1, <1>2, StatsExistInvariant, PTL DEF Spec, NoRestartOnceUp

-----------------------------------------------------------------------------
(* What goes out is what came in, if the tasks do not overlap on the       *)
(* buffer.  The invariant follows a message from the handler's argument    *)
(* into the buffer, the queue, the buffer again and out.                   *)

LEMMA CarriedBytes ==
  ASSUME NEW item \in Item, NEW m \in Message, Carries(item, m)
  PROVE  Bytes(item.cells, item.len) = Payload(m)
  BY DEF Carries, Bytes, Payload

LEMMA IntactPanic == IntactInv /\ Panic => IntactInv'
  BY DEF IntactInv, Panic, Apart, HandlerInBuffer, FrameInHand, HandlerProgress,
     QueueIntact, HandIntact, WireIntact

(* A step that leaves the buffer, the queue, the handler, the send task    *)
(* and the output alone.                                                   *)
LEMMA IntactFrame ==
  IntactInv /\ UNCHANGED <<queue, buf, hpc, hmsg, hidx, tpc, tlen, wire>> => IntactInv'
  BY DEF IntactInv, Apart, HandlerInBuffer, FrameInHand, HandlerProgress,
     QueueIntact, HandIntact, WireIntact, Carries

LEMMA IntactHandler ==
  ASSUME Exclusive, TypeOK, IntactInv, Handler \/ \E m \in Message : Arrive(m)
  PROVE  IntactInv'
<1>. USE DEF initVars, taskVars
<1>a. Apart /\ HandlerProgress /\ QueueIntact /\ HandIntact /\ WireIntact
  BY DEF IntactInv
<1>b. hpc # "idle" => hmsg \in Message /\ Length[hmsg] \in 1..BufSize
  BY ConstantsAssumption DEF TypeOK, Cell
<1>c. HandlerInBuffer => ~FrameInHand
  BY <1>a DEF Apart
<1>1. ASSUME NEW m \in Message, Arrive(m) PROVE IntactInv'
  <2>1. CASE "stats" \in made
    BY <1>1, <1>a, <2>1 DEF IntactInv, Arrive, Apart, HandlerInBuffer, FrameInHand,
       HandlerProgress, QueueIntact, HandIntact, WireIntact, Carries
  <2>2. CASE "stats" \notin made
    BY <1>1, <2>2, IntactPanic DEF Arrive
  <2>. QED
    BY <2>1, <2>2
<1>2. CASE SetLen
  <2>1. ~FrameInHand /\ ~FrameInHand'
    BY <1>2, <1>c DEF SetLen, HandlerInBuffer, FrameInHand
  <2>2. HandlerProgress'
    BY <1>2, <1>a, <1>b DEF SetLen, HandlerProgress, TypeOK, Item
  <2>. QED
    BY <1>2, <1>a, <2>1, <2>2 DEF IntactInv, SetLen, Apart, QueueIntact, HandIntact,
       WireIntact, Carries
<1>3. CASE CopyCell
  <2>1. ~FrameInHand /\ ~FrameInHand'
    BY <1>3, <1>c DEF CopyCell, HandlerInBuffer, FrameInHand
  <2>2. /\ buf'.len = Length[hmsg]
        /\ hidx \in 1..Length[hmsg]
        /\ \A i \in 1..hidx : buf'.cells[i] = hmsg
    <3>1. buf \in Item /\ hidx \in 1..BufSize
      BY DEF TypeOK
    <3>2. buf.len = Length[hmsg] /\ hidx <= Length[hmsg]
          /\ \A i \in 1..hidx - 1 : buf.cells[i] = hmsg
      BY <1>3, <1>a DEF CopyCell, HandlerProgress
    <3>3. hmsg \in Cell
      BY DEF TypeOK
    <3>. QED
      <4>1. buf'.len = buf.len
        BY <1>3, <3>1 DEF CopyCell, Item
      <4>2. \A i \in 1..BufSize :
               buf'.cells[i] = IF i = hidx THEN hmsg ELSE buf.cells[i]
        BY <1>3, <3>1 DEF CopyCell, Item, Cells
      <4>3. hmsg \in Message /\ Length[hmsg] \in 1..BufSize
        BY <1>3, <1>b DEF CopyCell
      <4>4. \A i \in 1..hidx : i = hidx \/ i \in 1..hidx - 1
        BY <3>1, ConstantsAssumption
      <4>5. \A i \in 1..hidx : i \in 1..BufSize
        BY <3>1, ConstantsAssumption
      <4>. QED
        BY <3>1, <3>2, <4>1, <4>2, <4>3, <4>4, <4>5, ConstantsAssumption
  <2>3. HandlerProgress'
    <3>1. CASE hidx < Length[hmsg]
      BY <1>3, <1>b, <2>2, <3>1 DEF CopyCell, HandlerProgress
    <3>2. CASE ~(hidx < Length[hmsg])
      <4>1. hidx = Length[hmsg]
        BY <1>3, <1>b, <2>2, <3>2 DEF CopyCell
      <4>. QED
        BY <1>3, <2>2, <3>2, <4>1 DEF CopyCell, HandlerProgress, Carries
    <3>. QED
      BY <3>1, <3>2
  <2>. QED
    BY <1>3, <1>a, <2>1, <2>3 DEF IntactInv, CopyCell, Apart, QueueIntact, HandIntact,
       WireIntact, Carries
<1>4. CASE Enqueue
  <2>1. CASE "queue" \notin made
    BY <1>4, <2>1, IntactPanic DEF Enqueue
  <2>2. CASE "queue" \in made
    <3>1. ~FrameInHand /\ ~FrameInHand'
      BY <1>4, <1>c, <2>2 DEF Enqueue, HandlerInBuffer, FrameInHand
    <3>2. Carries(buf, hmsg) /\ hmsg \in Message
      BY <1>4, <1>a, <1>b DEF Enqueue, HandlerProgress
    <3>3. QueueIntact'
      <4>1. queue \in Seq(Item) /\ buf \in Item
        BY DEF TypeOK
      <4>2. /\ Len(Append(queue, buf)) = Len(queue) + 1
            /\ \A k \in 1..Len(queue) : Append(queue, buf)[k] = queue[k]
            /\ Append(queue, buf)[Len(queue) + 1] = buf
        BY <4>1, AppendProperties
      <4>3. CASE queue' = queue
        BY <1>a, <4>3 DEF QueueIntact, Carries
      <4>4. CASE queue' = Append(queue, buf)
        <5>1. ASSUME NEW k \in 1..Len(queue')
              PROVE  \E m \in Message : Carries(queue'[k], m)
          <6>1. CASE k \in 1..Len(queue)
            BY <1>a, <4>2, <4>4, <6>1 DEF QueueIntact
          <6>2. CASE k = Len(queue) + 1
            BY <3>2, <4>2, <4>4, <6>2
          <6>. QED
            BY <4>1, <4>2, <4>4, <6>1, <6>2
        <5>. QED
          BY <5>1 DEF QueueIntact, Carries
      <4>. QED
        BY <1>4, <2>2, <4>3, <4>4 DEF Enqueue
    <3>. QED
      BY <1>4, <1>a, <2>2, <3>1, <3>3 DEF IntactInv, Enqueue, Apart, HandlerProgress,
         HandIntact, WireIntact
  <2>. QED
    BY <2>1, <2>2
<1>5. CASE ClearBuffer \/ ClearLen
  <2>1. ~FrameInHand /\ ~FrameInHand'
    BY <1>5, <1>c DEF ClearBuffer, ClearLen, HandlerInBuffer, FrameInHand
  <2>. QED
    BY <1>5, <1>a, <2>1 DEF IntactInv, ClearBuffer, ClearLen, Apart, HandlerProgress,
       QueueIntact, HandIntact, WireIntact, Carries
<1>6. CASE Resume
  <2>1. CASE "task" \in made
    BY <1>6, <1>a, <2>1 DEF IntactInv, Resume, Apart, HandlerInBuffer, FrameInHand,
       HandlerProgress, QueueIntact, HandIntact, WireIntact, Carries
  <2>2. CASE "task" \notin made
    BY <1>6, <2>2, IntactPanic DEF Resume
  <2>. QED
    BY <2>1, <2>2
<1>. QED
  BY <1>1, <1>2, <1>3, <1>4, <1>5, <1>6 DEF Handler

LEMMA IntactSendTask ==
  ASSUME Exclusive, TypeOK, IntactInv, SendTask
  PROVE  IntactInv'
<1>. USE DEF initVars, handlerVars
<1>a. Apart /\ HandlerProgress /\ QueueIntact /\ HandIntact /\ WireIntact
  BY DEF IntactInv
<1>c. FrameInHand => hpc \in {"idle", "resume"}
  BY <1>a DEF Apart, HandlerInBuffer
<1>1. CASE Receive
  <2>1. CASE "queue" \notin made
    BY <1>1, <2>1, IntactPanic DEF Receive
  <2>2. CASE "queue" \in made
    <3>1. hpc \in {"idle", "resume"}
      BY <1>1 DEF Receive, HandlerInBuffer
    <3>2. queue \in Seq(Item) /\ queue # <<>> /\ buf' = Head(queue) /\ queue' = Tail(queue)
      BY <1>1, <2>2 DEF Receive, TypeOK
    <3>3. \E m \in Message : Carries(buf', m)
      BY <1>a, <3>2, TakeHead DEF QueueIntact
    <3>4. QueueIntact'
      <4>1. ASSUME NEW k \in 1..Len(queue')
            PROVE  \E m \in Message : Carries(queue'[k], m)
        <5>1. k + 1 \in 1..Len(queue) /\ queue'[k] = queue[k + 1]
          BY <3>2, TakeHead
        <5>. QED
          BY <1>a, <5>1 DEF QueueIntact
      <4>. QED
        BY <4>1 DEF QueueIntact, Carries
    <3>5. HandIntact'
      BY <1>1, <2>2, <3>3 DEF Receive, HandIntact, FrameInHand, Carries
    <3>. QED
      BY <1>1, <1>a, <2>2, <3>1, <3>4, <3>5 DEF IntactInv, Receive, Apart,
         HandlerInBuffer, HandlerProgress, WireIntact
  <2>. QED
    BY <2>1, <2>2
<1>2. CASE ReceiveNothing \/ Suspend
  BY <1>2, <1>a DEF IntactInv, ReceiveNothing, Suspend, Apart, HandlerInBuffer,
     FrameInHand, HandlerProgress, QueueIntact, HandIntact, WireIntact, Carries
<1>3. CASE LogMessage \/ AnnounceMessage
  BY <1>3, <1>a, <1>c DEF IntactInv, LogMessage, AnnounceMessage, Apart, HandlerInBuffer, FrameInHand,
     HandlerProgress, QueueIntact, HandIntact, WireIntact, Carries
<1>4. CASE CallSender
  BY <1>4, <1>a, <1>c DEF IntactInv, CallSender, Apart, HandlerInBuffer, FrameInHand,
     HandlerProgress, QueueIntact, HandIntact, WireIntact, Carries
<1>5. CASE Transmit
  <2>1. tlen = buf.len /\ \E m \in Message : Carries(buf, m)
    BY <1>5, <1>a DEF Transmit, HandIntact, FrameInHand
  <2>2. WireIntact'
    BY <1>5, <2>1, CarriedBytes DEF Transmit, WireIntact, Frames, TypeOK
  <2>. QED
    BY <1>5, <1>a, <2>2 DEF IntactInv, Transmit, Apart, HandlerInBuffer, FrameInHand,
       HandlerProgress, QueueIntact, HandIntact, Carries
<1>. QED
  BY <1>1, <1>2, <1>3, <1>4, <1>5 DEF SendTask

LEMMA IntactInductive ==
  ASSUME Exclusive, TypeOK, IntactInv, [Next]_vars
  PROVE  IntactInv'
<1>1. CASE Startup
  BY <1>1, IntactFrame, IntactPanic DEF Startup, CreateQueue, CreateStats, CreateTask,
     Create, CreateFails, handlerVars, taskVars
<1>2. CASE WebServer
  BY <1>2, IntactFrame DEF WebServer, ToggleSimulation, SimulationLogs, SimulationAnnounces,
     MessageLog, ReadMessage, ReadEvent, ResetEvent, Answer, AskAgain, handlerVars, taskVars
<1>3. CASE UNCHANGED vars
  BY <1>3, IntactFrame DEF vars
<1>. QED
  BY <1>1, <1>2, <1>3, IntactHandler, IntactSendTask DEF Next

(* While the handler keeps out of the buffer when a frame is in hand, the  *)
(* inductive invariant holds, whatever else interleaves.                   *)
THEOREM Intact ==
  ASSUME Exclusive
  PROVE  Spec => []IntactInv
<1>1. Init => IntactInv
  BY DEF Init, IntactInv, Apart, HandlerInBuffer, FrameInHand, HandlerProgress,
     QueueIntact, HandIntact, WireIntact
<1>. QED
  BY <1>1, IntactInductive, TypeCorrect, PTL DEF Spec

(* Every transmission is, byte for byte, one of the input messages.        *)
THEOREM TransmitsIntact ==
  ASSUME Exclusive
  PROVE  Spec => []WireIntact
<1>1. IntactInv => WireIntact
  BY DEF IntactInv
<1>. QED
  BY <1>1, Intact, PTL

-----------------------------------------------------------------------------
(* The socket handlers: no interleaving makes an empty transmission.       *)

LEMMA BytesDomain ==
  ASSUME NEW c \in Cells, NEW n
  PROVE  DOMAIN Bytes(c, n) = 1..n
  BY DEF Bytes

LEMMA LengthsPanic == LengthsStand /\ Panic => LengthsStand'
  BY DEF LengthsStand, LengthOfMessage, Panic

LEMMA LengthsHandler ==
  ASSUME Input \in SocketInputs, TypeOK, LengthsStand,
         Handler \/ \E m \in Message : Arrive(m)
  PROVE  LengthsStand'
<1>. USE DEF initVars, taskVars
<1>1. ASSUME NEW m \in Message, Arrive(m) PROVE LengthsStand'
  <2>1. CASE "stats" \in made
    BY <1>1, <2>1 DEF Arrive, LengthsStand, LengthOfMessage
  <2>2. CASE "stats" \notin made
    BY <1>1, <2>2, LengthsPanic DEF Arrive
  <2>. QED
    BY <2>1, <2>2
<1>2. CASE SetLen
  <2>1. hmsg \in Message /\ Length[hmsg] \in 1..BufSize
    BY <1>2, ConstantsAssumption DEF SetLen, TypeOK, Cell
  <2>2. buf'.len = Length[hmsg]
    BY <1>2 DEF SetLen, TypeOK, Item
  <2>3. buf'.len \in Lengths
    BY <2>1, <2>2 DEF Lengths
  <2>. QED
    BY <1>2, <2>3 DEF SetLen, LengthsStand, LengthOfMessage
<1>3. CASE CopyCell
  <2>1. buf'.len = buf.len /\ buf.len \in Lengths
    BY <1>3 DEF CopyCell, TypeOK, Item, LengthsStand
  <2>. QED
    BY <1>3, <2>1 DEF CopyCell, LengthsStand, LengthOfMessage
<1>4. CASE Enqueue
  <2>1. CASE "queue" \notin made
    BY <1>4, <2>1, LengthsPanic DEF Enqueue
  <2>2. CASE "queue" \in made
    <3>1. buf.len \in Lengths /\ hpc' = "resume"
      <4>1. Input \notin SerialInputs
        BY DEF SerialInputs, SocketInputs
      <4>. QED
        BY <1>4, <2>2, <4>1 DEF Enqueue, LengthsStand
    <3>2. queue \in Seq(Item) /\ buf \in Item
      BY DEF TypeOK
    <3>3. /\ Len(Append(queue, buf)) = Len(queue) + 1
          /\ \A k \in 1..Len(queue) : Append(queue, buf)[k] = queue[k]
          /\ Append(queue, buf)[Len(queue) + 1] = buf
      BY <3>2, AppendProperties
    <3>4. \A k \in 1..Len(queue') : queue'[k].len \in Lengths
      <4>1. CASE queue' = queue
        BY <4>1 DEF LengthsStand
      <4>2. CASE queue' = Append(queue, buf)
        <5>1. \A k \in 1..Len(queue') : k \in 1..Len(queue) \/ k = Len(queue) + 1
          BY <3>2, <3>3, <4>2
        <5>. QED
          BY <3>1, <3>3, <4>2, <5>1 DEF LengthsStand
      <4>. QED
        BY <1>4, <2>2, <4>1, <4>2 DEF Enqueue
    <3>. QED
      BY <1>4, <2>2, <3>1, <3>4 DEF Enqueue, LengthsStand, LengthOfMessage
  <2>. QED
    BY <2>1, <2>2
<1>5. ~ClearBuffer /\ ~ClearLen
  BY DEF ClearBuffer, ClearLen, LengthsStand
<1>6. CASE Resume
  <2>1. CASE "task" \in made
    BY <1>6, <2>1 DEF Resume, LengthsStand, LengthOfMessage
  <2>2. CASE "task" \notin made
    BY <1>6, <2>2, LengthsPanic DEF Resume
  <2>. QED
    BY <2>1, <2>2
<1>. QED
  BY <1>1, <1>2, <1>3, <1>4, <1>5, <1>6 DEF Handler

LEMMA LengthsSendTask ==
  ASSUME TypeOK, LengthsStand, SendTask
  PROVE  LengthsStand'
<1>. USE DEF initVars, handlerVars
<1>1. CASE Receive
  <2>1. CASE "queue" \notin made
    BY <1>1, <2>1, LengthsPanic DEF Receive
  <2>2. CASE "queue" \in made
    <3>1. queue \in Seq(Item) /\ queue # <<>> /\ buf' = Head(queue) /\ queue' = Tail(queue)
      BY <1>1, <2>2 DEF Receive, TypeOK
    <3>2. buf'.len \in Lengths
      BY <3>1, TakeHead DEF LengthsStand
    <3>3. \A k \in 1..Len(queue') : k + 1 \in 1..Len(queue) /\ queue'[k] = queue[k + 1]
      BY <3>1, TakeHead
    <3>4. \A k \in 1..Len(queue') : queue'[k].len \in Lengths
      BY <3>3 DEF LengthsStand
    <3>. QED
      BY <1>1, <2>2, <3>2, <3>4 DEF Receive, LengthsStand, LengthOfMessage
  <2>. QED
    BY <2>1, <2>2
<1>2. CASE ReceiveNothing \/ Suspend \/ LogMessage \/ AnnounceMessage
  BY <1>2 DEF ReceiveNothing, Suspend, LogMessage, AnnounceMessage, LengthsStand,
     LengthOfMessage
<1>3. CASE CallSender
  BY <1>3 DEF CallSender, LengthsStand, LengthOfMessage
<1>4. CASE Transmit
  <2>1. tlen \in Lengths /\ buf.cells \in Cells
    BY <1>4 DEF Transmit, LengthsStand, TypeOK, Item
  <2>2. LengthOfMessage'
    BY <1>4, <2>1, BytesDomain DEF Transmit, LengthOfMessage
  <2>. QED
    BY <1>4, <2>2 DEF Transmit, LengthsStand, LengthOfMessage
<1>. QED
  BY <1>1, <1>2, <1>3, <1>4 DEF SendTask

LEMMA LengthsElsewhere ==
  ASSUME LengthsStand, Startup \/ WebServer \/ UNCHANGED vars
  PROVE  LengthsStand'
<1>1. CASE UNCHANGED <<queue, buf, hpc, tpc, tlen, wire>>
  BY <1>1 DEF LengthsStand, LengthOfMessage
<1>2. CASE Panic
  BY <1>2, LengthsPanic
<1>3. CASE Startup
  BY <1>1, <1>2, <1>3 DEF Startup, CreateQueue, CreateStats, CreateTask, Create, CreateFails,
     handlerVars, taskVars
<1>4. CASE WebServer
  BY <1>1, <1>4 DEF WebServer, ToggleSimulation, SimulationLogs, SimulationAnnounces,
     MessageLog, ReadMessage, ReadEvent, ResetEvent, Answer, AskAgain, handlerVars, taskVars
<1>5. CASE UNCHANGED vars
  BY <1>1, <1>5 DEF vars
<1>. QED
  BY <1>3, <1>4, <1>5

LEMMA LengthsInvariant ==
  ASSUME Input \in SocketInputs
  PROVE  Spec => []LengthsStand
<1>1. Init => LengthsStand
  BY DEF Init, LengthsStand, LengthOfMessage
<1>2. TypeOK /\ LengthsStand /\ [Next]_vars => LengthsStand'
  BY LengthsHandler, LengthsSendTask, LengthsElsewhere DEF Next
<1>. QED
  BY <1>1, <1>2, TypeCorrect, PTL DEF Spec

(* With a socket as input (protocol_udp_tcp_handler, which leaves the      *)
(* length standing) no overlap of the two tasks on the one static buffer,  *)
(* and no restart, makes the bridge transmit a length that no message has. *)
THEOREM SentLengthIsReal ==
  ASSUME Input \in SocketInputs
  PROVE  Spec => []LengthOfMessage
<1>1. LengthsStand => LengthOfMessage
  BY DEF LengthsStand
<1>. QED
  BY <1>1, LengthsInvariant, PTL

(* So nothing empty is ever transmitted.                                   *)
THEOREM NothingEmptyIsSent ==
  ASSUME Input \in SocketInputs
  PROVE  Spec => []NoEmptyFrame
<1>1. LengthOfMessage => NoEmptyFrame
  <2>. SUFFICES ASSUME wire # NoFrame, \E n \in Lengths : DOMAIN wire = 1..n
                PROVE  wire # <<>>
    BY ConstantsAssumption DEF LengthOfMessage, NoEmptyFrame
  <2>1. PICK n \in Lengths : DOMAIN wire = 1..n
    OBVIOUS
  <2>2. 1 \in 1..n
    BY ConstantsAssumption DEF Lengths
  <2>3. DOMAIN <<>> = {}
    OBVIOUS
  <2>. QED
    BY <2>1, <2>2, <2>3
<1>. QED
  BY <1>1, SentLengthIsReal, PTL
=============================================================================
