--------------------------- MODULE CommonProtocol ---------------------------
(***************************************************************************)
(* The bridge core, main/common_protocol/src/common_protocol.cpp.          *)
(*                                                                         *)
(* One static object, user_buffer_common_queue, is written by the input    *)
(* handler (in the event loop task for the serial inputs, in the socket    *)
(* task for UDP and TCP), copied into a FreeRTOS queue by xQueueSend, and  *)
(* is also the destination of xQueueReceive and the source of every        *)
(* transmission in common_send_task.  No lock protects it, and the two     *)
(* tasks run on two cores: each step below is one access by one of them.   *)
(*                                                                         *)
(* Data is abstracted to what tells messages apart: a buffer is BufSize    *)
(* cells, a cell holds NUL or the message whose byte it is, and a message  *)
(* fills its first Length[m] cells.  xQueueSend and xQueueReceive copy in  *)
(* a critical section of the queue; their memcpy, and the memset, are one  *)
(* step each, while the handler's byte loop is one step per cell.  Writing *)
(* and reading the text of the message log are one step each as well.      *)
(***************************************************************************)
EXTENDS Naturals, Sequences, FiniteSets

CONSTANTS
    Message,        \* the input messages (chunks, datagrams), told apart
    Length,         \* Length[m]: how many cells message m fills
    NUL,            \* the zero byte
    NoFrame,        \* the output line before the first transmission
    SimText,        \* the text the simulation logs
    BufSize,        \* UART_MAX_BUFFER_SIZE, in cells
    QueueSize,      \* the length of common_queue (12 in the code)
    Input, Output,  \* board_data.input and board_data.output
    Exclusive,      \* timing: the handler never runs while a frame is in hand
    LowMemory,      \* the three allocations of common_protocol_init may fail
    SimMayRun,      \* the web page may start and stop the simulation
    PagePolls       \* a browser asks for the message log

SerialInputs == {"SERIAL_UART", "SERIAL_UART_USB"}
SocketInputs == {"UDP", "TCP"}
Protocols    == SerialInputs \cup SocketInputs \cup {"BLUETOOTH", "CAN_BUS"}

ASSUME ConstantsAssumption ==
    /\ BufSize \in Nat \ {0}
    /\ QueueSize \in Nat \ {0}
    /\ NUL \notin Message
    /\ SimText \notin [1..BufSize -> Message \cup {NUL}]
    /\ NoFrame # <<>>
    /\ Length \in [Message -> 1..BufSize]
    /\ Input \in Protocols
    /\ Output \in Protocols
    /\ Exclusive \in BOOLEAN
    /\ LowMemory \in BOOLEAN
    /\ SimMayRun \in BOOLEAN
    /\ PagePolls \in BOOLEAN

VARIABLES
    initpc,     \* what common_protocol_init creates next
    made,       \* which of the queue, the statistics and the task exist
    queue,      \* common_queue
    buf,        \* user_buffer_common_queue
    hpc,        \* control point of the input handler
    hmsg,       \* the message the handler is called with (NUL: none)
    hidx,       \* the next cell the handler's loop copies
    tpc,        \* control point of common_send_task
    tlen,       \* the length argument of the send_u8 call in progress
    sim,        \* board_data.simulation_info.simulation_start
    log,        \* board_data.message and new_event; half: the simulation
                \* has written the message and not announced it yet
    page,       \* the page's request for the log: control point, message and
                \* event read for the answer, text the page showed last
    wire        \* what the send task last gave the output driver

initVars    == <<initpc, made>>
handlerVars == <<hpc, hmsg, hidx>>
taskVars    == <<tpc, tlen>>
vars == <<initpc, made, queue, buf, hpc, hmsg, hidx, tpc, tlen, sim, log, page, wire>>

-----------------------------------------------------------------------------
(* Data. *)

Cell  == Message \cup {NUL}
Cells == [1..BufSize -> Cell]
Item  == [len : 0..BufSize, cells : Cells]
Zero  == [i \in 1..BufSize |-> NUL]

(* The bytes a transmission of the first n cells puts on the output. *)
Bytes(cells, n) == [i \in 1..n |-> cells[i]]

ByteStrings == UNION {[1..n -> Cell] : n \in 0..BufSize}

(* The frame message m stands for. *)
Payload(m) == [i \in 1..Length[m] |-> m]

(* What "%s" prints of a buffer: nothing from the first zero byte on. *)
Text(cells) ==
    [i \in 1..BufSize |->
        IF \E j \in 1..i : cells[j] = NUL THEN NUL ELSE cells[i]]

Texts == Cells \cup {SimText}

NoLog == [text |-> Zero, new |-> FALSE, half |-> FALSE]

HasHandler == Input \in SerialInputs \cup SocketInputs
HasSender  == Output \in SerialInputs \cup {"BLUETOOTH"}

-----------------------------------------------------------------------------
(* Start and reset. *)

(* common_protocol_init has just registered the input handler: nothing the *)
(* handler will use exists yet.                                            *)
Init ==
    /\ initpc = "queue" /\ made = {}
    /\ queue = <<>>
    /\ buf = [len |-> 0, cells |-> Zero]
    /\ hpc = "idle" /\ hmsg = NUL /\ hidx = 1
    /\ tpc = "poll" /\ tlen = 0
    /\ sim = FALSE
    /\ log = NoLog
    /\ page = [pc |-> "idle", text |-> Zero, new |-> FALSE, shown |-> Zero]
    /\ wire = NoFrame

(* A NULL handle trips an assertion of FreeRTOS or a fault, and the device *)
(* restarts: memory is lost, what was sent or shown stays so, and a        *)
(* request under way fails.                                                *)
Panic ==
    /\ initpc' = "queue" /\ made' = {}
    /\ queue' = <<>>
    /\ buf' = [len |-> 0, cells |-> Zero]
    /\ hpc' = "idle" /\ hmsg' = NUL /\ hidx' = 1
    /\ tpc' = "poll" /\ tlen' = 0
    /\ sim' = FALSE
    /\ log' = NoLog
    /\ page' = [pc |-> "failed", text |-> Zero, new |-> FALSE, shown |-> page.shown]
    /\ UNCHANGED wire

(* One creation of common_protocol_init. *)
Create(what, next) ==
    /\ initpc = what
    /\ made' = made \cup {what}
    /\ initpc' = next
    /\ UNCHANGED <<queue, buf, handlerVars, taskVars, sim, log, page, wire>>

(* A failed creation leaves a NULL handle and the function goes on. *)
CreateFails(what, next) ==
    /\ LowMemory
    /\ initpc = what
    /\ initpc' = next
    /\ UNCHANGED <<made, queue, buf, handlerVars, taskVars, sim, log, page, wire>>

(* Fault: the send task is started first, the queue never made. *)
CreateTaskEarly ==
    /\ initpc = "queue"
    /\ made' = made \cup {"task"}
    /\ initpc' = "stats"
    /\ UNCHANGED <<queue, buf, handlerVars, taskVars, sim, log, page, wire>>

CreateQueue == Create("queue", "stats") \/ CreateFails("queue", "stats")

(* Fault: the statistics are never created. *)
CreateStatsNever ==
    /\ initpc = "stats"
    /\ initpc' = "task"
    /\ UNCHANGED <<made, queue, buf, handlerVars, taskVars, sim, log, page, wire>>

(* stream_stats_new writes through the pointer it got without a check. *)
CreateStats ==
    \/ Create("stats", "task")
    \/ LowMemory /\ initpc = "stats" /\ Panic

CreateTask == Create("task", "done") \/ CreateFails("task", "done")

-----------------------------------------------------------------------------
(* The input handler: common_uart_handler, protocol_udp_tcp_handler. *)

HandlerInBuffer == hpc \notin {"idle", "resume"}
FrameInHand     == tpc \in {"log", "event", "call", "send"}

(* A message arrives and the handler accounts for it; the handle of the    *)
(* statistics is dereferenced whether or not they exist already.           *)
Arrive(m) ==
    /\ HasHandler
    /\ hpc = "idle"
    /\ Exclusive => ~FrameInHand
    /\ IF "stats" \in made
       THEN /\ hpc' = "len" /\ hmsg' = m
            /\ UNCHANGED <<initVars, queue, buf, hidx, taskVars, sim, log, page, wire>>
       ELSE Panic

SetLen ==
    /\ hpc = "len"
    /\ buf' = [buf EXCEPT !.len = Length[hmsg]]
    /\ hpc' = "copy"
    /\ UNCHANGED <<initVars, queue, hmsg, hidx, taskVars, sim, log, page, wire>>

(* Fault: the loop ends one cell early. *)
CopyCellShort ==
    /\ hpc = "copy"
    /\ buf' = [buf EXCEPT !.cells[hidx] = hmsg]
    /\ IF hidx + 1 < Length[hmsg]
       THEN hidx' = hidx + 1 /\ UNCHANGED hpc
       ELSE hidx' = 1 /\ hpc' = "enqueue"
    /\ UNCHANGED <<initVars, queue, hmsg, taskVars, sim, log, page, wire>>

CopyCell ==
    /\ hpc = "copy"
    /\ buf' = [buf EXCEPT !.cells[hidx] = hmsg]
    /\ IF hidx < Length[hmsg]
       THEN hidx' = hidx + 1 /\ UNCHANGED hpc
       ELSE hidx' = 1 /\ hpc' = "enqueue"
    /\ UNCHANGED <<initVars, queue, hmsg, taskVars, sim, log, page, wire>>

(* Fault: the queue takes one item too many. *)
EnqueueOneMore ==
    /\ hpc = "enqueue"
    /\ IF "queue" \in made
       THEN /\ queue' = IF Len(queue) <= QueueSize THEN Append(queue, buf) ELSE queue
            /\ hpc' = IF Input \in SerialInputs THEN "clear" ELSE "resume"
            /\ UNCHANGED <<initVars, buf, hmsg, hidx, taskVars, sim, log, page, wire>>
       ELSE Panic

(* Fault: every handler clears the buffer, the socket handlers too. *)
EnqueueThenClear ==
    /\ hpc = "enqueue"
    /\ IF "queue" \in made
       THEN /\ queue' = IF Len(queue) < QueueSize THEN Append(queue, buf) ELSE queue
            /\ hpc' = "clear"
            /\ UNCHANGED <<initVars, buf, hmsg, hidx, taskVars, sim, log, page, wire>>
       ELSE Panic

(* xQueueSend with no time to wait: a full queue loses the message, and    *)
(* the result is not looked at.                                            *)
Enqueue ==
    /\ hpc = "enqueue"
    /\ IF "queue" \in made
       THEN /\ queue' = IF Len(queue) < QueueSize THEN Append(queue, buf) ELSE queue
            /\ hpc' = IF Input \in SerialInputs THEN "clear" ELSE "resume"
            /\ UNCHANGED <<initVars, buf, hmsg, hidx, taskVars, sim, log, page, wire>>
       ELSE Panic

ClearBuffer ==
    /\ hpc = "clear"
    /\ buf' = [buf EXCEPT !.cells = Zero]
    /\ hpc' = "clearlen"
    /\ UNCHANGED <<initVars, queue, hmsg, hidx, taskVars, sim, log, page, wire>>

ClearLen ==
    /\ hpc = "clearlen"
    /\ buf' = [buf EXCEPT !.len = 0]
    /\ hpc' = "resume"
    /\ UNCHANGED <<initVars, queue, hmsg, hidx, taskVars, sim, log, page, wire>>

(* Fault: the task is not woken. *)
ResumeNobody ==
    /\ hpc = "resume"
    /\ hpc' = "idle" /\ hmsg' = NUL
    /\ UNCHANGED <<initVars, queue, buf, hidx, taskVars, sim, log, page, wire>>

(* vTaskResume: wakes a suspended task, does nothing to another one. *)
Resume ==
    /\ hpc = "resume"
    /\ IF "task" \in made
       THEN /\ tpc' = IF tpc = "suspended" THEN "poll" ELSE tpc
            /\ hpc' = "idle" /\ hmsg' = NUL
            /\ UNCHANGED <<initVars, queue, buf, hidx, tlen, sim, log, page, wire>>
       ELSE Panic

Handler == SetLen \/ CopyCell \/ Enqueue \/ ClearBuffer \/ ClearLen \/ Resume

-----------------------------------------------------------------------------
(* common_send_task. *)

(* Fault: the item stays in the queue. *)
ReceivePeeking ==
    /\ "task" \in made /\ tpc = "poll"
    /\ Exclusive => ~HandlerInBuffer
    /\ IF "queue" \in made
       THEN /\ queue # <<>>
            /\ buf' = Head(queue)
            /\ tpc' = IF sim THEN "poll" ELSE "log"
            /\ UNCHANGED <<initVars, queue, handlerVars, tlen, sim, log, page, wire>>
       ELSE Panic

(* xQueueReceive without waiting, into the same static buffer.  While the  *)
(* simulation runs the item is dropped.                                    *)
Receive ==
    /\ "task" \in made /\ tpc = "poll"
    /\ Exclusive => ~HandlerInBuffer
    /\ IF "queue" \in made
       THEN /\ queue # <<>>
            /\ buf' = Head(queue) /\ queue' = Tail(queue)
            /\ tpc' = IF sim THEN "poll" ELSE "log"
            /\ UNCHANGED <<initVars, handlerVars, tlen, sim, log, page, wire>>
       ELSE Panic

ReceiveNothing ==
    /\ "task" \in made /\ tpc = "poll"
    /\ "queue" \in made /\ queue = <<>>
    /\ tpc' = "suspend"
    /\ UNCHANGED <<initVars, queue, buf, handlerVars, tlen, sim, log, page, wire>>

(* vTaskSuspend(NULL), a step later than the poll that found nothing. *)
Suspend ==
    /\ tpc = "suspend"
    /\ tpc' = "suspended"
    /\ UNCHANGED <<initVars, queue, buf, handlerVars, tlen, sim, log, page, wire>>

LogMessage ==
    /\ tpc = "log"
    /\ log' = [log EXCEPT !.text = Text(buf.cells)]
    /\ tpc' = "event"
    /\ UNCHANGED <<initVars, queue, buf, handlerVars, tlen, sim, page, wire>>

(* new_event is set a step later than the message is written. *)
AnnounceMessage ==
    /\ tpc = "event"
    /\ log' = [log EXCEPT !.new = TRUE]
    /\ tpc' = "call"
    /\ UNCHANGED <<initVars, queue, buf, handlerVars, tlen, sim, page, wire>>

(* Fault: the size of the buffer is passed instead of the length. *)
CallWithSizeof ==
    /\ tpc = "call"
    /\ IF HasSender
       THEN tpc' = "send" /\ tlen' = BufSize
       ELSE tpc' = "poll" /\ UNCHANGED tlen
    /\ UNCHANGED <<initVars, queue, buf, handlerVars, sim, log, page, wire>>

(* send_u8 takes a pointer to the buffer and the length as it is now; it   *)
(* is NULL for the outputs that never set it.                              *)
CallSender ==
    /\ tpc = "call"
    /\ IF HasSender
       THEN tpc' = "send" /\ tlen' = buf.len
       ELSE tpc' = "poll" /\ UNCHANGED tlen
    /\ UNCHANGED <<initVars, queue, buf, handlerVars, sim, log, page, wire>>

(* The driver copies tlen bytes out of the buffer. *)
Transmit ==
    /\ tpc = "send"
    /\ wire' = Bytes(buf.cells, tlen)
    /\ tpc' = "poll" /\ tlen' = 0
    /\ UNCHANGED <<initVars, queue, buf, handlerVars, sim, log, page>>

SendTask ==
    \/ Receive \/ ReceiveNothing \/ Suspend
    \/ LogMessage \/ AnnounceMessage \/ CallSender \/ Transmit

-----------------------------------------------------------------------------
(* The web server, start_simu_pro_event_buttons and message_log_handler,   *)
(* and the simulation it starts.                                           *)

ToggleSimulation ==
    /\ SimMayRun
    /\ sim' = ~sim
    /\ UNCHANGED <<initVars, queue, buf, handlerVars, taskVars, log, page, wire>>

(* simulation_send_task shares the log with common_send_task.  Its output  *)
(* is another connection; and it may outlive the stop, as a second start   *)
(* loses the handle of the first task.                                     *)
SimulationLogs ==
    /\ SimMayRun
    /\ log' = [log EXCEPT !.text = SimText, !.half = TRUE]
    /\ UNCHANGED <<initVars, queue, buf, handlerVars, taskVars, sim, page, wire>>

SimulationAnnounces ==
    /\ log.half
    /\ log' = [log EXCEPT !.new = TRUE, !.half = FALSE]
    /\ UNCHANGED <<initVars, queue, buf, handlerVars, taskVars, sim, page, wire>>

(* message_print_content of the page asks again and again; the handler     *)
(* takes the message first ...                                             *)
ReadMessage ==
    /\ PagePolls
    /\ page.pc = "idle"
    /\ page' = [page EXCEPT !.pc = "message", !.text = log.text]
    /\ UNCHANGED <<initVars, queue, buf, handlerVars, taskVars, sim, log, wire>>

(* Fault: the event is reset before it is read. *)
ReadEventReset ==
    /\ page.pc = "message"
    /\ page' = [page EXCEPT !.pc = "event", !.new = FALSE]
    /\ log' = [log EXCEPT !.new = FALSE]
    /\ UNCHANGED <<initVars, queue, buf, handlerVars, taskVars, sim, wire>>

(* ... new_event next ... *)
ReadEvent ==
    /\ page.pc = "message"
    /\ page' = [page EXCEPT !.pc = "event", !.new = log.new]
    /\ UNCHANGED <<initVars, queue, buf, handlerVars, taskVars, sim, log, wire>>

(* ... and resets it, whatever was announced since. *)
ResetEvent ==
    /\ page.pc = "event"
    /\ page' = [page EXCEPT !.pc = "answer"]
    /\ log' = [log EXCEPT !.new = FALSE]
    /\ UNCHANGED <<initVars, queue, buf, handlerVars, taskVars, sim, wire>>

(* The page shows the text of an answer that says new_event and ignores    *)
(* any other; after 200 ms without an answer the request has failed.       *)
Answer ==
    /\ page.pc = "answer"
    /\ \/ page' = [pc |-> "idle", text |-> Zero, new |-> FALSE,
                   shown |-> IF page.new THEN page.text ELSE page.shown]
       \/ page' = [pc |-> "failed", text |-> Zero, new |-> FALSE, shown |-> page.shown]
    /\ UNCHANGED <<initVars, queue, buf, handlerVars, taskVars, sim, log, wire>>

(* A request that failed is logged by the browser, and the next scheduled. *)
AskAgain ==
    /\ page.pc = "failed"
    /\ page' = [page EXCEPT !.pc = "idle"]
    /\ UNCHANGED <<initVars, queue, buf, handlerVars, taskVars, sim, log, wire>>

MessageLog == ReadMessage \/ ReadEvent \/ ResetEvent \/ Answer \/ AskAgain

WebServer == ToggleSimulation \/ SimulationLogs \/ SimulationAnnounces \/ MessageLog

Startup == CreateQueue \/ CreateStats \/ CreateTask

Next ==
    \/ Startup
    \/ \E m \in Message : Arrive(m)
    \/ Handler
    \/ SendTask
    \/ WebServer

Spec == Init /\ [][Next]_vars

(* Every task that is ready runs eventually, the browser keeps polling;    *)
(* input and the simulation are free to do nothing.                        *)
Fairness ==
    /\ WF_vars(Startup)
    /\ WF_vars(Handler)
    /\ WF_vars(SendTask)
    /\ WF_vars(MessageLog)

FairSpec == Spec /\ Fairness

-----------------------------------------------------------------------------
(* Safety. *)

Frames == {Payload(m) : m \in Message}

Logs  == [text : Texts, new : BOOLEAN, half : BOOLEAN]
Pages == [pc : {"idle", "failed", "message", "event", "answer"},
          text : Texts, new : BOOLEAN, shown : Texts]

TypeOK ==
    /\ initpc \in {"queue", "stats", "task", "done"}
    /\ made \subseteq {"queue", "stats", "task"}
    /\ queue \in Seq(Item) /\ Len(queue) <= QueueSize
    /\ buf \in Item
    /\ hpc \in {"idle", "len", "copy", "enqueue", "clear", "clearlen", "resume"}
    /\ hmsg \in Cell /\ (hmsg = NUL <=> hpc = "idle")
    /\ hidx \in 1..BufSize
    /\ tpc \in {"poll", "log", "event", "call", "send", "suspend", "suspended"}
    /\ tlen \in 0..BufSize
    /\ sim \in BOOLEAN
    /\ log \in Logs
    /\ page \in Pages
    /\ wire \in ByteStrings \cup {NoFrame}

(* An item carries a message if its length is the message's length and the *)
(* cells a transmission would take are the message's own bytes.            *)
Carries(item, m) ==
    /\ item.len = Length[m]
    /\ \A i \in 1..Length[m] : item.cells[i] = m

(* Every item in the queue is one whole message. *)
QueueIntact ==
    \A k \in 1..Len(queue) : \E m \in Message : Carries(queue[k], m)

(* The frame the send task holds is one whole message until it is sent. *)
HandIntact ==
    FrameInHand => /\ \E m \in Message : Carries(buf, m)
                   /\ tpc = "send" => tlen = buf.len

(* What goes out is, byte for byte, a message that came in.  It holds if   *)
(* the handler never runs while a frame is in hand.                        *)
WireIntact == wire \in Frames \cup {NoFrame}

(* How far the handler has brought the buffer, and that nothing else       *)
(* touches it meanwhile: what the three properties above rest on.          *)
HandlerProgress ==
    /\ hpc \in {"copy", "enqueue"} => buf.len = Length[hmsg]
    /\ hpc = "copy" => /\ hidx <= Length[hmsg]
                       /\ \A i \in 1..hidx - 1 : buf.cells[i] = hmsg
    /\ hpc # "copy" => hidx = 1
    /\ hpc = "enqueue" => Carries(buf, hmsg)

Apart == ~ (HandlerInBuffer /\ FrameInHand)

IntactInv == Apart /\ HandlerProgress /\ QueueIntact /\ HandIntact /\ WireIntact

(* The socket handlers leave the length standing, so that no interleaving  *)
(* turns a datagram into an empty transmission.                            *)
NoEmptyFrame == wire # <<>>

(* What goes out is as long as some message: at worst one datagram goes    *)
(* out with the length of another.                                         *)
Lengths         == {Length[m] : m \in Message}
LengthOfMessage == wire # NoFrame => \E n \in Lengths : DOMAIN wire = 1..n

(* Why: wherever a length is about to be queued or passed on, it is one    *)
(* that a handler set, be it for another message.                          *)
LengthsStand ==
    /\ hpc \notin {"clear", "clearlen"}
    /\ hpc \in {"copy", "enqueue"} \/ tpc \in {"log", "event", "call"} => buf.len \in Lengths
    /\ \A k \in 1..Len(queue) : queue[k].len \in Lengths
    /\ tpc = "send" => tlen \in Lengths
    /\ LengthOfMessage

(* common_protocol_init does not get past the statistics without them.     *)
StatsExist == initpc \in {"task", "done"} => "stats" \in made

(* A bridge that came up with its queue and its task is never restarted by *)
(* the input, the task, the simulation or a request, in whatever order     *)
(* they come: of the handles created unchecked only these two can still be *)
(* NULL once common_protocol_init has returned, and nobody else uses one.  *)
NoRestartOnceUp ==
    [][initpc = "done" /\ {"queue", "task"} \subseteq made => initpc' = "done"]_vars

-----------------------------------------------------------------------------
(* The abstract specification: a frame is accepted when it is queued and   *)
(* handed over when it is transmitted.                                     *)

FrameOf(item) == Bytes(item.cells, item.len)

InHand == IF FrameInHand THEN <<FrameOf(buf)>> ELSE <<>>

Queued == [k \in 1..Len(queue) |-> FrameOf(queue[k])]

R == INSTANCE Relay WITH
        Frame <- Frames,
        Capacity <- QueueSize,
        pending <- InHand \o Queued

(* The bridge is a lossy relay (if the tasks do not overlap on the buffer). *)
RefinesRelay == R!Spec

-----------------------------------------------------------------------------
(* Liveness. *)

(* While input keeps coming, the send task comes back to the queue again   *)
(* and again: a wake-up it missed is made good by the next message.        *)
ServedWhileInputLasts ==
    []<>(hpc = "resume" /\ initpc = "done") => []<>(tpc = "poll")

(* "forward message received from" (README.md:4): what the bridge accepted *)
(* leaves the queue, also if it was the last message for a while.          *)
QueuedIsServed == (queue # <<>>) ~> (queue = <<>> \/ FrameInHand)

(* Input during start-up can restart the device, but only input can: once  *)
(* it stays away the bridge comes up.                                      *)
ComesUpWhenQuiet ==
    <>[][~ \E m \in Message : Arrive(m)]_vars => <>(initpc = "done")

(* A text that stands announced in the log while no answer is being made   *)
(* is shown by the page that keeps asking, unless the next text replaces   *)
(* it or the answer does not reach the page.  So an announcement is lost   *)
(* only if it is made between the reading of the message and the reset of  *)
(* new_event: the answer then has the text before it, or calls it old.     *)
PageShowsText ==
    PagePolls =>
      \A t \in Cells \ {Zero} :
        (log.new /\ log.text = t /\ page.pc = "idle")
          ~> (page.shown = t \/ log.text # t \/ page.pc = "failed")
=============================================================================
