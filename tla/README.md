# ESP32 bridge: specifications, model checking and proofs

This directory holds TLA+ modules that model the firmware in `src/`, the TLC
configurations that check them and the TLAPS proofs about them. It is written
for someone who has the repository open beside it.

    tlc -workers 2 -config MCCommonProtocol_apart.cfg MCCommonProtocol
    tlapm CommonProtocolRefinement.tla

## 1. The system

The firmware takes messages from one configured *input* (a UART, the USB UART,
UDP, TCP, Bluetooth) and forwards them to one configured *output*. It runs on
FreeRTOS, on the two cores of an ESP32-S3 (`sdkconfig`), with a tick of 10 ms.

| component | source | state | operations | runs in |
|---|---|---|---|---|
| bridge core | `main/common_protocol/src/common_protocol.cpp` | one static buffer, a queue of 12, a task handle, a statistics handle, `send_u8` | `common_protocol_init`, `common_uart_handler`, `protocol_udp_tcp_handler`, `common_send_task` | event loop task or a socket task; its own task |
| Wi-Fi station | `main/wifi.c` | `sta_active`, `sta_connected`, an event group, two task handles | `wifi_init`, event handlers, status task, reconnect task, `wait_for_ip`, `wifi_scan` | event loop task, two tasks of priority 0, main task, web server |
| Wi-Fi access point | `main/wifi.c` | `ap_active`, a list of clients, an event bit | four handlers | event loop task |
| retry counter | `main/retry.c` | `struct retry_delay` | `retry_init`, `retry_delay`, `retry_reset` | reconnect task; a handler |
| configuration store | `main/config.c` | NVS items with defaults | get, set, commit, restart task (`config_reset` is never called) | main task, web server |
| boot | `main/main.cpp` | `board_data` | `app_main`, `user_get_data_input` | main task |
| serial ports | `main/uart.c` | driver, task | read task, write, inject | its task; posts to the event loop |
| web server | `main/web_server.c` | one shared buffer, the log's `new_event` | configuration GET/POST, status, log, simulation button, files, scan | HTTP task |
| simulation | `components/protocol/src/simulation.cpp` | a task handle, `send_u8` | start, stop, send task | HTTP task; its task |
| Bluetooth | `components/protocol/src/Bluetooth.cpp`, `gatt_svr.c` | connection handle, `notify_state` | advertise, GAP events, notify, characteristic access | NimBLE host task; whoever sends |
| sockets | `TCP.cpp`, `TCP_Server.cpp`, `UDP.cpp`, `UDP_Server.cpp` | a socket and a task each | connect, accept, receive, send, destroy | a task each |
| stream statistics | `main/stream_stats.c` | a list of counters | new, increment, averaging task | everyone; its task |

How they interact. `app_main` reads the configuration into `board_data`, starts
the UART task, creates the event loop, starts Wi-Fi and the web server and then
the bridge; it blocks in `wait_for_ip` until the station has an address. Input
tasks call the bridge's handler (the UART through the event loop, the sockets
directly); the handler fills the static buffer, copies it into the queue and
resumes the send task, which copies the next item back into *the same* buffer,
writes the message log and calls the output. The web server reads the log,
starts the simulation, writes the configuration and restarts the device. The
Wi-Fi handlers suspend and resume two other tasks from outside.

Behaviours that are hard, and hard to test: the unlocked buffer between two
cores; wake-ups by `vTaskResume` that fall before the `vTaskSuspend` they are
meant to end; a task suspended from outside in the middle of a statement;
handlers registered before what they use exists; events of an old link handled
after a new one is up; allocations whose failure nobody looks at.
`PROJECT.json` lists each of these hazards at its line.

What makes each component correct, in one line each: the bridge forwards whole
messages in order and sleeps only when there is nothing to send; the station
reconnects for ever and its bits and flags say what the link is; the access
point's bit says whether a client is there; the retry counter backs off up to a
bound; the configuration read is the one written, or the documented default;
stopping the simulation stops everything that was started for it; a
notification never restarts the device; a socket task survives an error; the
statistics lose no byte.

## 2. The modules

### CommonProtocol (with MCCommonProtocol)

The bridge core. Its variables are the C objects of the same role (`buf` is
`user_buffer_common_queue`, `queue` is `common_queue`, `log` is
`board_data.message` with `new_event`), plus a control point for each
concurrent actor: `initpc` for `common_protocol_init`, `hpc` for the handler,
`tpc` for `common_send_task`, `page` for the page that asks for the message log.

An action is one access of one actor to the shared state:

| code | actions |
|---|---|
| `common_protocol_init`, 245-252 | `CreateQueue`, `CreateStats`, `CreateTask`; with `LowMemory` each may fail, and the code goes on |
| both input handlers | `Arrive`, `SetLen`, `CopyCell` (one per byte), `Enqueue`; the serial one then `ClearBuffer`, `ClearLen`; `Resume` |
| `common_send_task` | `Receive` or `ReceiveNothing`, `LogMessage`, `AnnounceMessage`, `CallSender`, `Transmit`, `Suspend` |
| web server | `ToggleSimulation`; `ReadMessage`, `ReadEvent`, `ResetEvent` of `message_log_handler` |
| the page that polls, `www/main.html:196-216` | `Answer` (a text is shown only with the event set, 204-208; an answer may fail to arrive), `AskAgain` |
| simulation task | `SimulationLogs`, `SimulationAnnounces` (only its effect on the shared log) |
| a NULL handle in FreeRTOS or in the statistics | `Panic`: everything but what was already sent is lost |

Data is abstracted to what tells messages apart: a buffer is `BufSize` cells, a
cell holds the message whose byte it is or NUL, message `m` fills `Length[m]`
cells. The timeout of `xQueueReceive`, 5 ms, is 0 ticks at 100 Hz, so a receive
on an empty queue returns at once. FreeRTOS copies queue items in a critical
section; the `memset` and the drivers' copy are one step each, which leaves out
tearing inside them (it would only add ways to violate what is already violated).

`Exclusive` is a timing assumption and not something the code enforces: the
handler does not run while a frame is in the send task's hands, and the task
does not receive while the handler is in the buffer. It separates what the code
gets right from what only luck gets right, and every result says which it needs.

Start-up is modelled from the registration of the handler on. Later input must
come from the configured `Input`; Bluetooth and CAN inputs have no handler, and
CAN, UDP and TCP outputs have no sender, as in the code.

### Relay

What the bridge promises: accepted frames are kept in order up to a capacity,
handed over or dropped from the front, never invented, altered or repeated; a
reset forgets them. `CommonProtocol!RefinesRelay` instantiates it with
`pending <- InHand \o Queued`.

### WifiStation (with MCWifiStation)

The station half of `wifi.c`. `events` is the queue of the default event loop
and `step` the place in the handler that runs; each statement of a handler that
another task can see is a step. `rtask` and `stask` are the two tasks, each with
a control point and a `suspended` flag, since `vTaskSuspend` stops them wherever
they are. `main` is `wifi_init` and then `wait_for_ip`. The driver, the DHCP
client and the event loop are external and modelled by the calls `wifi.c` makes
and the events it gets: associations succeed or fail, links break, addresses
come, expire and come back. Two assumptions about them are made where they are
used: the driver takes a call to `esp_wifi_connect` (an error it returns is
ignored by `wifi.c:93` and 105, and no event would follow; `Connect`), and no
address is announced for a link that is broken already (`GetsLease`).

`sta_enable` is the configuration, chosen at the start. `prompt` is a timing
assumption fixed for a behaviour: nothing suspends, resumes or answers the
reconnect task between `esp_wifi_connect` and its own `vTaskSuspend`. Safety
is checked without it. `failures` is a history variable.

Not modelled here: the access point (see Status), the copying of credentials,
`handle_sta_stop` (nothing stops the station), IPv6, the RSSI arithmetic.

### Retry (with MCRetry)

`retry.c` as a state machine: `retry_init`'s loop, then any sequence of
`retry_delay` and `retry_reset`. `DelayIsReference` compares it with a
definition that has no indices.

### RetryAttempts

What the callers of `retry.c` take for granted: a count that goes up by one,
wraps at its width and starts again, each in one step. `Retry!RefinesCounter`
maps `handle.attempts` to it, `WifiStation!RefinesCounter` the counter that the
reconnect task loads and stores, without a lock, while the handler resets it.
The second is what makes the steps of `Retry` the right ones.

### Configuration (with MCConfiguration)

The items of `config.c` in non-volatile storage and everybody who touches them.

| code | in the module |
|---|---|
| the items table, the getters and their defaults | `Default`, `Read`; one item stands for each kind |
| NVS | `nvs` is what a reader sees, `maybe` the values a restart may find: a set adds one, a commit leaves one |
| `user_get_data_input`, twice, and `uart_init` between | `Boot` with `GetDataInput`, `UartInit`; the default of a blank output goes under the key of the input, and of a string the bytes of a pointer are stored, as in the code |
| `wifi_init`'s access point name | `WifiInit` |
| `config_post_handler` | `Post` (one receive), `StoreItem` per item (stored, skipped, refused, failed, or a read through NULL that restarts the device), `Commit`, `ConfigRestart`, `Answer` |
| its conversions | `Outcome`: `NumberOf` (what `strtol` reads of a text, and the low byte that an `int8_t` keeps of it), `ColourOf` (alpha from the item's default), `AddressOf` (an array of strings only) |
| `config_get_handler` | `Shown`: secrets hidden, colours without their alpha, addresses as arrays of numbers, strings as the bytes they are |
| the page, `www/settings.html` | `Submits` (a select shows a value that is none of its options as nothing, and is not submitted then; its `Options` are at 940, 973 and 999), `Submitted` (the filling of the form, 233-258, and `serializeObject`, 52-66: the four fields of an address become strings; bytes that are no text have become replacement characters) |
| `config_restart_task`, power | `RestartTask`, `PowerLoss`, both by way of `Restart` |

`scarce`, fixed for a behaviour, is shortage of memory: a set and a
`xTaskCreate` may fail. `Spins` is the UART task that reads from a port that is
none and never blocks. `accepted` and `misfiled` are history.

### Sockets and Simulation (with MCSimulation)

`Sockets` has the four tasks of `components/protocol` that hold a socket, and
the web server's sessions, on one pool of numbers that lwIP gives out lowest
first and again after a close. It is a module of actions without a specification
of its own; `Simulation` extends it with the request of the simulation button
(`Post`, `Start`, `Create`, `Stop`, `Destroy`, in the order of the code), the
tasks that a second start leaves behind, the write mutex of the UART driver, and
the bridge's send task as its other user where input and output are the UART.
`board` is the input and the output, which `simulation.cpp:88`, 102 and 110 ask
(`Uses`) before they set anything up. Everything that may fail does: a
`xTaskCreate` at boot or in a start, `socket`, `bind`, `listen`, `accept`,
`setsockopt`, `connect`, a send, and the assertions of `Bluetooth_init`
(`Bluetooth.cpp:69-74`), the first time too. One behaviour is one boot:
`crashed` ends it, and tells a first failure of Bluetooth ("ble") from one of a
later call ("again").

### BleNotify (with MCBleNotify)

The callbacks of `Bluetooth.cpp` in NimBLE's host task and
`gatt_report_notify` in the tasks that send, test (`Test`), buffer (`Build`) and
notification (`Notify`) being separate steps. NimBLE is external: `todo` is what
its host task has yet to do for an event. Three assertions can end a behaviour:
`crashed` is "identity" after the one of `blehr_on_sync` (`Bluetooth.cpp:225`,
`OnSync`), "link" or "memory" after the one of a notification. `prompt`, fixed for a behaviour, says
that no link is deleted between a sender's test and its notification: the
assertion of `gatt_svr.c:221` has no other protection. The `snprintf` of
`gatt_svr.c:211` into a buffer that is only read by a GATT client is left out.

### Status (with MCStatus)

What the status page reports and who writes it meanwhile: `stream_stats.c` fed
by the UART task while `app_main` starts up (`Startup` is its order), and the
access point's list and bit. An increment is load, add and store; `prompt` says
that it does not overlap with the statistics task's read and reset. Bytes posted
before there is an event loop, or dispatched before the bridge has registered,
are counted in `lost`.

### Proof modules

`CommonProtocolProofs`, `CommonProtocolRefinement`, `RetryProofs`,
`WifiStationProofs`, `ConfigurationProofs`, `SimulationProofs`,
`BleNotifyProofs`, `StatusProofs`; see section 4.

Definitions that begin with "Fault:" in their comment are mutated forms of the
definition after them. No specification uses them; they show that a property
notices that bug (`PROJECT.json`, "mutants").

## 3. The runs

| run | instance | shows |
|---|---|---|
| bridge_apart | UART to UART, `Exclusive`, memory may fail, simulation on (104,716 states) | `IntactInv`, `RefinesRelay`, `NoRestartOnceUp` |
| bridge_overlap | UDP to UART, any overlap, simulation and a polling page on, fairness (125,044) | types, `NoEmptyFrame`; `ServedWhileInputLasts`, `ComesUpWhenQuiet`, `PageShowsText` |
| bridge_altered | as the first, without `Exclusive` | `WireIntact` violated |
| bridge_asleep | UART to UART, `Exclusive`, fairness | `QueuedIsServed` violated |
| wifi_station | any timing, memory may fail, fairness | types, `IpBitFollowsLease`, `SoleConnector`, `BackoffFollowsFailures`, `StatusCatchesUp`; for prompt behaviours `ReconnectsIfPrompt`, `MainProceeds` |
| wifi_window | any timing, fairness | `ReconnectsForever` violated |
| retry | real table, callers' and edge arguments | types, `DelayIsReference`, `NeverBeyondMax`, `BackoffGrows` |
| configuration | three forms, bodies in segments, a loss of power, fairness (416,346) | types, `AcceptedIsKept`, `RepostChangesNothing`, `DriverMatchesInput`; `PostTakesEffect` |
| config_applied | a form of the page, bodies in segments, fairness | `SubmittedIsApplied` violated |
| simulation | three sockets, two starts, seven boards, fairness (380,094) | types, `SocketsAreTheirs`, `SoleSender`, `BluetoothSetUpOnce`, `SenderIsHeard`, `NothingStrays`; `ClientRetries`, `BridgeWrites` |
| ble_notify | two senders, two handles, two buffers, fairness (19,280) | types, `OneLink`, `NotifyFollowsClient`, `NoAbortIfPrompt`; `VisibleAgain` |
| status | three bytes, two stations | types, `InputAccounted`, `ApBitFollowsClients` |

**Bounds.**
- *Bridge.* Two messages of lengths 1 and 2 in a buffer of 2 are enough for a
  short message behind a long one, a frame that fills the buffer, and a torn
  copy (half of one message, half of another). A queue of 2, of 3 in
  bridge_apart (12 in the build), can be full, empty and in between, and lets
  one more message be lost. The page is switched off in bridge_apart
  (`PagePolls`), since nothing it does reaches the frames. The liveness run has
  one message of two cells: control never looks at the data.
- *Wi-Fi.* An event-loop queue of 3 (32 in the build) holds a connection, its
  loss and a late address event of the old link together; posts wait for room,
  since the build's queue is not exhausted by one station. `attempts` wraps
  at 4, so that the wrap happens; the retry run wraps at 256, long after the
  table of 16 delays and 5 short ones has ended.
- *Configuration.* The forms are choices with a blank string, a refused entry
  beside a number that is 0 as an `int8_t` and so a blank output, and an entry
  that restarts the device after another was stored; `MaxLosses` = 1 loss of power at any step, restarts by the device's own
  task as often as forms are posted. A restart forgets everything but the
  storage, so a second loss meets nothing new.
- *Simulation.* `Pool` = 3 (10 in the build) lets the sockets run out with one
  client, one server and one session (`MaxWeb`); `MaxStarts` = 2 is what a
  second start needs. `Boards` names, with an input and an output, the protocols
  that meet in a socket, the mutex, a sender left over or a Bluetooth set up
  before: two with Bluetooth, one at either end, where boot sets it up, and one
  without, where starts do. Other pairs share nothing.
- *Bluetooth.* Two senders (bridge and simulation), two handles so that a link
  can be replaced by another, and two buffers, one per sender.
- *Status.* `MaxInput` = 3 bytes and a queue of `LoopSize` = 2: two increments
  on either side of a reset, a full and an empty queue; two stations, one that
  stays while the other leaves, exchangeable (`SYMMETRY`; the run has no
  liveness property).

No state constraint is used.

**Deadlock** is checked in the bridge's, the retry counter's and the
configuration's passing runs. The others switch it off. With the station
disabled, the default, the Wi-Fi system really comes to rest with the main task
in `wait_for_ip`. A simulation ends with an abort or with the last start the
bound allows, the Bluetooth output with a failed assertion, and the status run
when the input is used up.

**Fairness.** Weak fairness of each task that is ready to run: FreeRTOS
schedules by priority on two cores, and every task here either blocks or
sleeps. Input, requests, subscriptions, errors, stations and the breaking of
links are never fair. The exceptions and additions:
- The browser polls (`www/main.html:196-216` asks again one second after each
  answer or failure).
- For the station, an attempt to associate comes to an end and the DHCP client
  answers; `MainProceeds` also assumes an access point in reach, strong fairness
  of a successful association, and that from some point on links last until the
  address has come.
- The main task is fair unless the UART task spins (`Main /\ ~Spins`): a task
  that never blocks, of a higher priority, may keep its core.
- `BridgeTake` is strongly fair: a FreeRTOS mutex that is given back wakes the
  waiting task of the highest priority.
- NimBLE comes into sync again after a reset and calls back for every event.

**What the violations say.**
- *bridge_altered* - the send task receives into the buffer the handler writes
  (`common_protocol.cpp:346` and 269-278) and transmits from it later; a message
  that arrives in between is what goes out, in part, or zeros.
- *bridge_asleep* - `vTaskResume` before `vTaskSuspend(NULL)` (392) is lost: the
  last message of a burst can stay in the queue until the next one comes.
  `ServedWhileInputLasts` is the half of the promise that holds.
- *wifi_window* - the same lost wake-up in `wifi.c:93-96`, and here nothing
  comes later to make it good: the station stays down.
- *config_applied* - the page says that the device "has been restarted to apply
  the new configuration" (`www/settings.html:1121`) once it is answered with
  success (`web_server.c:619`); `config_post_handler` receives once (512), a body
  in two segments parses to nothing, and the answer is success all the same.

Three differences from the documents are in the models and need no run: UDP
and TCP are named as outputs (the repository's `README.md:11`) but the lines
that would set their sender are commented out (`common_protocol.cpp:234`, 242);
what a Bluetooth client writes is handed to nobody; and a message that arrives
while the simulation is on is dropped.

## 4. The proofs

All for every value of the constants: any messages, lengths, queue lengths,
input and output; any ascending table of delays, any width of the counter; any
forms and losses of power; any pool of sockets and number of starts; any number
of senders, handles, buffers and stations.

| theorem | statement | argument |
|---|---|---|
| `TypeCorrect` | `Spec => []TypeOK` | one lemma per actor |
| `StaysUp` | `Spec => NoRestartOnceUp`, with `LowMemory` too | invariant `StatsExist`: `common_protocol_init` does not get past the statistics without them, so that queue and task are the only handles that can be NULL later |
| `Intact`, `TransmitsIntact` | `Exclusive`: `Spec => []IntactInv`, `[]WireIntact` | `WireIntact` is not inductive: it needs that the hand holds a whole message, hence that the queue does, hence that the handler's progress is not disturbed; `IntactInv` is that chain with `Apart` (handler and task are not in the buffer together) |
| `SentLengthIsReal`, `NothingEmptyIsSent` | `Input \in SocketInputs`: `Spec => []LengthOfMessage`, `[]NoEmptyFrame` | without `Exclusive`: the contents are lost to the race and the length is not. `LengthsStand`: wherever a length is about to be queued or passed on, it is one that a handler set, because the socket handlers never clear it |
| `BridgeIsRelay` | `Exclusive`: `Spec => RefinesRelay` | under `TypeOK` and `IntactInv` each action maps to `Accept`, `Forward`, `Discard`, `Reset` or a stutter |
| `RetryTypeCorrect` | `Spec => []TypeOK` | every index `retry_delay` computes is in the table |
| `DelayIsBounded` | `Spec => []NeverBeyondMax` | needs that the short delay is within the maximum (`WellChosen`), as both callers have it |
| `BackoffNeverShrinks` | `Spec => BackoffGrows` | invariant: the last delay is the one of `attempts - 1`, and the loop stopped where the table is not shorter than the short delay |
| `DelayMeetsReference` | `Spec => []DelayIsReference` | `LoopInv` (what the loop has skipped is shorter than the short delay) and the ascending table make the eligible entries an interval (`EligibleIs`); the one with *k* entries of an interval before it is the *k*-th after its start (`IntervalNth`) |
| `RetryIsCounter`, `StationCounterIsAtomic` | `Spec => RefinesCounter` | in the station by `BackoffInv`: what the reconnect task is about to store goes on from the counter's present value, and a task that was suspended there has loaded 0, so that a reset in between changes nothing |
| `StationTypeCorrect`, `StationHasOneConnector`, `StationBitIsLease`, `StationBackoff` | `[]TypeOK`, `[]SoleConnector`, `[]IpBitFollowsLease`, `[]BackoffFollowsFailures` | `ConnectorInv` says where the reconnect task can be for each step of the handlers, through every suspension; `LeaseInv` that the last address event under way tells the truth; `BackoffInv` bounds the loaded counter too; `CreationOrder` gives the tasks' handles |
| `StationNeverStranded` | `Spec => []NeverStranded` | the safety half of `ReconnectsIfPrompt`: `WindowInv` says that a prompt task enters the window before `vTaskSuspend` not suspended and with an attempt under way, so that the disconnection that follows finds it asleep |
| `ConfigurationTypeCorrect`, `AcceptedStays`, `DriverFollowsInput` | `[]TypeOK`, `[]AcceptedIsKept`, `[]DriverMatchesInput` | `RequestInv`: a request is handled only while the main task rests, and between commit and answer a restart can find one value only, so that what the answer adds to `accepted` is settled; the boot writes blank items only (`BootWrites`). `BootInv` follows the input from its first reading to the web server's |
| `RepostIsHarmless` | `Spec => []RepostChangesNothing` | `StorableInv`: whatever was posted, defaulted or lost, bytes that are no text are found under the string with a fallback only, and under an address nothing but addresses; `RoundTrip` follows a value from GET through the page to POST, item by item |
| `SimulationTypeCorrect`, `EverySocketIsOwned`, `OneSenderAtATime`, `BluetoothOnce`, `SenderHasServer`, `OnlyUdpStrays` | the invariants of the simulation run | `Owned` is `SocketsAreTheirs` socket by socket, which is inductive; `RequestInv` says what a request in progress has done (a start's task is not there yet, its sender and server are; a stop's handle is gone); `BleInv` who set Bluetooth up; `BroadcastInv` |
| `WritersAreAlone`, `LostMutexStaysLost` | `[]OneWriter`, `LostForGood` | the safety half of `BridgeWrites`: a task in a write owns the mutex, an owner is in a write or was deleted there; no start reuses the number of a deleted task (`RequestInv`) |
| `BleTypeCorrect`, `OnlyOneLink`, `FlagFollowsClient`, `NoAbortForALink` | `[]TypeOK`, `[]OneLink`, `[]NotifyFollowsClient`, `[]NoAbortIfPrompt` | `LinkInv` relates links, advertising and the callbacks still to come; `SenderInv` what a sender between test and notification can rely on; `MemoryInv` counts the buffers |
| `DeviceNeverSilent` | `[]NeverSilent` | the safety half of `VisibleAgain`: by `LinkInv` every event that ends advertising or a link leaves a callback that advertises |
| `StatusTypeCorrect`, `ApBitIsRight` | `[]TypeOK`, `[]ApBitFollowsClients` | `CountInv`: an increment under way is in the count at most once; `PointInv`: a station that is there has its event in the queue or has set the bit, and the last of the events tells whether one is there |
| `BytesAreAccounted` | `[]InputAccounted` | `BytesInv` and `RatesInv` keep the two books balanced in the middle of an increment and of a post as well; the sum over the queue is a sequence of partial sums (`AddsUp`), so that no induction is needed |

Assumptions are the named `ASSUME`s of the modules, which TLC evaluates in the
runs: messages fit the buffer (the readers cap them, except for the UART, see
section 6), NUL is no message, the output before its first frame is not the
empty frame, the table ascends, forms have items of the table, senders and
handles are finitely many.

Every invariant and every action property of the passing runs is proved, and so
is the refinement of `Relay`. Model-checked only is all liveness, which is
outside the prover's reach with its fairness: `ServedWhileInputLasts`,
`ComesUpWhenQuiet`, `PageShowsText`, `ReconnectsIfPrompt`, `MainProceeds`,
`StatusCatchesUp`, `PostTakesEffect`, `ClientRetries`, `BridgeWrites`,
`VisibleAgain`. Of three of them the safety half is a theorem: nothing is left
in a state from which only luck leads on, and what TLC adds is that tasks that
can run do.

Proved but in no run are statements that go beyond the runs' properties
(`LengthOfMessage`, both `RefinesCounter`, `NeverStranded`, `NeverSilent`,
`OneWriter`, `LostForGood`) and the inductive invariants named above. TLC checked
those statements on the instance of the component's run before they were proved.

## 5. What could be next

- The composition of `Configuration` with `CommonProtocol`: the bridge's `Input`
  and `Output` as what a boot reads, instead of constants.
- A bridge whose output is Bluetooth on top of `BleNotify`, with the assertion
  as one more way to restart.

## 6. Not modelled, and why

- Sizes beyond the abstraction: the UART task reads up to 4096 bytes and stores
  a zero behind them (`uart.c:231`), while the bridge's buffer has 1000; the
  models assume messages that fit. A message of exactly 1000 bytes has no
  terminator for the `"%s"` of the log.
- Contents: formatting, JSON, HTTP, NMEA, logging, LED code. Of the
  configuration's conversions those that change what is stored are modelled.
- Handlers without state: files, the list of the scan, the rest of the status
  page, the access callbacks of the GATT characteristics; the start and stop
  handlers of the access point, which only set `ap_active`; an access point
  that is switched off (`wifi.c:366`): then `WifiInit` stores nothing.
- Behaviours the models have and nothing in the code prevents or makes good, so
  that a property can only name them as its exception or leave them out: a
  client that spins after an orderly close (`TCP.cpp:110-114`), a UDP input that
  ends for good, a main task that suspends itself when a task could not be
  created, an access point name of 32 characters, the task of a first start that
  a second one left behind, a bridge that is silent for a simulation whose task
  could not be created, a notification that fails for want of a link or a
  buffer, advertising that could not be started, an increment and a reset of a
  rate that overlap. Most hazards of `PROJECT.json` without a property are
  among these.
- Behaviours left out: an error that `esp_wifi_connect` returns at once
  (`wifi.c:93`), after which the station never tries again.
- Code that never runs: the web socket client, `log_init`, `CAN_Init` and with
  it mcp2515, `config_reset`, `uart_inject`, `wait_for_network`.
- Third-party code: ArduinoJson, mcp2515, the button drivers, the protocol
  examples, ESP-IDF, NimBLE, lwIP. Together with what never runs it is about
  three quarters of the lines under `src/`: the mapped share of the repository
  stays small, although what the firmware's own tasks do to the state they share
  is modelled.
