# TLA+ models of Stella

Stella (`src/Stella`) is the operator's desk of an autonomous bus: a Qt 6
program that receives telemetry over TCP, lets the operator plan a route and
give commands (emergency stop, pull over, close the door, end the plan, exit),
and repeats the last command to the vehicle by UDP. This directory holds
models of its control logic, the TLC configurations that check them, and
machine-checked proofs about every one of these models. The program has no
tests; the properties come from its code, its comments and the
messages it logs.

## 1. The system

### Components

| Component | State | Operations | Modelled in |
|---|---|---|---|
| Widget, command handlers (`widget.cpp` 45-112, 142-158, 417-527) | visible panel, disabled buttons, `send_msg`, two futures, `update_msg.vehicle_speed` | start, end, exit, emergency, pull over, door, three pool jobs | `WidgetControl`; the time they take in `DeskTiming` |
| Widget, route planning (`widget.cpp` 45-138, 187-194, 280-376) | `m1_maps`, `m2_maps`, two combo boxes, menu of stops, `bool_parks`, `park_numbers`, `is_started`, the grid | `updateUI`, `scenario_route`, `route_station`, ticking a stop, start, end | `RoutePlan` |
| Widget, telemetry display | labels, progress bar, log, video, clock | `updateUI`, formatting | the speed in `WidgetControl`, when it is shown in `DeskTiming`, maps and grid in `RoutePlan` |
| sender (`sender.cpp`) | socket, `send_msg` under `m_lock`, the running flag | constructor, `send_to_struct`, one turn of `run` every 100 ms | `WidgetControl`, `DeskTiming`, `Archive` |
| receive (`receive.cpp`) | `thread_flag`, the pthread, the QThread | constructor, `update_data`, `run` | `StellaClient`; the 100 ms loop in `DeskTiming` |
| StellaClient | the io_service, `m_receive_data` | `connect`, `handle_connect`, `read_data_callback`, `handle_read_data` | `StellaClient` |
| StellaSocketSession | socket, `m_data`, `m_data_size` | `start`, `close`, four completion handlers, `async_write` | `StellaClient`; what a frame holds in `Archive` |
| StellaSessionManager | `m_session`, `m_timer` | `check_connection` | `StellaClient` |
| StellaSerialization, message types | none | `serialize` of seven structures, four conversions | `Archive` |

`PROJECT.json` lists the same parts with their files and what is left out.

### Threads and how they interact

* The **GUI thread** runs every slot of `Widget`. Three handlers
  (`VEHICLE_BOOL(1)`, `VEHICLE_BOOL(2)`, `Route_planning_end_slots`) start a
  job with `QtConcurrent::run` and spin around `processEvents` until its future
  has finished. Inside such a loop any enabled, visible button may be clicked:
  handlers nest, and return innermost first. Other handlers sleep with the
  thread: 400 ms of progress bar for start and door, 600 ms and 100 ms more to
  end a plan, 500 ms to exit. No event is delivered meanwhile.
* **Pool threads** run the jobs. They write `Widget::send_msg` without a lock,
  emit `send_msg_signal`, and poll `update_msg.vehicle_speed`. `sender` lives
  in the GUI thread, so an emission from a pool thread is copied and queued
  for the GUI thread, whereas an emission from a handler is a direct call.
  (Qt 6 queues the argument without a registered metatype; the project file of
  the repository names Qt 6.7.)
* The **sender thread** starts with the first plan, and copies its buffer under
  its lock and sends it every 100 ms.
* The **receive thread** emits the last telemetry every 100 ms, new or not; each
  emission is a queued call of `updateUI` with a copy of the data.
* The **update_data thread** connects and runs `io_service.run()`; every
  completion handler of the client runs there.

### What is hard, and what makes each part correct

* *Commands*: nested handlers that disable overlapping sets of buttons; jobs
  that the pool starts late; queued and direct emissions in one channel;
  `send_msg` rewritten field by field while jobs copy it. Correct means: an
  emergency stop is the last word until the vehicle stands and gets to the
  vehicle, buttons come back, no handler waits for ever if the vehicle stops,
  and ending a plan requests a stop.
* *Time*: a request lives only as long as its handler sleeps, the sender samples
  at its own pace and datagrams get lost; telemetry queues up behind a sleeping
  GUI thread, and a click is decided on what is shown. Correct means: no request
  is withdrawn before the vehicle has it, and what the client has received is
  shown within a bounded time.
* *Connection*: a chain of reads in which each handler starts the next; errors
  answered by posting `close`, which fails further operations; writes without
  a queue. Correct means: one read at a time, one write at a time, broken
  connections closed, refused ones retried, the exchange does not stall.
* *Archives*: lists of members kept by hand, nested in vectors; lengths from the
  wire. Correct means: what is stored or obeyed is a message as it was built.
* *Planning*: slots that fire in the middle of other slots; maps that arrive at
  any moment; four containers indexed by one count. Correct means: menu, plan
  and display speak of one route, and no index is out of range.

`PROJECT.json` lists each hazard with its line and the properties about it.

## 2. The modules

    TelemetryLink   <-- implemented by -- StellaClient  <-- StellaClientProofs
         |  (a lost link stays lost: variable link)
    WidgetControl   <-- WidgetControlProofs
         |  (jobs, nested handlers: here a queue, there in full)
    RequestPromise  <-- implemented by -- DeskTiming    <-- DeskTimingProofs
    RoutePlan       <-- MCRoutePlan, RoutePlanProofs
    MessageLink     <-- implemented by -- Archive       <-- MCArchive, ArchiveProofs

Each module stands for one group of threads, or for one question asked of them.
They meet in these places. The plan in `send_msg` is the business of
`RoutePlan`; `WidgetControl` keeps the flags and the scenario of `send_msg`
only, since no handler of one group tests a field of the other. The telemetry
that `StellaClient` stores is the variable `newest` there; `WidgetControl` sees
it as `link`: while the link is up `updateUI` stores the vehicle's speed,
afterwards it stores the last speed again, because `receive::run` repeats its
data. That the link never comes back is not assumed but is what
`LinkImplemented` shows of the client. `WidgetControl` has every order of steps
and no time; `DeskTiming` has the time, and keeps of the nesting only that the
event loop runs while a handler waits. All of them send messages as a whole;
that they may is what `Archive` shows by implementing `MessageLink`: a frame
arrives as the message it was made of, or it is what `StellaClient` calls
"corrupt" (cut, of another structure, or with a number that is not finite) and
ends the session, and what the vehicle hears is the buffer of the sender.

### WidgetControl: the command path

| TLA+ | Code |
|---|---|
| `stack` | the handlers that spin around `processEvents`, innermost last |
| `gui` | what the GUI thread does: `loop` (some event loop runs) or a blocking part of a handler |
| `disabled`, `panel` | which buttons can be clicked |
| `future1`, `future2` | the member futures, as job numbers; the end handler's future is local and sits in its frame |
| `jobs` | every job, with its program counter; `queued` until the pool has a free thread |
| `posted` | queued calls of `send_to_struct` |
| `send_msg`, `sender_msg`, `wire` | the message of the widget, the sender's buffer, the last datagram |
| `vehicle`, `moving` | "speed is at least 0.1", at the vehicle and in `update_msg` |

Handlers are split where another thread can see the difference. Start clears
`send_msg` (`StartPlan`), fills it (`StartWrite`) and emits it (`StartEmit`,
after the progress bar). End writes the stop flag and the rest in two steps,
then emits. A job's emission copies `send_msg` in two steps, the start flag
first (`JobEmit`, `JobPost`): that is the coarsest model of an unlocked copy in
which mixing the flags of two requests is possible. `EmergencyDone`,
`ParkDone` and `EndLeave` are the exits of the loops; only the innermost
handler can leave, since the others are on the C++ stack below it. `ParkDone`
waits for `future2`, a member that a nested pull-over replaces.

### DeskTiming and RequestPromise: the desk in time

| TLA+ | Code |
|---|---|
| `gui`, `left` | the handler that holds the GUI thread, and what is left of its sleep; `loop` when an event loop runs |
| `ends` | end handlers that wait for their job around `processEvents` |
| `send_msg`, `posted` | the requests of `Widget::send_msg`; copies that jobs have emitted and nobody has delivered |
| `send_tag`, `sender`, `sender_msg`, `idle` | the socket was created; the sender thread, its buffer, the time since its last turn |
| `lost`, `heard` | datagrams lost in a row; the requests of `sender_msg` that have arrived |
| `receiver`, `since`, `queued` | the receive thread, the time since its last turn, queued calls of `updateUI` |
| `row` | handlers run since `updateUI` |
| `frame`, `age` | a frame that the client has stored and `update_msg` does not yet hold, nor a newer one; the time since it was stored |

A handler that sleeps is two actions, before and after: `StartClick`/`StartEmit`,
`DoorClick`/`DoorRelease`, `EndEmit`/`EndReturn`, `ExitClick`/`CloseWindow`;
the end handler first waits (`EndClick`, `EndLeave`). `JobEmits` and
`DeliverPosted` are what the jobs of `WidgetControl` do to the buffer, whatever
their number. `SenderTurn` sends a datagram that arrives or is lost, at most
`MaxLost` in a row; `Tick` passes time when no sleep is over and no turn
overdue. The sender's socket and the receiver's thread may fail at the start.
`ReceiveTurn` emits what the client stored last, new or not; `FrameStored` is
the client storing a frame of the server, which may come at any time or never.
One frame at a time is followed from there to `update_msg`, so that `age` is not
the age of the last emission, which may be of old data.

`RequestPromise` says what this is for: once the sender lives, no request that
is in force while a handler holds the desk is withdrawn before the vehicle has
received it. Between handlers a queued copy may replace what is in force; that
is the promise the code does not make, and finding 1 is about it.

### StellaClient and TelemetryLink: the connection

`ready` is the queue of completed handlers of the io_service, `pending` and
`writes` the operations the socket still works on. `Handle...` actions are the
completion handlers, whole: for example `HandleReadSize` starts the next read
of a length, then deserialises the frame, stores it and answers it.
Completions, the server and the network are external actions: the server may
listen or not, leave at any moment, send unasked or only answer (`push`, drawn
at the start), and send frames of six kinds, among them a frame that does not
deserialise, an empty one and one of negative length. `TestFlag` lets the thread
end, or go on, when it reads the flag before it is set: the function has no
return statement, so either outcome is possible.

`TelemetryLink` says what the rest of the program sees: dialled once, newer and
newer frames while up, lost for ever once lost. The refinement mapping `Phase`
counts a connection as up while a body that was read before the close still
waits for its handler, for that frame is still stored.

### RoutePlan: maps, menu, plan and grid

Every handler runs on the GUI thread without an event loop inside (apart from
the end handler's wait, during which only telemetry matters here), so each is
one step. `plan` is what the start button sent, `send_msg` what any later
emission would send: `route_station` and the arrival of the maps empty the flags
in it (`NoFlags`). The chain of signals inside a step is part of it: `SelectScenario`
includes the two calls of `route_station` that clearing and filling the route
box cause. Texts are numbers in the order of `QString`, and the labels of the
grid hold names; `M1` and `M2` are what the loop over a message leaves in the
two `std::map`s. The `server` is drawn from `Servers` and stays: which messages
and which lengths of `stop_passed_status` it sends, and whether the operator
may start before the maps are there. An access out of range sets `fault` and
ends the behaviour.

### Archive and MessageLink: what frames and datagrams carry

An archive is a sequence of tokens, one for each number, flag or text, and a
vector is its length and its items. How boost writes and reads the values of a
type is a record of two functions, `save` for operator `<<` and `load` for `>>`.
There is one for a single value (`Scalar`) and two that are built from others,
for a vector (`Vector`) and for a structure (`Struct`), both by way of a row of
values one after the other (`Row`, `ReadRow`). `StopStationMembers` and its
like are the lists of the `serialize` functions, in their order;
`struct_to_str`, `str_to_struct` and `struct_to_char` are the conversions.
A reader fails at the first token that is missing or that no stream can read
(`NaN`, which stands for every double that is not finite), and keeps what it
has read so far, as the code does. `Damage` cuts a frame anywhere, also inside
a number, or puts the client's own answer in its place; `Receive` is the part
of `handle_read_size` and `handle_read_data` that reads and stores it. A frame
that cannot be read only posts the close, after the read of the next frame has
been started: while the session is "closing" one more frame may be read and
stored (`After`), or `HandleClose` comes first.
`send_msg` is nothing until the first emission, since `sender::run` is started
with it.

`MessageLink` has no text at all. Its line to the desk is free, whole or broken;
a message on a whole line is delivered as it is, one on a broken line ends the
session, which may deliver one more; an order that the vehicle hears is the one that was in force when the
datagram was sent. The refinement mapping calls a line whole while its frame is
undamaged and every number in it can be read, and takes for the order in the
air what the vehicle's reader makes of the datagram.

## 3. The runs

| Run | Configuration | Shows | Distinct states |
|---|---|---|---|
| `command_safety` | `WidgetControl.cfg`, 2 pool threads, 3 jobs | the emergency stop is innermost and last, buttons come back, the door pulse is given on a standing vehicle, an emergency in force stays, handlers and jobs do not wait for each other in a circle, driving is left with a stop request in force, only an unlocked copy mixes start and stop | 816,724 |
| `command_live` | `WidgetControlLive.cfg`, 1 thread, 3 jobs | handlers return, nested ones too, and with no circular wait; an emergency stop that gets the thread arrives; ending requests a stop | 117,214 |
| `command_reach` | `WidgetControlReach.cfg`, 2 threads, 2 jobs | an emergency stop over a pull-over or an end whose job still polls arrives | 41,464 |
| `desk_timing` | `DeskTiming.cfg`, ticks of 50 ms | no handler goes on before the vehicle has what was in force, implements `RequestPromise`; a stored frame is shown in time, and the backlog is bounded | 15,491,392 |
| `client` | `StellaClient.cfg`, all kinds of frames, pushing or answering server, 3 frames | one link in the chain of reads, one write at a time, the exchange stops only at a frame that is not answered; implements `TelemetryLink`; refused is retried, broken is closed, closing settles, the exchange does not stall | 321,744 |
| `route_plan` | `RoutePlan.cfg`, irregular messages with a start at any time, and regular ones before the start | menu and plan agree on the route, and a plan that is driven stays as it was sent; with a regular server no index is out of range | 1,938 |
| `archive` | `Archive.cfg` | messages come out as they were built, member by member; damaged ones end the session and are not stored in part; implements `MessageLink` | 142,291 |
| `command_stop`, `command_emergency` | `WidgetControlStop.cfg`, `WidgetControlEmergency.cfg` | violated: findings 1 and 2 | |
| `client_reconnect` | `StellaClientReconnect.cfg` | violated: finding 3 | |
| `route_stops`, `route_grid` | `RoutePlanStops.cfg`, `RoutePlanGrid.cfg` | violated: findings 4 and 5 | |

Every configuration switches off deadlock checking: the program can stop (it
quits, or an idle io_service waits for ever), and bounded inputs run out.

**Bounds.**

* `WidgetControl`: three jobs let a handler nest in a handler that is itself
  nested (end, emergency inside it, another after it) and let a job of one plan
  meet the next plan; two pool threads let two jobs run at once while a third is
  queued (`command_safety`). For liveness there are two instances. With one
  thread and three jobs (`command_live`) one polling job fills the pool, so
  that the other handlers' jobs wait behind it. With two threads and two jobs
  (`command_reach`) the job of an emergency stop runs beside one that polls. No
  plan counter is needed: plans repeat freely and the state space stays finite,
  because `posted` grows only by jobs.
* `DeskTiming`: a tick is 50 ms, so the sleeps are the real ones (`BarTime` 8,
  `EndTime` 4, `PauseTime` 2, `ExitTime` 10, `TurnTime` 2). A turn may take one
  tick longer (`Jitter` 1), which is much for a sleep of 100 ms; with turns that
  slow the desk bears one lost datagram in a row (`MaxLost` 1). `MaxPosted` 1 is
  one queued copy, which can be refilled at any time; `MaxEnds` 2 nests two end
  handlers. `MaxRow` 2 is an assumption about the event dispatcher, not a bound
  on the operator: at most two clicks that were queued up are handled before
  the events that other threads queued. The bounds on the backlog and on `age` grow with it. One
  frame is followed at a time; any frame may be that one.
* `StellaClient`: three frames let a body be read while another is queued and a
  third is being sent; the fourth would be in the place of the third.
* `RoutePlan`: the messages of `MCRoutePlan` hold what the code distinguishes:
  message order against name order, a route in two maps, a route without
  stations, a map without routes, a map named twice; flags passed of no, one and
  two stations.
* `Archive`: in the messages of `MCArchive` every member differs from its
  neighbours and from its default, vectors are empty or hold two items, and one
  message has a number that is not finite; one cut suffices, since a reader
  never gets past the first.

**Fairness.** In `WidgetControl`, `Handlers` (blocking parts) and the sender
thread are weakly fair: they are plain code. Returning from a loop, delivering
a queued event, `updateUI` and the job steps are strongly fair. The GUI thread
needs strong fairness because a click on the door button disables them all for
400 ms at a time, and the operator may click again and again, but the event
loop serves its queue between clicks. A job polls every 100 ms, so it sees a
stop that lasts as long as such a blocking part. The vehicle obeys a stop
scenario it has received. Nothing is assumed of the operator, and nothing of the
link: `HandlersReturn` and `EndRequestsStop` state their condition (the link
stays up and the vehicle finally stands), for without it the loops have no way
out. `EmergencyArrives` states that no other job can write and that the pool has
a thread free for the emergency job; behind a full pool it has to wait (section
5). In `StellaClient` the update_data thread, the operating system's
completions and the server's answers are weakly fair; the server leaving or
listening is not. `TalkGoesOn` states its condition too: the server does not
push, and sends neither a heartbeat nor an empty frame, which the client does
not answer. `DeskTiming`, `RoutePlan` and `Archive` have safety properties only
and no fairness: in `DeskTiming` the bounds on time do its work, as `Tick`
cannot pass a turn that is overdue.

## 4. The proofs

Five modules hold proofs, each for all values of the constants that satisfy the
assumptions named, and none takes anything else on trust.

**`WidgetControlProofs`**, for every `PoolSize` in 1, 2, ... and every `MaxJobs`
in 0, 1, 2, ... (`PoolAssumption`, `BoundAssumption`):

| Theorem | States |
|---|---|
| `TypeCorrect` | `[]TypeOK` |
| `EmergencyIsLastCorrect`, `ButtonsComeBackCorrect` | `[]EmergencyIsLast`, `[]ButtonsComeBack` |
| `OnlyJobsMixCorrect` | `OnlyJobsMix` |
| `EmergencyStaysCorrect` | `EmergencyStays` |
| `DoorPulseCorrect` | `[]DoorPulseStands` |
| `WaitsCanEndCorrect` | `[]WaitsCanEnd` |
| `LeavingStopsCorrect` | `LeavingStops` |

*Handlers.* `ButtonsComeBack` is not inductive: whether a nested handler may be
clicked while an emergency stop waits depends on the whole set of disabled
buttons and on the panel. `HandlersInv` adds that, while an emergency stop
waits, the drive panel is shown with all four buttons disabled. Then no click
is possible, the stop stays innermost, and its return gives back all four
buttons, including those of interrupted handlers below it. Lemma
`ClickProperties` treats a click that pushes a handler, `LeaveProperties` a
return that pops one, `HandlersUnchanged` and `HandlersWithout` the steps that
touch neither; `HandlersStep` then has one step per action.
*Mixed commands.* `GuiMixes` says that `send_msg` asks for both start and stop
only between the two writes of the end handler. Since the GUI thread emits in
another state, a mixed copy comes from `JobPost`.
*Emergency in force.* `HandlersInv` excludes every click (`EmergencyBlocks`),
and with no queued event and every job polling or done nobody else writes the
sender's buffer.
*Door.* `DoorInv` carries what `DoorClick` checked through the pulse: the GUI
thread is blocked, so `updateUI` cannot run, and jobs do not write the door
flag.
*Waiting.* `WaitsCanEnd` is the part of `HandlersReturn` that a state shows:
while the vehicle is seen standing, the innermost handler may leave or some job
may go on. `JobsInv` says that every waiting handler has a job that was started,
and that `future2` is one while a pull-over waits; `future1` is one since an
emergency stop is innermost. If that job is not done, then a job that holds a
thread may go on, for a polling one sees the vehicle stand; and if none holds
one, the pool has a thread for the first job of the queue (`SomeJobGoesOn`, by
the well-foundedness of `<`), however small the pool is.
*Stop.* `StopInv` follows the end handler from the stop flag it writes to the
emission: jobs write the scenario only, so that what the GUI thread emits asks
to stop and not to start.

**`DeskTimingProofs`**, for all lengths of sleeps and turns and all bounds
(`DurationAssumption`), as long as every handler's sleep is longer than
`MaxLost + 1` turns and the exit is not the longest of all (`PaceAssumption`).
The sleeps of the code are 400 ms and more: with turns of 130 ms they outlast
two losses in a row.

| Theorem | States |
|---|---|
| `TypeCorrect` | `[]TypeOK`, with no turn overdue |
| `HeldIsHeardCorrect` | `[]HeldIsHeard` |
| `PromiseKeptCorrect` | `PromiseKept`, the refinement of `RequestPromise` |
| `ShownInTimeCorrect`, `BacklogCorrect` | `[]ShownInTime`, `[]Backlog` |

*Requests.* `Wait` is the longest that a datagram may still be on the way: the
rest of this turn and a whole turn for each loss that is left. `WireInv` says
that it is shorter than the rest of the handler's sleep until the request has
been heard. A tick shortens both by one, a loss shortens `Wait` by at least the
turn it begins, and every handler begins with a sleep longer than any wait
(`HoldIsLong`). The refinement then needs `WireInv` only where a handler ends:
what is withdrawn there has been heard (`PromiseFinish`).
*Telemetry.* `FeedInv` bounds two sums by one turn and one longest handler for
each in `row`: the time that the queued calls stand for with the time since the
last turn, and the age of the frame, each with what the running handler still
has to sleep (`StillToSleep`). A stored frame waits for at most a turn, and an
emitted one has a call in the queue, so that no time passes in an event loop
before it is shown.

**`StellaClientProofs`**, for every set of kinds of frames and every number of
them (`KindsAssumption`, `BoundAssumption`):

| Theorem | States |
|---|---|
| `TypeCorrect` | `[]TypeOK` |
| `ReadChainCorrect` | `[]ReadChain` |
| `OneWriterCorrect` | `[]OneWriter` |
| `StallsOnlyUnansweredCorrect` | `StallsOnlyUnanswered` |
| `LinkImplementedCorrect` | `LinkImplemented`, the refinement of `TelemetryLink` |

*Chain of reads.* `ReadChain` counts; `ClientInv` says instead that one token
goes round: at most one operation of the chain is in `pending`, or else at most
one of its handlers is in `ready` (`Token`). It adds that nothing happens before
`connect` and only the attempt to connect before `start` (`Before`), that a
started connection has the token or a `close` on its way (`Reading`), and that
a frame whose length was announced is there (`Arrived`).
*One writer.* With a server that only answers there is one more token, of
requests and answers: the writes outstanding, the requests not answered, the
frames on their way and the frame held together are at most one (`Traffic` in
`TalkInv`), and a completed write is called before the answer's body, because
it was queued first.
*Exchange.* A state in which client and server wait for each other can only be
entered by the step that takes the last request or answer away. Every such step
puts the next in its place (`StepStalls` goes through them; `Expected` says that
a body that is being read is there and has a length), unless it is the handler
of a body that was given a heartbeat or an empty frame.
*Refinement.* `Numbered` says that frame numbers grow from what is stored over
what is held to what is on its way, so that storing is a step to a newer frame;
`PhaseFacts` evaluates the mapping where the steps need it.

**`RoutePlanProofs`**, for every set of servers whose messages are lists of maps
that are not empty and whose names are not empty (`ServersAssumption`):

| Theorem | States |
|---|---|
| `TypeCorrect` | `[]TypeOK` |
| `MenuMatchesRouteCorrect` | `[]MenuMatchesRoute` |
| `PlanMatchesRouteCorrect` | `[]PlanMatchesRoute` |
| `DrivenPlanStaysCorrect` | `[]DrivenPlanStays` |
| `NoFaultCorrect` | `[]NoFault` |

*The loop over a message.* `LoopReads` says what `M1` and `M2` hold: a name for
every map, and stations for every route of every map. It rests on `Max` of a
finite set of positions and on the last place of a name.
*One route.* The three properties need each other, and two facts: before the
maps have come everything is empty (`Fresh`), and every route that a box can
show has stations (`Known`). `PlanInv` is their conjunction.
*Indices.* `InBounds` carries `Regular` from the messages to the containers:
every route has at least `park_numbers` stations, and so have the flags of a
plan and, once the grid is there, its labels.

**`ArchiveProofs`**, for every set of messages and orders, with maps, routes,
stations, images and flags of any number (`MessagesAssumption`: they have the
types of `StellaType.h`, and the time stamp of an order is a number, since the
desk takes it from telemetry that it has read):

| Theorem | States |
|---|---|
| `StructuresReadBack` | every structure that travels is read back, and no cut or unreadable one is |
| `StoredIsWholeCorrect`, `OrderIsWholeCorrect` | `[]StoredIsWhole`, `[]OrderIsWhole` |
| `WholeFramesArriveCorrect` | `WholeFramesArrive` |
| `BrokenFramesEndSessionCorrect` | `BrokenFramesEndSession` |
| `MessagesCarriedCorrect` | `MessagesCarried`, the refinement of `MessageLink` |

*Structures.* `IsCodec` says of a type that its values are read back whatever
follows them, that a text with a number that is not finite is not read through,
and that neither is one that is cut. All three are needed together, since a
structure that is cut consists of members that are whole and one that is cut.
It holds of a
scalar and is passed on to a row of values: what a row of `k` values writes and
reads is found by induction on `k`, from the least number for which it fails.
A vector is a row after its length, a structure a row under names, so the
theorem follows the nesting of the types, one lemma for each list of members.
The induction works on the recursive functions inside `Reads` and the library's
`FlattenSeq`, and starts by showing that these are defined (`ReadsExists`,
`JoinExists`).
*Frames.* `ArchiveInv` is the inductive invariant: the frame on its way is what
the server wrote, or a cut of it, or the client's own answer (`FrameIsTold`);
the datagram was written of an order (`DatagramIsSent`); the session is in one of its three states
(`SessionIsKnown`); and what is stored and obeyed is whole. `FrameRead` evaluates the reader on such a frame. The client's
answer needs an argument of its own: it is the beginning of a message with the
command normal, so it is a cut.
*Refinement.* One lemma for each action. Damage to a message that no text can
carry is a stutter, as its line was broken when it was sent.

**Only model-checked.** The liveness properties `EmergencyArrives`,
`HandlersReturn`, `EndRequestsStop`, `Retries`, `BrokenIsClosed`, `CloseSettles`
and `TalkGoesOn`, for the provers know neither fairness nor ENABLED. The safety
at their core is proved: `WaitsCanEnd` for the returning of handlers,
`LeavingStops` for the end of a plan, `StallsOnlyUnanswered` for the exchange.
The violations of section 5 need no proof.

## 5. Where the code and its words disagree

1. `widget.cpp:87`: the stop request is a direct call, but the emission of a
   job that ended may still be queued. Delivered later, it puts a message
   without the stop flag back into the sender's buffer, after the log has said
   that autonomous driving was left (`command_stop`).
2. `widget.cpp:516`: a pull-over job that starts late, or a pull-over's queued
   emission, replaces an emergency stop that the log has announced
   (`command_emergency`). The emergency stop holds only when it is alone
   (`EmergencyArrives`, `EmergencyStays`).
3. `StellaSocketSession.cpp:32`: inside the class `close_callback` is a type,
   so the statement that should call the callback declares a local function.
   Nothing ever reconnects (`client_reconnect`).
4. `widget.cpp:54`: `stop_size` is the count of the first route, whatever
   route is planned (`route_stops`).
5. `widget.cpp:371`: the grid of stations is built once; a second plan is driven
   under the names of the first (`route_grid`).

Seen while modelling, without a run of their own.

* Commands: `VEHICLE_BOOL(3)` sends scenario 3, which `StellaType.h:26` does not
  list. When an emergency stop inside a waiting end handler gives the end button
  back, a second end handler may nest in the first; the outer one then ends
  whatever plan has been started since, or logs a duration of 00:00:00. A job's
  copy that is made during a door pulse and delivered after it brings the door
  request back. The 100 ms after the stop request may be shorter than a turn of
  the sender; a new start replaces the request only after its own progress bar,
  so what can withdraw it is a queued copy (finding 1). A
  negative speed counts as standing. The speed is tested when the door button is
  clicked; that the vehicle moves off during the pulse is not seen.
* Emergency stop: its request is written by a job, and jobs wait for the vehicle
  on the threads of the pool. When a pull-over and an end, or several nested
  pull-overs, fill the pool, the emergency job starts only after one of them has
  seen the vehicle stand; if the link is lost before, it never starts. This needs
  as many waiting handlers as the pool has threads.
* Telemetry: the receive thread repeats the last data, so on a silent or lost
  link the speed that a click is decided on may be of any age, and the display
  does not tell. `ShownInTime` bounds only the way from the client to the
  display.
* Start and failure: an exit request before any plan is never sent, for the
  sender starts with the first plan (`widget.cpp:63`). When the sender's socket
  cannot be created every command is dropped, and when `pthread_create` fails no
  telemetry is shown; neither is told to the operator. The thread of
  `update_data` may test `thread_flag` before `receive.cpp:20` sets it, and end.
* Connection: `check_connection` returns before it arms its timer, so no
  heartbeat is sent. One double that is not finite, in any field, closes the
  session, and by finding 3 for good. The comments in `StellaSerialization.h:104`
  and `:130` speak of binary archives; the code uses text archives.
* Planning: a start before the maps have arrived sends a plan without a route,
  and when the maps then arrive the grid indexes flags that are not there; so it
  does for a route shorter than the first, or for passed flags that are fewer
  than the stations but some. `NoFault` names these conditions (`Regular`).
  Choosing a route after a plan has ended empties the flags in `send_msg`
  (`widget.cpp:137`) but keeps its names and `stop_size`: the exit button then
  sends the old route with no flags. So does an outer end handler that returns
  then.
  The scenario box shows the first map of the message, the route box the routes
  of the first map by name (`widget.cpp:305`). The video timer is never stopped.

## 6. What is abstracted or left out

* The speed is a Boolean, the outcome of the test against 0.1. The test itself
  goes through a text of six digits, so 0.0999999 passes as 0.1; NaN passes
  neither test.
* An unlocked copy of `send_msg` tears between the start flag and the rest
  only; tearing inside strings and vectors, which may crash, is not modelled.
* `WidgetControl` has no time, so that every sampling and every order of the
  sender is a behaviour; `DeskTiming` counts in ticks. Datagrams are lost there,
  not reordered or duplicated: each repeats the buffer, and they are 100 ms
  apart.
* Telemetry is not delayed in `WidgetControl`: `updateUI` stores the speed of
  the moment. An older speed is covered by `updateUI` not being taken, and how
  long a newer one may go unseen is a question to `DeskTiming`.
* The names of maps, routes and stations are not empty.
* A text archive's header and class versions are left out of `Archive`, and a
  number is one token.

**Not modelled.** Video and the LCD clock, layout, styles and the wording of the
log, and the formatting of the labels: no other part reads what they write.
Memory leaks (for example the buffer of a failed write) and `cin_logTetx`, which
pool threads call on a widget of the GUI thread: what goes wrong there is inside
the allocator or Qt and shows in no variable of the program. The SERVER branch
of `StellaSessionManager`, which the program never takes.

## 7. Plan

Done: `WidgetControl`, `TelemetryLink`, `StellaClient`, `RoutePlan`,
`RequestPromise`, `DeskTiming`, `MessageLink` and `Archive`, with proofs of
every safety property that a passing run checks and of the three refinements.
Left, in this order:

1. The duration of a plan that the log gives: the seconds that `play_LCD`
   counts in `time`, which stand still while a handler sleeps, over nested end
   handlers and a second plan.
2. The two timers of the display, and the video that one of them drives.
3. The test of the speed as a function on numbers and their six digits, checked
   against the comparison it stands for.
4. `WidgetControl` over the wire of `DeskTiming`: which of its liveness
   properties survive lost datagrams.
