---------------------------- MODULE WidgetControl ----------------------------
(***************************************************************************)
(* The path of an operator command: buttons of the Widget, the handlers    *)
(* that run on the GUI thread, the QtConcurrent jobs those handlers start, *)
(* the shared Widget::send_msg, the queued signal send_msg_signal, and the *)
(* sender thread that repeats sender::send_msg to the vehicle by UDP.      *)
(*                                                                         *)
(* Three handlers wait for a job in a loop around processEvents, so the    *)
(* GUI thread keeps a stack of interrupted handlers and any visible,       *)
(* enabled button may be clicked inside any of them.  A job emits          *)
(* send_msg_signal from a pool thread: Qt copies the message and queues    *)
(* the slot call for the GUI thread (AutoConnection, the sender object     *)
(* lives there).  The same signal emitted on the GUI thread is a direct    *)
(* call.  Nothing locks send_msg: a handler writes it and emits it in      *)
(* separate steps, and a job copies it in two, the start flag before the   *)
(* rest.  A click that only appends a line to the log is a stuttering step.*)
(***************************************************************************)
EXTENDS Naturals, Sequences, FiniteSets

CONSTANTS
  PoolSize,   \* threads of the global QThreadPool
  MaxJobs     \* bound: QtConcurrent::run calls in one behaviour

ASSUME PoolAssumption  == PoolSize \in Nat \ {0}
ASSUME BoundAssumption == MaxJobs \in Nat

VARIABLES
  panel,       \* which group of buttons is visible: "plan", "drive" or "closed"
  disabled,    \* the buttons of the drive panel that are disabled
  gui,         \* what the GUI thread does: "loop" (in an event loop) or a blocking part of a handler
  stack,       \* interrupted handlers that wait for a future, the innermost last
  future1,     \* Widget::vehicle_scenario_type_1_future (a job number, 0 = none)
  future2,     \* Widget::vehicle_scenario_type_2_future
  jobs,        \* every QtConcurrent::run so far, in order, with its program counter
  posted,      \* queued calls of sender::send_to_struct, oldest first
  send_msg,    \* Widget::send_msg
  sender_msg,  \* sender::send_msg
  sender_run,  \* the sender thread has been started
  wire,        \* the last datagram the sender thread sent
  link,        \* external: telemetry flows; module StellaClient shows a lost link stays lost
  vehicle,     \* external: the vehicle moves (speed >= 0.1 as the program reads it)
  moving       \* the same test on Widget::update_msg.vehicle_speed

vars == <<panel, disabled, gui, stack, future1, future2, jobs, posted,
          send_msg, sender_msg, sender_run, wire, link, vehicle, moving>>
guiVars     == <<panel, disabled, gui, stack, future1, future2>>
senderVars  == <<sender_run, wire>>
vehicleVars == <<link, vehicle, moving>>
-----------------------------------------------------------------------------
(* StellaSocketSendMsg without the plan, which module RoutePlan models;    *)
(* vehicle_scenario_type is called scenario.                               *)
Buttons   == {"emergency", "park", "door", "exit"}
Scenarios == 0..3
Msg == [start : BOOLEAN, stop : BOOLEAN, exit : BOOLEAN, door : BOOLEAN,
        scenario : Scenarios]
NoMsg == [start |-> FALSE, stop |-> FALSE, exit |-> FALSE, door |-> FALSE,
          scenario |-> 0]

(* Handlers that wait for a job, and the job each of them runs.            *)
Waiting == {"emergency", "park", "end"}
JobPC   == {"queued", "check", "set", "emit", "post", "postStart", "poll", "done"}
Job     == [fn : Waiting, pc : JobPC]
Frame   == [fn : Waiting, job : Nat]
GuiPC   == {"loop", "planning", "starting", "closing", "door", "releasing",
            "ending", "writing", "stopping", "exiting", "quit"}

Top == stack[Len(stack)]
Pop == SubSeq(stack, 1, Len(stack) - 1)

(* What each handler disables before it waits and enables afterwards.  The *)
(* definitions named Mut... are mutants: the next one with a plausible bug.*)
MutEmergencyButtons == {"emergency", "door", "exit"}
EmergencyButtons == {"emergency", "park", "door", "exit"}
MutParkButtons == {"emergency", "park", "door", "exit"}
ParkButtons == {"park", "door", "exit"}
EndButtons  == {"park", "door", "exit"}

(* The speed tests: < 0.1 lets a job finish, >= 0.1 lets a button act.     *)
MutStanding == moving
Standing == ~moving
MutDoorAllowed == TRUE
DoorAllowed == ~moving

(* What the handlers and jobs write into send_msg.                         *)
PlanRequest(m) ==
  [m EXCEPT !.start = TRUE, !.stop = FALSE, !.exit = FALSE, !.door = FALSE]
MutStopRequestKeepsStart(m) == [m EXCEPT !.scenario = 0]
StopRequest(m) == [m EXCEPT !.start = FALSE, !.scenario = 0]
DoorRequest(m, held) ==
  [m EXCEPT !.door = held, !.scenario = IF held THEN 3 ELSE 0]
MutScenarioSwapped(fn) == IF fn = "emergency" THEN 2 ELSE 1
MutScenarioUnknown(fn) == IF fn = "emergency" THEN 1 ELSE 4
ScenarioOf(fn) == IF fn = "emergency" THEN 1 ELSE 2

Init ==
  /\ panel = "plan" /\ disabled = {} /\ gui = "loop" /\ stack = <<>>
  /\ future1 = 0 /\ future2 = 0 /\ jobs = <<>> /\ posted = <<>>
  /\ send_msg = NoMsg /\ sender_msg = NoMsg
  /\ sender_run = FALSE /\ wire = NoMsg
  /\ link = TRUE /\ vehicle = FALSE /\ moving = FALSE
-----------------------------------------------------------------------------
(* The button can be clicked: an event loop runs, the panel shows it, and  *)
(* it is not disabled.                                                     *)
Clickable(b) == gui = "loop" /\ panel = "drive" /\ b \notin disabled

(* A handler disables its buttons, starts its job and enters its loop.     *)
RunAndWait(fn, buttons) ==
  /\ Len(jobs) < MaxJobs
  /\ disabled' = disabled \cup buttons
  /\ jobs' = Append(jobs, [fn |-> fn, pc |-> "queued"])
  /\ stack' = Append(stack, [fn |-> fn, job |-> Len(jobs) + 1])

(* The innermost waiting handler sees its future finished and leaves its   *)
(* loop, whether or not queued events remain.                              *)
Leaves(fn, job) ==
  /\ gui = "loop"
  /\ stack # <<>>
  /\ Top.fn = fn
  /\ job \in DOMAIN jobs
  /\ jobs[job].pc = "done"
  /\ stack' = Pop

(* send_msg_signal emitted on the GUI thread: a direct call of the slot.   *)
EmitDirect(m) == sender_msg' = m

(* Route_planning_start_slots: clear send_msg, fill it in, hold the        *)
(* progress bar, emit it and show the drive panel.                         *)
StartPlan ==
  /\ gui = "loop" /\ panel = "plan"
  /\ send_msg' = NoMsg
  /\ gui' = "planning"
  /\ UNCHANGED <<panel, disabled, stack, future1, future2, jobs, posted,
                 sender_msg, senderVars, vehicleVars>>

StartWrite ==
  /\ gui = "planning"
  /\ send_msg' = PlanRequest(send_msg)
  /\ gui' = "starting"
  /\ UNCHANGED <<panel, disabled, stack, future1, future2, jobs, posted,
                 sender_msg, senderVars, vehicleVars>>

StartEmit ==
  /\ gui = "starting"
  /\ EmitDirect(send_msg)
  /\ sender_run' = TRUE
  /\ panel' = "drive"
  /\ gui' = "loop"
  /\ UNCHANGED <<disabled, stack, future1, future2, jobs, posted, send_msg,
                 wire, vehicleVars>>

(* VEHICLE_BOOL(1): emergency stop.                                        *)
EmergencyClick ==
  /\ Clickable("emergency")
  /\ moving
  /\ RunAndWait("emergency", EmergencyButtons)
  /\ future1' = Len(jobs) + 1
  /\ UNCHANGED <<panel, gui, future2, posted, send_msg, sender_msg,
                 senderVars, vehicleVars>>

EmergencyDone ==
  /\ Leaves("emergency", future1)
  /\ disabled' = disabled \ EmergencyButtons
  /\ UNCHANGED <<panel, gui, future1, future2, jobs, posted, send_msg,
                 sender_msg, senderVars, vehicleVars>>

(* VEHICLE_BOOL(2): pull over.  The emergency button stays enabled.        *)
ParkClick ==
  /\ Clickable("park")
  /\ moving
  /\ RunAndWait("park", ParkButtons)
  /\ future2' = Len(jobs) + 1
  /\ UNCHANGED <<panel, gui, future1, posted, send_msg, sender_msg,
                 senderVars, vehicleVars>>

(* The loop reads the member future, which a nested pull-over replaces.    *)
ParkDone ==
  /\ Leaves("park", future2)
  /\ disabled' = disabled \ ParkButtons
  /\ UNCHANGED <<panel, gui, future1, future2, jobs, posted, send_msg,
                 sender_msg, senderVars, vehicleVars>>

(* VEHICLE_BOOL(3): a close-the-door pulse, held for the progress bar.     *)
DoorClick ==
  /\ Clickable("door")
  /\ DoorAllowed
  /\ send_msg' = DoorRequest(send_msg, TRUE)
  /\ gui' = "closing"
  /\ UNCHANGED <<panel, disabled, stack, future1, future2, jobs, posted,
                 sender_msg, senderVars, vehicleVars>>

DoorEmit ==
  /\ gui = "closing"
  /\ EmitDirect(send_msg)
  /\ gui' = "door"
  /\ UNCHANGED <<panel, disabled, stack, future1, future2, jobs, posted,
                 send_msg, senderVars, vehicleVars>>

DoorRelease ==
  /\ gui = "door"
  /\ send_msg' = DoorRequest(send_msg, FALSE)
  /\ gui' = "releasing"
  /\ UNCHANGED <<panel, disabled, stack, future1, future2, jobs, posted,
                 sender_msg, senderVars, vehicleVars>>

DoorReleased ==
  /\ gui = "releasing"
  /\ EmitDirect(send_msg)
  /\ gui' = "loop"
  /\ UNCHANGED <<panel, disabled, stack, future1, future2, jobs, posted,
                 send_msg, senderVars, vehicleVars>>

(* Route_planning_end_slots: wait for the vehicle to stop, hold the        *)
(* progress bar, write the stop request, emit it and go back to planning.  *)
EndClick ==
  /\ Clickable("exit")
  /\ RunAndWait("end", EndButtons)
  /\ UNCHANGED <<panel, gui, future1, future2, posted, send_msg, sender_msg,
                 senderVars, vehicleVars>>

EndLeave ==
  /\ Leaves("end", Top.job)
  /\ gui' = "ending"
  /\ UNCHANGED <<panel, disabled, future1, future2, jobs, posted, send_msg,
                 sender_msg, senderVars, vehicleVars>>

MutEndStopForgotten == UNCHANGED send_msg
EndStop == send_msg' = [send_msg EXCEPT !.stop = TRUE]
EndWriteStop ==
  /\ gui = "ending"
  /\ EndStop
  /\ gui' = "writing"
  /\ UNCHANGED <<panel, disabled, stack, future1, future2, jobs, posted,
                 sender_msg, senderVars, vehicleVars>>

EndWriteRest ==
  /\ gui = "writing"
  /\ send_msg' = StopRequest(send_msg)
  /\ gui' = "stopping"
  /\ UNCHANGED <<panel, disabled, stack, future1, future2, jobs, posted,
                 sender_msg, senderVars, vehicleVars>>

EndEmit ==
  /\ gui = "stopping"
  /\ EmitDirect(send_msg)
  /\ panel' = IF panel = "drive" THEN "plan" ELSE panel
  /\ disabled' = disabled \ EndButtons
  /\ gui' = "loop"
  /\ UNCHANGED <<stack, future1, future2, jobs, posted, send_msg, senderVars,
                 vehicleVars>>

(* exit_app_slots: the exit request, half a second, then the window closes *)
(* and the application quits once no handler is interrupted.               *)
ExitApp ==
  /\ gui = "loop" /\ panel = "plan"
  /\ send_msg' = [send_msg EXCEPT !.exit = TRUE]
  /\ EmitDirect(send_msg')
  /\ gui' = "exiting"
  /\ UNCHANGED <<panel, disabled, stack, future1, future2, jobs, posted,
                 senderVars, vehicleVars>>

CloseWindow ==
  /\ gui = "exiting"
  /\ panel' = "closed"
  /\ gui' = "loop"
  /\ UNCHANGED <<disabled, stack, future1, future2, jobs, posted, send_msg,
                 sender_msg, senderVars, vehicleVars>>

Quit ==
  /\ gui = "loop" /\ panel = "closed" /\ stack = <<>>
  /\ gui' = "quit"
  /\ UNCHANGED <<panel, disabled, stack, future1, future2, jobs, posted,
                 send_msg, sender_msg, senderVars, vehicleVars>>

(* An event loop, the main one or a nested one, delivers a queued call of  *)
(* sender::send_to_struct, or telemetry that updateUI stores.  Without a   *)
(* link the receive thread repeats its last data, so the speed is frozen.  *)
DeliverPosted ==
  /\ gui = "loop" /\ posted # <<>>
  /\ sender_msg' = Head(posted)
  /\ posted' = Tail(posted)
  /\ UNCHANGED <<guiVars, jobs, send_msg, senderVars, vehicleVars>>

UpdateUI ==
  /\ gui = "loop"
  /\ moving' = IF link THEN vehicle ELSE moving
  /\ UNCHANGED <<guiVars, jobs, posted, send_msg, sender_msg, senderVars, link, vehicle>>
-----------------------------------------------------------------------------
(* The jobs: recv_vehicle_stop ("end"), vehicle_scenario_type_1_run        *)
(* ("emergency") and vehicle_scenario_type_2_run ("park").                 *)
Goto(j, pc) == jobs' = [jobs EXCEPT ![j].pc = pc]
Busy == {j \in DOMAIN jobs : jobs[j].pc \notin {"queued", "done"}}

(* The pool runs queued jobs in order when it has a free thread.           *)
JobBegin(j) ==
  /\ gui # "quit"
  /\ jobs[j].pc = "queued"
  /\ \A i \in 1..(j - 1) : jobs[i].pc # "queued"
  /\ Cardinality(Busy) < PoolSize
  /\ Goto(j, IF jobs[j].fn = "end" THEN "check" ELSE "set")
  /\ UNCHANGED <<guiVars, posted, send_msg, sender_msg, senderVars, vehicleVars>>

JobCheck(j) ==
  /\ gui # "quit"
  /\ jobs[j].pc = "check"
  /\ Goto(j, IF Standing THEN "done" ELSE "set")
  /\ UNCHANGED <<guiVars, posted, send_msg, sender_msg, senderVars, vehicleVars>>

JobSet(j) ==
  /\ gui # "quit"
  /\ jobs[j].pc = "set"
  /\ send_msg' = [send_msg EXCEPT !.scenario = ScenarioOf(jobs[j].fn)]
  /\ Goto(j, "emit")
  /\ UNCHANGED <<guiVars, posted, sender_msg, senderVars, vehicleVars>>

(* The signal's argument is a copy of send_msg that no lock protects.      *)
JobEmit(j) ==
  /\ gui # "quit"
  /\ jobs[j].pc = "emit"
  /\ Goto(j, IF send_msg.start THEN "postStart" ELSE "post")
  /\ UNCHANGED <<guiVars, posted, send_msg, sender_msg, senderVars, vehicleVars>>

Posting == {"post", "postStart"}
JobPost(j) ==
  /\ gui # "quit"
  /\ jobs[j].pc \in Posting
  /\ posted' = Append(posted, [send_msg EXCEPT !.start = (jobs[j].pc = "postStart")])
  /\ Goto(j, "poll")
  /\ UNCHANGED <<guiVars, send_msg, sender_msg, senderVars, vehicleVars>>

JobPoll(j) ==
  /\ gui # "quit"
  /\ jobs[j].pc = "poll"
  /\ Standing
  /\ Goto(j, "done")
  /\ UNCHANGED <<guiVars, posted, send_msg, sender_msg, senderVars, vehicleVars>>

(* sender::run, one turn: copy the buffer under the lock and send it.      *)
SenderTurn ==
  /\ gui # "quit"
  /\ sender_run
  /\ wire' = sender_msg
  /\ UNCHANGED <<guiVars, jobs, posted, send_msg, sender_msg, sender_run, vehicleVars>>
-----------------------------------------------------------------------------
(* External: the vehicle drives when it is told to start and no stop       *)
(* scenario is in force; it may stop by itself (a station, traffic); the   *)
(* connection that carries its telemetry may break.                        *)
VehicleDrives ==
  /\ ~vehicle /\ wire.start /\ wire.scenario = 0
  /\ vehicle' = TRUE
  /\ UNCHANGED <<guiVars, jobs, posted, send_msg, sender_msg, senderVars, link, moving>>

VehicleStops ==
  /\ vehicle
  /\ vehicle' = FALSE
  /\ UNCHANGED <<guiVars, jobs, posted, send_msg, sender_msg, senderVars, link, moving>>

LinkLost ==
  /\ link
  /\ link' = FALSE
  /\ UNCHANGED <<guiVars, jobs, posted, send_msg, sender_msg, senderVars, vehicle, moving>>

Operator ==
  \/ StartPlan \/ EmergencyClick \/ ParkClick \/ DoorClick \/ EndClick \/ ExitApp
Returns  == EmergencyDone \/ ParkDone \/ EndLeave
Handlers ==
  \/ StartWrite \/ StartEmit \/ DoorEmit \/ DoorRelease \/ DoorReleased
  \/ EndWriteStop \/ EndWriteRest \/ EndEmit \/ CloseWindow \/ Quit
JobStep(j) ==
  JobBegin(j) \/ JobCheck(j) \/ JobSet(j) \/ JobEmit(j) \/ JobPost(j) \/ JobPoll(j)
Environment == VehicleDrives \/ VehicleStops \/ LinkLost

Next ==
  \/ Operator \/ Returns \/ Handlers \/ DeliverPosted \/ UpdateUI
  \/ \E j \in DOMAIN jobs : JobStep(j)
  \/ SenderTurn \/ Environment

Spec == Init /\ [][Next]_vars

(* Threads run: pool threads and the sender thread are scheduled, and the  *)
(* GUI thread gets to what is queued and to the loop condition of the      *)
(* innermost handler.  That is strong fairness, since each blocking part   *)
(* of a handler (a click on the door button) disables it for 400 ms.  A    *)
(* job that polls every 100 ms sees a stop as long as such a part.  The    *)
(* vehicle obeys a stop scenario it has received.  Nothing is assumed of   *)
(* the operator, and the link may break.                                   *)
Fairness ==
  /\ WF_vars(Handlers) /\ SF_vars(Returns)
  /\ SF_vars(DeliverPosted) /\ SF_vars(UpdateUI)
  /\ \A j \in 1..MaxJobs : SF_vars(j \in DOMAIN jobs /\ JobStep(j))
  /\ WF_vars(SenderTurn)
  /\ WF_vars(wire.scenario \in {1, 2} /\ VehicleStops)

FairSpec == Spec /\ Fairness
-----------------------------------------------------------------------------
TypeOK ==
  /\ panel \in {"plan", "drive", "closed"}
  /\ disabled \in SUBSET Buttons
  /\ gui \in GuiPC
  /\ stack \in Seq(Frame)
  /\ future1 \in Nat /\ future2 \in Nat
  /\ jobs \in Seq(Job)
  /\ posted \in Seq(Msg)
  /\ send_msg \in Msg /\ sender_msg \in Msg /\ wire \in Msg
  /\ sender_run \in BOOLEAN
  /\ link \in BOOLEAN /\ vehicle \in BOOLEAN /\ moving \in BOOLEAN

(* An emergency stop that waits is the innermost handler and the last      *)
(* command given: whatever was interrupted before it, no handler runs and  *)
(* no job starts over it until the vehicle stands (VEHICLE_BOOL(1)         *)
(* disables every button, also inside nested event loops).                 *)
EmergencyIsLast ==
  \A i \in DOMAIN stack :
    stack[i].fn = "emergency" =>
      /\ i = Len(stack)
      /\ gui = "loop"
      /\ stack[i].job = future1
      /\ future1 = Len(jobs)

(* The emergency button is unavailable only while an emergency stop waits, *)
(* however handlers that disable and enable overlapping sets of buttons    *)
(* are nested; and when every handler has returned no button stays         *)
(* disabled.                                                               *)
EmergencyWaits == stack # <<>> /\ Top.fn = "emergency"
ButtonsComeBack ==
  /\ "emergency" \in disabled <=> EmergencyWaits
  /\ disabled # {} => stack # <<>> \/ gui \in {"ending", "writing", "stopping"}

(* The GUI thread never gives a command that asks the vehicle to start and *)
(* to stop at once, although it writes the two flags in two steps and jobs *)
(* write send_msg between them: only a job's unlocked copy can mix the two *)
(* flags, and then it mixes the flags of two requests.                     *)
Both(m) == m.start /\ m.stop
Copies == {sender_msg, wire} \cup {posted[i] : i \in DOMAIN posted}
JobPosts == \E j \in DOMAIN jobs : jobs[j].pc = "postStart" /\ jobs'[j].pc = "poll"
OnlyJobsMix == [][(\E m \in Copies' \ Copies : Both(m)) => JobPosts]_vars

(* The door is closed only on a vehicle the program last saw standing: the *)
(* GUI thread is blocked for the whole pulse, so no telemetry can change   *)
(* what DoorClick checked, and the request is in force until released.     *)
DoorPulseStands == gui = "door" => ~moving /\ sender_msg.door

(* Once an emergency request is in force with no other job or queued event *)
(* able to write, it stays in force until its handler returns.             *)
EmergencyInForce ==
  /\ EmergencyWaits
  /\ sender_msg.scenario = 1
  /\ posted = <<>>
  /\ \A j \in DOMAIN jobs : jobs[j].pc \in {"poll", "done"}
EmergencyStays ==
  [][EmergencyInForce => EmergencyInForce' \/ Len(stack') < Len(stack)]_vars

(* Handlers, jobs and pool threads never wait for each other in a circle:  *)
(* while the program sees the vehicle standing, the innermost handler may  *)
(* leave its loop or some job may go on, however many jobs hold threads of *)
(* the pool and whichever job the loop now waits for.                      *)
Awaited ==
  CASE Top.fn = "emergency" -> future1
    [] Top.fn = "park" -> future2
    [] OTHER -> Top.job
CanBegin(j) ==
  /\ jobs[j].pc = "queued"
  /\ \A i \in 1..(j - 1) : jobs[i].pc # "queued"
  /\ Cardinality(Busy) < PoolSize
CanGoOn(j) ==
  \/ CanBegin(j)
  \/ jobs[j].pc \in {"check", "set", "emit"} \cup Posting
  \/ jobs[j].pc = "poll" /\ Standing
WaitsCanEnd ==
  gui = "loop" /\ stack # <<>> /\ ~moving =>
    /\ Awaited \in DOMAIN jobs
    /\ jobs[Awaited].pc = "done" \/ \E j \in DOMAIN jobs : CanGoOn(j)

(* The way from driving back to planning leads through a stop request:     *)
(* when the panel changes the sender holds one, and it does not ask for a  *)
(* start as well, although jobs write send_msg while the end handler does. *)
LeavingStops ==
  [][panel = "drive" /\ panel' = "plan" =>
       sender_msg'.stop /\ ~sender_msg'.start]_vars

(* An emergency stop given while no other job can write, and with a thread *)
(* of the pool free for its job, reaches the vehicle, unless the vehicle   *)
(* is seen standing first.  Behind a full pool of polling jobs its job     *)
(* starts only after one of them has seen the vehicle stand.               *)
EmergencyAlone ==
  /\ EmergencyWaits
  /\ posted = <<>>
  /\ CanBegin(future1) \/ jobs[future1].pc = "set"
  /\ \A j \in DOMAIN jobs \ {future1} : jobs[j].pc \in {"poll", "done"}
EmergencyArrives == EmergencyAlone ~> (wire.scenario = 1 \/ ~moving)

(* Every handler that waits returns and gives the buttons back if          *)
(* telemetry keeps flowing and the vehicle finally stands, whatever is     *)
(* nested in what.  The loops around processEvents have no other way out,  *)
(* and the vehicle need not stand: a door pulse inside a nested loop       *)
(* resets the scenario that an outer handler still waits for.              *)
Stands == <>[](link /\ ~vehicle)
HandlersReturn == Stands => (stack # <<>> ~> stack = <<>>)

(* Under the same condition, ending the plan makes the sender hold the     *)
(* stop request at some moment.                                            *)
EndWaits == \E i \in DOMAIN stack : stack[i].fn = "end"
EndRequestsStop == Stands => (EndWaits ~> sender_msg.stop)
-----------------------------------------------------------------------------
(* widget.cpp:88 logs that the autonomous driving system has been left:    *)
(* back in planning after that, the sender holds the stop request.         *)
StopRequestHolds ==
  gui = "loop" /\ panel = "plan" /\ send_msg.stop => sender_msg.stop

(* widget.cpp:499 announces that the vehicle is about to brake: once the   *)
(* emergency job polls and its event is delivered, the sender holds the    *)
(* emergency scenario while the vehicle still moves.                       *)
EmergencyAnnounced ==
  EmergencyWaits /\ jobs[future1].pc = "poll" /\ posted = <<>> /\ moving
    => sender_msg.scenario = 1
=============================================================================
