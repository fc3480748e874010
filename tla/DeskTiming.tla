------------------------------ MODULE DeskTiming ------------------------------
(***************************************************************************)
(* The desk in time: how long each handler holds the GUI thread, against   *)
(* the sender thread that samples its buffer and the receive thread that   *)
(* emits telemetry, both every 100 ms and a bit, over a wire that loses    *)
(* datagrams.  Time is counted in ticks, by what is left of a handler's    *)
(* sleep and by what has passed since a thread's last turn.                *)
(*                                                                         *)
(* A message is the set of the requests it makes.  How the handlers nest,  *)
(* and the scenario of a message, are the business of WidgetControl: here  *)
(* a handler that waits for a job leaves the GUI thread in an event loop,  *)
(* and a job is a copy of send_msg that is queued for that loop.           *)
(***************************************************************************)
EXTENDS Naturals, Sequences

CONSTANTS
  BarTime,     \* the two fixed sleeps of the progress bar
  EndTime,     \* what the end handler adds to them
  PauseTime,   \* the sleep of the end handler after the stop request
  ExitTime,    \* the sleep of the exit handler
  TurnTime,    \* the sleep of a turn of the sender and of the receive thread
  Jitter,      \* external: what work and scheduling add to that sleep
  MaxLost,     \* external: datagrams lost in a row
  MaxRow,      \* external: clicks handled in a row before queued events are
  MaxPosted,   \* bound: queued copies of jobs
  MaxEnds      \* bound: end handlers that wait at once

MaxTurn == TurnTime + Jitter

ASSUME DurationAssumption ==
  /\ {BarTime, EndTime, PauseTime, ExitTime, TurnTime, Jitter} \subseteq Nat
  /\ {MaxLost, MaxRow, MaxPosted, MaxEnds} \subseteq Nat
(* With 400 ms of progress bar, 500 ms before the window closes and turns  *)
(* of at most 130 ms the desk bears two lost datagrams in a row; ending a  *)
(* plan is the longest that the GUI thread is held.                        *)
ASSUME PaceAssumption ==
  /\ (MaxLost + 1) * MaxTurn < BarTime
  /\ (MaxLost + 1) * MaxTurn < ExitTime
  /\ ExitTime <= BarTime + EndTime + PauseTime

VARIABLES
  panel,       \* "plan", "drive" or "closed"
  gui,         \* "loop", or the handler that holds the GUI thread, or "quit"
  left,        \* what is left of that handler's sleep
  ends,        \* end handlers that wait for their job
  send_msg,    \* Widget::send_msg
  posted,      \* queued copies of send_msg that jobs emitted
  send_tag,    \* sender::send_tag: the socket was created
  sender,      \* the sender thread: "none", "run" or "over"
  sender_msg,  \* sender::send_msg
  idle,        \* time since the sender's last turn
  lost,        \* external: datagrams lost since the last that arrived
  heard,       \* external: the requests in sender_msg that have arrived
  receiver,    \* the receive thread: "run", or "over" when its constructor failed
  since,       \* time since its last turn
  queued,      \* queued calls of updateUI
  row,         \* handlers run since updateUI
  frame,       \* a frame of the server that is followed until it, or a newer
               \* one, is in update_msg: "none", "stored" or "emitted"
  age          \* time since the client stored it

guiVars  == <<panel, gui, left, ends, send_msg>>
wireVars == <<send_tag, sender, idle, lost>>
feedVars == <<receiver, since, queued, row, frame, age>>
vars == <<guiVars, posted, wireVars, sender_msg, heard, feedVars>>
-----------------------------------------------------------------------------
Requests == {"start", "stop", "exit", "door"}
Holding  == {"planning", "door", "ending", "exiting"}

(* The socket may fail, in the constructor of sender, and so may           *)
(* pthread_create in that of receive.                                      *)
Init ==
  /\ panel = "plan" /\ gui = "loop" /\ left = 0 /\ ends = 0
  /\ send_msg = {} /\ posted = <<>>
  /\ send_tag \in BOOLEAN /\ sender = "none" /\ sender_msg = {}
  /\ idle = 0 /\ lost = 0 /\ heard = {}
  /\ receiver \in {"run", "over"}
  /\ since = 0 /\ queued = 0 /\ row = 0 /\ frame = "none" /\ age = 0
-----------------------------------------------------------------------------
(* A handler sleeps with the GUI thread.  app_Progressbar_moudle sleeps    *)
(* before, between and after the steps of the bar.                         *)
Hold(handler, time) == gui' = handler /\ left' = time
MutProgress(time) == time
Progress(time) == BarTime + time

(* send_msg_signal, direct or delivered: the sender's buffer is replaced.  *)
Emit(msg) == sender_msg' = msg /\ heard' = heard \cap msg

(* One more handler runs before the queued telemetry is delivered.         *)
OneMore ==
  /\ row' = IF receiver = "run" THEN row + 1 ELSE 0
  /\ UNCHANGED <<receiver, since, queued, frame, age>>

(* The event loop takes a click.  It may take a few, queued while the GUI  *)
(* thread was held, before it gets to the events queued by other threads.  *)
TakesClick ==
  /\ gui = "loop"
  /\ queued = 0 \/ row < MaxRow
  /\ OneMore

(* A handler that waits for a job spins around processEvents.              *)
MutWaitForJob == Hold("pausing", 3 * Progress(EndTime))
WaitForJob == UNCHANGED <<gui, left>>

(* Route_planning_start_slots.                                             *)
StartClick ==
  /\ panel = "plan"
  /\ TakesClick
  /\ send_msg' = {"start"}
  /\ Hold("planning", Progress(0))
  /\ UNCHANGED <<panel, ends, posted, wireVars, sender_msg, heard>>

StartEmit ==
  /\ gui = "planning" /\ left = 0
  /\ Emit(send_msg)
  /\ sender' = IF send_tag THEN "run" ELSE "over"
  /\ idle' = IF sender = "run" THEN idle ELSE TurnTime
  /\ panel' = "drive"
  /\ gui' = "loop"
  /\ UNCHANGED <<left, ends, send_msg, posted, send_tag, lost, feedVars>>

(* VEHICLE_BOOL(3), when the test of the speed that is shown allows it.    *)
DoorClick ==
  /\ panel = "drive"
  /\ TakesClick
  /\ send_msg' = send_msg \cup {"door"}
  /\ Emit(send_msg')
  /\ Hold("door", Progress(0))
  /\ UNCHANGED <<panel, ends, posted, wireVars>>

DoorRelease ==
  /\ gui = "door" /\ left = 0
  /\ send_msg' = send_msg \ {"door"}
  /\ Emit(send_msg')
  /\ gui' = "loop"
  /\ UNCHANGED <<panel, left, ends, posted, wireVars, feedVars>>

(* Once the window is closed the application quits, when no handler waits. *)
LoopOrQuit(window) == IF window = "closed" /\ ends = 0 THEN "quit" ELSE "loop"

(* Route_planning_end_slots: it waits, goes on when its job is done (even  *)
(* if a nested end handler has ended the plan), and emits the stop         *)
(* request.                                                                *)
EndClick ==
  /\ panel = "drive" /\ ends < MaxEnds
  /\ TakesClick
  /\ ends' = ends + 1
  /\ WaitForJob
  /\ UNCHANGED <<panel, send_msg, posted, wireVars, sender_msg, heard>>

EndLeave ==
  /\ gui = "loop" /\ ends > 0
  /\ ends' = ends - 1
  /\ Hold("ending", Progress(EndTime))
  /\ OneMore
  /\ UNCHANGED <<panel, send_msg, posted, wireVars, sender_msg, heard>>

MutStopRequest == (send_msg \cup {"halt"}) \ {"start"}
StopRequest == (send_msg \cup {"stop"}) \ {"start"}
EndEmit ==
  /\ gui = "ending" /\ left = 0
  /\ send_msg' = StopRequest
  /\ Emit(send_msg')
  /\ panel' = IF panel = "drive" THEN "plan" ELSE panel
  /\ Hold("pausing", PauseTime)
  /\ UNCHANGED <<ends, posted, wireVars, feedVars>>

EndReturn ==
  /\ gui = "pausing" /\ left = 0
  /\ gui' = LoopOrQuit(panel)
  /\ UNCHANGED <<panel, left, ends, send_msg, posted, wireVars, sender_msg, heard, feedVars>>

(* exit_app_slots.                                                         *)
ExitClick ==
  /\ panel = "plan"
  /\ TakesClick
  /\ send_msg' = send_msg \cup {"exit"}
  /\ Emit(send_msg')
  /\ Hold("exiting", ExitTime)
  /\ UNCHANGED <<panel, ends, posted, wireVars>>

CloseWindow ==
  /\ gui = "exiting" /\ left = 0
  /\ panel' = "closed"
  /\ gui' = LoopOrQuit(panel')
  /\ UNCHANGED <<left, ends, send_msg, posted, wireVars, sender_msg, heard, feedVars>>
-----------------------------------------------------------------------------
(* A job emits: its copy of send_msg is queued, and the event loop         *)
(* delivers it, like any call of updateUI.                                 *)
JobEmits ==
  /\ gui # "quit" /\ sender # "none" /\ Len(posted) < MaxPosted
  /\ posted' = Append(posted, send_msg)
  /\ UNCHANGED <<guiVars, wireVars, sender_msg, heard, feedVars>>

DeliverPosted ==
  /\ gui = "loop" /\ posted # <<>>
  /\ Emit(Head(posted))
  /\ posted' = Tail(posted)
  /\ UNCHANGED <<guiVars, wireVars, feedVars>>

(* Of the queued calls the last one decides what update_msg holds.         *)
UpdateUI ==
  /\ gui = "loop" /\ queued > 0
  /\ queued' = 0
  /\ row' = 0
  /\ frame' = IF frame = "emitted" THEN "none" ELSE frame
  /\ age' = IF frame = "emitted" THEN 0 ELSE age
  /\ UNCHANGED <<guiVars, posted, wireVars, sender_msg, heard, receiver, since>>
-----------------------------------------------------------------------------
(* sender::run, one turn.  The datagram arrives or is lost.                *)
Turn(time) == time >= TurnTime

SenderTurn ==
  /\ gui # "quit"
  /\ sender = "run"
  /\ Turn(idle)
  /\ idle' = 0
  /\ \/ heard' = sender_msg /\ lost' = 0
     \/ lost < MaxLost /\ lost' = lost + 1 /\ UNCHANGED heard
  /\ UNCHANGED <<guiVars, posted, send_tag, sender, sender_msg, feedVars>>

(* StellaClient::handle_read_data, when the server sends: it need not, and *)
(* between two frames the receive thread emits the old one again.  One     *)
(* frame at a time is followed.                                            *)
FrameStored ==
  /\ gui # "quit"
  /\ receiver = "run"
  /\ frame = "none"
  /\ frame' = "stored"
  /\ UNCHANGED <<guiVars, posted, wireVars, sender_msg, heard, receiver, since, queued, row, age>>

(* receive::run, one turn: what the client has stored last is emitted.     *)
MutReceiveSleep == TurnTime
ReceiveSleep == 0
ReceiveTurn ==
  /\ gui # "quit"
  /\ receiver = "run"
  /\ Turn(since)
  /\ since' = ReceiveSleep
  /\ queued' = queued + 1
  /\ frame' = IF frame = "stored" THEN "emitted" ELSE frame
  /\ UNCHANGED <<guiVars, posted, wireVars, sender_msg, heard, receiver, row, age>>

(* A tick passes when no thread has to act: a held GUI thread sleeps, an   *)
(* event loop has delivered telemetry, and no turn is overdue.             *)
After(time) == IF time = 0 THEN 0 ELSE time - 1
Tick ==
  /\ gui # "quit"
  /\ gui = "loop" => queued = 0
  /\ gui # "loop" => left > 0
  /\ sender = "run" => idle < MaxTurn
  /\ receiver = "run" => since < MaxTurn
  /\ left' = After(left)
  /\ idle' = IF sender = "run" THEN idle + 1 ELSE idle
  /\ since' = IF receiver = "run" THEN since + 1 ELSE since
  /\ age' = IF frame = "none" THEN age ELSE age + 1
  /\ UNCHANGED <<panel, gui, ends, send_msg, posted, send_tag, sender, sender_msg, lost,
                 heard, receiver, queued, row, frame>>

Clicks   == StartClick \/ DoorClick \/ EndClick \/ ExitClick
Handlers == StartEmit \/ DoorRelease \/ EndLeave \/ EndEmit \/ EndReturn \/ CloseWindow
Threads  == JobEmits \/ SenderTurn \/ FrameStored \/ ReceiveTurn

Next == Clicks \/ Handlers \/ DeliverPosted \/ UpdateUI \/ Threads \/ Tick

Spec == Init /\ [][Next]_vars
-----------------------------------------------------------------------------
TypeOK ==
  /\ panel \in {"plan", "drive", "closed"}
  /\ gui \in Holding \cup {"loop", "pausing", "quit"}
  /\ left \in Nat /\ ends \in 0..MaxEnds
  /\ send_msg \subseteq Requests /\ sender_msg \subseteq Requests
  /\ posted \in Seq(SUBSET Requests)
  /\ send_tag \in BOOLEAN /\ sender \in {"none", "run", "over"}
  /\ idle \in 0..MaxTurn /\ lost \in 0..MaxLost /\ heard \subseteq sender_msg
  /\ receiver \in {"run", "over"}
  /\ since \in 0..MaxTurn /\ queued \in Nat /\ row \in Nat
  /\ frame \in {"none", "stored", "emitted"} /\ age \in Nat

(* When a handler stops holding the GUI thread, the vehicle has received   *)
(* every request that was in force meanwhile: the door pulse, the exit     *)
(* request, the start that an end follows, the stop that a start follows.  *)
HeldIsHeard ==
  gui \in Holding /\ left = 0 /\ sender = "run" => heard = sender_msg

(* The desk keeps the promise of RequestPromise.                           *)
Promise == INSTANCE RequestPromise WITH
  busy <- gui \in Holding, alive <- sender = "run",
  given <- sender_msg, received <- heard
PromiseKept == Promise!PromiseSpec

(* A click is decided on no older telemetry than the client has held for   *)
(* one turn of the receive thread, and one handler's time for each click   *)
(* that was taken before queued telemetry: a frame stored longer ago, or a *)
(* newer one, is in update_msg.  How old the newest frame is, is up to the *)
(* server and the link.                                                    *)
Longest == Progress(EndTime) + PauseTime
ShownInTime == gui = "loop" /\ frame # "none" => age <= MaxTurn + row * Longest

(* Frames that queue up while the GUI thread is held, each with an image   *)
(* of its own, are bounded in the same way.                                *)
Backlog == queued * TurnTime <= MaxTurn + row * Longest
=============================================================================
