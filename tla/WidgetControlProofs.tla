------------------------- MODULE WidgetControlProofs -------------------------
(***************************************************************************)
(* Proofs about WidgetControl, for every pool size and every bound on jobs.*)
(***************************************************************************)
EXTENDS WidgetControl, SequenceTheorems, FiniteSetTheorems, WellFoundedInduction, TLAPS

(* What leaving a handler's loop does to the stack of handlers.            *)
LEMMA PopProperties ==
  ASSUME NEW S, NEW s \in Seq(S), s # <<>>
  PROVE  /\ SubSeq(s, 1, Len(s) - 1) \in Seq(S)
         /\ Len(SubSeq(s, 1, Len(s) - 1)) = Len(s) - 1
         /\ \A i \in 1..(Len(s) - 1) : SubSeq(s, 1, Len(s) - 1)[i] = s[i]
<1>1. Len(s) \in Nat \ {0}
  BY EmptySeq
<1>2. \A i \in 1..(Len(s) - 1) : s[i] \in S
  BY <1>1, ElementOfSeq
<1> DEFINE m == Len(s) - 1
<1>3. m \in Int /\ 1 \in Int /\ m - 1 + 1 = m /\ \A i \in 1..m : 1 + i - 1 = i
  BY <1>1
<1>4. /\ SubSeq(s, 1, m) \in Seq(S)
      /\ Len(SubSeq(s, 1, m)) = IF 1 <= m THEN m - 1 + 1 ELSE 0
      /\ \A i \in 1..(m - 1 + 1) : SubSeq(s, 1, m)[i] = s[1 + i - 1]
  <2> HIDE DEF m
  <2> QED
    BY <1>2, <1>3, SubSeqProperties DEF m
<1> QED
  BY <1>1, <1>3, <1>4

(* A step of one job keeps the sequence of jobs a sequence of jobs, of the *)
(* same length and the same functions.                                     *)
LEMMA GotoProperties ==
  ASSUME jobs \in Seq(Job), NEW j \in DOMAIN jobs, NEW pc \in JobPC,
         Goto(j, pc)
  PROVE  /\ jobs' \in Seq(Job)
         /\ Len(jobs') = Len(jobs)
         /\ DOMAIN jobs' = DOMAIN jobs
         /\ \A i \in DOMAIN jobs : i # j => jobs'[i] = jobs[i]
         /\ jobs'[j].pc = pc /\ jobs'[j].fn = jobs[j].fn
<1>1. j \in 1..Len(jobs) /\ jobs[j] \in Job
  BY LenProperties, ElementOfSeq
<1>2. [jobs[j] EXCEPT !.pc = pc] \in Job
  BY <1>1 DEF Job
<1>3. jobs' = [jobs EXCEPT ![j] = [jobs[j] EXCEPT !.pc = pc]]
  BY DEF Goto
<1>4. jobs' \in Seq(Job) /\ Len(jobs') = Len(jobs)
  BY <1>1, <1>2, <1>3, ExceptSeq
<1>5. DOMAIN jobs' = DOMAIN jobs /\ \A i \in DOMAIN jobs : i # j => jobs'[i] = jobs[i]
  BY <1>3
<1>6. jobs'[j] = [jobs[j] EXCEPT !.pc = pc]
  BY <1>3
<1> QED
  BY <1>1, <1>4, <1>5, <1>6 DEF Job

(* A job has one of the three functions.                                   *)
LEMMA JobHasFunction ==
  ASSUME jobs \in Seq(Job), NEW j \in DOMAIN jobs
  PROVE  jobs[j].fn \in Waiting
<1>1. j \in 1..Len(jobs)
  BY LenProperties
<1>2. jobs[j] \in Job
  BY <1>1, ElementOfSeq
<1> QED
  BY <1>2 DEF Job

-----------------------------------------------------------------------------
(* The requests that handlers and jobs write are messages.                 *)
LEMMA Requests ==
  ASSUME NEW m \in Msg
  PROVE  /\ PlanRequest(m) \in Msg /\ StopRequest(m) \in Msg
         /\ \A held \in BOOLEAN : DoorRequest(m, held) \in Msg
         /\ [m EXCEPT !.exit = TRUE] \in Msg /\ [m EXCEPT !.stop = TRUE] \in Msg
         /\ \A b \in BOOLEAN : [m EXCEPT !.start = b] \in Msg
         /\ \A fn \in Waiting : [m EXCEPT !.scenario = ScenarioOf(fn)] \in Msg
<1>2. 0 \in Scenarios /\ 3 \in Scenarios
  BY DEF Scenarios
<1>3. PlanRequest(m) \in Msg
  BY Zenon DEF Msg, PlanRequest
<1>4. StopRequest(m) \in Msg
  BY <1>2, Zenon DEF Msg, StopRequest
<1>5. /\ [m EXCEPT !.exit = TRUE] \in Msg /\ [m EXCEPT !.stop = TRUE] \in Msg
      /\ \A b \in BOOLEAN : [m EXCEPT !.start = b] \in Msg
  BY Zenon DEF Msg
<1>6. \A held \in BOOLEAN : DoorRequest(m, held) \in Msg
  <2> TAKE held \in BOOLEAN
  <2>1. (IF held THEN 3 ELSE 0) \in Scenarios
    BY <1>2
  <2> QED
    BY <2>1, Zenon DEF Msg, DoorRequest
<1>7. \A fn \in Waiting : [m EXCEPT !.scenario = ScenarioOf(fn)] \in Msg
  BY DEF Msg, Scenarios, ScenarioOf
<1> QED
  BY <1>3, <1>4, <1>5, <1>6, <1>7

(* The cleared message is a message.                                       *)
LEMMA NoMsgType == NoMsg \in Msg
<1>1. 0 \in Scenarios
  BY DEF Scenarios
<1> QED
  BY <1>1, Zenon DEF NoMsg, Msg

(* Every variable keeps its type: the type invariant of the command path.  *)
THEOREM TypeCorrect == Spec => []TypeOK
<1>1. Init => TypeOK
  <2>1. NoMsg \in Msg
    BY NoMsgType
  <2>2. ASSUME Init
        PROVE  stack \in Seq(Frame) /\ jobs \in Seq(Job) /\ posted \in Seq(Msg)
    BY <2>2, EmptySeq DEF Init
  <2>3. ASSUME Init
        PROVE  /\ panel \in {"plan", "drive", "closed"} /\ gui \in GuiPC
               /\ disabled \in SUBSET Buttons
               /\ future1 \in Nat /\ future2 \in Nat
    BY <2>3 DEF Init, GuiPC
  <2> QED
    BY <2>1, <2>2, <2>3, Zenon DEF Init, TypeOK
<1>2. TypeOK /\ [Next]_vars => TypeOK'
  <2> SUFFICES ASSUME TypeOK, [Next]_vars PROVE TypeOK'
    OBVIOUS
  <2> USE DEF TypeOK, guiVars, senderVars, vehicleVars
  <2>0. ASSUME NEW fn \in Waiting, NEW buttons \in SUBSET Buttons, RunAndWait(fn, buttons)
        PROVE  /\ disabled' \in SUBSET Buttons
               /\ stack' \in Seq(Frame) /\ jobs' \in Seq(Job)
               /\ Len(jobs) + 1 \in Nat
    <3>1. Len(jobs) + 1 \in Nat
      BY LenProperties
    <3>2. [fn |-> fn, pc |-> "queued"] \in Job /\ [fn |-> fn, job |-> Len(jobs) + 1] \in Frame
      BY <3>1 DEF Job, JobPC, Frame
    <3> QED
      BY <2>0, <3>1, <3>2, AppendProperties DEF RunAndWait
  <2>0a. ASSUME NEW fn, NEW job, Leaves(fn, job)
         PROVE  stack' \in Seq(Frame)
    BY <2>0a, PopProperties DEF Leaves, Pop
  <2>1. CASE StartPlan \/ StartWrite
    <3>1. NoMsg \in Msg
      BY NoMsgType
    <3> QED
      BY <2>1, <3>1, Requests DEF StartPlan, StartWrite, GuiPC
  <2>2. CASE StartEmit
    BY <2>2 DEF StartEmit, EmitDirect, GuiPC
  <2>3. CASE EmergencyClick
    BY <2>3, <2>0 DEF EmergencyClick, EmergencyButtons, Buttons, Waiting
  <2>4. CASE EmergencyDone
    BY <2>4, <2>0a DEF EmergencyDone
  <2>5. CASE ParkClick
    BY <2>5, <2>0 DEF ParkClick, ParkButtons, Buttons, Waiting
  <2>6. CASE ParkDone
    BY <2>6, <2>0a DEF ParkDone
  <2>7. CASE DoorClick \/ DoorRelease
    BY <2>7, Requests DEF DoorClick, DoorRelease, GuiPC
  <2>8. CASE DoorEmit \/ DoorReleased
    BY <2>8 DEF DoorEmit, DoorReleased, EmitDirect, GuiPC
  <2>9. CASE EndClick
    BY <2>9, <2>0 DEF EndClick, EndButtons, Buttons, Waiting
  <2>10. CASE EndLeave
    BY <2>10, <2>0a DEF EndLeave, GuiPC
  <2>11. CASE EndWriteStop \/ EndWriteRest
    BY <2>11, Requests DEF EndWriteStop, EndStop, EndWriteRest, GuiPC
  <2>12. CASE EndEmit
    BY <2>12 DEF EndEmit, EmitDirect, GuiPC
  <2>13. CASE ExitApp
    BY <2>13, Requests DEF ExitApp, EmitDirect, GuiPC
  <2>14. CASE CloseWindow
    BY <2>14 DEF CloseWindow, GuiPC
  <2>15. CASE Quit
    BY <2>15 DEF Quit, GuiPC
  <2>16. CASE DeliverPosted
    BY <2>16, HeadTailProperties DEF DeliverPosted
  <2>17. CASE UpdateUI
    BY <2>17 DEF UpdateUI
  <2>18. ASSUME NEW j \in DOMAIN jobs, JobStep(j) PROVE TypeOK'
    <3>0. jobs[j].fn \in Waiting
      BY JobHasFunction
    <3>1. CASE JobBegin(j)
      BY <3>1, GotoProperties DEF JobBegin, JobPC
    <3>2. CASE JobCheck(j)
      BY <3>2, GotoProperties DEF JobCheck, JobPC
    <3>3. CASE JobSet(j)
      BY <3>3, <3>0, GotoProperties, Requests DEF JobSet, JobPC
    <3>4. CASE JobEmit(j)
      BY <3>4, GotoProperties DEF JobEmit, JobPC
    <3>5. CASE JobPost(j)
      <4>1. [send_msg EXCEPT !.start = (jobs[j].pc = "postStart")] \in Msg
        <5>1. (jobs[j].pc = "postStart") \in BOOLEAN
          OBVIOUS
        <5> QED
          BY <5>1, Requests
      <4>2. posted' \in Seq(Msg)
        BY <3>5, <4>1, AppendProperties DEF JobPost
      <4> QED
        BY <3>5, <4>2, GotoProperties DEF JobPost, JobPC
    <3>6. CASE JobPoll(j)
      BY <3>6, GotoProperties DEF JobPoll, JobPC
    <3> QED
      BY <2>18, <3>1, <3>2, <3>3, <3>4, <3>5, <3>6 DEF JobStep
  <2>19. CASE SenderTurn
    BY <2>19 DEF SenderTurn
  <2>20. CASE Environment
    BY <2>20 DEF Environment, VehicleDrives, VehicleStops, LinkLost
  <2>21. CASE UNCHANGED vars
    BY <2>21 DEF vars
  <2> QED
    BY <2>1, <2>2, <2>3, <2>4, <2>5, <2>6, <2>7, <2>8, <2>9, <2>10, <2>11, <2>12,
       <2>13, <2>14, <2>15, <2>16, <2>17, <2>18, <2>19, <2>20, <2>21
    DEF Next, Operator, Returns, Handlers
<1> QED
  BY <1>1, <1>2, PTL DEF Spec

-----------------------------------------------------------------------------
(* The inductive invariant of the nested handlers: an emergency stop that  *)
(* waits keeps the drive panel up with all of its buttons disabled, so no  *)
(* click can start another handler inside it.                              *)
HandlersInv ==
  /\ TypeOK
  /\ EmergencyIsLast
  /\ ButtonsComeBack
  /\ EmergencyWaits => panel = "drive" /\ disabled = Buttons

NoEmergency == \A i \in DOMAIN stack : stack[i].fn # "emergency"

(* An emergency stop is on the stack exactly when it is the innermost      *)
(* handler, and then the GUI thread is in its loop.                        *)
LEMMA EmergencyOnTop ==
  ASSUME HandlersInv
  PROVE  /\ EmergencyWaits <=> ~NoEmergency
         /\ gui # "loop" \/ panel # "drive" => NoEmergency
         /\ \A b \in Buttons : b \notin disabled => NoEmergency
<1>1. stack \in Seq(Frame) /\ Len(stack) \in Nat /\ DOMAIN stack = 1..Len(stack)
  BY LenProperties DEF HandlersInv, TypeOK
<1>2. EmergencyWaits <=> ~NoEmergency
  <2>1. stack # <<>> => Len(stack) \in DOMAIN stack
    BY <1>1, EmptySeq
  <2>2. EmergencyWaits => ~NoEmergency
    BY <2>1 DEF EmergencyWaits, Top, NoEmergency
  <2>3. ASSUME NEW i \in DOMAIN stack, stack[i].fn = "emergency"
        PROVE  EmergencyWaits
    <3>1. i = Len(stack)
      BY <2>3 DEF HandlersInv, EmergencyIsLast
    <3>2. stack # <<>>
      BY <1>1, <3>1, EmptySeq
    <3> QED
      BY <2>3, <3>1, <3>2 DEF EmergencyWaits, Top
  <2> QED
    BY <2>2, <2>3 DEF NoEmergency
<1>3. gui # "loop" => NoEmergency
  BY DEF HandlersInv, EmergencyIsLast, NoEmergency
<1> QED
  BY <1>2, <1>3 DEF HandlersInv

(* The handlers' part of the invariant depends on these variables only,    *)
(* and on no job's progress.                                               *)
LEMMA HandlersUnchanged ==
  ASSUME HandlersInv, TypeOK', Len(jobs') = Len(jobs),
         UNCHANGED <<panel, disabled, gui, stack, future1>>
  PROVE  HandlersInv'
  BY DEF HandlersInv, EmergencyIsLast, ButtonsComeBack, EmergencyWaits, Top

(* Without an emergency stop on the stack the invariant only asks that     *)
(* disabled buttons have a handler that will enable them.                  *)
LEMMA HandlersWithout ==
  ASSUME TypeOK', NoEmergency', "emergency" \notin disabled',
         disabled' # {} => stack' # <<>> \/ gui' \in {"ending", "writing", "stopping"}
  PROVE  HandlersInv'
<1>1. ~EmergencyWaits'
  <2>1. stack' # <<>> => Len(stack') \in DOMAIN stack'
    BY LenProperties, EmptySeq DEF TypeOK
  <2> QED
    BY <2>1 DEF EmergencyWaits, Top, NoEmergency
<1>2. EmergencyIsLast'
  BY DEF EmergencyIsLast, NoEmergency
<1> QED
  BY <1>1, <1>2 DEF HandlersInv, ButtonsComeBack

(* What a click that starts a job does, when no emergency stop waits.      *)
LEMMA ClickProperties ==
  ASSUME HandlersInv, TypeOK', NEW fn \in Waiting, NEW buttons \in SUBSET Buttons,
         NoEmergency, gui = "loop", UNCHANGED gui, RunAndWait(fn, buttons)
  PROVE  /\ DOMAIN stack' = 1..(Len(stack) + 1) /\ Len(stack') = Len(stack) + 1
         /\ Len(stack) \in Nat /\ Len(jobs) \in Nat /\ Len(jobs') = Len(jobs) + 1
         /\ stack' # <<>>
         /\ \A i \in 1..Len(stack) : stack'[i].fn # "emergency"
         /\ stack'[Len(stack) + 1] = [fn |-> fn, job |-> Len(jobs) + 1]
         /\ disabled' = disabled \cup buttons
         /\ "emergency" \notin disabled
<1>1. stack \in Seq(Frame) /\ jobs \in Seq(Job) /\ stack' \in Seq(Frame)
  BY DEF HandlersInv, TypeOK
<1>2. /\ Len(stack) \in Nat /\ DOMAIN stack = 1..Len(stack)
      /\ Len(jobs) \in Nat /\ DOMAIN stack' = 1..Len(stack')
  BY <1>1, LenProperties
<1>3. [fn |-> fn, job |-> Len(jobs) + 1] \in Frame /\ [fn |-> fn, pc |-> "queued"] \in Job
  BY <1>2 DEF Frame, Job, JobPC
<1>4. /\ Len(stack') = Len(stack) + 1 /\ stack' # <<>>
      /\ \A i \in 1..Len(stack) : stack'[i] = stack[i]
      /\ stack'[Len(stack) + 1] = [fn |-> fn, job |-> Len(jobs) + 1]
  BY <1>1, <1>3, AppendProperties DEF RunAndWait
<1>5. Len(jobs') = Len(jobs) + 1
  BY <1>1, <1>3, AppendProperties DEF RunAndWait
<1>6. "emergency" \notin disabled
  BY EmergencyOnTop DEF HandlersInv, ButtonsComeBack
<1> QED
  BY <1>2, <1>4, <1>5, <1>6 DEF NoEmergency, RunAndWait

(* What leaving a handler does: nothing of what stays on the stack is an   *)
(* emergency stop.                                                         *)
LEMMA LeaveProperties ==
  ASSUME HandlersInv, NEW fn, NEW job, Leaves(fn, job)
  PROVE  /\ NoEmergency'
         /\ fn # "emergency" => "emergency" \notin disabled
<1>1. stack \in Seq(Frame) /\ stack # <<>>
  BY DEF HandlersInv, TypeOK, Leaves
<1>2. Len(stack) \in Nat \ {0} /\ DOMAIN stack = 1..Len(stack)
  BY <1>1, EmptySeq, LenProperties
<1>3. /\ stack' \in Seq(Frame) /\ Len(stack') = Len(stack) - 1
      /\ \A i \in 1..(Len(stack) - 1) : stack'[i] = stack[i]
  BY <1>1, PopProperties DEF Leaves, Pop
<1>4. DOMAIN stack' = 1..(Len(stack) - 1)
  BY <1>3, LenProperties
<1>5. NoEmergency'
  BY <1>2, <1>3, <1>4 DEF NoEmergency, HandlersInv, EmergencyIsLast
<1>6. fn # "emergency" => "emergency" \notin disabled
  BY DEF Leaves, HandlersInv, ButtonsComeBack, EmergencyWaits
<1> QED
  BY <1>5, <1>6

(* HandlersInv is inductive relative to TypeOK: no step of the operator,   *)
(* of a handler, of a job or of the environment breaks it.                 *)
THEOREM HandlersStep == HandlersInv /\ TypeOK' /\ [Next]_vars => HandlersInv'
<1> SUFFICES ASSUME HandlersInv, TypeOK', [Next]_vars PROVE HandlersInv'
  OBVIOUS
<1> USE DEF guiVars
<1>a. ASSUME UNCHANGED <<stack, disabled>>, gui # "loop" \/ panel # "drive",
             gui' \in {"ending", "writing", "stopping"} \/ gui \notin {"ending", "writing", "stopping"}
      PROVE  HandlersInv'
  <2>1. NoEmergency /\ "emergency" \notin disabled
    BY <1>a, EmergencyOnTop DEF HandlersInv, ButtonsComeBack
  <2>2. NoEmergency'
    BY <1>a, <2>1 DEF NoEmergency
  <2>3. disabled' # {} => stack' # <<>> \/ gui' \in {"ending", "writing", "stopping"}
    BY <1>a DEF HandlersInv, ButtonsComeBack
  <2> QED
    BY <1>a, <2>1, <2>2, <2>3, HandlersWithout
<1>1. CASE StartPlan \/ StartWrite
  BY <1>1, <1>a DEF StartPlan, StartWrite
<1>2. CASE StartEmit
  BY <1>2, <1>a DEF StartEmit
<1>3. CASE EmergencyClick
  <2>1. "emergency" \in Waiting /\ EmergencyButtons \in SUBSET Buttons
    BY DEF Waiting, EmergencyButtons, Buttons
  <2>2. /\ gui = "loop" /\ panel = "drive" /\ UNCHANGED <<gui, panel>>
        /\ RunAndWait("emergency", EmergencyButtons) /\ future1' = Len(jobs) + 1
        /\ NoEmergency
    BY <1>3, EmergencyOnTop DEF EmergencyClick, Clickable, Buttons
  <2>3. disabled' = Buttons
    BY <2>1, <2>2, ClickProperties DEF EmergencyButtons, Buttons, HandlersInv, TypeOK
  <2>a. /\ DOMAIN stack' = 1..(Len(stack) + 1) /\ Len(stack') = Len(stack) + 1
        /\ Len(stack) \in Nat /\ Len(jobs') = Len(jobs) + 1 /\ stack' # <<>>
        /\ \A i \in 1..Len(stack) : stack'[i].fn # "emergency"
        /\ stack'[Len(stack) + 1] = [fn |-> "emergency", job |-> Len(jobs) + 1]
    BY <2>1, <2>2, ClickProperties
  <2>4. EmergencyWaits'
    BY <2>a DEF EmergencyWaits, Top
  <2>5. EmergencyIsLast'
    <3>1. ASSUME NEW i \in DOMAIN stack', stack'[i].fn = "emergency"
          PROVE  i = Len(stack')
      BY <2>a, <3>1
    <3>2. stack'[Len(stack')].job = future1' /\ future1' = Len(jobs')
      BY <2>a, <2>2
    <3> QED
      BY <2>2, <3>1, <3>2 DEF EmergencyIsLast
  <2>6. ButtonsComeBack'
    BY <2>3, <2>4 DEF ButtonsComeBack, EmergencyWaits, Buttons
  <2> QED
    BY <2>2, <2>3, <2>5, <2>6 DEF HandlersInv
<1>4. CASE EmergencyDone
  <2>1. NoEmergency'
    BY <1>4, LeaveProperties DEF EmergencyDone
  <2>2. disabled' = {}
    BY <1>4 DEF EmergencyDone, EmergencyButtons, Buttons, HandlersInv, TypeOK
  <2> QED
    BY <2>1, <2>2, HandlersWithout
<1>b. ASSUME NEW fn \in Waiting \ {"emergency"}, NEW buttons \in SUBSET Buttons,
             NEW b \in Buttons, Clickable(b), RunAndWait(fn, buttons),
             "emergency" \notin buttons, UNCHANGED gui
      PROVE  HandlersInv'
  <2>1. NoEmergency /\ gui = "loop"
    BY <1>b, EmergencyOnTop DEF Clickable
  <2>2. /\ DOMAIN stack' = 1..(Len(stack) + 1) /\ Len(stack) \in Nat /\ stack' # <<>>
        /\ \A i \in 1..Len(stack) : stack'[i].fn # "emergency"
        /\ stack'[Len(stack) + 1] = [fn |-> fn, job |-> Len(jobs) + 1]
        /\ disabled' = disabled \cup buttons /\ "emergency" \notin disabled
    BY <1>b, <2>1, ClickProperties
  <2>3. NoEmergency'
    BY <1>b, <2>2 DEF NoEmergency
  <2> QED
    BY <1>b, <2>2, <2>3, HandlersWithout
<1>5. CASE ParkClick
  BY <1>5, <1>b DEF ParkClick, Waiting, Buttons, ParkButtons
<1>6. CASE ParkDone
  <2>1. NoEmergency' /\ "emergency" \notin disabled
    BY <1>6, LeaveProperties DEF ParkDone
  <2>2. disabled' = {}
    BY <1>6, <2>1 DEF ParkDone, ParkButtons, Buttons, HandlersInv, TypeOK
  <2> QED
    BY <2>1, <2>2, HandlersWithout
<1>7. CASE DoorClick
  <2>1. NoEmergency /\ "emergency" \notin disabled /\ UNCHANGED <<stack, disabled>>
    BY <1>7, EmergencyOnTop DEF DoorClick, Clickable, Buttons, HandlersInv, ButtonsComeBack
  <2>2. disabled' # {} => stack' # <<>>
    BY <1>7, <2>1 DEF DoorClick, Clickable, HandlersInv, ButtonsComeBack
  <2> QED
    BY <2>1, <2>2, HandlersWithout DEF NoEmergency
<1>8. CASE DoorEmit \/ DoorRelease \/ DoorReleased
  BY <1>8, <1>a DEF DoorEmit, DoorRelease, DoorReleased
<1>9. CASE EndClick
  BY <1>9, <1>b DEF EndClick, Waiting, Buttons, EndButtons
<1>10. CASE EndLeave
  BY <1>10, LeaveProperties, HandlersWithout DEF EndLeave
<1>11. CASE EndWriteStop \/ EndWriteRest
  BY <1>11, <1>a DEF EndWriteStop, EndWriteRest
<1>12. CASE EndEmit
  <2>1. NoEmergency /\ "emergency" \notin disabled /\ UNCHANGED stack
    BY <1>12, EmergencyOnTop DEF EndEmit, HandlersInv, ButtonsComeBack
  <2>2. disabled' = {}
    BY <1>12, <2>1 DEF EndEmit, EndButtons, Buttons, HandlersInv, TypeOK
  <2> QED
    BY <2>1, <2>2, HandlersWithout DEF NoEmergency
<1>13. CASE ExitApp
  BY <1>13, <1>a DEF ExitApp
<1>14. CASE CloseWindow
  BY <1>14, <1>a DEF CloseWindow
<1>15. CASE Quit
  BY <1>15, <1>a DEF Quit
<1>16. CASE DeliverPosted
  BY <1>16, HandlersUnchanged DEF DeliverPosted
<1>17. CASE UpdateUI
  BY <1>17, HandlersUnchanged DEF UpdateUI
<1>18. ASSUME NEW j \in DOMAIN jobs, JobStep(j) PROVE HandlersInv'
  <2>1. UNCHANGED guiVars /\ \E pc \in JobPC : Goto(j, pc)
    BY <1>18 DEF JobStep, JobBegin, JobCheck, JobSet, JobEmit, JobPost, JobPoll, JobPC
  <2>2. Len(jobs') = Len(jobs)
    BY <2>1, GotoProperties DEF HandlersInv, TypeOK
  <2> QED
    BY <2>1, <2>2, HandlersUnchanged
<1>19. CASE SenderTurn
  BY <1>19, HandlersUnchanged DEF SenderTurn
<1>20. CASE Environment
  BY <1>20, HandlersUnchanged DEF Environment, VehicleDrives, VehicleStops, LinkLost
<1>21. CASE UNCHANGED vars
  BY <1>21, HandlersUnchanged DEF vars
<1> QED
  BY <1>1, <1>2, <1>3, <1>4, <1>5, <1>6, <1>7, <1>8, <1>9, <1>10, <1>11, <1>12,
     <1>13, <1>14, <1>15, <1>16, <1>17, <1>18, <1>19, <1>20, <1>21
  DEF Next, Operator, Returns, Handlers

(* An emergency stop that waits is the innermost handler and the last      *)
(* command (VEHICLE_BOOL(1) disables every button), for any nesting.       *)
THEOREM EmergencyIsLastCorrect == Spec => []EmergencyIsLast
<1>1. Init /\ TypeOK => HandlersInv
  BY DEF Init, HandlersInv, EmergencyIsLast, ButtonsComeBack, EmergencyWaits
<1>2. HandlersInv => EmergencyIsLast
  BY DEF HandlersInv
<1> QED
  BY <1>1, <1>2, TypeCorrect, HandlersStep, PTL DEF Spec

(* Every button that a handler disables comes back when no handler waits,  *)
(* in whatever order the nested handlers return.                           *)
THEOREM ButtonsComeBackCorrect == Spec => []ButtonsComeBack
<1>1. Init /\ TypeOK => HandlersInv
  BY DEF Init, HandlersInv, EmergencyIsLast, ButtonsComeBack, EmergencyWaits
<1>2. HandlersInv => ButtonsComeBack
  BY DEF HandlersInv
<1> QED
  BY <1>1, <1>2, TypeCorrect, HandlersStep, PTL DEF Spec

-----------------------------------------------------------------------------
(* The widget's own message asks for start and stop at once only between   *)
(* the two assignments of the end handler.                                 *)
GuiMixes == Both(send_msg) => gui = "writing"

(* No request of a handler or job asks for both, unless what it is made    *)
(* from already does.                                                      *)
LEMMA RequestsMix ==
  ASSUME NEW m \in Msg
  PROVE  /\ ~Both(NoMsg) /\ ~Both(PlanRequest(m)) /\ ~Both(StopRequest(m))
         /\ \A held \in BOOLEAN : Both(DoorRequest(m, held)) => Both(m)
         /\ Both([m EXCEPT !.exit = TRUE]) => Both(m)
         /\ \A fn \in Waiting : Both([m EXCEPT !.scenario = ScenarioOf(fn)]) => Both(m)
  BY DEF Both, Msg, NoMsg, PlanRequest, StopRequest, DoorRequest

(* GuiMixes is inductive relative to TypeOK: jobs write the scenario only, *)
(* and the GUI thread is the only writer of the two flags.                 *)
LEMMA GuiMixesStep == TypeOK /\ GuiMixes /\ [Next]_vars => GuiMixes'
<1> SUFFICES ASSUME TypeOK, GuiMixes, [Next]_vars PROVE GuiMixes'
  OBVIOUS
<1>a. send_msg \in Msg /\ jobs \in Seq(Job)
  BY DEF TypeOK
<1>b. ASSUME UNCHANGED send_msg, gui = "writing" => UNCHANGED gui
      PROVE  GuiMixes'
  BY <1>b DEF GuiMixes, Both
<1>1. CASE StartPlan \/ StartWrite
  BY <1>1, <1>a, RequestsMix DEF StartPlan, StartWrite, GuiMixes
<1>2. CASE StartEmit \/ EndEmit \/ CloseWindow \/ Quit \/ DoorEmit \/ DoorReleased
  BY <1>2, <1>b DEF StartEmit, EndEmit, CloseWindow, Quit, DoorEmit, DoorReleased
<1>3. CASE Returns \/ EmergencyClick \/ ParkClick \/ EndClick
  BY <1>3, <1>b
  DEF Returns, EmergencyDone, ParkDone, EndLeave, Leaves, EmergencyClick, ParkClick, EndClick
<1>4. CASE DoorClick \/ DoorRelease
  BY <1>4, <1>a, RequestsMix DEF DoorClick, Clickable, DoorRelease, GuiMixes
<1>5. CASE EndWriteStop
  BY <1>5 DEF EndWriteStop, GuiMixes
<1>6. CASE EndWriteRest
  BY <1>6, <1>a, RequestsMix DEF EndWriteRest, GuiMixes
<1>7. CASE ExitApp
  BY <1>7, <1>a, RequestsMix DEF ExitApp, GuiMixes
<1>8. CASE DeliverPosted \/ UpdateUI \/ SenderTurn \/ Environment
  BY <1>8, <1>b
  DEF DeliverPosted, UpdateUI, SenderTurn, Environment, VehicleDrives, VehicleStops,
      LinkLost, guiVars
<1>9. ASSUME NEW j \in DOMAIN jobs, JobStep(j) PROVE GuiMixes'
  <2>1. CASE JobSet(j)
    <3>1. jobs[j].fn \in Waiting
      BY <1>a, JobHasFunction
    <3> QED
      BY <2>1, <3>1, <1>a, RequestsMix DEF JobSet, GuiMixes, guiVars
  <2>2. CASE JobBegin(j) \/ JobCheck(j) \/ JobEmit(j) \/ JobPost(j) \/ JobPoll(j)
    BY <2>2, <1>b DEF JobBegin, JobCheck, JobEmit, JobPost, JobPoll, guiVars
  <2> QED
    BY <1>9, <2>1, <2>2 DEF JobStep
<1>10. CASE UNCHANGED vars
  BY <1>10, <1>b DEF vars
<1> QED
  BY <1>1, <1>2, <1>3, <1>4, <1>5, <1>6, <1>7, <1>8, <1>9, <1>10
  DEF Next, Operator, Handlers

(* A command that asks for start and stop at once is never given by the    *)
(* GUI thread, only by a job whose unlocked copy of send_msg spans writes  *)
(* of the GUI thread.                                                      *)
THEOREM OnlyJobsMixCorrect == Spec => OnlyJobsMix
<1>1. Init => GuiMixes
  BY DEF Init, NoMsg, GuiMixes, Both
<1>2. TypeOK /\ GuiMixes /\ [Next]_vars
        => ((\E m \in Copies' \ Copies : Both(m)) => JobPosts)
  <2> SUFFICES ASSUME TypeOK, GuiMixes, [Next]_vars,
                      NEW m \in Copies', m \notin Copies, Both(m)
               PROVE  JobPosts
    OBVIOUS
  <2>a. send_msg \in Msg /\ posted \in Seq(Msg) /\ jobs \in Seq(Job)
    BY DEF TypeOK
  <2>b. ~(UNCHANGED posted /\ sender_msg' = sender_msg /\ wire' \in {wire, sender_msg})
    BY DEF Copies
  <2>c. ASSUME UNCHANGED <<posted, wire>>, sender_msg' \in {send_msg, send_msg'}
        PROVE  m \in {send_msg, send_msg'}
    BY <2>c DEF Copies
  <2>1. CASE StartPlan \/ StartWrite \/ EndWriteStop \/ EndWriteRest \/ CloseWindow \/ Quit
    BY <2>1, <2>b
    DEF StartPlan, StartWrite, EndWriteStop, EndWriteRest, CloseWindow, Quit, senderVars
  <2>2. CASE DoorClick \/ DoorRelease
    BY <2>2, <2>b DEF DoorClick, DoorRelease, senderVars
  <2>3. CASE StartEmit \/ DoorEmit \/ DoorReleased \/ EndEmit
    BY <2>3, <2>c
    DEF StartEmit, DoorEmit, DoorReleased, EndEmit, EmitDirect, senderVars, GuiMixes
  <2>4. CASE ExitApp
    BY <2>4, <2>a, <2>c, RequestsMix DEF ExitApp, EmitDirect, senderVars, GuiMixes
  <2>5. CASE Returns \/ EmergencyClick \/ ParkClick \/ EndClick
    BY <2>5, <2>b
    DEF Returns, EmergencyDone, ParkDone, EndLeave, EmergencyClick, ParkClick, EndClick, senderVars
  <2>6. CASE DeliverPosted
    <3>1. /\ posted # <<>> /\ sender_msg' = Head(posted) /\ posted' = Tail(posted)
          /\ UNCHANGED wire
      BY <2>6 DEF DeliverPosted, senderVars
    <3>2. Len(posted) \in Nat \ {0} /\ DOMAIN posted = 1..Len(posted)
      BY <2>a, <3>1, EmptySeq, LenProperties
    <3>3. sender_msg' = posted[1] /\ 1 \in DOMAIN posted
      BY <2>a, <3>1, <3>2
    <3>4. DOMAIN posted' = 1..(Len(posted) - 1)
      BY <2>a, <3>1, HeadTailProperties, LenProperties
    <3>5. \A i \in DOMAIN posted' : posted'[i] = posted[i + 1] /\ i + 1 \in DOMAIN posted
      BY <2>a, <3>1, <3>2, <3>4, HeadTailProperties
    <3>6. Copies' \subseteq Copies
      BY <3>1, <3>3, <3>5 DEF Copies
    <3> QED
      BY <3>6
  <2>7. CASE UpdateUI \/ SenderTurn \/ Environment
    BY <2>7, <2>b
    DEF UpdateUI, SenderTurn, Environment, VehicleDrives, VehicleStops, LinkLost, senderVars
  <2>8. ASSUME NEW j \in DOMAIN jobs, JobStep(j) PROVE JobPosts
    <3>1. CASE JobBegin(j) \/ JobCheck(j) \/ JobSet(j) \/ JobEmit(j) \/ JobPoll(j)
      BY <3>1, <2>b DEF JobBegin, JobCheck, JobSet, JobEmit, JobPoll, senderVars
    <3>2. CASE JobPost(j)
      <4> DEFINE copy == [send_msg EXCEPT !.start = (jobs[j].pc = "postStart")]
      <4>1. /\ posted' = Append(posted, copy) /\ UNCHANGED <<sender_msg, wire>>
            /\ Goto(j, "poll")
        BY <3>2 DEF JobPost, senderVars
      <4>2. copy \in Msg
        <5>1. (jobs[j].pc = "postStart") \in BOOLEAN
          OBVIOUS
        <5> QED
          BY <2>a, <5>1, Requests
      <4>3. /\ Len(posted) \in Nat /\ DOMAIN posted = 1..Len(posted)
            /\ DOMAIN posted' = 1..(Len(posted) + 1)
            /\ \A i \in 1..Len(posted) : posted'[i] = posted[i]
            /\ posted'[Len(posted) + 1] = copy
        <5> HIDE DEF copy
        <5>1. posted' \in Seq(Msg) /\ Len(posted') = Len(posted) + 1
          BY <2>a, <4>1, <4>2, AppendProperties
        <5> QED
          BY <2>a, <4>1, <4>2, <5>1, AppendProperties, LenProperties
      <4>4. m = copy
        <5> HIDE DEF copy
        <5> QED
          BY <4>1, <4>3 DEF Copies
      <4>5. copy.start = (jobs[j].pc = "postStart")
        BY <2>a, Zenon DEF Msg
      <4>6. jobs[j].pc = "postStart"
        BY <4>4, <4>5 DEF Both
      <4>7. jobs'[j].pc = "poll"
        BY <2>a, <4>1, GotoProperties DEF JobPC
      <4> QED
        BY <4>6, <4>7 DEF JobPosts
    <3> QED
      BY <2>8, <3>1, <3>2 DEF JobStep
  <2>9. CASE UNCHANGED vars
    BY <2>9, <2>b DEF vars
  <2> QED
    BY <2>1, <2>2, <2>3, <2>4, <2>5, <2>6, <2>7, <2>8, <2>9 DEF Next, Operator, Handlers
<1> QED
  BY <1>1, <1>2, TypeCorrect, GuiMixesStep, PTL DEF Spec, OnlyJobsMix

-----------------------------------------------------------------------------
(* While an emergency stop waits the only steps are its own end, steps of  *)
(* jobs, deliveries and the environment: no other handler can move.        *)
LEMMA EmergencyBlocks ==
  ASSUME HandlersInv, EmergencyWaits
  PROVE  /\ ~Operator /\ ~Handlers /\ ~ParkDone /\ ~EndLeave
         /\ EmergencyDone => Len(stack') < Len(stack)
<1>1. gui = "loop" /\ panel = "drive" /\ disabled = Buttons /\ stack # <<>>
  BY EmergencyOnTop DEF HandlersInv, EmergencyWaits
<1>2. ~Operator
  BY <1>1 DEF Operator, StartPlan, EmergencyClick, ParkClick, DoorClick, EndClick,
              ExitApp, Clickable, Buttons
<1>3. ~Handlers
  BY <1>1 DEF Handlers, StartWrite, StartEmit, DoorEmit, DoorRelease, DoorReleased,
              EndWriteStop, EndWriteRest, EndEmit, CloseWindow, Quit
<1>4. ~ParkDone
  BY DEF ParkDone, Leaves, EmergencyWaits
<1>5. ~EndLeave
  BY DEF EndLeave, Leaves, EmergencyWaits
<1>6. ASSUME EmergencyDone PROVE Len(stack') < Len(stack)
  <2>1. stack \in Seq(Frame) /\ stack' = SubSeq(stack, 1, Len(stack) - 1)
    BY <1>6 DEF EmergencyDone, Leaves, Pop, HandlersInv, TypeOK
  <2>2. Len(stack) \in Nat /\ Len(stack') = Len(stack) - 1
    BY <1>1, <2>1, PopProperties, LenProperties
  <2> QED
    BY <2>2
<1> QED
  BY <1>2, <1>3, <1>4, <1>5, <1>6

(* Once an emergency request is in force and no job or queued event is left*)
(* that could write over it, it stays in force until its handler returns.  *)
THEOREM EmergencyStaysCorrect == Spec => EmergencyStays
<1>1. HandlersInv /\ [Next]_vars
        => (EmergencyInForce => EmergencyInForce' \/ Len(stack') < Len(stack))
  <2> SUFFICES ASSUME HandlersInv, [Next]_vars, EmergencyInForce
               PROVE  EmergencyInForce' \/ Len(stack') < Len(stack)
    OBVIOUS
  <2>a. /\ EmergencyWaits /\ sender_msg.scenario = 1 /\ posted = <<>>
        /\ \A j \in DOMAIN jobs : jobs[j].pc \in {"poll", "done"}
        /\ jobs \in Seq(Job)
    BY DEF EmergencyInForce, HandlersInv, TypeOK
  <2>b. ASSUME UNCHANGED <<stack, sender_msg, posted>>,
               \A j \in DOMAIN jobs' : jobs'[j].pc \in {"poll", "done"}
        PROVE  EmergencyInForce'
    BY <2>a, <2>b DEF EmergencyInForce, EmergencyWaits, Top
  <2>1. CASE Operator \/ Returns \/ Handlers
    BY <2>1, <2>a, EmergencyBlocks DEF Returns
  <2>2. CASE DeliverPosted
    BY <2>2, <2>a DEF DeliverPosted
  <2>3. CASE UpdateUI \/ SenderTurn
    BY <2>3, <2>a, <2>b DEF UpdateUI, SenderTurn, guiVars
  <2>4. ASSUME NEW j \in DOMAIN jobs, JobStep(j) PROVE EmergencyInForce'
    <3>1. JobPoll(j)
      BY <2>a, <2>4 DEF JobStep, JobBegin, JobCheck, JobSet, JobEmit, JobPost, Posting
    <3>2. /\ DOMAIN jobs' = DOMAIN jobs /\ jobs'[j].pc = "done"
          /\ \A i \in DOMAIN jobs : i # j => jobs'[i] = jobs[i]
      BY <2>a, <3>1, GotoProperties DEF JobPoll, JobPC
    <3> QED
      BY <2>a, <2>b, <3>1, <3>2 DEF JobPoll, guiVars
  <2>5. CASE Environment
    BY <2>5, <2>a, <2>b DEF Environment, VehicleDrives, VehicleStops, LinkLost, guiVars
  <2>6. CASE UNCHANGED vars
    BY <2>6, <2>a, <2>b DEF vars
  <2> QED
    BY <2>1, <2>2, <2>3, <2>4, <2>5, <2>6 DEF Next
<1>2. Init /\ TypeOK => HandlersInv
  BY DEF Init, HandlersInv, EmergencyIsLast, ButtonsComeBack, EmergencyWaits
<1> QED
  BY <1>1, <1>2, TypeCorrect, HandlersStep, PTL DEF Spec, EmergencyStays

(* What the pulse relies on: nothing that runs beside the GUI thread       *)
(* changes the door request it has written or the speed it has checked.    *)
DoorInv ==
  /\ gui \in {"closing", "door"} => ~moving /\ send_msg.door
  /\ gui = "door" => sender_msg.door

(* The door is closed only on a vehicle last seen standing, and the request*)
(* is in force for the whole pulse.                                        *)
THEOREM DoorPulseCorrect == Spec => []DoorPulseStands
<1>1. Init => DoorInv
  BY DEF Init, DoorInv
<1>2. TypeOK /\ DoorInv /\ [Next]_vars => DoorInv'
  <2> SUFFICES ASSUME TypeOK, DoorInv, [Next]_vars PROVE DoorInv'
    OBVIOUS
  <2>1. CASE DoorClick
    <3>1. send_msg'.door = TRUE
      BY <2>1, Zenon DEF DoorClick, DoorRequest, TypeOK, Msg
    <3> QED
      BY <2>1, <3>1 DEF DoorClick, DoorAllowed, DoorInv, vehicleVars
  <2>2. CASE DoorEmit
    BY <2>2 DEF DoorEmit, EmitDirect, DoorInv, vehicleVars
  <2>3. CASE StartPlan \/ EmergencyClick \/ ParkClick \/ EndClick \/ ExitApp \/ Returns
    BY <2>3 DEF StartPlan, EmergencyClick, ParkClick, EndClick, ExitApp, Clickable,
       Returns, EmergencyDone, ParkDone, EndLeave, Leaves, DoorInv
  <2>4. CASE \/ StartWrite \/ StartEmit \/ DoorRelease \/ DoorReleased
             \/ EndWriteStop \/ EndWriteRest \/ EndEmit \/ CloseWindow \/ Quit
    BY <2>4 DEF StartWrite, StartEmit, DoorRelease, DoorReleased, EndWriteStop,
       EndWriteRest, EndEmit, CloseWindow, Quit, DoorInv
  <2>5. CASE DeliverPosted \/ UpdateUI
    BY <2>5 DEF DeliverPosted, UpdateUI, guiVars, DoorInv
  <2>6. ASSUME NEW j \in DOMAIN jobs, JobStep(j) PROVE DoorInv'
    <3>1. UNCHANGED <<gui, moving, sender_msg>>
      BY <2>6 DEF JobStep, JobBegin, JobCheck, JobSet, JobEmit, JobPost, JobPoll,
                  guiVars, vehicleVars
    <3>2. send_msg'.door = send_msg.door
      <4>1. CASE JobSet(j)
        BY <4>1, Zenon DEF JobSet, TypeOK, Msg
      <4>2. CASE JobBegin(j) \/ JobCheck(j) \/ JobEmit(j) \/ JobPost(j) \/ JobPoll(j)
        BY <4>2 DEF JobBegin, JobCheck, JobEmit, JobPost, JobPoll
      <4> QED
        BY <2>6, <4>1, <4>2 DEF JobStep
    <3> QED
      BY <3>1, <3>2 DEF DoorInv
  <2>7. CASE SenderTurn \/ Environment
    BY <2>7 DEF SenderTurn, Environment, VehicleDrives, VehicleStops, LinkLost,
                guiVars, vehicleVars, DoorInv
  <2>8. CASE UNCHANGED vars
    BY <2>8 DEF vars, DoorInv
  <2> QED
    BY <2>1, <2>2, <2>3, <2>4, <2>5, <2>6, <2>7, <2>8 DEF Next, Operator, Handlers
<1>3. DoorInv => DoorPulseStands
  BY DEF DoorInv, DoorPulseStands
<1> QED
  BY <1>1, <1>2, <1>3, TypeCorrect, PTL DEF Spec
-----------------------------------------------------------------------------
(* What a waiting handler waits for exists: its own job, and for a         *)
(* pull-over the job of the last one.                                      *)
JobsInv ==
  \A i \in DOMAIN stack :
    /\ stack[i].job \in 1..Len(jobs)
    /\ stack[i].fn = "park" => future2 \in 1..Len(jobs)

(* Steps that start no handler, and those that start one.                  *)
LEMMA JobsRemain ==
  ASSUME JobsInv, jobs \in Seq(Job), Len(jobs') \in Nat, Len(jobs) <= Len(jobs'),
         \A i \in DOMAIN stack' : i \in DOMAIN stack /\ stack'[i] = stack[i],
         UNCHANGED future2
  PROVE  JobsInv'
<1>1. 1..Len(jobs) \subseteq 1..Len(jobs')
  BY LenProperties
<1> QED
  BY <1>1 DEF JobsInv

LEMMA JobsClick ==
  ASSUME TypeOK, JobsInv, NEW fn \in Waiting, NEW buttons, RunAndWait(fn, buttons),
         future2' = (IF fn = "park" THEN Len(jobs) + 1 ELSE future2)
  PROVE  JobsInv'
<1>1. stack \in Seq(Frame) /\ jobs \in Seq(Job) /\ Len(jobs) \in Nat /\ Len(stack) \in Nat
  BY LenProperties DEF TypeOK
<1> DEFINE f == [fn |-> fn, job |-> Len(jobs) + 1]
           j == [fn |-> fn, pc |-> "queued"]
<1>2. f \in Frame /\ j \in Job /\ f.job = Len(jobs) + 1 /\ f.fn = fn
  BY <1>1 DEF Frame, Job, JobPC
<1>3. stack' = Append(stack, f) /\ jobs' = Append(jobs, j)
  BY DEF RunAndWait
<1> HIDE DEF f, j
<1>4. Len(jobs') = Len(jobs) + 1
  BY <1>1, <1>2, <1>3, AppendProperties
<1>5. /\ DOMAIN stack = 1..Len(stack) /\ DOMAIN stack' = 1..(Len(stack) + 1)
      /\ \A i \in 1..Len(stack) : stack'[i] = stack[i]
      /\ stack'[Len(stack) + 1] = f
  <2>1. stack' \in Seq(Frame) /\ Len(stack') = Len(stack) + 1
    BY <1>1, <1>2, <1>3, AppendProperties
  <2> QED
    BY <1>1, <1>2, <1>3, <2>1, AppendProperties, LenProperties
<1>6. ASSUME NEW i \in DOMAIN stack'
      PROVE  /\ stack'[i].job \in 1..(Len(jobs) + 1)
             /\ stack'[i].fn = "park" => future2' \in 1..(Len(jobs) + 1)
  <2>1. CASE i \in 1..Len(stack)
    BY <1>1, <1>5, <2>1 DEF JobsInv
  <2>2. CASE i = Len(stack) + 1
    BY <1>1, <1>2, <1>5, <2>2
  <2> QED
    BY <1>1, <1>5, <2>1, <2>2
<1> QED
  BY <1>4, <1>6 DEF JobsInv

LEMMA JobsStep == TypeOK /\ JobsInv /\ [Next]_vars => JobsInv'
<1> SUFFICES ASSUME TypeOK, JobsInv, [Next]_vars PROVE JobsInv'
  OBVIOUS
<1> USE DEF guiVars
<1>a. stack \in Seq(Frame) /\ jobs \in Seq(Job) /\ Len(jobs) \in Nat
  BY LenProperties DEF TypeOK
<1>b. ASSUME UNCHANGED <<stack, jobs, future2>> PROVE JobsInv'
  BY <1>b DEF JobsInv
<1>1. CASE EmergencyClick
  BY <1>1, JobsClick DEF EmergencyClick, Waiting
<1>2. CASE ParkClick
  BY <1>2, JobsClick DEF ParkClick, Waiting
<1>3. CASE EndClick
  BY <1>3, JobsClick DEF EndClick, Waiting
<1>4. CASE Returns
  <2>1. stack # <<>> /\ stack' = Pop /\ UNCHANGED <<jobs, future2>>
    BY <1>4 DEF Returns, EmergencyDone, ParkDone, EndLeave, Leaves
  <2>2. \A i \in DOMAIN stack' : i \in DOMAIN stack /\ stack'[i] = stack[i]
    <3>1. Len(stack) \in Nat \ {0} /\ DOMAIN stack = 1..Len(stack)
      BY <1>a, <2>1, EmptySeq, LenProperties
    <3>2. /\ stack' \in Seq(Frame) /\ Len(stack') = Len(stack) - 1
          /\ \A i \in 1..(Len(stack) - 1) : stack'[i] = stack[i]
      BY <1>a, <2>1, PopProperties DEF Pop
    <3>3. DOMAIN stack' = 1..(Len(stack) - 1)
      BY <3>2, LenProperties
    <3> QED
      BY <3>1, <3>2, <3>3
  <2> QED
    BY <1>a, <2>1, <2>2, JobsRemain
<1>5. CASE StartPlan \/ DoorClick \/ ExitApp
  BY <1>5, <1>b DEF StartPlan, DoorClick, ExitApp
<1>6. CASE Handlers
  BY <1>6, <1>b DEF Handlers, StartWrite, StartEmit, DoorEmit, DoorRelease, DoorReleased,
                    EndWriteStop, EndWriteRest, EndEmit, CloseWindow, Quit
<1>7. CASE DeliverPosted \/ UpdateUI \/ SenderTurn \/ Environment
  BY <1>7, <1>b DEF DeliverPosted, UpdateUI, SenderTurn, Environment, VehicleDrives,
                    VehicleStops, LinkLost
<1>8. ASSUME NEW j \in DOMAIN jobs, JobStep(j) PROVE JobsInv'
  <2>1. UNCHANGED guiVars /\ \E pc \in JobPC : Goto(j, pc)
    BY <1>8 DEF JobStep, JobBegin, JobCheck, JobSet, JobEmit, JobPost, JobPoll, JobPC
  <2>2. Len(jobs') = Len(jobs)
    BY <1>a, <2>1, GotoProperties
  <2> QED
    BY <1>a, <2>1, <2>2, JobsRemain
<1>9. CASE UNCHANGED vars
  BY <1>9, <1>b DEF vars
<1> QED
  BY <1>1, <1>2, <1>3, <1>4, <1>5, <1>6, <1>7, <1>8, <1>9 DEF Next, Operator

(* While jobs are left one of them may go on, if no job polls in vain: a   *)
(* running one, or else the oldest one in the queue, for no thread of the  *)
(* pool is taken.                                                          *)
LEMMA SomeJobGoesOn ==
  ASSUME jobs \in Seq(Job), Standing, NEW k \in DOMAIN jobs, jobs[k].pc # "done"
  PROVE  \E j \in DOMAIN jobs : CanGoOn(j)
<1>1. \A j \in DOMAIN jobs : j \in Nat \ {0} /\ jobs[j].pc \in JobPC
  <2>1. DOMAIN jobs = 1..Len(jobs) /\ Len(jobs) \in Nat
    BY LenProperties
  <2>2. \A j \in DOMAIN jobs : jobs[j] \in Job
    BY <2>1, ElementOfSeq
  <2> QED
    BY <2>1, <2>2 DEF Job
<1>2. CASE Busy # {}
  <2>1. PICK j \in DOMAIN jobs : jobs[j].pc \notin {"queued", "done"}
    BY <1>2 DEF Busy
  <2> QED
    BY <1>1, <2>1 DEF CanGoOn, Posting, JobPC
<1>3. CASE Busy = {}
  <2> DEFINE Q == {j \in DOMAIN jobs : jobs[j].pc = "queued"}
  <2>1. k \in Q /\ Q \subseteq Nat
    BY <1>1, <1>3 DEF Busy
  <2>2. PICK j \in Q : \A i \in Q : <<i, j>> \notin OpToRel(<, Nat)
    BY <2>1, NatLessThanWellFounded, WFMin
  <2>3. \A i \in Q : ~(i < j)
    BY <2>1, <2>2 DEF OpToRel
  <2>4. \A i \in 1..(j - 1) : jobs[i].pc # "queued"
    <3> SUFFICES ASSUME NEW i \in 1..(j - 1), jobs[i].pc = "queued" PROVE FALSE
      OBVIOUS
    <3>1. DOMAIN jobs = 1..Len(jobs) /\ Len(jobs) \in Nat /\ j \in 1..Len(jobs)
      BY LenProperties
    <3>2. i \in DOMAIN jobs /\ i < j
      BY <3>1
    <3> QED
      BY <2>3, <3>2
  <2>5. Cardinality(Busy) < PoolSize
    BY <1>3, PoolAssumption, FS_EmptySet
  <2> QED
    BY <2>4, <2>5 DEF CanGoOn, CanBegin
<1> QED
  BY <1>2, <1>3

(* No circle of handlers, jobs and pool threads waits for itself, for any  *)
(* number of threads and any nesting of handlers.                          *)
THEOREM WaitsCanEndCorrect == Spec => []WaitsCanEnd
<1>1. HandlersInv /\ JobsInv => WaitsCanEnd
  <2> SUFFICES ASSUME HandlersInv, JobsInv, gui = "loop", stack # <<>>, ~moving
               PROVE  /\ Awaited \in DOMAIN jobs
                      /\ jobs[Awaited].pc = "done" \/ \E j \in DOMAIN jobs : CanGoOn(j)
    BY DEF WaitsCanEnd
  <2>1. stack \in Seq(Frame) /\ jobs \in Seq(Job) /\ DOMAIN jobs = 1..Len(jobs)
    BY LenProperties DEF HandlersInv, TypeOK
  <2>2. Len(stack) \in DOMAIN stack
    BY <2>1, EmptySeq, LenProperties
  <2>3. Top.job \in DOMAIN jobs /\ (Top.fn = "park" => future2 \in DOMAIN jobs)
    BY <2>1, <2>2 DEF JobsInv, Top
  <2>4. Top.fn = "emergency" => future1 \in DOMAIN jobs
    BY <2>2, <2>3 DEF HandlersInv, EmergencyIsLast, Top
  <2>5. Awaited \in DOMAIN jobs
    BY <2>3, <2>4 DEF Awaited
  <2> QED
    BY <2>1, <2>5, SomeJobGoesOn DEF Standing
<1>2. Init => JobsInv
  BY EmptySeq DEF Init, JobsInv
<1>3. Init /\ TypeOK => HandlersInv
  BY DEF Init, HandlersInv, EmergencyIsLast, ButtonsComeBack, EmergencyWaits
<1> QED
  BY <1>1, <1>2, <1>3, TypeCorrect, HandlersStep, JobsStep, PTL DEF Spec

-----------------------------------------------------------------------------
(* What the end handler has written stays in send_msg until it is emitted: *)
(* jobs that run beside it write the scenario only.                        *)
StopInv ==
  /\ gui \in {"writing", "stopping"} => send_msg.stop
  /\ gui = "stopping" => ~send_msg.start

LEMMA StopStep == TypeOK /\ StopInv /\ [Next]_vars => StopInv'
<1> SUFFICES ASSUME TypeOK, StopInv, [Next]_vars PROVE StopInv'
  OBVIOUS
<1> USE DEF guiVars
<1>a. send_msg \in Msg
  BY DEF TypeOK
<1>b. ASSUME gui' \notin {"writing", "stopping"} PROVE StopInv'
  BY <1>b DEF StopInv
<1>c. ASSUME UNCHANGED gui, send_msg'.stop = send_msg.stop, send_msg'.start = send_msg.start
      PROVE  StopInv'
  BY <1>c DEF StopInv
<1>1. CASE Operator \/ Returns
  BY <1>1, <1>b DEF Operator, StartPlan, EmergencyClick, ParkClick, DoorClick, EndClick,
     ExitApp, Clickable, Returns, EmergencyDone, ParkDone, EndLeave, Leaves
<1>2. CASE \/ StartWrite \/ StartEmit \/ DoorEmit \/ DoorRelease \/ DoorReleased
           \/ EndEmit \/ CloseWindow \/ Quit
  BY <1>2, <1>b DEF StartWrite, StartEmit, DoorEmit, DoorRelease, DoorReleased, EndEmit,
     CloseWindow, Quit
<1>3. CASE EndWriteStop
  <2>1. send_msg' = [send_msg EXCEPT !.stop = TRUE] /\ gui' = "writing"
    BY <1>3 DEF EndWriteStop, EndStop
  <2>2. send_msg'.stop
    BY <1>a, <2>1, Zenon DEF Msg
  <2> QED
    BY <2>1, <2>2 DEF StopInv
<1>4. CASE EndWriteRest
  <2>1. gui = "writing" /\ send_msg' = StopRequest(send_msg)
    BY <1>4 DEF EndWriteRest
  <2>2. send_msg'.stop = send_msg.stop /\ send_msg'.start = FALSE
    BY <1>a, <2>1, Zenon DEF Msg, StopRequest
  <2> QED
    BY <2>1, <2>2 DEF StopInv
<1>5. CASE DeliverPosted \/ UpdateUI \/ SenderTurn \/ Environment
  BY <1>5, <1>c DEF DeliverPosted, UpdateUI, SenderTurn, Environment, VehicleDrives,
                    VehicleStops, LinkLost
<1>6. ASSUME NEW j \in DOMAIN jobs, JobStep(j) PROVE StopInv'
  <2>1. CASE JobSet(j)
    <3>1. send_msg'.stop = send_msg.stop /\ send_msg'.start = send_msg.start
      BY <1>a, <2>1, Zenon DEF JobSet, Msg
    <3> QED
      BY <1>c, <2>1, <3>1 DEF JobSet
  <2>2. CASE JobBegin(j) \/ JobCheck(j) \/ JobEmit(j) \/ JobPost(j) \/ JobPoll(j)
    BY <1>c, <2>2 DEF JobBegin, JobCheck, JobEmit, JobPost, JobPoll
  <2> QED
    BY <1>6, <2>1, <2>2 DEF JobStep
<1>7. CASE UNCHANGED vars
  BY <1>7, <1>c DEF vars
<1> QED
  BY <1>1, <1>2, <1>3, <1>4, <1>5, <1>6, <1>7 DEF Next, Handlers

(* The way from driving back to planning leads through a stop request that *)
(* the sender holds.                                                       *)
THEOREM LeavingStopsCorrect == Spec => LeavingStops
<1>1. Init => StopInv
  BY DEF Init, StopInv
<1>2. TypeOK /\ StopInv /\ [Next]_vars
        => (panel = "drive" /\ panel' = "plan" => sender_msg'.stop /\ ~sender_msg'.start)
  <2> SUFFICES ASSUME StopInv, [Next]_vars, panel = "drive", panel' = "plan"
               PROVE  sender_msg'.stop /\ ~sender_msg'.start
    OBVIOUS
  <2> USE DEF guiVars
  <2>1. panel' # panel
    OBVIOUS
  <2>2. ~Operator /\ ~Returns
    BY <2>1 DEF Operator, StartPlan, EmergencyClick, ParkClick, DoorClick, EndClick, ExitApp,
                Returns, EmergencyDone, ParkDone, EndLeave
  <2>3. ~DeliverPosted /\ ~UpdateUI /\ ~SenderTurn /\ ~Environment
    BY <2>1 DEF DeliverPosted, UpdateUI, SenderTurn, Environment, VehicleDrives, VehicleStops,
                LinkLost
  <2>4. \A j \in DOMAIN jobs : ~JobStep(j)
    BY <2>1 DEF JobStep, JobBegin, JobCheck, JobSet, JobEmit, JobPost, JobPoll
  <2>5. ~UNCHANGED vars
    BY <2>1 DEF vars
  <2>6. Handlers
    BY <2>2, <2>3, <2>4, <2>5 DEF Next
  <2>7. EndEmit
    BY <2>1, <2>6 DEF Handlers, StartWrite, StartEmit, DoorEmit, DoorRelease, DoorReleased,
                      EndWriteStop, EndWriteRest, CloseWindow, Quit
  <2> QED
    BY <2>7 DEF EndEmit, EmitDirect, StopInv
<1> QED
  BY <1>1, <1>2, TypeCorrect, StopStep, PTL DEF Spec, LeavingStops
=============================================================================
