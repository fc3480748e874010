--------------------------- MODULE DeskTimingProofs ---------------------------
(***************************************************************************)
(* Proofs about DeskTiming, for every length of the sleeps, every number   *)
(* of losses in a row and every bound, under the two named assumptions.    *)
(***************************************************************************)
EXTENDS DeskTiming, Integers, SequenceTheorems, TLAPS

(* The constants as the proofs use them.                                   *)
LEMMA Durations ==
  /\ BarTime \in Nat /\ EndTime \in Nat /\ PauseTime \in Nat /\ ExitTime \in Nat
  /\ TurnTime \in Nat /\ Jitter \in Nat /\ MaxLost \in Nat /\ MaxRow \in Nat
  /\ MaxPosted \in Nat /\ MaxEnds \in Nat
  /\ MaxTurn \in Nat /\ TurnTime <= MaxTurn /\ Longest \in Nat
BY DurationAssumption DEF MaxTurn, Longest, Progress

(* What a delivery does to the sender's buffer and to what has arrived.    *)
LEMMA EmitTypes ==
  ASSUME heard \subseteq sender_msg, NEW msg \in SUBSET Requests, Emit(msg)
  PROVE  sender_msg' \subseteq Requests /\ heard' \subseteq sender_msg'
BY DEF Emit

-----------------------------------------------------------------------------
LEMMA InitType == Init => TypeOK
<1> SUFFICES ASSUME Init PROVE TypeOK
  OBVIOUS
<1>1. posted \in Seq(SUBSET Requests)
  BY EmptySeq DEF Init
<1> QED
  BY <1>1, Durations DEF Init, TypeOK, Holding

LEMMA StepType == TypeOK /\ [Next]_vars => TypeOK'
<1> SUFFICES ASSUME TypeOK, [Next]_vars PROVE TypeOK'
  OBVIOUS
<1> USE Durations
<1>1. CASE StartClick
  BY <1>1 DEF TypeOK, StartClick, TakesClick, OneMore, Hold, Progress, wireVars, Holding, Requests
<1>2. CASE StartEmit
  <2>1. sender_msg' \subseteq Requests /\ heard' \subseteq sender_msg'
    BY <1>2, EmitTypes DEF TypeOK, StartEmit
  <2> QED
    BY <1>2, <2>1 DEF TypeOK, StartEmit, feedVars, Holding
<1>3. CASE DoorClick
  <2>1. send_msg' \subseteq Requests
    BY <1>3 DEF TypeOK, DoorClick, Requests
  <2>2. sender_msg' \subseteq Requests /\ heard' \subseteq sender_msg'
    BY <1>3, <2>1 DEF TypeOK, DoorClick, Emit
  <2> QED
    BY <1>3, <2>1, <2>2 DEF TypeOK, DoorClick, TakesClick, OneMore, Hold, Progress, wireVars, Holding
<1>4. CASE DoorRelease
  <2>1. send_msg' \subseteq Requests
    BY <1>4 DEF TypeOK, DoorRelease
  <2>2. sender_msg' \subseteq Requests /\ heard' \subseteq sender_msg'
    BY <1>4, <2>1 DEF TypeOK, DoorRelease, Emit
  <2> QED
    BY <1>4, <2>1, <2>2 DEF TypeOK, DoorRelease, wireVars, feedVars, Holding
<1>5. CASE EndClick
  BY <1>5 DEF TypeOK, EndClick, TakesClick, OneMore, WaitForJob, wireVars
<1>6. CASE EndLeave
  BY <1>6 DEF TypeOK, EndLeave, OneMore, Hold, Progress, wireVars, Holding
<1>7. CASE EndEmit
  <2>1. send_msg' \subseteq Requests
    BY <1>7 DEF TypeOK, EndEmit, StopRequest, Requests
  <2>2. sender_msg' \subseteq Requests /\ heard' \subseteq sender_msg'
    BY <1>7, <2>1 DEF TypeOK, EndEmit, Emit
  <2> QED
    BY <1>7, <2>1, <2>2 DEF TypeOK, EndEmit, Hold, wireVars, feedVars
<1>8. CASE EndReturn
  BY <1>8 DEF TypeOK, EndReturn, LoopOrQuit, wireVars, feedVars
<1>9. CASE ExitClick
  <2>1. send_msg' \subseteq Requests
    BY <1>9 DEF TypeOK, ExitClick, Requests
  <2>2. sender_msg' \subseteq Requests /\ heard' \subseteq sender_msg'
    BY <1>9, <2>1 DEF TypeOK, ExitClick, Emit
  <2> QED
    BY <1>9, <2>1, <2>2 DEF TypeOK, ExitClick, TakesClick, OneMore, Hold, wireVars, Holding
<1>10. CASE CloseWindow
  BY <1>10 DEF TypeOK, CloseWindow, LoopOrQuit, wireVars, feedVars
<1>11. CASE JobEmits
  <2>1. posted' \in Seq(SUBSET Requests)
    BY <1>11, AppendProperties DEF TypeOK, JobEmits
  <2> QED
    BY <1>11, <2>1 DEF TypeOK, JobEmits, guiVars, wireVars, feedVars
<1>12. CASE DeliverPosted
  <2>1. posted' \in Seq(SUBSET Requests) /\ Head(posted) \in SUBSET Requests
    BY <1>12, HeadTailProperties DEF TypeOK, DeliverPosted
  <2>2. sender_msg' \subseteq Requests /\ heard' \subseteq sender_msg'
    BY <1>12, <2>1 DEF TypeOK, DeliverPosted, Emit
  <2> QED
    BY <1>12, <2>1, <2>2 DEF TypeOK, DeliverPosted, guiVars, wireVars, feedVars
<1>13. CASE UpdateUI
  BY <1>13 DEF TypeOK, UpdateUI, guiVars, wireVars
<1>14. CASE SenderTurn
  BY <1>14 DEF TypeOK, SenderTurn, guiVars, feedVars
<1>15. CASE ReceiveTurn
  BY <1>15 DEF TypeOK, ReceiveTurn, ReceiveSleep, guiVars, wireVars
<1>16. CASE Tick
  BY <1>16 DEF TypeOK, Tick, After
<1>17. CASE FrameStored
  BY <1>17 DEF TypeOK, FrameStored, guiVars, wireVars
<1>18. CASE UNCHANGED vars
  BY <1>18 DEF TypeOK, vars, guiVars, wireVars, feedVars
<1> QED
  BY <1>1, <1>2, <1>3, <1>4, <1>5, <1>6, <1>7, <1>8, <1>9, <1>10, <1>11, <1>12, <1>13, <1>14,
     <1>15, <1>16, <1>17, <1>18 DEF Next, Clicks, Handlers, Threads

(* Every variable of the desk keeps its type; the sender's and the receive *)
(* thread's turns are never overdue.                                       *)
THEOREM TypeCorrect == Spec => []TypeOK
  BY InitType, StepType, PTL DEF Spec

-----------------------------------------------------------------------------
(* How long it takes at most until a datagram arrives: the rest of the     *)
(* sender's turn, and a turn for each datagram that may still be lost.     *)
Wait == (MaxTurn - idle) + (MaxLost - lost) * MaxTurn

(* While a handler holds the GUI thread, a request that has not arrived    *)
(* yet arrives before the handler goes on; and the sender runs on a socket.*)
WireInv ==
  /\ gui \in Holding /\ sender = "run" /\ heard # sender_msg => Wait < left
  /\ sender = "run" => send_tag

(* Every handler holds the GUI thread for longer than any wait.            *)
LEMMA WaitIsShort ==
  ASSUME TypeOK
  PROVE  /\ Wait \in Nat
         /\ Wait < BarTime /\ Wait < ExitTime /\ Wait < Progress(EndTime)
<1> USE Durations
<1>1. /\ idle \in Nat /\ idle <= MaxTurn
      /\ lost \in Nat /\ lost <= MaxLost
  BY DEF TypeOK
<1>2. PICK d \in Nat : d = MaxLost - lost /\ d <= MaxLost
  BY <1>1
<1>3. d * MaxTurn \in Nat /\ d * MaxTurn <= MaxLost * MaxTurn
  BY <1>2
<1>4. (MaxLost + 1) * MaxTurn = MaxLost * MaxTurn + MaxTurn /\ MaxLost * MaxTurn \in Nat
  OBVIOUS
<1>5. Wait = (MaxTurn - idle) + d * MaxTurn
  BY <1>2 DEF Wait
<1>6. Wait \in Nat /\ Wait <= (MaxLost + 1) * MaxTurn
  BY <1>1, <1>3, <1>4, <1>5
<1> QED
  BY <1>4, <1>6, PaceAssumption DEF Progress

(* A handler that begins to hold the GUI thread will hold it long enough.  *)
LEMMA HoldIsLong ==
  ASSUME TypeOK, NEW handler, NEW time, Hold(handler, time),
         time \in {BarTime, Progress(0), Progress(EndTime), ExitTime},
         idle' = idle, lost' = lost
  PROVE  Wait' < left'
BY WaitIsShort, Durations DEF Hold, Progress, Wait

LEMMA InitWire == Init => WireInv
BY DEF Init, WireInv, Holding

LEMMA StepWire == TypeOK /\ WireInv /\ [Next]_vars => WireInv'
<1> SUFFICES ASSUME TypeOK, WireInv, [Next]_vars PROVE WireInv'
  OBVIOUS
<1> USE Durations
<1>1. CASE StartClick
  <2>1. Wait' < left'
    BY <1>1, HoldIsLong DEF StartClick, wireVars
  <2> QED
    BY <1>1, <2>1 DEF WireInv, StartClick, wireVars
<1>2. CASE StartEmit
  BY <1>2 DEF WireInv, StartEmit, Holding
<1>3. CASE DoorClick
  <2>1. Wait' < left'
    BY <1>3, HoldIsLong DEF DoorClick, wireVars
  <2> QED
    BY <1>3, <2>1 DEF WireInv, DoorClick, wireVars
<1>4. CASE DoorRelease
  BY <1>4 DEF WireInv, DoorRelease, wireVars, Holding
<1>5. CASE EndClick
  BY <1>5 DEF WireInv, EndClick, TakesClick, WaitForJob, wireVars, Holding
<1>6. CASE EndLeave
  <2>1. Wait' < left'
    BY <1>6, HoldIsLong DEF EndLeave, wireVars
  <2> QED
    BY <1>6, <2>1 DEF WireInv, EndLeave, wireVars
<1>7. CASE EndEmit
  BY <1>7 DEF WireInv, EndEmit, Hold, wireVars, Holding
<1>8. CASE EndReturn
  BY <1>8 DEF WireInv, EndReturn, LoopOrQuit, wireVars, Holding
<1>9. CASE ExitClick
  <2>1. Wait' < left'
    BY <1>9, HoldIsLong DEF ExitClick, wireVars
  <2> QED
    BY <1>9, <2>1 DEF WireInv, ExitClick, wireVars
<1>10. CASE CloseWindow
  BY <1>10 DEF WireInv, CloseWindow, LoopOrQuit, wireVars, Holding
<1>11. CASE JobEmits
  BY <1>11 DEF WireInv, Wait, JobEmits, guiVars, wireVars
<1>12. CASE DeliverPosted
  BY <1>12 DEF WireInv, DeliverPosted, guiVars, wireVars, Holding
<1>13. CASE UpdateUI
  BY <1>13 DEF WireInv, Wait, UpdateUI, guiVars, wireVars
<1>14. CASE SenderTurn
  (* A lost datagram costs one turn and one of the losses that remain.     *)
  <2>1. CASE heard' = sender_msg
    BY <1>14, <2>1 DEF WireInv, SenderTurn
  <2>2. CASE lost < MaxLost /\ lost' = lost + 1 /\ UNCHANGED heard
    <3>1. lost \in Nat /\ lost < MaxLost /\ idle \in Nat /\ idle <= MaxTurn
      BY <2>2 DEF TypeOK
    <3>2. PICK d \in Nat : MaxLost - lost = d + 1
      <4>1. MaxLost - lost - 1 \in Nat
        BY <3>1
      <4> QED
        BY <3>1, <4>1
    <3>3. MaxLost - lost' = d
      BY <2>2, <3>1, <3>2
    <3>4. (d + 1) * MaxTurn = d * MaxTurn + MaxTurn /\ d * MaxTurn \in Nat
      OBVIOUS
    <3>5. Wait' = MaxTurn + d * MaxTurn
      BY <1>14, <3>3, <3>4 DEF Wait, SenderTurn
    <3>6. Wait = (MaxTurn - idle) + d * MaxTurn + MaxTurn
      BY <3>1, <3>2, <3>4 DEF Wait
    <3>7. Wait' <= Wait /\ Wait \in Int /\ Wait' \in Int
      BY <3>1, <3>4, <3>5, <3>6
    <3>8. left \in Nat
      BY DEF TypeOK
    <3> QED
      BY <1>14, <2>2, <3>7, <3>8 DEF WireInv, SenderTurn, guiVars
  <2> QED
    BY <1>14, <2>1, <2>2 DEF SenderTurn
<1>15. CASE ReceiveTurn
  BY <1>15 DEF WireInv, Wait, ReceiveTurn, guiVars, wireVars
<1>16. CASE Tick
  <2>1. gui \in Holding /\ sender = "run" /\ heard # sender_msg => Wait' < left'
    <3> SUFFICES ASSUME gui \in Holding, sender = "run", heard # sender_msg
                 PROVE  Wait' < left'
      OBVIOUS
    <3>1. left \in Nat /\ left > 0 /\ left' = left - 1
      BY <1>16 DEF Tick, After, TypeOK, Holding
    <3>2. idle \in Nat /\ idle' = idle + 1 /\ lost' = lost
      BY <1>16 DEF Tick, TypeOK
    <3>3. Wait' = Wait - 1
      <4>1. PICK k \in Int : k = (MaxLost - lost) * MaxTurn
        BY DEF TypeOK
      <4> QED
        BY <3>2, <4>1 DEF Wait
    <3> QED
      BY <3>1, <3>3, WaitIsShort DEF WireInv
  <2> QED
    BY <1>16, <2>1 DEF WireInv, Tick
<1>17. CASE FrameStored
  BY <1>17 DEF WireInv, Wait, FrameStored, guiVars, wireVars
<1>18. CASE UNCHANGED vars
  BY <1>18 DEF WireInv, Wait, vars, guiVars, wireVars
<1> QED
  BY <1>1, <1>2, <1>3, <1>4, <1>5, <1>6, <1>7, <1>8, <1>9, <1>10, <1>11, <1>12, <1>13, <1>14,
     <1>15, <1>16, <1>17, <1>18 DEF Next, Clicks, Handlers, Threads

LEMMA WireHolds == TypeOK /\ WireInv => HeldIsHeard
BY WaitIsShort DEF WireInv, HeldIsHeard

(* No handler goes on before the vehicle has received what was in force    *)
(* while it held the GUI thread, for every pace of the sender and every    *)
(* run of losses that the assumption allows.                               *)
THEOREM HeldIsHeardCorrect == Spec => []HeldIsHeard
<1>1. TypeOK /\ WireInv /\ [Next]_vars => (TypeOK /\ WireInv)'
  BY StepType, StepWire
<1> QED
  BY <1>1, InitType, InitWire, WireHolds, PTL DEF Spec

-----------------------------------------------------------------------------
(* What the handler that holds the GUI thread has still to sleep.          *)
StillToSleep ==
  CASE gui = "loop" \/ gui = "quit" -> 0
    [] gui = "ending" -> left + PauseTime
    [] OTHER -> left

(* What the receive thread was slow for, and what the GUI thread has still *)
(* to sleep, fits in a turn and a handler's time for each handler that     *)
(* ran; and so does the age of a frame that is not shown.                  *)
FeedInv ==
  /\ receiver = "over" => queued = 0 /\ frame = "none"
  /\ frame = "emitted" => queued > 0
  /\ frame = "stored" => age <= since
  /\ frame = "none" => age = 0
  /\ receiver = "run" => queued * TurnTime + since + StillToSleep <= MaxTurn + row * Longest
  /\ frame # "none" => age + StillToSleep <= MaxTurn + row * Longest

(* One more handler, one more handler's time.                              *)
LEMMA Row ==
  ASSUME TypeOK
  PROVE  /\ row * Longest \in Nat
         /\ (row + 1) * Longest = row * Longest + Longest
         /\ 0 * Longest = 0
         /\ queued * TurnTime \in Nat
         /\ (queued + 1) * TurnTime = queued * TurnTime + TurnTime
         /\ 0 * TurnTime = 0
         /\ StillToSleep \in Nat
<1>1. row \in Nat /\ Longest \in Nat /\ queued \in Nat /\ TurnTime \in Nat
  BY Durations DEF TypeOK
<1>2. StillToSleep \in Nat
  <2>1. left \in Nat /\ left + PauseTime \in Nat
    BY Durations DEF TypeOK
  <2>2. CASE gui = "loop" \/ gui = "quit"
    BY <2>2 DEF StillToSleep
  <2>3. CASE gui = "ending"
    BY <2>1, <2>3 DEF StillToSleep
  <2>4. CASE gui \notin {"loop", "quit", "ending"}
    BY <2>1, <2>4 DEF StillToSleep
  <2> QED
    BY <2>2, <2>3, <2>4
<1> QED
  BY <1>1, <1>2

(* A step that leaves the feed and the sleeps alone.                       *)
LEMMA FeedUnchanged ==
  ASSUME FeedInv, UNCHANGED feedVars, StillToSleep' = StillToSleep
  PROVE  FeedInv'
BY DEF FeedInv, feedVars

(* A handler that starts in an event loop.                                 *)
LEMMA FeedHandler ==
  ASSUME TypeOK, FeedInv, OneMore, NEW time \in Nat, time <= Longest,
         StillToSleep = 0, StillToSleep' = time
  PROVE  FeedInv'
<1>1. since \in Nat /\ age \in Nat /\ row \in Nat
  BY DEF TypeOK
<1>2. CASE receiver = "run"
  <2>1. /\ row' = row + 1 /\ receiver' = receiver /\ queued' = queued /\ since' = since
        /\ frame' = frame /\ age' = age
    BY <1>2 DEF OneMore
  <2>2. PICK p \in Nat : p = row * Longest /\ (row + 1) * Longest = p + Longest
    BY Row
  <2>3. queued * TurnTime + since + time <= MaxTurn + (p + Longest)
    <3>1. queued * TurnTime + since + 0 <= MaxTurn + p
      BY <1>2, <2>2 DEF FeedInv
    <3> QED
      BY <1>1, <2>2, <3>1, Row, Durations
  <2>4. frame # "none" => age + time <= MaxTurn + (p + Longest)
    BY <1>1, <2>2, Durations DEF FeedInv
  <2> QED
    BY <2>1, <2>2, <2>3, <2>4 DEF FeedInv
<1>3. CASE receiver # "run"
  <2>1. receiver = "over" /\ queued = 0 /\ frame = "none"
    BY <1>3 DEF TypeOK, FeedInv
  <2> QED
    BY <1>3, <2>1 DEF FeedInv, OneMore
<1> QED
  BY <1>2, <1>3

LEMMA InitFeed == Init => FeedInv
<1>1. 0 * TurnTime = 0 /\ 0 * Longest = 0
  BY Durations
<1> QED
  BY <1>1, Durations DEF Init, FeedInv, StillToSleep

LEMMA StepFeed == TypeOK /\ FeedInv /\ [Next]_vars => FeedInv'
<1> SUFFICES ASSUME TypeOK, FeedInv, [Next]_vars PROVE FeedInv'
  OBVIOUS
<1> USE Durations
<1>0. left \in Nat
  BY DEF TypeOK
<1>1. CASE StartClick
  <2>1. StillToSleep = 0 /\ StillToSleep' = BarTime
    BY <1>1 DEF StartClick, TakesClick, Hold, Progress, StillToSleep
  <2> QED
    BY <1>1, <2>1, FeedHandler DEF StartClick, TakesClick, Longest, Progress
<1>2. CASE StartEmit
  BY <1>2, FeedUnchanged DEF StartEmit, StillToSleep
<1>3. CASE DoorClick
  <2>1. StillToSleep = 0 /\ StillToSleep' = BarTime
    BY <1>3 DEF DoorClick, TakesClick, Hold, Progress, StillToSleep
  <2> QED
    BY <1>3, <2>1, FeedHandler DEF DoorClick, TakesClick, Longest, Progress
<1>4. CASE DoorRelease
  BY <1>4, FeedUnchanged DEF DoorRelease, StillToSleep
<1>5. CASE EndClick
  <2>1. StillToSleep = 0 /\ StillToSleep' = 0
    BY <1>5 DEF EndClick, TakesClick, WaitForJob, StillToSleep
  <2> QED
    BY <1>5, <2>1, FeedHandler DEF EndClick, TakesClick
<1>6. CASE EndLeave
  <2>1. StillToSleep = 0 /\ StillToSleep' = Longest
    BY <1>6 DEF EndLeave, Hold, StillToSleep, Longest
  <2> QED
    BY <1>6, <2>1, FeedHandler DEF EndLeave
<1>7. CASE EndEmit
  <2>1. StillToSleep = PauseTime /\ StillToSleep' = PauseTime
    BY <1>7 DEF EndEmit, Hold, StillToSleep
  <2> QED
    BY <1>7, <2>1, FeedUnchanged DEF EndEmit
<1>8. CASE EndReturn
  <2>1. StillToSleep = 0 /\ StillToSleep' = 0
    BY <1>8 DEF EndReturn, LoopOrQuit, StillToSleep
  <2> QED
    BY <1>8, <2>1, FeedUnchanged DEF EndReturn
<1>9. CASE ExitClick
  <2>1. StillToSleep = 0 /\ StillToSleep' = ExitTime /\ ExitTime <= Longest
    BY <1>9, PaceAssumption DEF ExitClick, TakesClick, Hold, StillToSleep, Longest, Progress
  <2> QED
    BY <1>9, <2>1, FeedHandler DEF ExitClick, TakesClick
<1>10. CASE CloseWindow
  <2>1. StillToSleep = 0 /\ StillToSleep' = 0
    BY <1>10 DEF CloseWindow, LoopOrQuit, StillToSleep
  <2> QED
    BY <1>10, <2>1, FeedUnchanged DEF CloseWindow
<1>11. CASE JobEmits
  BY <1>11, FeedUnchanged DEF JobEmits, guiVars, StillToSleep
<1>12. CASE DeliverPosted
  BY <1>12, FeedUnchanged DEF DeliverPosted, guiVars, StillToSleep
<1>13. CASE UpdateUI
  <2>1. since \in Nat /\ since <= MaxTurn
    BY DEF TypeOK
  <2>2. StillToSleep' = 0 /\ row' = 0 /\ queued' = 0 /\ since' = since /\ receiver' = receiver
    BY <1>13 DEF UpdateUI, guiVars, StillToSleep
  <2>3. frame' \in {"none", "stored"} /\ (frame' = "stored" => frame = "stored" /\ age' = age)
    BY <1>13 DEF UpdateUI, TypeOK
  <2>4. /\ frame' = "stored" => age' <= since /\ age' \in Nat
        /\ frame' = "none" => age' = 0
    BY <1>13, <2>3 DEF UpdateUI, FeedInv, TypeOK
  <2>5. receiver # "over"
    BY <1>13 DEF UpdateUI, FeedInv
  <2> QED
    BY <2>1, <2>2, <2>3, <2>4, <2>5, Row DEF FeedInv
<1>14. CASE SenderTurn
  BY <1>14, FeedUnchanged DEF SenderTurn, guiVars, StillToSleep
<1>15. CASE ReceiveTurn
  (* A turn turns the time since the last one into one queued call.        *)
  <2>1. StillToSleep' = StillToSleep
    BY <1>15 DEF ReceiveTurn, guiVars, StillToSleep
  <2>2. /\ receiver = "run" /\ receiver' = receiver /\ row' = row /\ age' = age
        /\ queued' = queued + 1 /\ since' = 0 /\ since >= TurnTime
        /\ frame' = IF frame = "stored" THEN "emitted" ELSE frame
    BY <1>15 DEF ReceiveTurn, ReceiveSleep, Turn
  <2>3. queued \in Nat /\ since \in Nat /\ queued' > 0
    BY <2>2 DEF TypeOK
  <2>4. queued' * TurnTime + since' + StillToSleep <= MaxTurn + row * Longest
    <3>1. queued * TurnTime + since + StillToSleep <= MaxTurn + row * Longest
      BY <2>2 DEF FeedInv
    <3> QED
      BY <2>2, <2>3, <3>1, Row
  <2>5. frame' # "stored" /\ (frame' = "none" <=> frame = "none")
    BY <2>2
  <2> QED
    BY <2>1, <2>2, <2>3, <2>4, <2>5 DEF FeedInv
<1>16. CASE Tick
  <2>1. queued \in Nat /\ since \in Nat /\ since <= MaxTurn /\ age \in Nat /\ row \in Nat
    BY DEF TypeOK
  <2>2. /\ receiver' = receiver /\ queued' = queued /\ row' = row /\ gui' = gui /\ gui # "quit"
        /\ frame' = frame /\ (frame = "none" => age' = age) /\ (frame # "none" => age' = age + 1)
    BY <1>16 DEF Tick
  <2>3. receiver = "run" => since' = since + 1 /\ since' <= MaxTurn
    BY <1>16, <2>1 DEF Tick
  <2>4. receiver = "over" \/ receiver = "run"
    BY DEF TypeOK
  <2>5. frame # "none" => receiver = "run"
    BY <2>4 DEF FeedInv
  <2>6. frame = "stored" => age' <= since'
    BY <2>1, <2>2, <2>3, <2>5 DEF FeedInv
  <2>7. /\ receiver = "run" => queued * TurnTime + since' + StillToSleep' <= MaxTurn + row * Longest
        /\ frame # "none" => age' + StillToSleep' <= MaxTurn + row * Longest
    <3>1. CASE gui = "loop"
      <4>1. queued = 0 /\ StillToSleep' = 0
        BY <1>16, <2>2, <3>1 DEF Tick, StillToSleep
      <4>2. frame # "none" => frame = "stored"
        BY <4>1 DEF FeedInv, TypeOK
      <4>3. frame # "none" => age' <= MaxTurn
        BY <2>1, <2>2, <2>3, <2>5, <2>6, <4>2, Durations
      <4> QED
        BY <2>1, <2>2, <2>3, <4>1, <4>3, Row, Durations
    <3>2. CASE gui # "loop"
      <4>1. left > 0 /\ left' = left - 1
        BY <1>16, <1>0, <3>2 DEF Tick, After
      <4>2. StillToSleep' = StillToSleep - 1 /\ StillToSleep \in Nat /\ StillToSleep > 0
        BY <1>0, <2>2, <3>2, <4>1 DEF StillToSleep
      <4>3. receiver = "run" => queued * TurnTime + since + StillToSleep <= MaxTurn + row * Longest
        BY DEF FeedInv
      <4>4. frame # "none" => age + StillToSleep <= MaxTurn + row * Longest
        BY DEF FeedInv
      <4> QED
        BY <2>1, <2>2, <2>3, <4>2, <4>3, <4>4, Row
    <3> QED
      BY <3>1, <3>2
  <2> QED
    BY <2>2, <2>6, <2>7 DEF FeedInv
<1>17. CASE FrameStored
  (* The frame is new: only the GUI thread's sleep can keep it waiting.    *)
  <2>1. StillToSleep' = StillToSleep
    BY <1>17 DEF FrameStored, guiVars, StillToSleep
  <2>2. /\ receiver = "run" /\ receiver' = receiver /\ queued' = queued /\ since' = since
        /\ row' = row /\ age' = age /\ frame = "none" /\ frame' = "stored"
    BY <1>17 DEF FrameStored
  <2>3. age = 0 /\ since \in Nat
    BY <2>2 DEF FeedInv, TypeOK
  <2>4. age + StillToSleep <= MaxTurn + row * Longest
    <3>1. queued * TurnTime + since + StillToSleep <= MaxTurn + row * Longest
      BY <2>2 DEF FeedInv
    <3> QED
      BY <2>3, <3>1, Row
  <2> QED
    BY <2>1, <2>2, <2>3, <2>4 DEF FeedInv
<1>18. CASE UNCHANGED vars
  BY <1>18, FeedUnchanged DEF vars, guiVars, StillToSleep
<1> QED
  BY <1>1, <1>2, <1>3, <1>4, <1>5, <1>6, <1>7, <1>8, <1>9, <1>10, <1>11, <1>12, <1>13, <1>14,
     <1>15, <1>16, <1>17, <1>18 DEF Next, Clicks, Handlers, Threads

LEMMA FeedHolds == TypeOK /\ FeedInv => ShownInTime /\ Backlog
<1> SUFFICES ASSUME TypeOK, FeedInv PROVE ShownInTime /\ Backlog
  OBVIOUS
<1>1. queued \in Nat /\ since \in Nat /\ age \in Nat /\ row \in Nat
  BY DEF TypeOK
<1>2. ShownInTime
  BY <1>1, Row, Durations DEF FeedInv, ShownInTime, StillToSleep
<1>3. Backlog
  <2>1. CASE receiver = "run"
    BY <1>1, <2>1, Row, Durations DEF FeedInv, Backlog
  <2>2. CASE receiver = "over"
    BY <2>2, Row, Durations DEF FeedInv, Backlog
  <2> QED
    BY <2>1, <2>2 DEF TypeOK
<1> QED
  BY <1>2, <1>3

(* A frame that the client stored is shown, or a newer one is, as soon as  *)
(* ShownInTime says, however long the handlers and the turns are.          *)
THEOREM ShownInTimeCorrect == Spec => []ShownInTime
<1>1. TypeOK /\ FeedInv /\ [Next]_vars => (TypeOK /\ FeedInv)'
  BY StepType, StepFeed
<1> QED
  BY <1>1, InitType, InitFeed, FeedHolds, PTL DEF Spec

(* The calls of updateUI that are queued stay as few as Backlog says.      *)
THEOREM BacklogCorrect == Spec => []Backlog
<1>1. TypeOK /\ FeedInv /\ [Next]_vars => (TypeOK /\ FeedInv)'
  BY StepType, StepFeed
<1> QED
  BY <1>1, InitType, InitFeed, FeedHolds, PTL DEF Spec

-----------------------------------------------------------------------------
(* The mapping of RequestPromise onto this state.                          *)
Mapped == Promise!promiseVars

(* A handler that begins to hold the GUI thread, and one that lets it go.  *)
LEMMA PromiseBegin ==
  ASSUME gui \notin Holding, gui' \in Holding, sender' = sender,
         sender_msg' \in SUBSET Requests, heard' = heard \cap sender_msg'
  PROVE  Promise!PromiseNext
<1>1. Promise!Give(sender_msg')
  BY DEF Promise!Give
<1>2. Promise!Begin
  BY <1>1 DEF Promise!Begin
<1> QED
  BY <1>2 DEF Promise!PromiseNext

LEMMA PromiseFinish ==
  ASSUME gui \in Holding, gui' \notin Holding, sender = "run" => heard = sender_msg,
         sender = "run" => sender' = "run",
         sender_msg' \in SUBSET Requests, heard' = heard \cap sender_msg'
  PROVE  Promise!PromiseNext
<1>1. Promise!Give(sender_msg')
  BY DEF Promise!Give
<1>2. (sender' = "run") \in {sender = "run", TRUE}
  <2>1. CASE sender = "run"
    BY <2>1
  <2>2. CASE sender # "run" /\ sender' # "run"
    <3>1. (sender' = "run") = (sender = "run")
      BY <2>2
    <3> QED
      BY <3>1
  <2>3. CASE sender' = "run"
    <3>1. (sender' = "run") = TRUE
      BY <2>3
    <3> QED
      BY <3>1
  <2> QED
    BY <2>1, <2>2, <2>3
<1>3. /\ sender = "run" => sender_msg \subseteq heard
      /\ (gui' \in Holding) = FALSE
  OBVIOUS
<1>4. \E requests \in SUBSET Requests : Promise!Give(requests)
  BY <1>1
<1>5. Promise!Finish
  BY <1>2, <1>3, <1>4, Zenon DEF Promise!Finish
<1> QED
  BY <1>5 DEF Promise!PromiseNext

LEMMA PromiseInitially == Init => Promise!PromiseInit
BY DEF Init, Promise!PromiseInit, Holding

LEMMA PromiseStep == TypeOK /\ WireInv /\ [Next]_vars => [Promise!PromiseNext]_Mapped
<1> SUFFICES ASSUME TypeOK, WireInv, [Next]_vars,
                    ~UNCHANGED Mapped
             PROVE  Promise!PromiseNext
  OBVIOUS
<1>0. /\ HeldIsHeard
      /\ heard \subseteq sender_msg /\ sender_msg \subseteq Requests /\ send_msg \subseteq Requests
      /\ heard \cap sender_msg = heard
  BY WireHolds DEF TypeOK
<1> USE DEF Mapped, Promise!promiseVars
<1>1. CASE StartClick
  BY <1>0, <1>1, PromiseBegin DEF StartClick, TakesClick, Hold, wireVars, Holding
<1>2. CASE StartEmit
  <2>1. sender = "run" => heard = sender_msg /\ sender' = "run"
    BY <1>0, <1>2 DEF StartEmit, HeldIsHeard, WireInv, Holding
  <2> QED
    BY <1>0, <1>2, <2>1, PromiseFinish DEF StartEmit, Emit, Holding
<1>3. CASE DoorClick
  <2>1. send_msg' \subseteq Requests
    BY <1>0, <1>3 DEF DoorClick, Requests
  <2> QED
    BY <1>3, <2>1, PromiseBegin DEF DoorClick, TakesClick, Emit, Hold, wireVars, Holding
<1>4. CASE DoorRelease
  <2>1. sender = "run" => heard = sender_msg
    BY <1>0, <1>4 DEF DoorRelease, HeldIsHeard, Holding
  <2>2. send_msg' \subseteq Requests
    BY <1>0, <1>4 DEF DoorRelease
  <2> QED
    BY <1>4, <2>1, <2>2, PromiseFinish DEF DoorRelease, Emit, wireVars, Holding
<1>5. CASE EndClick
  BY <1>5 DEF EndClick, TakesClick, WaitForJob, wireVars
<1>6. CASE EndLeave
  BY <1>0, <1>6, PromiseBegin DEF EndLeave, Hold, wireVars, Holding
<1>7. CASE EndEmit
  <2>1. sender = "run" => heard = sender_msg
    BY <1>0, <1>7 DEF EndEmit, HeldIsHeard, Holding
  <2>2. send_msg' \subseteq Requests
    BY <1>0, <1>7 DEF EndEmit, StopRequest, Requests
  <2> QED
    BY <1>7, <2>1, <2>2, PromiseFinish DEF EndEmit, Emit, Hold, wireVars, Holding
<1>8. CASE EndReturn
  BY <1>8 DEF EndReturn, LoopOrQuit, wireVars, Holding
<1>9. CASE ExitClick
  <2>1. send_msg' \subseteq Requests
    BY <1>0, <1>9 DEF ExitClick, Requests
  <2> QED
    BY <1>9, <2>1, PromiseBegin DEF ExitClick, TakesClick, Emit, Hold, wireVars, Holding
<1>10. CASE CloseWindow
  <2>1. sender = "run" => heard = sender_msg
    BY <1>0, <1>10 DEF CloseWindow, HeldIsHeard, Holding
  <2> QED
    BY <1>0, <1>10, <2>1, PromiseFinish DEF CloseWindow, LoopOrQuit, wireVars, Holding
<1>11. CASE JobEmits
  BY <1>11 DEF JobEmits, guiVars, wireVars
<1>12. CASE DeliverPosted
  <2>1. Head(posted) \in SUBSET Requests
    BY <1>12, HeadTailProperties DEF TypeOK, DeliverPosted
  <2>2. Promise!Give(sender_msg') /\ sender_msg' \in SUBSET Requests
    BY <1>12, <2>1 DEF DeliverPosted, Emit, Promise!Give
  <2>3. Promise!Overwrite
    BY <1>12, <2>2 DEF DeliverPosted, guiVars, wireVars, Holding, Promise!Overwrite
  <2> QED
    BY <2>3 DEF Promise!PromiseNext
<1>13. CASE UpdateUI
  BY <1>13 DEF UpdateUI, guiVars, wireVars
<1>14. CASE SenderTurn
  <2>1. heard' = sender_msg /\ sender = "run"
    BY <1>14 DEF SenderTurn, guiVars
  <2>2. Promise!Receive
    BY <1>14, <2>1 DEF SenderTurn, guiVars, Promise!Receive
  <2> QED
    BY <2>2 DEF Promise!PromiseNext
<1>15. CASE ReceiveTurn
  BY <1>15 DEF ReceiveTurn, guiVars, wireVars
<1>16. CASE Tick
  BY <1>16 DEF Tick
<1>17. CASE FrameStored
  BY <1>17 DEF FrameStored, guiVars, wireVars
<1>18. CASE UNCHANGED vars
  BY <1>18 DEF vars, guiVars, wireVars
<1> QED
  BY <1>1, <1>2, <1>3, <1>4, <1>5, <1>6, <1>7, <1>8, <1>9, <1>10, <1>11, <1>12, <1>13, <1>14,
     <1>15, <1>16, <1>17, <1>18 DEF Next, Clicks, Handlers, Threads

(* The desk keeps the promise of RequestPromise: every step of it is a     *)
(* step of the promise, or leaves what it speaks of unchanged.             *)
THEOREM PromiseKeptCorrect == Spec => PromiseKept
<1>1. TypeOK /\ WireInv /\ [Next]_vars => (TypeOK /\ WireInv)'
  BY StepType, StepWire
<1> QED
  BY <1>1, InitType, InitWire, PromiseInitially, PromiseStep, PTL
  DEF Spec, PromiseKept, Promise!PromiseSpec, Mapped
===============================================================================
