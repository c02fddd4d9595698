---------------------------- MODULE ConsoleProofs ----------------------------
(***************************************************************************)
(* Proofs about Console.  Whatever the operator clicks, the worker below   *)
(* the window behaves as ControllerWorker says, so its invariants hold in  *)
(* every state of the composition.  On top of them: the news of the        *)
(* worker's state is never lost on its way to the window, the emergency    *)
(* stop is within reach, and a jog does not outlive its button.            *)
(***************************************************************************)
EXTENDS Console, ControllerWorkerProofs

USE DEF Playing, Manual, Backdrivable, Boxes

(* What a click leaves of the worker's variables.                          *)
LEMMA Posting ==
  ASSUME NEW c \in Commands, Post(c)
  PROVE  /\ queue' = Append(queue, c)
         /\ UNCHANGED <<shutdown, pc, todo, tick, frame, state, event, joints, busUp, ctl,
                        recording, rec>>
BY DEF Post, loopVars, busVars, recVars

(* A step of the window is a post, a drain, or nothing to the worker.      *)
LEMMA StepIsWorkerStep == ConsoleNext => [Next]_vars
<1> SUFFICES ASSUME ConsoleNext PROVE [Next]_vars
  OBVIOUS
<1>1. CASE WorkerStep
  BY <1>1 DEF WorkerStep, Next
<1>2. CASE Drain
  <2>1. CASE event = "none"
    BY <1>2, <2>1 DEF Drain, vars, loopVars, busVars, recVars
  <2>2. CASE event # "none"
    BY <1>2, <2>2 DEF Drain, DrainEvents, Next
  <2> QED BY <2>1, <2>2
<1>3. CASE Apply \/ Frame \/ CloseErrorBox \/ CloseSavedBox
  BY <1>3 DEF Apply, Frame, CloseErrorBox, CloseSavedBox
<1>4. CASE \E c \in Commands : Click(c) \/ ToggleRecord(c) \/ PressJog(c) \/ Release(c)
  BY <1>4 DEF Click, ToggleRecord, PressJog, Release, Next
<1>5. LoseButton => \E c \in Commands : Release(c)
  BY DEF LoseButton
<1> QED BY <1>1, <1>2, <1>3, <1>4, <1>5 DEF ConsoleNext, Window, Operator

(* The console implements the worker's specification: the gating and the   *)
(* boxes only choose when commands are posted and events drained.          *)
THEOREM WorkerBelow == ConsoleSpec => Spec
<1>1. ConsoleInit => Init
  BY DEF ConsoleInit
<1>2. [ConsoleNext]_consoleVars => [Next]_vars
  BY StepIsWorkerStep DEF consoleVars
<1> QED BY <1>1, <1>2, PTL DEF ConsoleSpec, Spec

LEMMA WorkerInv == ConsoleSpec => []Inv
BY WorkerBelow, InvariantHolds, PTL
-----------------------------------------------------------------------------
(* The worker changes its state only together with an event that says so.  *)
LEMMA Reported ==
  ASSUME Worker
  PROVE  UNCHANGED <<state, event>> \/ event' = state'
<1>1. CASE HandleCommand
  <2>1. Recompute(ctl') => UNCHANGED <<state, event>> \/ event' = state'
    BY DEF Recompute, SetState
  <2>2. CASE Reconnect \/ ConnectFails \/ Connect \/ Disconnect \/ Stop \/ ResetFault
    BY <2>1, <2>2 DEF Reconnect, ConnectFails, Connect, Disconnect, Stop, ResetFault, SetState
  <2>3. CASE JogStop \/ JogStart \/ JogIgnored \/ CurrentRelease \/ CurrentStart
             \/ CurrentIgnored \/ GoTo \/ GoToIgnored
    BY <2>1, <2>3 DEF JogStop, JogStart, JogIgnored, CurrentRelease, CurrentStart,
       CurrentIgnored, GoTo, GoToIgnored
  <2>4. CASE CaptureIgnored \/ CaptureStart \/ CaptureFinish \/ SetLimits \/ ResetLimits
    BY <2>1, <2>4 DEF CaptureIgnored, CaptureStart, CaptureFinish, SetLimits, ResetLimits
  <2>5. CASE StartTrajectory
    BY <2>1, <2>5 DEF StartTrajectory
  <2>6. CASE Pause
    BY <2>1, <2>6 DEF Pause
  <2>7. CASE RecordStart \/ RecordStop \/ Shutdown
    BY <2>7 DEF RecordStart, RecordStop, Shutdown
  <2> QED BY <1>1, <2>2, <2>3, <2>4, <2>5, <2>6, <2>7 DEF HandleCommand
<1>2. CASE Resume \/ WaitAgain \/ BeginTick \/ EndTick \/ Exit
  BY <1>2 DEF Resume, WaitAgain, BeginTick, EndTick, Exit
<1>3. ASSUME NEW j \in Joints, TickJoint(j) PROVE UNCHANGED <<state, event>> \/ event' = state'
  BY <1>3 DEF TickJoint, TickIdle, TickCapture, TickJog, TickGoTo, TickCurrent, TickTrajectory,
     SafetyAbort, SetState
<1> QED BY <1>1, <1>2, <1>3 DEF Worker

(* Types of the window, and where the newest news of the state is.         *)
WindowInv == ConsoleTypeOK /\ NewsArrives

LEMMA WindowInit == ConsoleInit => WindowInv
BY DEF ConsoleInit, Init, WindowInv, ConsoleTypeOK, NewsArrives, Newest, States

LEMMA WindowStep == ASSUME Inv, Inv', WindowInv, [ConsoleNext]_consoleVars PROVE WindowInv'
<1>t. ConsoleTypeOK /\ NewsArrives /\ state \in States /\ state' \in States
      /\ event \in States \cup {"none"} /\ "none" \notin States
  BY DEF WindowInv, Inv, TypeOK, States
<1>1. CASE WorkerStep
  <2>1. Worker /\ UNCHANGED <<at, shown, fresh, pending, toggle, was, held>>
        /\ errors' = (errors \/ ErrorWithRecord)
    BY <1>1 DEF WorkerStep
  <2>2. ConsoleTypeOK'
    BY <1>t, <2>1 DEF ConsoleTypeOK
  <2>3. NewsArrives'
    BY <1>t, <2>1, Reported DEF NewsArrives, Newest
  <2> QED BY <2>2, <2>3 DEF WindowInv
<1>2. CASE Drain
  <2>1. ConsoleTypeOK'
    BY <1>t, <1>2 DEF Drain, ConsoleTypeOK
  <2>2. NewsArrives'
    BY <1>t, <1>2 DEF Drain, ConsoleTypeOK, NewsArrives, Newest
  <2> QED BY <2>1, <2>2 DEF WindowInv
<1>3. CASE Apply \/ Frame \/ CloseErrorBox \/ CloseSavedBox
  <2>1. UNCHANGED <<state, event>> /\ frame \in BOOLEAN
    BY <1>3 DEF Apply, Frame, CloseErrorBox, CloseSavedBox, vars, Inv, TypeOK
  <2>2. ConsoleTypeOK'
    BY <1>t, <1>3, <2>1 DEF Apply, Frame, CloseErrorBox, CloseSavedBox, ConsoleTypeOK
  <2>3. NewsArrives'
    BY <1>t, <1>3, <2>1 DEF Apply, Frame, CloseErrorBox, CloseSavedBox, NewsArrives, Newest
  <2> QED BY <2>2, <2>3 DEF WindowInv
<1>4. ASSUME NEW c \in Commands, Click(c) \/ ToggleRecord(c) \/ PressJog(c) \/ Release(c)
      PROVE  WindowInv'
  <2>1. UNCHANGED <<state, event>>
    BY <1>4, Posting DEF Click, ToggleRecord, PressJog, Release
  <2>2. UNCHANGED <<at, shown, fresh, pending, errors, was>>
    BY <1>4 DEF Click, ToggleRecord, PressJog, Release, guiVars
  <2>3. toggle' \in BOOLEAN
    BY <1>4, <1>t DEF Click, ToggleRecord, PressJog, Release, guiVars, ConsoleTypeOK
  <2>4. held' \subseteq Joints
    <3>1. c.type = "Jog" => c.joint \in Joints
      BY ConstantsAssumption DEF ConstantsAssumption, AllCommands
    <3> QED BY <1>4, <1>t, <3>1 DEF Click, ToggleRecord, PressJog, Release, guiVars, ConsoleTypeOK
  <2>5. ConsoleTypeOK'
    BY <1>t, <2>2, <2>3, <2>4 DEF ConsoleTypeOK
  <2>6. NewsArrives'
    BY <1>t, <2>1, <2>2 DEF NewsArrives, Newest
  <2> QED BY <2>5, <2>6 DEF WindowInv
<1>5. LoseButton => \E c \in Commands : Release(c)
  BY DEF LoseButton
<1>6. CASE UNCHANGED consoleVars
  BY <1>6, <1>t DEF consoleVars, guiVars, vars, WindowInv, ConsoleTypeOK, NewsArrives, Newest
<1> QED BY <1>1, <1>2, <1>3, <1>4, <1>5, <1>6 DEF ConsoleNext, Window, Operator

LEMMA WindowHolds == ConsoleSpec => []WindowInv
<1>1. Inv /\ Inv' /\ WindowInv /\ [ConsoleNext]_consoleVars => WindowInv'
  BY WindowStep
<1> QED BY WindowInit, <1>1, WorkerInv, PTL DEF ConsoleSpec

(* Types of the window's own state; nothing of a drained batch is left     *)
(* when poll() goes on to the telemetry frame.                             *)
THEOREM WindowTyped == ConsoleSpec => []ConsoleTypeOK
<1>1. WindowInv => ConsoleTypeOK
  BY DEF WindowInv
<1> QED BY WindowHolds, <1>1, PTL

(* applyState ends up with the worker's state: no news is lost or          *)
(* overtaken between the worker and the window, boxes included.            *)
THEOREM NewsKept == ConsoleSpec => []NewsArrives
<1>1. WindowInv => NewsArrives
  BY DEF WindowInv
<1> QED BY WindowHolds, <1>1, PTL

(* A powered drive means that the emergency stop is enabled, or will be    *)
(* once the queued events are applied.                                     *)
THEOREM StopReachable == ConsoleSpec => []StopWithinReach
<1>1. Inv /\ WindowInv => StopWithinReach
  BY DEF Inv, WindowInv, NothingLeftPowered, NewsArrives, Newest, StopWithinReach, AllReleased,
     Connected
<1> QED BY <1>1, WorkerInv, WindowHolds, PTL
-----------------------------------------------------------------------------
(* The command that stops the jog of j, and a queue in which every command *)
(* that starts one is followed by it, or its button is still held.         *)
StopJog(j) == [type |-> "Jog", joint |-> j, velocity |-> 0]
Starts(c) == c.type = "Jog" /\ c.velocity # 0

StartsAreFollowed ==
  \A i \in 1 .. Len(queue) :
    Starts(queue[i]) =>
      \/ queue[i].joint \in held
      \/ \E k \in (i + 1) .. Len(queue) : queue[k] = StopJog(queue[i].joint)

JogInv == DeadMan /\ StartsAreFollowed

LEMMA JogRecord ==
  ASSUME NEW c \in AllCommands, c.type = "Jog"
  PROVE  /\ c.joint \in Joints
         /\ c = [type |-> "Jog", joint |-> c.joint, velocity |-> c.velocity]
BY DEF AllCommands

(* Only JogStart makes a joint jog.                                        *)
LEMMA NewJog ==
  ASSUME Inv, Worker, NEW j \in Joints, ctl'[j].activity = "Jog", ctl[j].activity # "Jog"
  PROVE  JogStart /\ Msg.joint = j
<1>1. ctl[j] \in JointCtl /\ ctl \in [Joints -> JointCtl]
  BY DEF Inv, TypeOK
<1>2. ctl' # ctl
  OBVIOUS
<1>3. ~(ConnectFails \/ JogIgnored \/ CurrentIgnored \/ GoToIgnored \/ CaptureIgnored
        \/ RecordStart \/ RecordStop \/ Shutdown)
  BY <1>2 DEF ConnectFails, JogIgnored, CurrentIgnored, GoToIgnored, CaptureIgnored,
     RecordStart, RecordStop, Shutdown
<1>4. ~(Resume \/ WaitAgain \/ BeginTick \/ EndTick)
  BY <1>2 DEF Resume, WaitAgain, BeginTick, EndTick
<1>5. Idled(ctl[j]).activity # "Jog"
  BY <1>1 DEF Idled, JointCtl
<1>6. ~(Reconnect \/ Disconnect \/ Stop \/ ResetFault \/ Exit)
  <2>1. AllIdled[j].activity # "Jog"
    BY <1>5 DEF AllIdled
  <2> QED BY <1>2, <2>1 DEF Reconnect, Disconnect, Stop, ResetFault, Exit
<1>7. ~Connect
  <2>1. Connect => ctl'[j] = ctl[j] \/ \E now : ctl'[j] = Fresh(now)
    BY DEF Connect
  <2>2. \A now : Fresh(now).activity # "Jog"
    BY DEF Fresh, Collapsed, Blank
  <2> QED BY <2>1, <2>2
<1>8. ~JogStop /\ ~Pause
  <2>1. Holding(ctl[j]).activity # "Jog"
    BY <1>1 DEF Holding, Perform, JointCtl
  <2>2. ASSUME JogStop PROVE FALSE
    <3>1. ctl'[j] = ctl[j] \/ ctl'[j] = Holding(ctl[j])
      BY <1>1, <2>2 DEF JogStop
    <3> QED BY <2>1, <3>1
  <2>3. ASSUME Pause PROVE FALSE
    <3>1. ctl'[j] = ctl[j] \/ \E now : ctl'[j] = Holding([ctl[j] EXCEPT !.cmd = now])
      BY <1>1, <2>3 DEF Pause
    <3>2. \A now : Holding([ctl[j] EXCEPT !.cmd = now]).activity # "Jog"
      BY <1>1 DEF Holding, Perform, JointCtl
    <3> QED BY <3>1, <3>2
  <2> QED BY <2>2, <2>3
<1>9. ~CurrentRelease /\ ~CurrentStart /\ ~GoTo
  <2>1. \A now, a : Perform(EngageIfNeeded(ctl[j], now), "Current", a).activity # "Jog"
    BY <1>1 DEF Perform, EngageIfNeeded, Engage, JointCtl
  <2>2. \A now, a : Perform(EngageIfNeeded(ctl[j], now), "GoTo", a).activity # "Jog"
    BY <1>1 DEF Perform, EngageIfNeeded, Engage, JointCtl
  <2>3. CurrentRelease => ctl'[j] = ctl[j] \/ ctl'[j] = Idled(ctl[j])
    BY <1>1 DEF CurrentRelease
  <2>4. CurrentStart => ctl'[j] = ctl[j]
          \/ \E now, a : ctl'[j] = Perform(EngageIfNeeded(ctl[j], now), "Current", a)
    BY <1>1 DEF CurrentStart
  <2>5. GoTo => ctl'[j] = ctl[j]
          \/ \E now, a : ctl'[j] = Perform(EngageIfNeeded(ctl[j], now), "GoTo", a)
    BY <1>1 DEF GoTo
  <2> QED BY <1>5, <2>1, <2>2, <2>3, <2>4, <2>5
<1>10. ~CaptureStart /\ ~CaptureFinish
  <2>1. CaptureStart => ctl'[j] = ctl[j]
          \/ \E now : ctl'[j] = Perform(Collapsed(Idled(ctl[j]), now), "Capture", 0)
    BY <1>1 DEF CaptureStart
  <2>2. \A now : Perform(Collapsed(Idled(ctl[j]), now), "Capture", 0).activity # "Jog"
    BY <1>1 DEF Perform, Collapsed, Idled, JointCtl
  <2>3. CaptureFinish => ctl'[j] = ctl[j] \/ ctl'[j] = CaptureFinished(ctl[j])
    BY <1>1 DEF CaptureFinish
  <2>4. CaptureFinished(ctl[j]).activity # "Jog"
    BY <1>1 DEF CaptureFinished, JointCtl
  <2> QED BY <2>1, <2>2, <2>3, <2>4
<1>11. ~SetLimits /\ ~ResetLimits
  <2>1. SetLimits \/ ResetLimits =>
          \/ ctl'[j] = ctl[j] \/ (\E lo, hi : ctl'[j] = Explicit(ctl[j], lo, hi))
          \/ (\E now : ctl'[j] = Collapsed(ctl[j], now))
    BY <1>1 DEF SetLimits, ResetLimits
  <2> QED BY <1>1, <2>1 DEF Explicit, Collapsed, JointCtl
<1>12. ~StartTrajectory
  <2> SUFFICES ASSUME StartTrajectory PROVE FALSE
    OBVIOUS
  <2> DEFINE ready == {i \in Msg.joints \cap joints : Playable(ctl[i], Msg.mode)}
             logs == Msg.enable_logging
  <2>1. PICK now \in [ready -> Counts], opened \in SUBSET ready,
            dir \in IF logs THEN BOOLEAN ELSE {FALSE} :
          ctl' = [i \in Joints |->
                    IF i \in ready THEN Started(ctl[i], now[i], dir, i \in opened, logs)
                    ELSE ctl[i]]
    BY ZenonT(120) DEF StartTrajectory
  <2>2. j \in ready /\ ctl'[j] = Started(ctl[j], now[j], dir, j \in opened, logs)
    BY <2>1
  <2>3. ctl'[j].activity = "Hold"
    BY <1>1, <2>2 DEF Started, Engage, JointCtl
  <2> QED BY <2>3
<1>13. \A i \in Joints : ~TickJoint(i)
  <2> SUFFICES ASSUME NEW i \in Joints, TickJoint(i) PROVE FALSE
    OBVIOUS
  <2>1. i # j => ctl'[j] = ctl[j]
    BY <1>1 DEF TickJoint, TickIdle, TickCapture, TickJog, TickGoTo, TickCurrent,
       TickTrajectory, SafetyAbort
  <2>2. i = j
    BY <2>1
  <2>3. ~SafetyAbort(j)
    BY <1>1, <1>5 DEF SafetyAbort
  <2>4. Ticking(j)
    BY <2>2, <2>3 DEF TickJoint, Ticking
  <2>5. PICK d \in GoodJoint : ctl' = [ctl EXCEPT ![j] = d] /\ SameKind(ctl[j], d)
    BY <2>4, TickedJoint
  <2>6. ctl'[j] = d
    BY <1>1, <2>5
  <2>7. ctl[j].activity \in Manual
    BY <2>5, <2>6 DEF SameKind
  <2>8. TickGoTo(j)
    BY <2>4, <2>7 DEF Ticking, TickIdle, TickCapture, TickJog, TickCurrent, TickTrajectory, Serve
  <2>9. ctl'[j].activity = ctl[j].activity
    BY <1>1, <2>8 DEF TickGoTo, JointCtl
  <2> QED BY <2>9
<1>14. JogStart
  BY <1>3, <1>4, <1>6, <1>7, <1>8, <1>9, <1>10, <1>11, <1>12, <1>13 DEF Worker, HandleCommand
<1>15. Msg.joint = j
  BY <1>1, <1>14 DEF JogStart
<1> QED BY <1>14, <1>15

(* What a worker's step makes of the queue: nothing, or its tail.          *)
LEMMA QueueStep ==
  ASSUME Worker
  PROVE  queue' = queue \/ (HandleCommand /\ queue # <<>> /\ queue' = Tail(queue))
<1>1. CASE HandleCommand
  BY <1>1 DEF HandleCommand, Take, Reconnect, ConnectFails, Connect, Disconnect, JogStop,
     JogStart, JogIgnored, CurrentRelease, CurrentStart, CurrentIgnored, GoTo, GoToIgnored,
     CaptureIgnored, CaptureStart, CaptureFinish, SetLimits, ResetLimits, StartTrajectory,
     Stop, ResetFault, Pause, RecordStart, RecordStop, Shutdown
<1>2. CASE Resume \/ WaitAgain \/ BeginTick \/ EndTick \/ Exit
  BY <1>2 DEF Resume, WaitAgain, BeginTick, EndTick, Exit, LoopUnchanged
<1>3. ASSUME NEW j \in Joints, TickJoint(j) PROVE queue' = queue
  BY <1>3 DEF TickJoint, TickIdle, TickCapture, TickJog, TickGoTo, TickCurrent, TickTrajectory,
     SafetyAbort, Serve, LoopUnchanged
<1> QED BY <1>1, <1>2, <1>3 DEF Worker

(* After the command that stops it, a joint does not jog, even when the    *)
(* command is ignored: the joint then plays, or is not on the bus.         *)
LEMMA StopEnds ==
  ASSUME Inv, HandleCommand, NEW j \in Joints, queue # <<>>, Msg = StopJog(j)
  PROVE  ctl'[j].activity # "Jog"
<1>1. ctl[j] \in GoodJoint /\ ctl[j] \in JointCtl /\ ctl \in [Joints -> JointCtl]
  BY DEF Inv, JointsOK, GoodJoint, TypeOK
<1>2. Msg.type = "Jog" /\ Msg.velocity = 0 /\ Msg.joint = j
  BY DEF StopJog
<1>3. JogStop \/ JogIgnored
  BY <1>2 DEF HandleCommand, Take, Msg, Reconnect, ConnectFails, Connect, Disconnect, JogStart,
     CurrentRelease, CurrentStart, CurrentIgnored, GoTo, GoToIgnored,
     CaptureIgnored, CaptureStart, CaptureFinish, SetLimits, ResetLimits, StartTrajectory,
     Stop, ResetFault, Pause, RecordStart, RecordStop, Shutdown
<1>4. CASE JogStop
  <2>1. ctl'[j] = IF ctl[j].activity = "Jog" THEN Holding(ctl[j]) ELSE ctl[j]
    BY <1>1, <1>2, <1>4 DEF JogStop
  <2>2. Holding(ctl[j]).activity # "Jog"
    BY <1>1 DEF Holding, Perform, JointCtl
  <2> QED BY <2>1, <2>2
<1>5. CASE JogIgnored
  <2>1. ctl' = ctl /\ ~Free(j)
    BY <1>2, <1>5 DEF JogIgnored
  <2>2. CASE j \notin joints
    <3>1. ~ctl[j].engaged
      BY <2>2 DEF Inv, JointsOK
    <3> QED BY <1>1, <2>1, <3>1 DEF GoodJoint, PowerMatches
  <2>3. CASE ctl[j].activity \in Playing
    BY <2>1, <2>3
  <2> QED BY <2>1, <2>2, <2>3 DEF Free
<1> QED BY <1>3, <1>4, <1>5

LEMMA TailOf ==
  ASSUME queue \in Seq(AllCommands), queue # <<>>, queue' = Tail(queue)
  PROVE  /\ Len(queue) \in Nat /\ Len(queue) >= 1 /\ Len(queue') = Len(queue) - 1
         /\ \A i \in 1 .. Len(queue') : queue'[i] = queue[i + 1]
         /\ Msg = queue[1]
BY DEF Msg

LEMMA JogWorker ==
  ASSUME Inv, JogInv, Worker, held' = held
  PROVE  JogInv'
<1>1. CASE queue' = queue
  <2>1. StartsAreFollowed'
    BY <1>1 DEF JogInv, StartsAreFollowed
  <2>2. ASSUME NEW j \in Joints, ctl'[j].activity = "Jog"
        PROVE  j \in held \/ JogStopQueued(j)
    <3>1. CASE ctl[j].activity = "Jog"
      BY <3>1 DEF JogInv, DeadMan
    <3>2. CASE ctl[j].activity # "Jog"
      <4>1. JogStart
        BY <2>2, <3>2, NewJog
      <4>2. queue # <<>> /\ queue' = Tail(queue) /\ queue \in Seq(AllCommands)
        BY <4>1 DEF JogStart, Take, Inv, TypeOK
      <4> QED BY <1>1, <4>2, TailOf
    <3> QED BY <3>1, <3>2
  <2>3. DeadMan'
    BY <1>1, <2>2 DEF DeadMan, JogStopQueued
  <2> QED BY <2>1, <2>3 DEF JogInv
<1>2. CASE HandleCommand /\ queue # <<>> /\ queue' = Tail(queue)
  <2>1. queue \in Seq(AllCommands)
    BY DEF Inv, TypeOK
  <2>2. /\ Len(queue) \in Nat /\ Len(queue) >= 1 /\ Len(queue') = Len(queue) - 1
        /\ \A i \in 1 .. Len(queue') : queue'[i] = queue[i + 1]
        /\ Msg = queue[1]
    BY <1>2, <2>1, TailOf
  <2>3. ASSUME NEW i \in 1 .. Len(queue), NEW j,
               \E k \in (i + 1) .. Len(queue) : queue[k] = StopJog(j)
        PROVE  \E k \in i .. Len(queue') : queue'[k] = StopJog(j)
    <3>1. PICK k \in (i + 1) .. Len(queue) : queue[k] = StopJog(j)
      BY <2>3
    <3>2. k - 1 \in i .. Len(queue') /\ k - 1 \in 1 .. Len(queue') /\ (k - 1) + 1 = k
      BY <2>2
    <3>3. queue'[k - 1] = StopJog(j)
      BY <2>2, <3>1, <3>2
    <3> QED BY <3>2, <3>3
  <2>4. StartsAreFollowed'
    <3> SUFFICES ASSUME NEW i \in 1 .. Len(queue'), Starts(queue'[i])
                 PROVE  \/ queue'[i].joint \in held
                        \/ \E k \in (i + 1) .. Len(queue') :
                             queue'[k] = StopJog(queue'[i].joint)
      BY DEF StartsAreFollowed
    <3>1. i + 1 \in 1 .. Len(queue) /\ queue'[i] = queue[i + 1]
      BY <2>2
    <3>2. \/ queue[i + 1].joint \in held
          \/ \E k \in ((i + 1) + 1) .. Len(queue) : queue[k] = StopJog(queue[i + 1].joint)
      BY <3>1 DEF JogInv, StartsAreFollowed
    <3> QED BY <2>3, <3>1, <3>2
  <2>5. ASSUME NEW j \in Joints, ctl'[j].activity = "Jog"
        PROVE  j \in held \/ \E i \in 1 .. Len(queue') : queue'[i] = StopJog(j)
    <3>1. CASE ctl[j].activity = "Jog"
      <4>1. j \in held \/ \E i \in 1 .. Len(queue) : queue[i] = StopJog(j)
        BY <3>1 DEF JogInv, DeadMan, JogStopQueued, StopJog
      <4>2. queue[1] # StopJog(j)
        BY <1>2, <2>2, <2>5, StopEnds
      <4>3. ASSUME NEW i \in 1 .. Len(queue), queue[i] = StopJog(j)
            PROVE  \E k \in (1 + 1) .. Len(queue) : queue[k] = StopJog(j)
        <5>1. i \in (1 + 1) .. Len(queue)
          BY <2>2, <4>2, <4>3
        <5> QED BY <4>3, <5>1
      <4>4. 1 \in 1 .. Len(queue)
        BY <2>2
      <4> QED BY <2>3, <4>1, <4>3, <4>4
    <3>2. CASE ctl[j].activity # "Jog"
      <4>1. JogStart /\ Msg.joint = j
        BY <2>5, <3>2, NewJog
      <4>2. Starts(queue[1]) /\ 1 \in 1 .. Len(queue) /\ queue[1].joint = j
        BY <2>2, <4>1 DEF JogStart, Take, Starts, Msg
      <4>3. j \in held \/ \E k \in (1 + 1) .. Len(queue) : queue[k] = StopJog(j)
        BY <4>2 DEF JogInv, StartsAreFollowed
      <4> QED BY <2>3, <4>2, <4>3
    <3> QED BY <3>1, <3>2
  <2>6. DeadMan'
    BY <2>5 DEF DeadMan, JogStopQueued, StopJog
  <2> QED BY <2>4, <2>6 DEF JogInv
<1> QED BY <1>1, <1>2, QueueStep

LEMMA JogPosting ==
  ASSUME Inv, JogInv, NEW c \in Commands, Post(c),
         \/ UNCHANGED held /\ ~Starts(c)
         \/ Starts(c) /\ held = {} /\ held' = {c.joint}
         \/ c.type = "Jog" /\ c.velocity = 0 /\ held = {c.joint} /\ held' = {}
  PROVE  JogInv'
<1> DEFINE n == Len(queue)
<1>1. queue \in Seq(AllCommands) /\ c \in AllCommands
  BY ConstantsAssumption DEF Inv, TypeOK, ConstantsAssumption
<1>2. queue' = Append(queue, c) /\ UNCHANGED ctl
  BY Posting
<1>3. /\ n \in Nat /\ Len(queue') = n + 1 /\ queue'[n + 1] = c
      /\ \A i \in 1 .. n : queue'[i] = queue[i]
  BY <1>1, <1>2
<1>4. ASSUME NEW j, j \in held, j \notin held'
      PROVE  queue'[n + 1] = StopJog(j)
  <2>1. c.type = "Jog" /\ c.velocity = 0 /\ c.joint = j
    BY <1>4
  <2> QED BY <1>1, <1>3, <2>1, JogRecord DEF StopJog
<1> HIDE DEF n
<1>5. StartsAreFollowed'
  <2> SUFFICES ASSUME NEW i \in 1 .. (n + 1), Starts(queue'[i])
               PROVE  \/ queue'[i].joint \in held'
                      \/ \E k \in (i + 1) .. (n + 1) : queue'[k] = StopJog(queue'[i].joint)
    BY <1>3 DEF StartsAreFollowed
  <2>1. CASE i = n + 1
    BY <1>3, <2>1 DEF Starts
  <2>2. CASE i \in 1 .. n
    <3> DEFINE j == queue[i].joint
    <3>1. queue'[i] = queue[i]
      BY <1>3, <2>2
    <3>2. j \in held \/ \E k \in (i + 1) .. n : queue[k] = StopJog(j)
      BY <2>2, <3>1 DEF JogInv, StartsAreFollowed, n
    <3> HIDE DEF j
    <3>3. CASE j \in held /\ j \in held'
      BY <3>1, <3>3 DEF j
    <3>4. CASE j \in held /\ j \notin held'
      <4>1. n + 1 \in (i + 1) .. (n + 1) /\ queue'[n + 1] = StopJog(j)
        BY <1>3, <1>4, <2>2, <3>4
      <4> QED BY <3>1, <4>1 DEF j
    <3>5. CASE \E k \in (i + 1) .. n : queue[k] = StopJog(j)
      <4>1. PICK k \in (i + 1) .. n : queue[k] = StopJog(j)
        BY <3>5
      <4>2. k \in 1 .. n /\ k \in (i + 1) .. (n + 1)
        BY <1>3, <2>2
      <4>3. queue'[k] = StopJog(j)
        BY <1>3, <4>1, <4>2
      <4> QED BY <3>1, <4>2, <4>3 DEF j
    <3> QED BY <3>2, <3>3, <3>4, <3>5
  <2> QED BY <1>3, <2>1, <2>2
<1>6. ASSUME NEW j \in Joints, ctl[j].activity = "Jog"
      PROVE  j \in held' \/ \E i \in 1 .. (n + 1) : queue'[i] = StopJog(j)
  <2>1. j \in held \/ \E i \in 1 .. n : queue[i] = StopJog(j)
    BY <1>6 DEF JogInv, DeadMan, JogStopQueued, StopJog, n
  <2>2. ASSUME NEW i \in 1 .. n, queue[i] = StopJog(j)
        PROVE  \E k \in 1 .. (n + 1) : queue'[k] = StopJog(j)
    <3>1. i \in 1 .. (n + 1) /\ queue'[i] = StopJog(j)
      BY <1>3, <2>2
    <3> QED BY <3>1
  <2>3. n + 1 \in 1 .. (n + 1)
    BY <1>3
  <2> QED BY <1>4, <2>1, <2>2, <2>3
<1>7. DeadMan'
  BY <1>2, <1>3, <1>6 DEF DeadMan, JogStopQueued, StopJog
<1> QED BY <1>5, <1>7 DEF JogInv

LEMMA JogStep ==
  ASSUME Inv, JogInv, [ConsoleNext]_consoleVars
  PROVE  JogInv'
<1>1. CASE WorkerStep
  BY <1>1, JogWorker DEF WorkerStep
<1>2. CASE UNCHANGED <<queue, ctl, held>>
  BY <1>2 DEF JogInv, DeadMan, JogStopQueued, StartsAreFollowed
<1>3. ASSUME NEW c \in Commands, Click(c) \/ ToggleRecord(c) \/ PressJog(c) \/ Release(c)
      PROVE  JogInv'
  <2>1. CASE Click(c)
    <3>1. c.type # "Jog"
      BY <2>1 DEF Click, Offered
    <3> QED BY <2>1, <3>1, JogPosting DEF Click, guiVars, Starts
  <2>2. CASE ToggleRecord(c)
    BY <2>2, JogPosting DEF ToggleRecord, Starts
  <2>3. CASE PressJog(c)
    BY <2>3, JogPosting DEF PressJog, Starts
  <2>4. CASE Release(c)
    BY <2>4, JogPosting DEF Release
  <2> QED BY <1>3, <2>1, <2>2, <2>3, <2>4
<1>4. Drain \/ Apply \/ Frame \/ CloseErrorBox \/ CloseSavedBox \/ UNCHANGED consoleVars
        => UNCHANGED <<queue, ctl, held>>
  BY DEF Drain, Apply, Frame, CloseErrorBox, CloseSavedBox, consoleVars, guiVars, vars
<1>5. LoseButton => \E c \in Commands : Release(c)
  BY DEF LoseButton
<1> QED BY <1>1, <1>2, <1>3, <1>4, <1>5 DEF ConsoleNext, Window, Operator

(* No joint jogs on without its button held, or the command that stops it  *)
(* queued behind the one that started it.                                  *)
THEOREM JogNeedsButton == ConsoleSpec => []DeadMan
<1>1. ConsoleInit => JogInv
  <2>1. ASSUME ConsoleInit PROVE queue = <<>> /\ \A j \in Joints : ctl[j].activity # "Jog"
    BY <2>1 DEF ConsoleInit, Init, Blank
  <2> QED BY <2>1 DEF JogInv, DeadMan, StartsAreFollowed
<1>2. Inv /\ JogInv /\ [ConsoleNext]_consoleVars => JogInv'
  BY JogStep
<1>3. JogInv => DeadMan
  BY DEF JogInv
<1> QED BY <1>1, <1>2, <1>3, WorkerInv, PTL DEF ConsoleSpec
=============================================================================
