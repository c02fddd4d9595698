-------------------------- MODULE ControllerWorker --------------------------
(***************************************************************************)
(* The real-time worker of the GUI (gui/core/controller_worker.cpp): one   *)
(* thread that owns the bus.  It takes commands from a FIFO filled by      *)
(* other threads, runs the control tick over every joint, and reports      *)
(* state changes and telemetry back.  One action per command handler, one  *)
(* per joint and activity of a tick, and the loop of run() around them.    *)
(***************************************************************************)
EXTENDS Integers, Sequences

CONSTANTS
  Joints,        \* the joints a device config may name
  Resettable,    \* those whose driver supports a fault reset (CapitanDrv)
  MaxCount,      \* bound: encoder counts are 0 .. MaxCount
  MinRange,      \* profile.min_range_deg, in counts
  ErrorCodes,    \* the nonzero values of a drive's error_code register
  Commands,      \* the commands a client of the worker posts
  QueueBound,    \* bound: commands waiting in m_commands
  PublishEvery   \* ticks between two telemetry frames (decim)

Counts == 0 .. MaxCount

(* Command of commands.hpp.  Angles are given in counts, already converted *)
(* by deg2counts: distinct angles may give equal counts.                   *)
AllCommands ==
       [type : {"Connect", "Disconnect", "Stop", "ResetFault", "Pause", "Shutdown"}]
  \cup [type : {"Jog"}, joint : Joints, velocity : {-1, 0, 1}]
  \cup [type : {"Current"}, joint : Joints, amps : {-1, 0, 1}, release : BOOLEAN]
  \cup [type : {"GoTo"}, joint : Joints, target : Counts]
  \cup [type : {"CaptureLimits"}, joints : SUBSET Joints, start : BOOLEAN]
  \cup [type : {"SetLimits"}, joint : Joints, min : Counts, max : Counts]
  \cup [type : {"ResetLimits"}, joint : Joints]
  \cup [type : {"StartTrajectory"}, joints : SUBSET Joints,
        mode : {"spline", "parametric"}, enable_logging : BOOLEAN]
  \cup [type : {"Record"}, start : BOOLEAN]

ASSUME ConstantsAssumption ==
  /\ Resettable \subseteq Joints
  /\ MaxCount \in Nat
  /\ MinRange \in Nat
  /\ ErrorCodes \subseteq Nat \ {0}
  /\ Commands \subseteq AllCommands
  /\ QueueBound \in Nat \ {0}
  /\ PublishEvery \in Nat \ {0}

VARIABLES
  queue,      \* m_commands
  shutdown,   \* m_shutdown
  pc,         \* where run() is
  todo,       \* joints the running tick has still to serve
  tick,       \* impl.tick modulo PublishEvery
  state,      \* m_state
  event,      \* the last StateChanged event not yet drained, or "none"
  joints,     \* impl.joints
  busUp,      \* impl.bus_up
  ctl,        \* impl.ctl and the drive's torque register
  recording,  \* impl.recording
  rec,        \* joints with an open rec_logger
  frame       \* m_snapshot: the recording flag last published

vars == <<queue, shutdown, pc, todo, tick, state, event, joints, busUp, ctl,
          recording, rec, frame>>
busVars == <<joints, busUp>>
recVars == <<recording, rec>>
loopVars == <<shutdown, pc, todo, tick, frame>>

(* Activity, with the ControlPhase of a running trajectory folded in.      *)
Playing == {"Hold", "Approach", "Play"}
Manual == {"Jog", "GoTo"}
Backdrivable == {"Idle", "Capture"}
Activities == Backdrivable \cup Manual \cup Playing \cup {"Current"}
States == {"Disconnected", "Connected", "Jogging", "Capturing", "Running", "Faulted"}

(* JointCtl.  "arg" is the parameter of the activity: jog_vel_deg_s,       *)
(* goto_target, target_current_a or start_counts, each written by the      *)
(* handler that enters the activity reading it.  "trail" says whether the  *)
(* recorded trail decimates to enough waypoints, "traj" whether traj and   *)
(* lpf exist, "torque" is the drive's target-torque register, and          *)
(* "wants_log" is history: the trajectory was started with enable_logging. *)
JointCtl ==
  [activity : Activities, engaged : BOOLEAN, min : Counts, max : Counts,
   soft_min : Counts, soft_max : Counts, limits_set : BOOLEAN, cmd : Counts,
   arg : Int, trail : BOOLEAN, traj : BOOLEAN, logger : BOOLEAN,
   last_error : ErrorCodes \cup {0}, torque : {-1, 0, 1}, wants_log : BOOLEAN]

(* What the tick reads of a drive for safety_violated: over-temperature or *)
(* the DS402 fault bit, and the error code.                                *)
Readings == [fault : BOOLEAN, error : ErrorCodes \cup {0}]
-----------------------------------------------------------------------------
Clamp(x, lo, hi) == IF x < lo THEN lo ELSE IF hi < x THEN hi ELSE x
Lesser(x, y) == IF x < y THEN x ELSE y
Greater(x, y) == IF x < y THEN y ELSE x

(* The limits a setpoint is clamped to: the soft ones when they span a     *)
(* range, else the hard ones.                                              *)
SoftValid(c) == c.soft_min < c.soft_max
LimMin(c) == IF SoftValid(c) THEN c.soft_min ELSE c.min
LimMax(c) == IF SoftValid(c) THEN c.soft_max ELSE c.max

Limited(c, x) == Clamp(x, LimMin(c), LimMax(c))

(* The whole envelope collapsed to one position, and its trail dropped.    *)
Collapsed(c, now) ==
  [c EXCEPT !.min = now, !.max = now, !.soft_min = now, !.soft_max = now,
            !.limits_set = FALSE, !.trail = FALSE]

(* The hard limits widened to a position reached by hand.                  *)
Learned(c, now) ==
  LET lo == Lesser(c.min, now)
      hi == Greater(c.max, now)
  IN  [c EXCEPT !.min = lo, !.max = hi, !.limits_set = lo < hi]

(* Mutant of Explicit: the soft limits are forgotten.                      *)
ExplicitHardOnly(c, lo, hi) ==
  [c EXCEPT !.min = lo, !.max = hi, !.limits_set = lo < hi]

(* Limits given by hand: hard and soft ones alike.                         *)
Explicit(c, lo, hi) ==
  [c EXCEPT !.min = lo, !.max = hi, !.soft_min = lo, !.soft_max = hi,
            !.limits_set = lo < hi]

(* Mutant of Idled: the torque register is not zeroed.                     *)
IdledKeepingTorque(c) ==
  [c EXCEPT !.activity = "Idle", !.engaged = FALSE, !.arg = 0,
            !.traj = FALSE, !.logger = FALSE, !.wants_log = FALSE]

(* idleJoint: the drive is released and everything of the activity ends.   *)
Idled(c) ==
  [c EXCEPT !.activity = "Idle", !.engaged = FALSE, !.arg = 0, !.torque = 0,
            !.traj = FALSE, !.logger = FALSE, !.wants_log = FALSE]

Engage(c, now) == [c EXCEPT !.cmd = now, !.engaged = TRUE]
EngageIfNeeded(c, now) == IF c.engaged THEN c ELSE Engage(c, now)

Perform(c, activity, arg) == [c EXCEPT !.activity = activity, !.arg = arg]

(* A stopped jog and a paused trajectory hold by a GoTo to the setpoint.   *)
Holding(c) == Perform(c, "GoTo", c.cmd)

Blank == [activity |-> "Idle", engaged |-> FALSE, min |-> 0, max |-> 0,
          soft_min |-> 0, soft_max |-> 0, limits_set |-> FALSE, cmd |-> 0,
          arg |-> 0, trail |-> FALSE, traj |-> FALSE, logger |-> FALSE,
          last_error |-> 0, torque |-> 0, wants_log |-> FALSE]

(* A joint as ConnectCommand leaves it: idled, tracking its range by hand. *)
Fresh(now) == [Collapsed(Blank, now) EXCEPT !.cmd = now, !.activity = "Capture"]

(* Mutant of AllIdled: only joints that play a trajectory are idled.       *)
PlayingIdled ==
  [j \in Joints |-> IF j \in joints /\ ctl[j].activity \in Playing
                    THEN Idled(ctl[j]) ELSE ctl[j]]

AllIdled == [j \in Joints |-> IF j \in joints THEN Idled(ctl[j]) ELSE ctl[j]]

Violated(c, r) == r.fault \/ (r.error # 0 /\ r.error = c.last_error)
-----------------------------------------------------------------------------
(* setState: store the state and queue a StateChanged event.  The GUI      *)
(* applies drained events in order, so only the last one is kept.          *)
SetState(s) == state' = s /\ event' = s

Some(f, activities) == \E j \in Joints : f[j].activity \in activities

(* Mutant of Label: a capturing joint hides a playing one.                 *)
LabelCaptureFirst(f) ==
  IF Some(f, {"Capture"}) THEN "Capturing"
  ELSE IF Some(f, Playing) THEN "Running"
  ELSE IF Some(f, Manual) THEN "Jogging"
  ELSE "Connected"

(* recomputeState once the handler has left the joints as f.  It has no    *)
(* case for Activity::Current.                                             *)
Label(f) ==
  IF Some(f, Playing) THEN "Running"
  ELSE IF Some(f, {"Capture"}) THEN "Capturing"
  ELSE IF Some(f, Manual) THEN "Jogging"
  ELSE "Connected"

(* Mutant of Recompute: Faulted is not sticky.                             *)
RecomputeAlways(f) ==
  IF busUp THEN SetState(Label(f)) ELSE UNCHANGED <<state, event>>

Recompute(f) ==
  IF busUp /\ state # "Faulted" THEN SetState(Label(f))
  ELSE UNCHANGED <<state, event>>

(* Mutant of StopRecording: the files are left open.                       *)
StopRecordingFlag == recording' = FALSE /\ UNCHANGED rec

StopRecording == recording' = FALSE /\ rec' = {}
-----------------------------------------------------------------------------
Init ==
  /\ queue = <<>> /\ shutdown = FALSE /\ pc = "waiting" /\ todo = {} /\ tick = 0
  /\ state = "Disconnected" /\ event = "none"
  /\ joints = {} /\ busUp = FALSE
  /\ ctl = [j \in Joints |-> Blank]
  /\ recording = FALSE /\ rec = {} /\ frame = FALSE

(* post() from another thread.  ShutdownCommand comes from the destructor, *)
(* so nothing is posted after it.                                          *)
Post(c) ==
  /\ ~shutdown /\ Len(queue) < QueueBound
  /\ \A i \in 1 .. Len(queue) : queue[i].type # "Shutdown"
  /\ queue' = Append(queue, c)
  /\ UNCHANGED <<loopVars, state, event, busVars, ctl, recVars>>

(* drainEvents() of the GUI's poll: what it does with the state is its own *)
(* affair, the worker only loses the event.                                *)
DrainEvents ==
  /\ event # "none" /\ event' = "none"
  /\ UNCHANGED <<queue, loopVars, state, busVars, ctl, recVars>>
-----------------------------------------------------------------------------
(* Both loops of run() pop until the queue is empty; the one entered while *)
(* Disconnected breaks off at a shutdown, the other does not.              *)
MayPop == pc = "draining" \/ (pc = "waiting" /\ ~shutdown)

Take(type) ==
  /\ MayPop /\ queue # <<>> /\ Head(queue).type = type
  /\ queue' = Tail(queue)
  /\ UNCHANGED <<pc, todo, frame>>

Msg == Head(queue)

(* ConnectCommand: on a bus that is up, idle every joint.  Otherwise any   *)
(* step from parsing the config to enumerating the joints may fail.        *)
Reconnect ==
  /\ Take("Connect") /\ busUp
  /\ ctl' = AllIdled /\ tick' = 0
  /\ SetState("Connected")
  /\ UNCHANGED <<shutdown, busVars, recVars>>

ConnectFails ==
  /\ Take("Connect") /\ ~busUp
  /\ UNCHANGED <<shutdown, tick, state, event, busVars, ctl, recVars>>

Connect ==
  /\ Take("Connect") /\ ~busUp
  /\ \E found \in (SUBSET Joints) \ {{}} : \E now \in [found -> Counts] :
       /\ joints' = found
       /\ ctl' = [j \in Joints |-> IF j \in found THEN Fresh(now[j]) ELSE ctl[j]]
  /\ busUp' = TRUE /\ tick' = 0
  /\ SetState("Capturing")
  /\ UNCHANGED <<shutdown, recVars>>

Disconnect ==
  /\ Take("Disconnect")
  /\ StopRecording /\ ctl' = AllIdled
  /\ SetState("Disconnected")
  /\ UNCHANGED <<shutdown, tick, busVars>>

(* A manual command acts on an enumerated joint that plays no trajectory.  *)
Free(j) == j \in joints /\ ctl[j].activity \notin Playing

(* Mutant of Blocked: powered motion without an envelope.                  *)
BlockedWhilePlaying(j) == ~Free(j)

(* The early returns of Jog, Current and GoTo: out of range, playing, or   *)
(* powered motion without an envelope.                                     *)
Blocked(j) == ~Free(j) \/ ~ctl[j].limits_set

ManualUnchanged == UNCHANGED <<shutdown, tick, busVars, recVars>>

JogStop ==
  /\ Take("Jog") /\ Msg.velocity = 0 /\ Free(Msg.joint)
  /\ ctl' = [ctl EXCEPT ![Msg.joint] = IF @.activity = "Jog" THEN Holding(@) ELSE @]
  /\ Recompute(ctl')
  /\ ManualUnchanged

JogStart ==
  /\ Take("Jog") /\ Msg.velocity # 0 /\ ~Blocked(Msg.joint)
  /\ \E now \in Counts :
       ctl' = [ctl EXCEPT ![Msg.joint] =
                 Perform(EngageIfNeeded(@, now), "Jog", Msg.velocity)]
  /\ Recompute(ctl')
  /\ ManualUnchanged

JogIgnored ==
  /\ Take("Jog")
  /\ IF Msg.velocity = 0 THEN ~Free(Msg.joint) ELSE Blocked(Msg.joint)
  /\ UNCHANGED <<state, event, ctl>> /\ ManualUnchanged

CurrentRelease ==
  /\ Take("Current") /\ Msg.release /\ Free(Msg.joint)
  /\ ctl' = [ctl EXCEPT ![Msg.joint] = Idled(@)]
  /\ Recompute(ctl')
  /\ ManualUnchanged

CurrentStart ==
  /\ Take("Current") /\ ~Msg.release /\ ~Blocked(Msg.joint)
  /\ \E now \in Counts :
       ctl' = [ctl EXCEPT ![Msg.joint] =
                 Perform(EngageIfNeeded(@, now), "Current", Msg.amps)]
  /\ Recompute(ctl')
  /\ ManualUnchanged

CurrentIgnored ==
  /\ Take("Current")
  /\ IF Msg.release THEN ~Free(Msg.joint) ELSE Blocked(Msg.joint)
  /\ UNCHANGED <<state, event, ctl>> /\ ManualUnchanged

GoTo ==
  /\ Take("GoTo") /\ ~Blocked(Msg.joint)
  /\ \E now \in Counts :
       ctl' = [ctl EXCEPT ![Msg.joint] =
                 Perform(EngageIfNeeded(@, now), "GoTo", Limited(@, Msg.target))]
  /\ Recompute(ctl')
  /\ ManualUnchanged

GoToIgnored ==
  /\ Take("GoTo") /\ Blocked(Msg.joint)
  /\ UNCHANGED <<state, event, ctl>> /\ ManualUnchanged

(* CaptureLimitsCommand: begin tracking, or finish and keep what was found.*)
(* Without a joint selected it changes nothing.                            *)
CaptureFinished(c) ==
  [c EXCEPT !.activity = "Idle", !.limits_set = c.min < c.max,
            !.soft_min = c.min, !.soft_max = c.max]

CaptureIgnored ==
  /\ Take("CaptureLimits") /\ Msg.joints = {}
  /\ UNCHANGED <<state, event, ctl>> /\ ManualUnchanged

CaptureStart ==
  /\ Take("CaptureLimits") /\ Msg.joints # {} /\ Msg.start
  /\ \E now \in [Msg.joints \cap joints -> Counts] :
       ctl' = [j \in Joints |->
                 IF j \in DOMAIN now
                 THEN Perform(Collapsed(Idled(ctl[j]), now[j]), "Capture", 0)
                 ELSE ctl[j]]
  /\ Recompute(ctl')
  /\ ManualUnchanged

CaptureFinish ==
  /\ Take("CaptureLimits") /\ Msg.joints # {} /\ ~Msg.start
  /\ ctl' = [j \in Joints |->
               IF j \in Msg.joints \cap joints /\ ctl[j].activity = "Capture"
               THEN CaptureFinished(ctl[j])
               ELSE ctl[j]]
  /\ Recompute(ctl')
  /\ ManualUnchanged

SetLimits ==
  /\ Take("SetLimits")
  /\ ctl' = [ctl EXCEPT ![Msg.joint] =
               IF Msg.joint \in joints
               THEN Explicit(@, Lesser(Msg.min, Msg.max), Greater(Msg.min, Msg.max))
               ELSE @]
  /\ UNCHANGED <<state, event>> /\ ManualUnchanged

ResetLimits ==
  /\ Take("ResetLimits")
  /\ \E now \in Counts :
       ctl' = [ctl EXCEPT ![Msg.joint] =
                 IF Msg.joint \in joints THEN Collapsed(@, now) ELSE @]
  /\ UNCHANGED <<state, event>> /\ ManualUnchanged

(* A spline needs a recorded trail, every other waveform a wide enough     *)
(* hard envelope.  limits_set is not asked for.                            *)
Playable(c, mode) ==
  IF mode = "spline" THEN c.trail ELSE c.max - c.min >= MinRange

(* A joint about to play: engaged where it stands, in phase Hold.  Its     *)
(* logger is replaced only when there is a log directory for this run.     *)
Started(c, now, dir, opens, wanted) ==
  [Engage(c, now) EXCEPT
     !.activity = "Hold", !.arg = now, !.traj = TRUE, !.last_error = 0,
     !.logger = IF dir THEN opens ELSE @, !.wants_log = wanted]

StartTrajectory ==
  /\ Take("StartTrajectory")
  /\ LET ready == {j \in Msg.joints \cap joints : Playable(ctl[j], Msg.mode)}
     IN  \E now \in [ready -> Counts], opened \in SUBSET ready,
            dir \in IF Msg.enable_logging THEN BOOLEAN ELSE {FALSE} :
           /\ ctl' = [j \in Joints |->
                        IF j \in ready
                        THEN Started(ctl[j], now[j], dir, j \in opened, Msg.enable_logging)
                        ELSE ctl[j]]
           /\ IF ready = {} THEN UNCHANGED <<state, event>> ELSE Recompute(ctl')
  /\ ManualUnchanged

Stop ==
  /\ Take("Stop")
  /\ ctl' = AllIdled
  /\ IF busUp THEN SetState("Connected") ELSE Recompute(ctl')
  /\ ManualUnchanged

(* A fault reset idles every joint; the state is only cleared when at      *)
(* least one driver supports the request.                                  *)
ResetFault ==
  /\ Take("ResetFault")
  /\ IF busUp THEN ctl' = AllIdled ELSE UNCHANGED ctl
  /\ IF joints \cap Resettable # {} THEN SetState("Connected")
     ELSE UNCHANGED <<state, event>>
  /\ ManualUnchanged

(* Every playing joint holds where it stands, still engaged.               *)
Pause ==
  /\ Take("Pause")
  /\ LET playing == {j \in joints : ctl[j].activity \in Playing}
     IN  \E now \in [playing -> Counts] :
           /\ ctl' = [j \in Joints |->
                        IF j \in playing THEN Holding([ctl[j] EXCEPT !.cmd = now[j]])
                        ELSE ctl[j]]
           /\ IF playing = {} THEN UNCHANGED <<state, event>> ELSE Recompute(ctl')
  /\ ManualUnchanged

(* RecordCommand: no directory, or no joint file that opens, and the       *)
(* recording does not start.                                               *)
RecordStart ==
  /\ Take("Record") /\ Msg.start
  /\ IF recording \/ ~busUp \/ joints = {} THEN UNCHANGED recVars
     ELSE \E opened \in SUBSET joints :
            rec' = opened /\ recording' = (opened # {})
  /\ UNCHANGED <<shutdown, tick, state, event, busVars, ctl>>

RecordStop ==
  /\ Take("Record") /\ ~Msg.start
  /\ StopRecording
  /\ UNCHANGED <<shutdown, tick, state, event, busVars, ctl>>

Shutdown ==
  /\ Take("Shutdown")
  /\ shutdown' = TRUE
  /\ UNCHANGED <<tick, state, event, busVars, ctl, recVars>>
-----------------------------------------------------------------------------
(* run(): what happens when the queue has been drained.                    *)
LoopUnchanged == UNCHANGED <<queue, shutdown, busVars, recVars>>

Resume ==
  /\ pc = "waiting" /\ ~shutdown /\ queue = <<>> /\ state # "Disconnected"
  /\ pc' = "draining"
  /\ UNCHANGED <<todo, tick, state, event, ctl, frame>> /\ LoopUnchanged

WaitAgain ==
  /\ pc = "draining" /\ ~shutdown /\ queue = <<>> /\ state = "Disconnected"
  /\ pc' = "waiting"
  /\ UNCHANGED <<todo, tick, state, event, ctl, frame>> /\ LoopUnchanged

BeginTick ==
  /\ pc = "draining" /\ ~shutdown /\ queue = <<>> /\ state # "Disconnected"
  /\ pc' = "control" /\ todo' = joints
  /\ UNCHANGED <<tick, state, event, ctl, frame>> /\ LoopUnchanged

(* Mutant of Exit: the drives are left as they are.                        *)
ExitLeavingPower ==
  /\ shutdown
  /\ pc = "waiting" \/ (pc = "draining" /\ queue = <<>>)
  /\ pc' = "exited"
  /\ IF busUp THEN StopRecording ELSE UNCHANGED recVars
  /\ UNCHANGED <<queue, shutdown, todo, tick, state, event, busVars, ctl, frame>>

(* Leaving run(): idle everything.                                         *)
Exit ==
  /\ shutdown
  /\ pc = "waiting" \/ (pc = "draining" /\ queue = <<>>)
  /\ pc' = "exited"
  /\ IF busUp THEN StopRecording /\ ctl' = AllIdled ELSE UNCHANGED <<recVars, ctl>>
  /\ UNCHANGED <<queue, shutdown, todo, tick, state, event, busVars, frame>>

Exited == pc = "exited" /\ UNCHANGED vars
-----------------------------------------------------------------------------
(* controlTick: one step per joint, in any order, by its activity.         *)
Serve(j, activities) ==
  /\ pc = "control" /\ j \in todo /\ ctl[j].activity \in activities
  /\ todo' = todo \ {j}
  /\ UNCHANGED <<pc, tick, frame>> /\ LoopUnchanged

TickIdle(j) ==
  /\ Serve(j, {"Idle"})
  /\ \E now \in Counts : ctl' = [ctl EXCEPT ![j] = Learned(@, now)]
  /\ UNCHANGED <<state, event>>

(* The trail becomes long enough for a spline at some time, and stays so;  *)
(* with waypoint_decimation_deg = 0 it need not have left its position.    *)
TickCapture(j) ==
  /\ Serve(j, {"Capture"})
  /\ \E now \in Counts, long \in BOOLEAN :
       LET c == Learned(ctl[j], now)
       IN  /\ c.trail => long
           /\ ctl' = [ctl EXCEPT ![j] = [c EXCEPT !.cmd = now, !.trail = long]]
  /\ UNCHANGED <<state, event>>

(* Mutant of Jogged: the setpoint is not clamped.                          *)
JoggedUnclamped(c, step) == [c EXCEPT !.cmd = c.cmd + step]

(* The step of one tick may round to no count at all.  Without an envelope *)
(* the setpoint is not clamped; MaxCount then stops it, as a model bound.  *)
Jogged(c, step) ==
  [c EXCEPT !.cmd = IF c.limits_set THEN Limited(c, c.cmd + step)
                    ELSE Clamp(c.cmd + step, 0, MaxCount)]

TickJog(j) ==
  /\ Serve(j, {"Jog"})
  /\ \E step \in {0, ctl[j].arg} : ctl' = [ctl EXCEPT ![j] = Jogged(@, step)]
  /\ UNCHANGED <<state, event>>

(* min_jerk is monotone from where the move began to its target.           *)
TickGoTo(j) ==
  /\ Serve(j, {"GoTo"})
  /\ \E x \in Lesser(ctl[j].cmd, ctl[j].arg) .. Greater(ctl[j].cmd, ctl[j].arg) :
       ctl' = [ctl EXCEPT ![j].cmd = x]
  /\ UNCHANGED <<state, event>>

TickCurrent(j) ==
  /\ Serve(j, {"Current"})
  /\ \E now \in Counts, r \in Readings :
       /\ ~Violated(ctl[j], r)
       /\ ctl' = [ctl EXCEPT ![j] = [@ EXCEPT !.last_error = r.error, !.cmd = now,
                                             !.torque = ctl[j].arg]]
  /\ UNCHANGED <<state, event>>

(* The reference is the start while holding, then whatever the filter      *)
(* yields on its way; the phase moves on when its time is over.            *)
NextPhase(phase) ==
  CASE phase = "Hold" -> {"Hold", "Approach"}
    [] phase = "Approach" -> {"Approach", "Play"}
    [] phase = "Play" -> {"Play"}

TickTrajectory(j) ==
  /\ Serve(j, Playing)
  /\ \E r \in Readings, phase \in NextPhase(ctl[j].activity),
        ref \in IF ctl[j].activity = "Hold" THEN {ctl[j].arg} ELSE Counts :
       /\ ~Violated(ctl[j], r)
       /\ ctl' = [ctl EXCEPT ![j] = [@ EXCEPT !.last_error = r.error, !.activity = phase,
                                             !.cmd = Limited(ctl[j], ref)]]
  /\ UNCHANGED <<state, event>>

(* Only a current test and a trajectory are checked, and only their own    *)
(* joint is idled.                                                         *)
SafetyAbort(j) ==
  /\ Serve(j, Playing \cup {"Current"})
  /\ \E r \in Readings : Violated(ctl[j], r)
  /\ ctl' = [ctl EXCEPT ![j] = Idled(@)]
  /\ SetState("Faulted")

EndTick ==
  /\ pc = "control" /\ todo = {}
  /\ pc' = "draining"
  /\ frame' = IF tick = 0 THEN recording ELSE frame
  /\ tick' = (tick + 1) % PublishEvery
  /\ UNCHANGED <<queue, shutdown, todo, state, event, busVars, ctl, recVars>>
-----------------------------------------------------------------------------
HandleCommand ==
  \/ Reconnect \/ ConnectFails \/ Connect \/ Disconnect
  \/ JogStop \/ JogStart \/ JogIgnored
  \/ CurrentRelease \/ CurrentStart \/ CurrentIgnored
  \/ GoTo \/ GoToIgnored
  \/ CaptureIgnored \/ CaptureStart \/ CaptureFinish \/ SetLimits \/ ResetLimits
  \/ StartTrajectory \/ Stop \/ ResetFault \/ Pause
  \/ RecordStart \/ RecordStop \/ Shutdown

TickJoint(j) ==
  \/ TickIdle(j) \/ TickCapture(j) \/ TickJog(j) \/ TickGoTo(j)
  \/ TickCurrent(j) \/ TickTrajectory(j) \/ SafetyAbort(j)

Worker ==
  \/ HandleCommand
  \/ Resume \/ WaitAgain \/ BeginTick \/ EndTick \/ Exit
  \/ \E j \in Joints : TickJoint(j)

Next == Worker \/ DrainEvents \/ Exited \/ \E c \in Commands : Post(c)

Spec == Init /\ [][Next]_vars

(* The worker is a thread of its own that nothing blocks but its condition *)
(* variable: weak fairness of its steps.  Clients need never post.         *)
FairSpec == Spec /\ WF_vars(Worker)
-----------------------------------------------------------------------------
TypeOK ==
  /\ queue \in Seq(AllCommands)
  /\ shutdown \in BOOLEAN
  /\ pc \in {"waiting", "draining", "control", "exited"}
  /\ todo \subseteq Joints
  /\ tick \in 0 .. PublishEvery - 1
  /\ state \in States
  /\ event \in States \cup {"none"}
  /\ joints \subseteq Joints
  /\ busUp \in BOOLEAN
  /\ ctl \in [Joints -> JointCtl]
  /\ recording \in BOOLEAN
  /\ rec \subseteq Joints
  /\ frame \in BOOLEAN

PowerMatches(c) ==
  /\ c.engaged <=> c.activity \notin Backdrivable
  /\ ~c.engaged => c.torque = 0 /\ ~c.traj
  /\ c.logger => c.traj
  /\ c.activity \in Playing => c.traj

(* A drive is powered exactly while its joint performs a powered activity; *)
(* a drive that is not powered has no torque left in its register, and no  *)
(* trajectory or log outlives the power.  engageJoint and idleJoint are    *)
(* called from twelve handlers that also set the activity themselves.      *)
PoweredMatchesActivity == \A j \in Joints : PowerMatches(ctl[j])

Ordered(c) ==
  /\ c.min <= c.soft_min /\ c.soft_min <= c.soft_max /\ c.soft_max <= c.max
  /\ c.limits_set <=> c.min < c.max

(* The soft limits lie inside the hard ones and both are ordered, through  *)
(* every mix of capture, learning, explicit limits and reset: std::clamp   *)
(* is undefined otherwise.  limits_set says whether the hard ones span a   *)
(* range, also where a handler or the tick widens or collapses them.       *)
EnvelopeOrdered == \A j \in Joints : Ordered(ctl[j])

(* The state shown to the operator never hides motion under position       *)
(* control: a playing joint shows as Running (or Faulted), and no jogging  *)
(* or moving joint is labelled Connected or Disconnected, whichever order  *)
(* the joints were started, paused, stopped or tripped in.                 *)
LabelShowsMotion ==
  /\ Some(ctl, Playing) => state \in {"Running", "Faulted"}
  /\ Some(ctl, Manual) => state \notin {"Connected", "Disconnected"}

(* After DisconnectCommand, and after the thread has left run(), no drive  *)
(* is powered: this includes joints energised by commands that were still  *)
(* queued when the disconnect was handled.                                 *)
NothingLeftPowered ==
  state = "Disconnected" \/ pc = "exited" => \A j \in Joints : ~ctl[j].engaged

(* The recording flag and the open recording files agree; only joints of   *)
(* the bus have one, and none is left open when the thread is gone.        *)
RecordingMatchesFiles ==
  /\ recording <=> rec # {}
  /\ rec \subseteq joints
  /\ pc = "exited" => rec = {}

(* Faulted is sticky: a step that clears it leaves every drive unpowered.  *)
FaultClearedOnlyByIdling ==
  [][state = "Faulted" /\ state' # "Faulted" => \A j \in Joints : ~ctl'[j].engaged]_vars

(* "Powered motion is only allowed once a valid limit envelope has been    *)
(* captured" (controller_worker.cpp:545): a step that powers a joint finds *)
(* an envelope that spans a range, or plays back a recorded trail.         *)
EnvelopeBeforePower ==
  [][\A j \in Joints :
       ~ctl[j].engaged /\ ctl'[j].engaged =>
         \/ ctl[j].limits_set
         \/ ctl[j].trail /\ ctl'[j].activity = "Hold"]_vars

(* A tick never moves the setpoint of a jogging or playing joint outside   *)
(* the hard envelope, even when the soft limits it clamps to were set by   *)
(* another handler than the hard ones.                                     *)
Ticked(j) == j \in todo /\ j \notin todo'
SetpointInsideEnvelope ==
  [][\A j \in Joints :
       Ticked(j) /\ ctl'[j].engaged
         /\ (ctl[j].activity \in Playing \/ (ctl[j].activity = "Jog" /\ ctl[j].limits_set))
       => ctl'[j].cmd \in ctl[j].min .. ctl[j].max]_vars

AllReleased == \A j \in Joints : ~ctl[j].engaged
Queued(type) == \E i \in 1 .. Len(queue) : queue[i].type = type

(* A posted emergency stop is eventually followed by a moment in which     *)
(* every drive is idle, whatever else is queued before or after it.        *)
StopIdlesEverything == Queued("Stop") ~> AllReleased

(* Once ShutdownCommand is posted the thread ends with every drive idle.   *)
ShutdownEnds == Queued("Shutdown") ~> (pc = "exited" /\ AllReleased)
-----------------------------------------------------------------------------
(* What comments of the repository say and the code does not do.           *)

(* telemetry.hpp:27 says of Faulted: "A safety violation tripped; drives   *)
(* idled."  controlTick idles the joint that tripped and no other.         *)
FaultedMeansIdled == state = "Faulted" => AllReleased
=============================================================================
