--------------------------- MODULE ConsoleSession ---------------------------
(***************************************************************************)
(* The console program (actuator-cli.cpp; the programs built on the        *)
(* actuator_test library run the same session).  One thread leads the      *)
(* operator through a selection of joints, the capture of their limits by  *)
(* hand and a trajectory played on all of them; the bus thread and the     *)
(* drives go on beside it, and Ctrl-C may come at any time.                *)
(*                                                                         *)
(* Keys, positions and the durations of approaches are inputs.  Time is    *)
(* counted in periods of the control loop.                                 *)
(***************************************************************************)
EXTENDS Integers

CONSTANTS
  Joints,         \* the joints found on the bus
  Selectable,     \* those the picker accepts
  MaxCount,       \* bound: encoder counts are 0 .. MaxCount
  MinRange,       \* profile.min_range_deg, in counts
  HoldTicks,      \* profile.pre_ramp_hold_seconds
  ApproachTicks,  \* durations of an approach (approach_T) in ticks begun, one at
                  \* least: a phase ends in the tick after it, also if it is 0 long
  ErrorCodes,     \* the nonzero values of a drive's error_code register
  MaxTicks        \* bound: the clock of a run stands still from here on

Counts == 0 .. MaxCount

ASSUME ConstantsAssumption ==
  /\ Selectable \subseteq Joints
  /\ MaxCount \in Nat /\ MinRange \in Nat
  /\ HoldTicks \in Nat /\ ApproachTicks \subseteq Nat \ {0}
  /\ ErrorCodes \subseteq Nat \ {0}
  /\ MaxTicks \in Nat

VARIABLES
  running,  \* rt_app_t::running()
  pc,       \* where the program is
  plans,    \* the joints of this round
  limits,   \* their min_counts and max_counts
  ctl,      \* start_counts, approach_T, phase, phase_t and last_error
  tick,     \* the ticks of this run
  todo,     \* joints the running tick has still to move
  power,    \* drives whose operation mode is enabled
  cmd,      \* the target position last sent to a powered drive
  logs,     \* joints with an open csv_logger
  fault     \* drives with the fault bit set, or too hot

plan == <<plans, limits, ctl, tick, todo>>
drives == <<power, cmd, logs>>
vars == <<running, pc, plan, drives, fault>>

Phases == {"Hold", "Approach", "Trajectory"}
Limits == [min : Counts, max : Counts]
Plan == [start : Counts, approach : ApproachTicks \cup {0}, phase : Phases,
         phase_t : Nat, last_error : ErrorCodes \cup {0}]

Prompts == {"pick", "mode", "prompt"}
Playing == {"check", "move"}
Places == Prompts \cup Playing
            \cup {"head", "capture", "captured", "drop", "settle", "release",
                  "finish", "exited"}

Clamp(x, lo, hi) == IF x < lo THEN lo ELSE IF hi < x THEN hi ELSE x

NewPlan == [start |-> 0, approach |-> 0, phase |-> "Hold", phase_t |-> 0, last_error |-> 0]
NoLimits == [min |-> 0, max |-> 0]

(* A JointPlan begins and ends with the round of the main loop.            *)
NoPlans ==
  /\ plans' = {} /\ tick' = 0 /\ todo' = {}
  /\ limits' = [j \in Joints |-> NoLimits] /\ ctl' = [j \in Joints |-> NewPlan]

(* Mutant of Idle: only the joint that gave the reason is idled.           *)
IdleViolators(S) ==
  /\ power' = power \ (S \cap fault)
  /\ cmd' = [j \in Joints |-> IF j \in S THEN 0 ELSE cmd[j]]

(* Target to where the joint is, and idle, for every joint of S: from now  *)
(* on its drive ignores the target.                                        *)
Idle(S) ==
  /\ power' = power \ S
  /\ cmd' = [j \in Joints |-> IF j \in S THEN 0 ELSE cmd[j]]
-----------------------------------------------------------------------------
(* main() has started the bus, enumerated the joints and idled them all.   *)
Init ==
  /\ running = TRUE /\ pc = "head"
  /\ plans = {} /\ tick = 0 /\ todo = {}
  /\ limits = [j \in Joints |-> NoLimits] /\ ctl = [j \in Joints |-> NewPlan]
  /\ power = {} /\ cmd = [j \in Joints |-> 0] /\ logs = {}
  /\ fault \in SUBSET Joints

(* while (running()) of main().                                            *)
LoopHead ==
  /\ pc = "head"
  /\ pc' = IF running THEN "pick" ELSE "finish"
  /\ UNCHANGED <<running, plan, drives, fault>>

(* pick_joints: quit, a line that is refused as a whole, or distinct       *)
(* selectable joints.  No signal interrupts the reading of a line.         *)
PickJoints ==
  /\ pc = "pick"
  /\ \/ pc' = "finish" /\ UNCHANGED plans
     \/ pc' = "head" /\ UNCHANGED plans
     \/ pc' = "mode" /\ plans' \in (SUBSET Selectable) \ {{}}
  /\ UNCHANGED <<running, limits, ctl, tick, todo, drives, fault>>

(* pick_mode: quit, or one of the waveforms.  Then idle_all, and the       *)
(* capture is seeded with where the joints are.                            *)
PickMode ==
  /\ pc = "mode"
  /\ \/ pc' = "finish" /\ NoPlans /\ UNCHANGED <<power, cmd>>
     \/ /\ pc' = "capture" /\ Idle(Joints)
        /\ \E seed \in [plans -> Counts] :
             limits' = [j \in Joints |-> IF j \in plans
                                         THEN [min |-> seed[j], max |-> seed[j]]
                                         ELSE NoLimits]
        /\ UNCHANGED <<plans, ctl, tick, todo>>
  /\ UNCHANGED <<running, logs, fault>>

Widened(l, now) ==
  [min |-> IF now < l.min THEN now ELSE l.min, max |-> IF l.max < now THEN now ELSE l.max]

(* One round of the capture loop: the keys decide where it goes next, and  *)
(* the limits of every joint are widened in any case.                      *)
Keys == {"none", "enter", "q"}

Capture ==
  /\ pc = "capture" /\ running
  /\ \E key \in Keys :
       pc' = CASE key = "none" -> "capture" [] key = "enter" -> "captured" [] key = "q" -> "drop"
  /\ \E now \in [plans -> Counts] :
       limits' = [j \in Joints |-> IF j \in plans THEN Widened(limits[j], now[j]) ELSE limits[j]]
  /\ UNCHANGED <<running, plans, ctl, tick, todo, drives, fault>>

CaptureInterrupted ==
  /\ pc = "capture" /\ ~running
  /\ pc' = "drop"
  /\ UNCHANGED <<running, plan, drives, fault>>

TooSmall == \E j \in plans : limits[j].max - limits[j].min < MinRange

(* The end of capture_limits_multi: one joint with too little range, or a  *)
(* recording with too few waypoints, drops the whole selection.            *)
Captured ==
  /\ pc = "captured"
  /\ \E enough \in BOOLEAN :
       pc' = IF TooSmall \/ ~enough THEN "drop"
             ELSE IF running THEN "prompt" ELSE "finish"
  /\ UNCHANGED <<running, plan, drives, fault>>

Drop ==
  /\ pc = "drop"
  /\ pc' = IF running THEN "head" ELSE "finish"
  /\ Idle(Joints) /\ NoPlans
  /\ UNCHANGED <<running, logs, fault>>

(* run_trajectory_multi up to its question: Enter engages every drive      *)
(* where it stands; the end of input or 'q' leaves them idle.              *)
Refuse ==
  /\ pc = "prompt"
  /\ pc' = "head"
  /\ Idle(Joints) /\ NoPlans
  /\ UNCHANGED <<running, logs, fault>>

Engage ==
  /\ pc = "prompt"
  /\ pc' = "settle"
  /\ power' = plans
  /\ \E now \in [plans -> Counts] :
       cmd' = [j \in Joints |-> IF j \in plans THEN now[j] ELSE cmd[j]]
  /\ UNCHANGED <<running, plan, logs, fault>>

(* 100 ms later the approach of every joint is planned from where it is    *)
(* then.  A log that does not open is done without.                        *)
Settle ==
  /\ pc = "settle"
  /\ pc' = "check"
  /\ \E start \in [plans -> Counts], approach \in [plans -> ApproachTicks] :
       ctl' = [j \in Joints |->
                 IF j \in plans
                 THEN [NewPlan EXCEPT !.start = start[j], !.approach = approach[j]]
                 ELSE ctl[j]]
  /\ logs' \in SUBSET plans
  /\ UNCHANGED <<running, plans, limits, tick, todo, power, cmd, fault>>
-----------------------------------------------------------------------------
(* safety_violated: the fault bit or the temperature, or the same error    *)
(* code as in the tick before.                                             *)
Violated(j, code) == j \in fault \/ (code # 0 /\ code = ctl[j].last_error)

(* Mutant of Trips: a joint is only stopped together with all others.      *)
TripsOfAll(code) == \A j \in plans : Violated(j, code[j])

Trips(code) == \E j \in plans : Violated(j, code[j])

(* Mutant of Interrupted: the loop goes on until 'q' or a violation.       *)
NeverInterrupted == FALSE

Interrupted == ~running

UserQuits ==
  /\ pc = "check" /\ ~Interrupted
  /\ pc' = "release"
  /\ UNCHANGED <<running, plan, drives, fault>>

(* Every joint is checked before any of them gets a setpoint.  The error   *)
(* code of a drive comes and goes.                                         *)
Check ==
  /\ pc = "check"
  /\ \E code \in [plans -> ErrorCodes \cup {0}] :
       IF Interrupted \/ Trips(code)
       THEN pc' = "release" /\ UNCHANGED <<ctl, todo>>
       ELSE /\ pc' = "move" /\ todo' = plans
            /\ ctl' = [j \in Joints |->
                         IF j \in plans THEN [ctl[j] EXCEPT !.last_error = code[j]] ELSE ctl[j]]
  /\ UNCHANGED <<running, plans, limits, tick, drives, fault>>

(* The phase of one joint is over when its own time is.                    *)
PhaseOver(p) ==
  \/ p.phase = "Hold" /\ p.phase_t >= HoldTicks
  \/ p.phase = "Approach" /\ p.phase_t >= p.approach

Following(phase) == IF phase = "Hold" THEN "Approach" ELSE "Trajectory"

(* Mutant of Entered: phase_t runs on into the next phase.                 *)
EnteredRunningOn(p) == [p EXCEPT !.phase = Following(@)]

Entered(p) == [p EXCEPT !.phase = Following(@), !.phase_t = 0]

Advanced(p) ==
  LET q == IF PhaseOver(p) THEN Entered(p) ELSE p
  IN  [q EXCEPT !.phase_t = @ + 1]

(* What the filter yields: the start while holding, where it was primed;   *)
(* then anything, for splines and filters overshoot.                       *)
References(p) == IF p.phase = "Hold" THEN {p.start} ELSE -1 .. (MaxCount + 1)

(* Mutants of Setpoint: the filtered reference is sent as it is, or it is  *)
(* clamped to the limits of another joint of the run.                      *)
SetpointUnclamped(j, ref) == ref
SetpointOfAnother(j, ref) ==
  LET k == CHOOSE k \in plans : plans = {j} \/ k # j
  IN  Clamp(ref, limits[k].min, limits[k].max)

Setpoint(j, ref) == Clamp(ref, limits[j].min, limits[j].max)

Move(j) ==
  /\ pc = "move" /\ j \in todo
  /\ todo' = todo \ {j}
  /\ \E ref \in References(ctl[j]) : cmd' = [cmd EXCEPT ![j] = Setpoint(j, ref)]
  /\ ctl' = IF tick < MaxTicks THEN [ctl EXCEPT ![j] = Advanced(@)] ELSE ctl
  /\ UNCHANGED <<running, pc, plans, limits, tick, power, logs, fault>>

EndTick ==
  /\ pc = "move" /\ todo = {}
  /\ pc' = "check"
  /\ tick' = IF tick < MaxTicks THEN tick + 1 ELSE tick
  /\ UNCHANGED <<running, plans, limits, ctl, todo, drives, fault>>

(* Leaving the loop, for whatever reason, idles every joint of the round   *)
(* and closes its log; main() idles all joints once more.                  *)
Release ==
  /\ pc = "release"
  /\ pc' = "head"
  /\ Idle(plans) /\ NoPlans
  /\ logs' = {}
  /\ UNCHANGED <<running, fault>>

Finish ==
  /\ pc = "finish"
  /\ pc' = "exited"
  /\ Idle(Joints) /\ NoPlans
  /\ UNCHANGED <<running, logs, fault>>

Exited == pc = "exited" /\ UNCHANGED vars
-----------------------------------------------------------------------------
(* SIGINT or SIGTERM: the handler terminates rt_app.                       *)
Signal ==
  /\ running /\ running' = FALSE
  /\ UNCHANGED <<pc, plan, drives, fault>>

(* A drive raises a fault, which stays while it is powered.                *)
DriveFaults(j) ==
  /\ j \in power \ fault
  /\ fault' = fault \cup {j}
  /\ UNCHANGED <<running, pc, plan, drives>>

DriveRecovers(j) ==
  /\ j \in fault \ power
  /\ fault' = fault \ {j}
  /\ UNCHANGED <<running, pc, plan, drives>>

Environment == Signal \/ \E j \in Joints : DriveFaults(j) \/ DriveRecovers(j)

(* What the program does by itself, and what waits for the operator.       *)
Program ==
  \/ LoopHead \/ CaptureInterrupted \/ Captured \/ Drop
  \/ Settle \/ Check \/ EndTick \/ Release \/ Finish
  \/ \E j \in Joints : Move(j)

Operator == PickJoints \/ PickMode \/ Capture \/ Refuse \/ Engage \/ UserQuits

Next == Program \/ Operator \/ Environment \/ Exited

Spec == Init /\ [][Next]_vars

(* The thread runs; the operator need never type.                          *)
FairSpec == Spec /\ WF_vars(Program)
-----------------------------------------------------------------------------
TypeOK ==
  /\ running \in BOOLEAN
  /\ pc \in Places
  /\ plans \subseteq Selectable
  /\ limits \in [Joints -> Limits]
  /\ ctl \in [Joints -> Plan]
  /\ tick \in 0 .. MaxTicks
  /\ todo \subseteq Joints
  /\ power \subseteq Joints
  /\ cmd \in [Joints -> Counts]
  /\ logs \subseteq Joints
  /\ fault \subseteq Joints

(* Drives are powered together and only for a run: exactly the selected    *)
(* ones from the operator's Enter until the loop is left, none before the  *)
(* question is answered, at a prompt or after the program's end, and no    *)
(* log is open outside a run.  Runs end in four ways and a round in six.   *)
PowerOnlyInRun ==
  /\ power = IF pc \in Playing \cup {"settle", "release"} THEN plans ELSE {}
  /\ logs \subseteq power

(* What is powered was captured: a wide enough envelope for every joint of *)
(* the selection ("One or more joints have range < ... Aborting            *)
(* selection."), and from the first tick on each setpoint lies inside the  *)
(* envelope of its own joint.                                              *)
PoweredInsideCapture ==
  \A j \in power :
    /\ limits[j].max - limits[j].min >= MinRange
    /\ tick > 0 => cmd[j] \in limits[j].min .. limits[j].max

(* Ticks a joint has spent in the loop, by its phase and phase_t.          *)
Elapsed(p) ==
  CASE p.phase = "Hold" -> p.phase_t
    [] p.phase = "Approach" -> HoldTicks + p.phase_t
    [] p.phase = "Trajectory" -> HoldTicks + p.approach + p.phase_t

Moved(j) == pc = "move" /\ j \notin todo /\ tick < MaxTicks

(* No joint gains or loses a tick on another: phase and phase_t of each    *)
(* account for the ticks of the run.  So all joints leave the hold in one  *)
(* tick, and two that play are apart by the difference of their approach   *)
(* times, from the first sample to the last.                               *)
PhasesInStep ==
  pc \in Playing =>
    \A j \in plans : Elapsed(ctl[j]) = tick + (IF Moved(j) THEN 1 ELSE 0)

(* After Ctrl-C the drives are idle for good before long, wherever the     *)
(* program was: also when the line it was waiting for is typed afterwards. *)
SignalIdlesForGood == ~running ~> [](power = {})

(* A fault of one joint that stays leads to every joint of the run being   *)
(* idle, unlike in the GUI's worker, which idles the faulted one.          *)
FaultIdlesAll == \A j \in Joints : (j \in fault \cap power ~> power = {})
=============================================================================
