------------------------ MODULE ConsoleSessionProofs ------------------------
(***************************************************************************)
(* The invariants of the console session for any number of joints, any     *)
(* range of positions and any durations.                                   *)
(***************************************************************************)
EXTENDS ConsoleSession, TLAPS

InRun == Playing \cup {"settle", "release"}

(* The envelopes of the round have passed the check of the captured range. *)
WideEnough ==
  pc \in InRun \cup {"prompt"} =>
    \A j \in plans : limits[j].max - limits[j].min >= MinRange

(* The clock of a run starts with it.                                      *)
ClockOfRun == pc \notin Playing \cup {"release"} => tick = 0

(* A joint has a setpoint inside its envelope once it has been moved, in   *)
(* this tick or in one before.                                             *)
SetpointInside ==
  pc \in Playing \cup {"release"} =>
    \A j \in plans :
      tick > 0 \/ (pc = "move" /\ j \notin todo) => cmd[j] \in limits[j].min .. limits[j].max

(* phase_t never passes the duration of its phase.                         *)
PhaseBounded(p) ==
  /\ p.approach \in ApproachTicks
  /\ p.phase = "Hold" => p.phase_t <= HoldTicks
  /\ p.phase = "Approach" => p.phase_t <= p.approach

PhasesBounded == pc \in Playing => \A j \in plans : PhaseBounded(ctl[j])

Core == TypeOK /\ PowerOnlyInRun /\ WideEnough /\ ClockOfRun

IInv == Core /\ SetpointInside /\ PhasesBounded /\ PhasesInStep
-----------------------------------------------------------------------------
LEMMA PlanNumbers ==
  ASSUME NEW p \in Plan
  PROVE  p.approach \in Nat /\ p.phase_t \in Nat /\ p.phase \in Phases
<1>1. p.approach \in ApproachTicks \cup {0} /\ p.phase_t \in Nat /\ p.phase \in Phases
  BY DEF Plan
<1>2. ApproachTicks \cup {0} \subseteq Nat
  BY ConstantsAssumption
<1> QED BY <1>1, <1>2, Zenon

(* A joint that enters its next phase starts its clock again.              *)
LEMMA EnteredPlan ==
  ASSUME NEW p \in Plan, PhaseOver(p), PhaseBounded(p)
  PROVE  /\ Entered(p) \in Plan /\ PhaseBounded(Entered(p))
         /\ Entered(p).phase = "Approach" => Entered(p).phase_t < Entered(p).approach
         /\ Elapsed(Entered(p)) = Elapsed(p)
<1> DEFINE e == Entered(p)
<1>1. /\ e \in Plan /\ e.phase_t = 0 /\ e.approach = p.approach
      /\ e.phase = Following(p.phase)
  BY DEF Entered, Plan, Following, Phases
<1> HIDE DEF e
<1>2. /\ p.approach \in Nat /\ p.approach > 0 /\ p.phase_t \in Nat /\ HoldTicks \in Nat
  BY PlanNumbers, ConstantsAssumption DEF PhaseBounded
<1>3. \/ p.phase = "Hold" /\ p.phase_t = HoldTicks /\ e.phase = "Approach"
      \/ p.phase = "Approach" /\ p.phase_t = p.approach /\ e.phase = "Trajectory"
  BY <1>1, <1>2 DEF PhaseOver, PhaseBounded, Following
<1>4. PhaseBounded(e)
  BY <1>1, <1>2, <1>3 DEF PhaseBounded
<1>5. e.phase = "Approach" => e.phase_t < e.approach
  BY <1>1, <1>2
<1>6. Elapsed(e) = Elapsed(p)
  BY <1>1, <1>2, <1>3 DEF Elapsed
<1> QED BY <1>1, <1>4, <1>5, <1>6 DEF e

LEMMA EnteredType ==
  ASSUME NEW p \in Plan PROVE Entered(p) \in Plan
BY DEF Plan, Entered, Following, Phases

(* One more tick, within a phase that is not over.                         *)
LEMMA OneTickMore ==
  ASSUME NEW q \in Plan, NEW r, r = [q EXCEPT !.phase_t = @ + 1]
  PROVE  /\ r \in Plan
         /\ Elapsed(r) = Elapsed(q) + 1
         /\ PhaseBounded(q) /\ ~PhaseOver(q) => PhaseBounded(r)
BY ConstantsAssumption DEF Plan, PhaseOver, PhaseBounded, Elapsed, Phases

LEMMA AdvancedType ==
  ASSUME NEW p \in Plan PROVE Advanced(p) \in Plan
<1> DEFINE q == IF PhaseOver(p) THEN Entered(p) ELSE p
<1>1. q \in Plan BY EnteredType
<1>2. Advanced(p) = [q EXCEPT !.phase_t = @ + 1] BY DEF Advanced
<1> HIDE DEF q
<1> QED BY <1>1, <1>2, OneTickMore

(* One more tick, whichever phase it ends in.                              *)
LEMMA AdvancedByOne ==
  ASSUME NEW p \in Plan, PhaseBounded(p)
  PROVE  PhaseBounded(Advanced(p)) /\ Elapsed(Advanced(p)) = Elapsed(p) + 1
<1> DEFINE q == IF PhaseOver(p) THEN Entered(p) ELSE p
<1>1. q \in Plan /\ PhaseBounded(q) /\ ~PhaseOver(q) /\ Elapsed(q) = Elapsed(p)
  <2>1. CASE PhaseOver(p)
    <3>1. /\ Entered(p) \in Plan /\ PhaseBounded(Entered(p))
          /\ Entered(p).phase = "Approach" => Entered(p).phase_t < Entered(p).approach
          /\ Elapsed(Entered(p)) = Elapsed(p)
      BY <2>1, EnteredPlan
    <3>2. Entered(p).phase # "Hold"
      BY <2>1 DEF Entered, Following, Plan, PhaseOver
    <3>3. ~PhaseOver(Entered(p))
      <4> DEFINE e == Entered(p)
      <4>1. e \in Plan /\ e.phase # "Hold" /\ (e.phase = "Approach" => e.phase_t < e.approach)
        BY <3>1, <3>2
      <4> HIDE DEF e
      <4>2. e.approach \in Nat /\ e.phase_t \in Nat
        BY <4>1, PlanNumbers
      <4>3. ~PhaseOver(e)
        BY <4>1, <4>2 DEF PhaseOver
      <4> QED BY <4>3 DEF e
    <3> QED BY <2>1, <3>1, <3>3
  <2>2. CASE ~PhaseOver(p)
    BY <2>2
  <2> QED BY <2>1, <2>2
<1>2. Advanced(p) = [q EXCEPT !.phase_t = @ + 1] BY DEF Advanced
<1> HIDE DEF q
<1> QED BY <1>1, <1>2, OneTickMore

(* A setpoint lies inside the envelope of its joint, if that is not empty. *)
LEMMA SetpointClamped ==
  ASSUME NEW j \in Joints, limits[j] \in Limits, NEW ref \in Int
  PROVE  /\ Setpoint(j, ref) \in Counts
         /\ limits[j].min <= limits[j].max =>
              Setpoint(j, ref) \in limits[j].min .. limits[j].max
BY ConstantsAssumption DEF Setpoint, Clamp, Limits, Counts

(* What the check of the tick leaves of a joint: all but the last error.   *)
Checked(code) ==
  [j \in Joints |->
     IF j \in plans THEN [ctl[j] EXCEPT !.last_error = code[j]] ELSE ctl[j]]

LEMMA CheckedPlans ==
  ASSUME TypeOK, NEW code \in [plans -> ErrorCodes \cup {0}]
  PROVE  /\ Checked(code) \in [Joints -> Plan]
         /\ \A j \in plans : /\ PhaseBounded(ctl[j]) => PhaseBounded(Checked(code)[j])
                           /\ Elapsed(Checked(code)[j]) = Elapsed(ctl[j])
<1>1. ASSUME NEW c \in Plan, NEW e \in ErrorCodes \cup {0}
      PROVE  /\ [c EXCEPT !.last_error = e] \in Plan
             /\ PhaseBounded(c) => PhaseBounded([c EXCEPT !.last_error = e])
             /\ Elapsed([c EXCEPT !.last_error = e]) = Elapsed(c)
  BY DEF Plan, PhaseBounded, Elapsed
<1>2. plans \subseteq Joints /\ ctl \in [Joints -> Plan]
  BY ConstantsAssumption DEF TypeOK
<1> QED BY <1>1, <1>2 DEF Checked

LEMMA NoPlansType ==
  ASSUME NoPlans
  PROVE  /\ plans' = {} /\ tick' = 0 /\ todo' = {}
         /\ limits' \in [Joints -> Limits] /\ ctl' \in [Joints -> Plan]
BY ConstantsAssumption DEF NoPlans, NoLimits, Limits, Counts, NewPlan, Plan, Phases

LEMMA IdleType ==
  ASSUME TypeOK, NEW S, Idle(S)
  PROVE  power' = power \ S /\ cmd' \in [Joints -> Counts]
BY ConstantsAssumption DEF Idle, TypeOK, Counts
-----------------------------------------------------------------------------
LEMMA InitOK == Init => IInv
<1> SUFFICES ASSUME Init PROVE IInv OBVIOUS
<1> USE ConstantsAssumption
<1>1. TypeOK
  BY DEF Init, TypeOK, Places, NoLimits, Limits, Counts, NewPlan, Plan, Phases
<1>2. PowerOnlyInRun /\ WideEnough /\ ClockOfRun
  BY DEF Init, PowerOnlyInRun, WideEnough, ClockOfRun, InRun, Playing
<1>3. SetpointInside /\ PhasesBounded /\ PhasesInStep
  BY DEF Init, SetpointInside, PhasesBounded, PhasesInStep, Playing
<1> QED BY <1>1, <1>2, <1>3 DEF IInv, Core

(* Every step keeps the types.                                             *)
LEMMA TypeStep == TypeOK /\ [Next]_vars => TypeOK'
<1> SUFFICES ASSUME TypeOK, [Next]_vars PROVE TypeOK' OBVIOUS
<1> USE ConstantsAssumption
<1>1. CASE LoopHead
  BY <1>1 DEF LoopHead, TypeOK, plan, drives, Places, Prompts, Playing
<1>2. CASE PickJoints
  BY <1>2 DEF PickJoints, TypeOK, drives, Places, Prompts, Playing
<1>3. CASE PickMode /\ pc' = "finish"
  <2>1. NoPlans /\ UNCHANGED <<power, cmd, running, logs, fault>>
    BY <1>3 DEF PickMode
  <2> QED BY <2>1, <1>3, NoPlansType DEF TypeOK, Places, Prompts, Playing
<1>4. CASE PickMode /\ pc' = "capture"
  <2>1. limits' \in [Joints -> Limits]
    BY <1>4 DEF PickMode, TypeOK, Limits, NoLimits, Counts
  <2>2. Idle(Joints) /\ UNCHANGED <<plans, ctl, tick, todo, running, logs, fault>>
    BY <1>4 DEF PickMode
  <2> QED BY <2>1, <2>2, <1>4, IdleType DEF TypeOK, Places, Prompts, Playing
<1>5. CASE Capture
  <2>1. limits' \in [Joints -> Limits]
    BY <1>5 DEF Capture, TypeOK, Widened, Limits, Counts
  <2>2. pc' \in Places
    BY <1>5 DEF Capture, Keys, Places
  <2> QED BY <2>1, <2>2, <1>5 DEF Capture, TypeOK, drives
<1>6. CASE CaptureInterrupted
  BY <1>6 DEF CaptureInterrupted, TypeOK, plan, drives, Places, Prompts, Playing
<1>7. CASE Captured
  BY <1>7 DEF Captured, TypeOK, plan, drives, Places, Prompts, Playing
<1>8. CASE Drop
  BY <1>8, NoPlansType, IdleType DEF Drop, TypeOK, Places, Prompts, Playing
<1>9. CASE Refuse
  BY <1>9, NoPlansType, IdleType DEF Refuse, TypeOK, Places, Prompts, Playing
<1>10. CASE Engage
  BY <1>10 DEF Engage, TypeOK, plan, Places, Prompts, Playing
<1>11. CASE Settle
  <2>1. PICK start \in [plans -> Counts], approach \in [plans -> ApproachTicks] :
          ctl' = [j \in Joints |->
                    IF j \in plans
                    THEN [NewPlan EXCEPT !.start = start[j], !.approach = approach[j]]
                    ELSE ctl[j]]
    BY <1>11 DEF Settle
  <2>2. ASSUME NEW j \in plans
        PROVE  [NewPlan EXCEPT !.start = start[j], !.approach = approach[j]] \in Plan
    BY DEF NewPlan, Plan, Phases
  <2>3. ctl' \in [Joints -> Plan]
    BY <2>1, <2>2 DEF TypeOK
  <2> QED BY <2>3, <1>11 DEF Settle, TypeOK, Places, Playing
<1>12. CASE UserQuits
  BY <1>12 DEF UserQuits, TypeOK, plan, drives, Places, Prompts, Playing
<1>13. CASE Check
  <2>1. ctl' \in [Joints -> Plan]
    BY <1>13, CheckedPlans DEF Check, Checked, TypeOK
  <2>2. todo' \subseteq Joints /\ pc' \in Places
    BY <1>13, ConstantsAssumption DEF Check, TypeOK, Places, Playing
  <2> QED BY <2>1, <2>2, <1>13 DEF Check, TypeOK, drives
<1>14. CASE \E j \in Joints : Move(j)
  <2>1. PICK j \in Joints : Move(j) BY <1>14
  <2>2. PICK ref \in References(ctl[j]) : cmd' = [cmd EXCEPT ![j] = Setpoint(j, ref)]
    BY <2>1 DEF Move
  <2>3. ref \in Int
    BY <2>2 DEF References, TypeOK, Plan, Counts
  <2>4. cmd' \in [Joints -> Counts]
    BY <2>2, <2>3, SetpointClamped DEF TypeOK
  <2>5. ctl' \in [Joints -> Plan]
    BY <2>1, AdvancedType DEF Move, TypeOK
  <2> QED BY <2>1, <2>4, <2>5 DEF Move, TypeOK
<1>15. CASE EndTick
  BY <1>15 DEF EndTick, TypeOK, drives, Places, Playing
<1>16. CASE Release
  BY <1>16, NoPlansType, IdleType DEF Release, TypeOK, Places, Prompts, Playing
<1>17. CASE Finish
  BY <1>17, NoPlansType, IdleType DEF Finish, TypeOK, Places, Prompts, Playing
<1>18. CASE Environment
  BY <1>18 DEF Environment, Signal, DriveFaults, DriveRecovers, TypeOK, plan, drives
<1>19. CASE Exited \/ UNCHANGED vars
  BY <1>19 DEF Exited, vars, TypeOK, plan, drives
<1>20. PickMode => pc' \in {"finish", "capture"}
  BY DEF PickMode
<1> QED
  BY <1>1, <1>2, <1>3, <1>4, <1>5, <1>6, <1>7, <1>8, <1>9, <1>10, <1>11, <1>12, <1>13,
     <1>14, <1>15, <1>16, <1>17, <1>18, <1>19, <1>20 DEF Next, Program, Operator

(* The steps that end a round leave no plans, and the drives idle.         *)
LEMMA RoundEnds ==
  ASSUME IInv, NoPlans, power' \subseteq power \ plans, logs' \subseteq logs \cap power',
         pc' \in {"head", "finish", "exited"}
  PROVE  /\ PowerOnlyInRun' /\ WideEnough' /\ ClockOfRun'
         /\ SetpointInside' /\ PhasesBounded' /\ PhasesInStep'
<1>1. power' = {}
  BY DEF IInv, Core, PowerOnlyInRun
<1> QED
  BY <1>1 DEF NoPlans, PowerOnlyInRun, WideEnough, ClockOfRun, SetpointInside,
     PhasesBounded, PhasesInStep, InRun, Playing

(* Steps outside a run, and those that only leave the loop.                *)
LEMMA QuietStep ==
  ASSUME IInv, UNCHANGED <<plans, ctl, tick, todo, power, cmd, logs>>,
         pc = pc' \/ pc' \notin Playing,
         pc \in InRun <=> pc' \in InRun,
         pc' \in InRun \cup {"prompt"} =>
           /\ UNCHANGED limits
           /\ pc \notin InRun \cup {"prompt"} => ~TooSmall,
         pc \in Playing \cup {"release"} <=> pc' \in Playing \cup {"release"},
         pc = "move" => pc' = pc
  PROVE  /\ PowerOnlyInRun' /\ WideEnough' /\ ClockOfRun'
         /\ SetpointInside' /\ PhasesBounded' /\ PhasesInStep'
<1> USE DEF IInv, Core
<1>1. PowerOnlyInRun'
  BY DEF PowerOnlyInRun, InRun
<1>2. WideEnough'
  <2> SUFFICES ASSUME pc' \in InRun \cup {"prompt"}, NEW j \in plans
      PROVE  limits[j].max - limits[j].min >= MinRange
    BY DEF WideEnough
  <2>1. CASE pc \in InRun \cup {"prompt"}
    BY <2>1 DEF WideEnough
  <2>2. CASE pc \notin InRun \cup {"prompt"}
    <3>1. ~(limits[j].max - limits[j].min < MinRange)
      BY <2>2 DEF TooSmall
    <3>2. limits[j] \in Limits
      BY ConstantsAssumption DEF TypeOK
    <3> QED BY <3>1, <3>2, ConstantsAssumption DEF Limits, Counts
  <2> QED BY <2>1, <2>2
<1>3. ClockOfRun'
  BY DEF ClockOfRun
<1>4. SetpointInside'
  <2> SUFFICES ASSUME pc' \in Playing \cup {"release"}, NEW j \in plans,
                      tick > 0 \/ (pc' = "move" /\ j \notin todo)
      PROVE  cmd[j] \in limits[j].min .. limits[j].max
    BY DEF SetpointInside, InRun, Playing
  <2>1. pc' = "move" => pc = "move"
    BY DEF Playing
  <2> QED BY <2>1 DEF SetpointInside
<1>5. PhasesBounded' /\ PhasesInStep'
  BY DEF PhasesBounded, PhasesInStep, Moved
<1> QED BY <1>1, <1>2, <1>3, <1>4, <1>5

(* One joint is moved: only its own setpoint and phase change.             *)
LEMMA MoveStep ==
  ASSUME IInv, \E j \in Joints : Move(j)
  PROVE  /\ PowerOnlyInRun' /\ WideEnough' /\ ClockOfRun'
         /\ SetpointInside' /\ PhasesBounded' /\ PhasesInStep'
<1> USE DEF IInv, Core
<1>1. PICK i \in Joints : Move(i) OBVIOUS
<1>2. /\ pc = "move" /\ pc' = "move" /\ i \in todo /\ todo' = todo \ {i}
      /\ UNCHANGED <<plans, limits, tick, power, logs>>
  BY <1>1 DEF Move
<1>3. PowerOnlyInRun' /\ WideEnough' /\ ClockOfRun'
  BY <1>2 DEF PowerOnlyInRun, WideEnough, ClockOfRun, InRun, Playing
<1>4. SetpointInside'
  <2> SUFFICES ASSUME NEW j \in plans, tick > 0 \/ j \notin todo'
      PROVE  cmd'[j] \in limits[j].min .. limits[j].max
    BY <1>2 DEF SetpointInside
  <2>1. PICK ref \in References(ctl[i]) : cmd' = [cmd EXCEPT ![i] = Setpoint(i, ref)]
    BY <1>1 DEF Move
  <2>2. /\ j \in Joints /\ limits[j] \in Limits /\ limits[j].max - limits[j].min >= MinRange
    BY <1>2, ConstantsAssumption DEF TypeOK, WideEnough, InRun, Playing
  <2>3. limits[j].min <= limits[j].max
    BY <2>2, ConstantsAssumption DEF Limits, Counts
  <2>4. ref \in Int
    <3>1. ctl[i].start \in Counts
      BY DEF TypeOK, Plan
    <3> QED BY <2>1, <3>1, ConstantsAssumption DEF References, Counts
  <2>5. CASE j = i
    BY <2>1, <2>2, <2>3, <2>4, <2>5, SetpointClamped DEF TypeOK
  <2>6. CASE j # i
    <3>1. cmd'[j] = cmd[j]
      BY <2>1, <2>2, <2>6 DEF TypeOK
    <3>2. tick > 0 \/ j \notin todo
      BY <1>2, <2>6
    <3> QED BY <1>2, <3>1, <3>2 DEF SetpointInside, Playing
  <2> QED BY <2>5, <2>6
<1>5. PhasesBounded' /\ PhasesInStep'
  <2> SUFFICES ASSUME NEW j \in plans
      PROVE  PhaseBounded(ctl'[j]) /\ Elapsed(ctl'[j]) = tick + (IF Moved(j)' THEN 1 ELSE 0)
    BY <1>2 DEF PhasesBounded, PhasesInStep
  <2>1. /\ j \in Joints /\ ctl[j] \in Plan /\ PhaseBounded(ctl[j])
        /\ Elapsed(ctl[j]) = tick + (IF Moved(j) THEN 1 ELSE 0)
    BY <1>2, ConstantsAssumption DEF TypeOK, PhasesBounded, PhasesInStep, Playing
  <2>2. ctl' = IF tick < MaxTicks THEN [ctl EXCEPT ![i] = Advanced(@)] ELSE ctl
    BY <1>1 DEF Move
  <2>3. CASE j = i /\ tick < MaxTicks
    <3>1. ctl'[j] = Advanced(ctl[j])
      BY <2>1, <2>2, <2>3 DEF TypeOK
    <3>2. ~Moved(j) /\ Moved(j)'
      BY <1>2, <2>3 DEF Moved
    <3>3. tick \in Nat
      BY ConstantsAssumption DEF TypeOK
    <3> QED BY <2>1, <3>1, <3>2, <3>3, AdvancedByOne
  <2>4. CASE j # i \/ ~(tick < MaxTicks)
    <3>1. ctl'[j] = ctl[j]
      BY <2>1, <2>2, <2>4 DEF TypeOK
    <3>2. Moved(j)' <=> Moved(j)
      BY <1>2, <2>4 DEF Moved
    <3> QED BY <2>1, <3>1, <3>2
  <2> QED BY <2>3, <2>4
<1> QED BY <1>3, <1>4, <1>5

(* Every operation keeps the invariant but the types.                      *)
LEMMA CoreStep ==
  ASSUME IInv, [Next]_vars
  PROVE  /\ PowerOnlyInRun' /\ WideEnough' /\ ClockOfRun'
         /\ SetpointInside' /\ PhasesBounded' /\ PhasesInStep'
<1> USE DEF IInv, Core
<1>1. CASE LoopHead \/ CaptureInterrupted \/ UserQuits
  <2>1. UNCHANGED <<plans, ctl, tick, todo, power, cmd, logs, limits>>
    BY <1>1 DEF LoopHead, CaptureInterrupted, UserQuits, plan, drives
  <2>2. \/ pc = "head" /\ pc' \in {"pick", "finish"}
        \/ pc = "capture" /\ pc' = "drop"
        \/ pc = "check" /\ pc' = "release"
    BY <1>1 DEF LoopHead, CaptureInterrupted, UserQuits
  <2> QED BY <2>1, <2>2, QuietStep DEF InRun, Playing
<1>2. CASE Captured
  <2>1. UNCHANGED <<plans, ctl, tick, todo, power, cmd, logs, limits>>
    BY <1>2 DEF Captured, plan, drives
  <2>2. pc = "captured" /\ (pc' \in {"drop", "finish"} \/ (pc' = "prompt" /\ ~TooSmall))
    BY <1>2 DEF Captured
  <2> QED BY <2>1, <2>2, QuietStep DEF InRun, Playing
<1>3. CASE Capture
  <2>1. UNCHANGED <<plans, ctl, tick, todo, power, cmd, logs>>
    BY <1>3 DEF Capture, drives
  <2>2. pc = "capture" /\ pc' \in {"capture", "captured", "drop"}
    BY <1>3 DEF Capture, Keys
  <2> QED BY <2>1, <2>2, QuietStep DEF InRun, Playing
<1>4. CASE PickJoints
  <2>1. /\ pc = "pick" /\ pc' \in {"finish", "head", "mode"}
        /\ UNCHANGED <<ctl, tick, todo, power, cmd, logs, limits>>
    BY <1>4 DEF PickJoints, drives
  <2> QED BY <2>1 DEF PowerOnlyInRun, WideEnough, ClockOfRun, SetpointInside,
                      PhasesBounded, PhasesInStep, InRun, Playing
<1>5. CASE PickMode /\ pc' = "finish"
  <2>1. NoPlans /\ UNCHANGED <<power, logs>> /\ power = {} /\ logs = {}
    BY <1>5 DEF PickMode, PowerOnlyInRun, Playing
  <2> QED BY <2>1, <1>5, RoundEnds
<1>6. CASE PickMode /\ pc' = "capture"
  <2>1. /\ pc = "mode" /\ UNCHANGED <<plans, ctl, tick, todo, logs>>
        /\ power = {} /\ power' = {} /\ logs = {}
    BY <1>6 DEF PickMode, Idle, PowerOnlyInRun, Playing
  <2> QED BY <2>1, <1>6 DEF PowerOnlyInRun, WideEnough, ClockOfRun, SetpointInside,
                      PhasesBounded, PhasesInStep, InRun, Playing
<1>7. CASE Drop \/ Refuse \/ Finish
  <2>1. /\ NoPlans /\ UNCHANGED logs /\ Idle(Joints)
        /\ pc \in {"drop", "prompt", "finish"} /\ pc' \in {"head", "finish", "exited"}
    BY <1>7 DEF Drop, Refuse, Finish
  <2>2. power = {} /\ logs = {} /\ power' = {}
    BY <2>1 DEF PowerOnlyInRun, Playing, Idle
  <2> QED BY <2>1, <2>2, RoundEnds
<1>8. CASE Release
  <2>1. NoPlans /\ logs' = {} /\ Idle(plans) /\ pc' = "head"
    BY <1>8 DEF Release
  <2> QED BY <2>1, RoundEnds DEF Idle
<1>9. CASE Engage
  <2>1. /\ pc = "prompt" /\ pc' = "settle" /\ power' = plans
        /\ UNCHANGED <<plans, limits, ctl, tick, todo, logs>>
    BY <1>9 DEF Engage, plan
  <2>2. logs = {}
    BY <2>1 DEF PowerOnlyInRun, Playing
  <2> QED BY <2>1, <2>2 DEF PowerOnlyInRun, WideEnough, ClockOfRun, SetpointInside,
                      PhasesBounded, PhasesInStep, InRun, Playing
<1>10. CASE Settle
  <2>1. PICK start \in [plans -> Counts], approach \in [plans -> ApproachTicks] :
          ctl' = [j \in Joints |->
                    IF j \in plans
                    THEN [NewPlan EXCEPT !.start = start[j], !.approach = approach[j]]
                    ELSE ctl[j]]
    BY <1>10 DEF Settle
  <2>2. /\ pc = "settle" /\ pc' = "check" /\ logs' \subseteq plans
        /\ UNCHANGED <<plans, limits, tick, todo, power, cmd>>
    BY <1>10 DEF Settle
  <2>3. tick = 0
    BY <2>2 DEF ClockOfRun, Playing
  <2>4. ASSUME NEW j \in plans PROVE PhaseBounded(ctl'[j]) /\ Elapsed(ctl'[j]) = 0
    <3>1. j \in Joints
      BY ConstantsAssumption DEF TypeOK
    <3>2. ctl'[j] = [NewPlan EXCEPT !.start = start[j], !.approach = approach[j]]
      BY <2>1, <3>1
    <3> QED BY <3>2, ConstantsAssumption DEF PhaseBounded, Elapsed, NewPlan
  <2> QED BY <2>2, <2>3, <2>4 DEF PowerOnlyInRun, WideEnough, ClockOfRun, SetpointInside,
                      PhasesBounded, PhasesInStep, Moved, InRun, Playing
<1>11. CASE Check /\ pc' = "release"
  <2>1. UNCHANGED <<plans, ctl, tick, todo, power, cmd, logs, limits>> /\ pc = "check"
    BY <1>11 DEF Check, drives
  <2> QED BY <2>1, <1>11, QuietStep DEF InRun, Playing
<1>12. CASE Check /\ pc' = "move"
  <2>1. /\ pc = "check" /\ todo' = plans
        /\ UNCHANGED <<plans, limits, tick, power, cmd, logs>>
    BY <1>12 DEF Check, drives
  <2>2. PICK code \in [plans -> ErrorCodes \cup {0}] : ctl' = Checked(code)
    BY <1>12 DEF Check, Checked
  <2>3. \A j \in plans : PhaseBounded(ctl'[j]) /\ Elapsed(ctl'[j]) = tick
    BY <2>1, <2>2, CheckedPlans DEF PhasesBounded, PhasesInStep, Moved, Playing, TypeOK
  <2> QED BY <2>1, <2>3, <1>12 DEF PowerOnlyInRun, WideEnough, ClockOfRun, SetpointInside,
                      PhasesBounded, PhasesInStep, Moved, InRun, Playing, TypeOK
<1>13. CASE \E j \in Joints : Move(j)
  BY <1>13, MoveStep
<1>14. CASE EndTick
  <2>1. /\ pc = "move" /\ todo = {} /\ pc' = "check"
        /\ tick' = IF tick < MaxTicks THEN tick + 1 ELSE tick
        /\ UNCHANGED <<plans, limits, ctl, todo, power, cmd, logs>>
    BY <1>14 DEF EndTick, drives
  <2>2. PowerOnlyInRun' /\ WideEnough' /\ ClockOfRun' /\ PhasesBounded'
    BY <2>1 DEF PowerOnlyInRun, WideEnough, ClockOfRun, PhasesBounded, InRun, Playing
  <2>3. SetpointInside'
    BY <2>1 DEF SetpointInside, Playing
  <2>4. PhasesInStep'
    BY <2>1 DEF PhasesInStep, Moved, Playing, TypeOK
  <2> QED BY <2>2, <2>3, <2>4
<1>15. CASE Environment \/ Exited \/ UNCHANGED vars
  <2>1. UNCHANGED <<pc, plans, ctl, tick, todo, power, cmd, logs, limits>>
    BY <1>15 DEF Environment, Signal, DriveFaults, DriveRecovers, Exited, vars, plan, drives
  <2> QED BY <2>1 DEF PowerOnlyInRun, WideEnough, ClockOfRun, SetpointInside,
                      PhasesBounded, PhasesInStep, Moved
<1>16. /\ PickMode => pc' \in {"finish", "capture"}
       /\ Check => pc' \in {"release", "move"}
  BY DEF PickMode, Check
<1> QED
  BY <1>1, <1>2, <1>3, <1>4, <1>5, <1>6, <1>7, <1>8, <1>9, <1>10, <1>11, <1>12, <1>13,
     <1>14, <1>15, <1>16 DEF Next, Program, Operator
-----------------------------------------------------------------------------
(* The invariants hold in every state of the session.                      *)
THEOREM Invariance == Spec => []IInv
<1>1. IInv /\ [Next]_vars => IInv'
  BY TypeStep, CoreStep DEF IInv, Core
<1> QED BY <1>1, InitOK, PTL DEF Spec

(* The program's variables keep their types.                               *)
THEOREM TypeCorrect == Spec => []TypeOK
BY Invariance, PTL DEF IInv, Core

(* Exactly the selected joints are powered, and only during a run.         *)
THEOREM PowerSafe == Spec => []PowerOnlyInRun
BY Invariance, PTL DEF IInv, Core

(* Whatever is powered was captured and is driven inside its envelope.     *)
THEOREM EnvelopeSafe == Spec => []PoweredInsideCapture
<1>1. IInv => PoweredInsideCapture
  <2> SUFFICES ASSUME IInv, NEW j \in power
      PROVE  /\ limits[j].max - limits[j].min >= MinRange
             /\ tick > 0 => cmd[j] \in limits[j].min .. limits[j].max
    BY DEF PoweredInsideCapture
  <2>1. j \in plans /\ pc \in InRun
    BY DEF IInv, Core, PowerOnlyInRun, InRun
  <2>2. tick > 0 => pc \in Playing \cup {"release"}
    BY DEF IInv, Core, ClockOfRun
  <2> QED BY <2>1, <2>2 DEF IInv, Core, WideEnough, SetpointInside
<1> QED BY <1>1, Invariance, PTL

(* The phases of all joints account for the same ticks.                    *)
THEOREM InStep == Spec => []PhasesInStep
BY Invariance, PTL DEF IInv

(* Two joints that play at the head of the loop are apart by the           *)
(* difference of their approach times.                                     *)
PlayedApart ==
  pc = "check" =>
    \A a, b \in plans :
      ctl[a].phase = "Trajectory" /\ ctl[b].phase = "Trajectory" =>
        ctl[a].phase_t - ctl[b].phase_t = ctl[b].approach - ctl[a].approach

(* A recording of several joints is not replayed "together": each joint    *)
(* starts its spline when its own approach is over, and stays ahead or     *)
(* behind by as much.                                                      *)
THEOREM ReplayApart == Spec => []PlayedApart
<1>1. TypeOK /\ PhasesInStep => PlayedApart
  <2> SUFFICES ASSUME TypeOK, PhasesInStep, pc = "check", NEW a \in plans, NEW b \in plans,
                      ctl[a].phase = "Trajectory", ctl[b].phase = "Trajectory"
      PROVE  ctl[a].phase_t - ctl[b].phase_t = ctl[b].approach - ctl[a].approach
    BY DEF PlayedApart
  <2>1. Elapsed(ctl[a]) = tick /\ Elapsed(ctl[b]) = tick
    BY DEF PhasesInStep, Moved, Playing, TypeOK
  <2>2. ctl[a] \in Plan /\ ctl[b] \in Plan
    BY ConstantsAssumption DEF TypeOK
  <2>3. HoldTicks \in Nat
    BY ConstantsAssumption
  <2> QED BY <2>1, <2>2, <2>3, PlanNumbers DEF Elapsed
<1> QED BY <1>1, TypeCorrect, InStep, PTL
=============================================================================
