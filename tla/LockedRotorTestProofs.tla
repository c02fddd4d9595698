------------------------ MODULE LockedRotorTestProofs ------------------------
(***************************************************************************)
(* Proofs about the locked-rotor sweep, for any forms, any dwell time and  *)
(* any clock: what the buttons offer, when the joint is released and when  *)
(* the external reader is, what a row holds.  The first three need where   *)
(* the boxes are: an open box of poll() means that a sweep runs, and an    *)
(* open box of onStartClicked that it was started under it.  The last one  *)
(* needs how far a frame lags behind the commands (MeasureInv).            *)
(***************************************************************************)
EXTENDS LockedRotorTest, SweepStepsProofs

FlagsInv ==
  /\ known \in BOOLEAN /\ confirmed \in BOOLEAN
  /\ startBtn \in BOOLEAN /\ stopBtn \in BOOLEAN
  /\ running \in BOOLEAN /\ startBox \in BOOLEAN /\ boxed \in BOOLEAN

BoxesInv ==
  /\ frameBox # <<>> => running
  /\ startBox => boxed

IInv == FlagsInv /\ BoxesInv /\ ButtonsMatchSweep /\ ReleasedAfterSweep
-----------------------------------------------------------------------------
(* What a frame can do to a running sweep: end it, with everything         *)
(* stopTest does, or leave it running with its buttons as they are.        *)
GoesOn == UNCHANGED <<running, stopBtn, startBtn>> /\ daq' \in {daq, "none"}

LEMMA JudgeOutcome ==
  ASSUME NEW k, NEW fault, NEW late, NEW sample, NEW since,
         Judge(k, fault, late, sample, since)
  PROVE  StopTest(k) \/ GoesOn
<1>1. CASE fault
  BY <1>1, Zenon DEF Judge
<1>2. CASE ~fault /\ late
  <2>1. FinishStep(k, sample, since)
    BY <1>2, Zenon DEF Judge
  <2>2. CASE index = Len(steps)
    BY <2>1, <2>2, Zenon DEF FinishStep
  <2>3. CASE index # Len(steps)
    BY <2>1, <2>3, Zenon DEF FinishStep, GoesOn
  <2> QED
    BY <2>2, <2>3
<1>3. CASE ~fault /\ ~late
  BY <1>3, Zenon DEF Judge, GoesOn
<1> QED
  BY <1>1, <1>2, <1>3

LEMMA AppendOutcome ==
  ASSUME NEW k, AppendTelemetry(k)
  PROVE  \/ StopTest(k) /\ frameBox' = frameBox
         \/ GoesOn /\ frameBox' = frameBox
         \/ GoesOn
<1>1. CASE ~frame.present
  BY <1>1, Zenon DEF AppendTelemetry
<1>2. CASE frame.present /\ daq = "ended"
  BY <1>2, Zenon DEF AppendTelemetry, GoesOn
<1>3. CASE frame.present /\ daq # "ended"
  <2>1. /\ Judge(k, frame.fault, Since >= Dwell, seen \cup {frame.drive}, Since)
        /\ frameBox' = frameBox
    BY <1>3, Zenon DEF AppendTelemetry
  <2> QED
    BY <2>1, JudgeOutcome
<1> QED
  BY <1>1, <1>2, <1>3
-----------------------------------------------------------------------------
(* The end of a sweep sets both buttons, releases the joint and the reader. *)
LEMMA StopTestInv ==
  ASSUME NEW k \in BOOLEAN, IInv, StopTest(k), known' = k,
         UNCHANGED <<confirmed, startBox, boxed>>, frameBox' = <<>>
  PROVE  IInv'
<1>1. FlagsInv'
  BY DEF IInv, FlagsInv, StopTest, StartEnabled
<1>2. BoxesInv'
  BY DEF IInv, FlagsInv, BoxesInv, StopTest
<1>3. ButtonsMatchSweep'
  BY Zenon DEF IInv, FlagsInv, ButtonsMatchSweep, StopTest, StartEnabled
<1>4. ReleasedAfterSweep'
  BY DEF ReleasedAfterSweep, StopTest, Release, Command
<1> QED
  BY <1>1, <1>2, <1>3, <1>4 DEF IInv

(* A frame that leaves the sweep running keeps the invariant.              *)
LEMMA GoesOnInv ==
  ASSUME IInv, running, GoesOn, known' \in BOOLEAN,
         UNCHANGED <<confirmed, startBox, boxed>>
  PROVE  IInv'
<1>1. FlagsInv'
  BY DEF IInv, FlagsInv, GoesOn
<1>2. BoxesInv'
  BY DEF IInv, FlagsInv, BoxesInv, GoesOn
<1>3. ButtonsMatchSweep'
  <2>1. ~startBtn /\ stopBtn = running
    BY DEF IInv, FlagsInv, ButtonsMatchSweep, StartEnabled
  <2> QED
    BY <2>1, <1>1 DEF IInv, FlagsInv, ButtonsMatchSweep, StartEnabled, GoesOn
<1>4. ReleasedAfterSweep'
  BY DEF IInv, FlagsInv, ReleasedAfterSweep, GoesOn
<1> QED
  BY <1>1, <1>2, <1>3, <1>4 DEF IInv

(* A step that touches none of what the invariant is about keeps it, if it *)
(* leaves a released joint released.                                       *)
LEMMA AsideInv ==
  ASSUME IInv, drive' \in {drive, {}}, daq' = daq \/ (daq # "none" /\ running),
         UNCHANGED <<buttons, running, startBox, frameBox, boxed>>
  PROVE  IInv'
<1>1. FlagsInv'
  BY DEF IInv, FlagsInv, buttons
<1>2. BoxesInv'
  BY DEF IInv, BoxesInv
<1>3. ButtonsMatchSweep'
  BY DEF IInv, ButtonsMatchSweep, StartEnabled, buttons
<1>4. ReleasedAfterSweep'
  BY DEF IInv, ReleasedAfterSweep
<1> QED
  BY <1>1, <1>2, <1>3, <1>4 DEF IInv
-----------------------------------------------------------------------------
(* The dialog opens idle.                                                  *)
LEMMA InitInv == Init => IInv
<1> SUFFICES ASSUME Init PROVE IInv
  OBVIOUS
<1>1. FlagsInv /\ BoxesInv /\ ReleasedAfterSweep
  BY DEF Init, FlagsInv, BoxesInv, ReleasedAfterSweep
<1>2. ButtonsMatchSweep
  BY DEF Init, ButtonsMatchSweep, StartEnabled
<1> QED
  BY <1>1, <1>2 DEF IInv

(* Confirming, starting, and closing the box of a failed reader.           *)
LEMMA ToggleInv == IInv /\ ToggleConfirm => IInv'
<1> SUFFICES ASSUME IInv, ToggleConfirm PROVE IInv'
  OBVIOUS
<1>1. /\ confirmed' = ~confirmed /\ startBtn' = StartEnabled(known, ~confirmed, running)
      /\ UNCHANGED <<known, stopBtn, running, daq, drive, startBox, frameBox, boxed>>
  BY DEF ToggleConfirm, worker
<1>2. FlagsInv'
  BY <1>1 DEF IInv, FlagsInv, StartEnabled
<1>3. BoxesInv'
  BY <1>1 DEF IInv, BoxesInv
<1>4. ButtonsMatchSweep'
  BY <1>1 DEF IInv, FlagsInv, ButtonsMatchSweep, StartEnabled
<1>5. ReleasedAfterSweep'
  BY <1>1 DEF IInv, ReleasedAfterSweep
<1> QED
  BY <1>2, <1>3, <1>4, <1>5 DEF IInv

LEMMA StartInv == IInv /\ Start => IInv'
<1> SUFFICES ASSUME IInv, Start PROVE IInv'
  OBVIOUS
<1>1. /\ running' = TRUE /\ startBtn' = FALSE /\ stopBtn' = TRUE
      /\ UNCHANGED <<known, confirmed, frameBox>>
  BY DEF Start
<1>2. startBox' \in BOOLEAN /\ boxed' = startBox'
  BY DEF Start
<1>3. FlagsInv'
  BY <1>1, <1>2 DEF IInv, FlagsInv
<1>4. BoxesInv'
  BY <1>1, <1>2 DEF BoxesInv
<1>5. ButtonsMatchSweep'
  BY <1>1 DEF ButtonsMatchSweep, StartEnabled
<1>6. ReleasedAfterSweep'
  BY <1>1 DEF ReleasedAfterSweep
<1> QED
  BY <1>3, <1>4, <1>5, <1>6 DEF IInv

LEMMA CloseStartBoxInv == IInv /\ CloseStartBox => IInv'
<1> SUFFICES ASSUME IInv, CloseStartBox PROVE IInv'
  OBVIOUS
<1>1. /\ startBox /\ startBox' = FALSE /\ daq' = "none"
      /\ UNCHANGED <<buttons, running, frameBox, boxed>>
  BY DEF CloseStartBox
<1>2. FlagsInv'
  BY <1>1 DEF IInv, FlagsInv, buttons
<1>3. BoxesInv'
  BY <1>1 DEF IInv, BoxesInv
<1>4. ButtonsMatchSweep'
  BY <1>1 DEF IInv, ButtonsMatchSweep, StartEnabled, buttons
<1>5. ReleasedAfterSweep'
  BY <1>1 DEF IInv, BoxesInv, ReleasedAfterSweep
<1> QED
  BY <1>2, <1>3, <1>4, <1>5 DEF IInv

(* One poll: a frame for a running sweep, or a new list of joints.         *)
LEMMA PollInv == IInv /\ Poll => IInv'
<1> SUFFICES ASSUME IInv, Poll PROVE IInv'
  OBVIOUS
<1>1. /\ frameBox = <<>> /\ known' \in BOOLEAN
      /\ UNCHANGED <<confirmed, startBox, boxed>>
  BY DEF Poll
<1>2. CASE running
  <2>1. AppendTelemetry(known')
    BY <1>2 DEF Poll
  <2>2. CASE StopTest(known') /\ frameBox' = frameBox
    BY <1>1, <2>2, StopTestInv
  <2>3. CASE GoesOn
    BY <1>1, <1>2, <2>3, GoesOnInv
  <2> QED
    BY <2>1, <2>2, <2>3, AppendOutcome
<1>3. CASE ~running
  <2>1. /\ UNCHANGED <<drive, running, stopBtn, daq, frameBox>>
        /\ startBtn' = IF known' # known THEN StartEnabled(known', confirmed, running)
                       ELSE startBtn
    BY <1>3 DEF Poll
  <2>2. startBtn' = StartEnabled(known', confirmed, running)
    BY <2>1, <1>1 DEF IInv, FlagsInv, ButtonsMatchSweep
  <2>3. FlagsInv'
    BY <1>1, <2>1, <2>2 DEF IInv, FlagsInv, StartEnabled
  <2>4. BoxesInv'
    BY <1>1, <2>1 DEF IInv, BoxesInv
  <2>5. ButtonsMatchSweep'
    BY <1>1, <2>1, <2>2 DEF IInv, ButtonsMatchSweep, StartEnabled
  <2>6. ReleasedAfterSweep'
    BY <1>1, <2>1 DEF IInv, ReleasedAfterSweep
  <2> QED
    BY <2>3, <2>4, <2>5, <2>6 DEF IInv
<1> QED
  BY <1>2, <1>3

(* The rest of a frame once its box is closed.                             *)
LEMMA CloseFrameBoxInv == IInv /\ CloseFrameBox => IInv'
<1> SUFFICES ASSUME IInv, CloseFrameBox PROVE IInv'
  OBVIOUS
<1>1. /\ frameBox # <<>> /\ frameBox' = <<>>
      /\ UNCHANGED <<known, confirmed, startBox, boxed>>
  BY DEF CloseFrameBox
<1>2. running /\ known \in BOOLEAN
  BY <1>1 DEF IInv, BoxesInv, FlagsInv
<1>3. StopTest(known) \/ GoesOn
  BY JudgeOutcome DEF CloseFrameBox
<1>4. CASE StopTest(known)
  BY <1>1, <1>2, <1>4, StopTestInv
<1>5. CASE GoesOn
  BY <1>1, <1>2, <1>5, GoesOnInv
<1> QED
  BY <1>3, <1>4, <1>5

(* Every step keeps the invariant.                                         *)
LEMMA StepInv == IInv /\ [Next]_vars => IInv'
<1> SUFFICES ASSUME IInv, [Next]_vars PROVE IInv'
  OBVIOUS
<1>1. CASE ToggleConfirm \/ Start \/ CloseStartBox \/ Poll \/ CloseFrameBox
  BY <1>1, ToggleInv, StartInv, CloseStartBoxInv, PollInv, CloseFrameBoxInv
<1>2. CASE Stop
  <2>1. /\ StopTest(known) /\ frameBox = <<>>
        /\ UNCHANGED <<known, confirmed, startBox, frameBox, boxed>>
    BY <1>2 DEF Stop, NoBox
  <2>2. known \in BOOLEAN
    BY DEF IInv, FlagsInv
  <2> QED
    BY <2>1, <2>2, StopTestInv
<1>3. CASE EmergencyStop
  BY <1>3, AsideInv DEF EmergencyStop
<1>4. CASE Connect
  BY <1>4, AsideInv DEF Connect
<1>5. CASE Disconnect
  BY <1>5, AsideInv DEF Disconnect
<1>6. CASE TickStart
  BY <1>6, AsideInv DEF TickStart, dialog
<1>7. CASE Publish
  BY <1>7, AsideInv DEF Publish, SafetyAbort, dialog
<1>8. CASE ReaderEnds
  <2>1. daq # "none" /\ running
    BY <1>8 DEF ReaderEnds, IInv, ReleasedAfterSweep
  <2> QED
    BY <1>8, <2>1, AsideInv DEF ReaderEnds, worker
<1>9. CASE UNCHANGED vars
  BY <1>9, AsideInv DEF vars, worker
<1> QED
  BY <1>1, <1>2, <1>3, <1>4, <1>5, <1>6, <1>7, <1>8, <1>9 DEF Next, Operator

(* The inductive invariant holds in every reachable state.                 *)
THEOREM InvariantHolds == Spec => []IInv
<1> QED
  BY InitInv, StepInv, PTL DEF Spec
-----------------------------------------------------------------------------
(* Stop is offered exactly while a sweep runs, Start exactly when joints    *)
(* are known, the test is confirmed and no sweep runs.                     *)
THEOREM ButtonsCorrect == Spec => []ButtonsMatchSweep
<1>1. IInv => ButtonsMatchSweep
  BY DEF IInv
<1> QED
  BY <1>1, InvariantHolds, PTL

(* However a sweep ended, its current is off the joint, unless it was      *)
(* started under the box of a failing reader, and its reader is released.  *)
THEOREM ReleaseCorrect == Spec => []ReleasedAfterSweep
<1>1. IInv => ReleasedAfterSweep
  BY DEF IInv
<1> QED
  BY <1>1, InvariantHolds, PTL
-----------------------------------------------------------------------------
(* The types of all the sweep's variables.  The step index stays inside    *)
(* the steps only because a sweep or a box of onStartClicked always has    *)
(* some.                                                                   *)
Ticks == {<<>>} \cup {<<t>> : t \in [drive : SUBSET Int, restarted : BOOLEAN]}

Waiting == {<<>>} \cup {<<w>> : w \in [fault : BOOLEAN, late : BOOLEAN]}

ResultRows == [step : Int, clean : BOOLEAN]

WorkerTypes ==
  /\ link \in {"down", "connected", "disconnected"}
  /\ drive \in SUBSET Int /\ restarted \in BOOLEAN /\ tick \in Ticks
  /\ frame \in [present : BOOLEAN, drive : SUBSET Int, fault : BOOLEAN]

SumTypes ==
  haveT0 \in BOOLEAN /\ elapsed \in -MaxLag..Dwell /\ seen \in SUBSET (SUBSET Int)

StepTypes ==
  /\ form \in Forms \cup {NoForm}
  /\ steps # <<>> => StepsUsable(steps) /\ index \in 1..Len(steps)
  /\ running \/ startBox => steps # <<>>

OutcomeTypes ==
  /\ rows \in Seq(ResultRows) /\ halted \in BOOLEAN
  /\ daq \in {"none", "running", "ended"} /\ frameBox \in Waiting

Types == FlagsInv /\ WorkerTypes /\ SumTypes /\ StepTypes /\ OutcomeTypes

LEMMA TypesSuffice == Types => TypeOK
<1> SUFFICES ASSUME Types PROVE TypeOK
  OBVIOUS
<1>1. {restarted, known, confirmed, startBtn, stopBtn, running, haveT0, startBox,
       boxed, halted} \subseteq BOOLEAN
  BY DEF Types, FlagsInv, WorkerTypes, SumTypes, OutcomeTypes
<1>2. Len(tick) <= 1
  <2>1. CASE tick = <<>>
    BY <2>1
  <2>2. CASE \E t \in [drive : SUBSET Int, restarted : BOOLEAN] : tick = <<t>>
    BY <2>2
  <2>3. tick \in Ticks
    BY DEF Types, WorkerTypes
  <2> QED
    BY <2>1, <2>2, <2>3 DEF Ticks
<1>3. Len(frameBox) <= 1
  <2>1. CASE frameBox = <<>>
    BY <2>1
  <2>2. CASE \E w \in [fault : BOOLEAN, late : BOOLEAN] : frameBox = <<w>>
    BY <2>2
  <2>3. frameBox \in Waiting
    BY DEF Types, OutcomeTypes
  <2> QED
    BY <2>1, <2>2, <2>3 DEF Waiting
<1> QED
  BY <1>1, <1>2, <1>3 DEF TypeOK, Types, WorkerTypes, SumTypes, StepTypes, OutcomeTypes

(* Beginning a step leaves the worker and the sums well typed.             *)
LEMMA BeginStepTypes ==
  ASSUME NEW f, NEW s, StepsUsable(s), NEW i \in 1..Len(s), WorkerTypes, BeginStep(f, s, i)
  PROVE  /\ link' \in {"down", "connected", "disconnected"} /\ drive' \in SUBSET Int
         /\ SumTypes' /\ index' = i
<1>1. s[i] \in Int /\ -s[i] \in Int
  <2>1. s[i] \in Int
    BY ElementOfSeq DEF StepsUsable
  <2> QED
    BY <2>1
<1>2. Setpoint(f, s, i) \in Int
  BY <1>1 DEF Setpoint
<1>3. drive' = {Setpoint(f, s, i)} /\ link' \in {"down", "connected", "disconnected"}
  BY DEF BeginStep, Command, WorkerTypes
<1>4. haveT0' = FALSE /\ elapsed' = 0 /\ seen' = {} /\ index' = i
  BY DEF BeginStep
<1>5. 0 \in -MaxLag..Dwell
  BY SweepAssumption
<1> QED
  BY <1>2, <1>3, <1>4, <1>5 DEF SumTypes

(* What judging a frame of a running sweep does to the types.              *)
JudgedTypes ==
  /\ link' \in {"down", "connected", "disconnected"} /\ drive' \in SUBSET Int
  /\ SumTypes' /\ index' \in 1..Len(steps)
  /\ rows' \in Seq(ResultRows) /\ halted' \in BOOLEAN /\ daq' \in {daq, "none"}
  /\ running' \in {running, FALSE}

LEMMA JudgeTypes ==
  ASSUME Types, running, NEW k \in BOOLEAN, NEW fault \in BOOLEAN, NEW late \in BOOLEAN,
         NEW sample \in SUBSET (SUBSET Int), NEW since \in -MaxLag..Dwell,
         Judge(k, fault, late, sample, since)
  PROVE  JudgedTypes
<1>1. steps # <<>> /\ StepsUsable(steps) /\ index \in 1..Len(steps) /\ Len(steps) \in Nat
  BY DEF Types, StepTypes, StepsUsable
<1>2. WorkerTypes /\ rows \in Seq(ResultRows) /\ halted \in BOOLEAN
  BY DEF Types, OutcomeTypes
<1>3. ASSUME StopTest(k)
      PROVE  /\ link' \in {"down", "connected", "disconnected"} /\ drive' \in SUBSET Int
             /\ daq' \in {daq, "none"} /\ running' \in {running, FALSE} /\ halted' \in BOOLEAN
  BY <1>2, <1>3 DEF StopTest, Release, Command, WorkerTypes
<1>4. ASSUME Sampled(sample, since)
      PROVE  SumTypes'
  BY <1>4 DEF Sampled, SumTypes
<1>5. CASE fault
  BY <1>1, <1>2, <1>3, <1>4, <1>5 DEF Judge, JudgedTypes
<1>6. CASE ~fault /\ late
  <2>1. FinishStep(k, sample, since)
    BY <1>6, Zenon DEF Judge
  <2>2. rows' \in Seq(ResultRows)
    <3>1. ResultRow(sample) \in ResultRows
      BY <1>1 DEF ResultRow, ResultRows
    <3> QED
      BY <1>2, <2>1, <3>1, AppendProperties DEF FinishStep
  <2>3. CASE index = Len(steps)
    BY <1>1, <1>3, <1>4, <2>1, <2>2, <2>3 DEF FinishStep, JudgedTypes
  <2>4. CASE index # Len(steps)
    <3>1. BeginStep(form, steps, index + 1) /\ UNCHANGED <<running, daq, halted>>
      BY <2>1, <2>4 DEF FinishStep
    <3>2. index + 1 \in 1..Len(steps)
      BY <1>1, <2>4
    <3>3. /\ link' \in {"down", "connected", "disconnected"} /\ drive' \in SUBSET Int
          /\ SumTypes' /\ index' = index + 1
      BY <1>1, <1>2, <3>1, <3>2, BeginStepTypes
    <3> QED
      BY <1>2, <2>2, <3>1, <3>2, <3>3 DEF JudgedTypes
  <2> QED
    BY <2>3, <2>4
<1>7. CASE ~fault /\ ~late
  <2>1. /\ Sampled(sample, since)
        /\ UNCHANGED <<index, rows, drive, link, running, daq, stopBtn, startBtn, halted>>
    BY <1>7, Zenon DEF Judge
  <2> QED
    BY <1>1, <1>2, <1>4, <2>1 DEF JudgedTypes, WorkerTypes
<1> QED
  BY <1>5, <1>6, <1>7

(* The types are kept by a judged frame, ...                               *)
LEMMA JudgedKeepsTypes ==
  ASSUME Types, running, JudgedTypes, FlagsInv', frameBox' \in Waiting,
         UNCHANGED <<restarted, tick, frame, form, steps>>
  PROVE  Types'
<1>1. WorkerTypes'
  BY DEF Types, WorkerTypes, JudgedTypes
<1>2. StepTypes'
  BY DEF Types, StepTypes, JudgedTypes
<1>3. OutcomeTypes'
  BY DEF Types, OutcomeTypes, JudgedTypes
<1> QED
  BY <1>1, <1>2, <1>3 DEF Types, JudgedTypes

(* ... by the end of a sweep, and by what is aside of the steps.           *)
LEMMA AsideTypes ==
  ASSUME Types, FlagsInv', WorkerTypes', SumTypes',
         running' => running, startBox' => startBox,
         halted' \in BOOLEAN, daq' \in {daq, "none", "ended"},
         frameBox' \in Waiting, UNCHANGED <<form, steps, index, rows>>
  PROVE  Types'
<1>1. StepTypes'
  BY DEF Types, StepTypes
<1>2. OutcomeTypes'
  BY DEF Types, OutcomeTypes
<1> QED
  BY <1>1, <1>2 DEF Types

LEMMA InitTypes == Init => Types
<1> SUFFICES ASSUME Init PROVE Types
  OBVIOUS
<1>1. FlagsInv /\ WorkerTypes
  BY DEF Init, FlagsInv, WorkerTypes, Ticks
<1>2. SumTypes /\ StepTypes
  <2>1. 0 \in -MaxLag..Dwell
    BY SweepAssumption
  <2> QED
    BY <2>1 DEF Init, SumTypes, StepTypes
<1>3. rows \in Seq(ResultRows)
  BY DEF Init
<1> QED
  BY <1>1, <1>2, <1>3 DEF Types, OutcomeTypes, Init, Waiting

(* The stopped joint is typed.                                             *)
LEMMA StopTypes ==
  ASSUME Types, NEW k, StopTest(k), UNCHANGED <<restarted, tick, frame>>
  PROVE  WorkerTypes' /\ halted' \in BOOLEAN /\ running' = FALSE /\ daq' = "none"
  BY DEF Types, WorkerTypes, StopTest, Release, Command

LEMMA StartTypes == Types /\ Start /\ FlagsInv' => Types'
<1> SUFFICES ASSUME Types, Start, FlagsInv' PROVE Types'
  OBVIOUS
<1>1. PICK f \in Forms, reader \in {"none", "running", "ended"} :
        /\ form' = f /\ steps' = BuildSteps(f) /\ daq' = reader
        /\ IF reader = "ended"
           THEN index' = 1 /\ UNCHANGED <<drive, link, sums>>
           ELSE BeginStep(f, BuildSteps(f), 1)
  BY DEF Start
<1>2. StepsUsable(BuildSteps(f)) /\ 1 \in 1..Len(BuildSteps(f))
  <2>1. SweepForm(f)
    BY SweepAssumption
  <2>2. StepsUsable(BuildSteps(f))
    BY <2>1, BuildStepsCorrect
  <2> QED
    BY <2>2 DEF StepsUsable
<1>3. WorkerTypes /\ SumTypes
  BY DEF Types
<1>4. /\ link' \in {"down", "connected", "disconnected"} /\ drive' \in SUBSET Int
      /\ SumTypes' /\ index' = 1
  <2>1. CASE reader = "ended"
    BY <1>1, <1>3, <2>1 DEF WorkerTypes, SumTypes, sums
  <2>2. CASE reader # "ended"
    BY <1>1, <1>2, <1>3, <2>2, BeginStepTypes
  <2> QED
    BY <2>1, <2>2
<1>5. WorkerTypes'
  BY <1>3, <1>4 DEF Start, WorkerTypes
<1>6. StepTypes'
  <2>1. BuildSteps(f) # <<>>
    BY <1>2 DEF StepsUsable
  <2> QED
    BY <1>1, <1>2, <1>4, <2>1 DEF StepTypes
<1>7. OutcomeTypes'
  <2>1. rows' = <<>> /\ halted' = FALSE /\ frameBox' = frameBox
    BY DEF Start
  <2>2. <<>> \in Seq(ResultRows) /\ frameBox \in Waiting
    BY DEF Types, OutcomeTypes
  <2> QED
    BY <1>1, <2>1, <2>2, Zenon DEF OutcomeTypes
<1> QED
  BY <1>4, <1>5, <1>6, <1>7 DEF Types

LEMMA CloseStartBoxTypes == Types /\ CloseStartBox /\ FlagsInv' => Types'
<1> SUFFICES ASSUME Types, CloseStartBox, FlagsInv' PROVE Types'
  OBVIOUS
<1>1. StepsUsable(steps) /\ 1 \in 1..Len(steps) /\ steps # <<>>
  BY DEF CloseStartBox, Types, StepTypes, StepsUsable
<1>2. /\ BeginStep(form, steps, 1) /\ startBox' = FALSE /\ daq' = "none"
      /\ UNCHANGED <<restarted, tick, frame, running, form, steps, rows, frameBox, halted>>
  BY DEF CloseStartBox
<1>3. /\ link' \in {"down", "connected", "disconnected"} /\ drive' \in SUBSET Int
      /\ SumTypes' /\ index' = 1
  BY <1>1, <1>2, BeginStepTypes DEF Types
<1>4. WorkerTypes'
  BY <1>2, <1>3 DEF Types, WorkerTypes
<1>5. StepTypes'
  BY <1>1, <1>2, <1>3 DEF Types, StepTypes
<1>6. OutcomeTypes'
  BY <1>2 DEF Types, OutcomeTypes
<1> QED
  BY <1>3, <1>4, <1>5, <1>6 DEF Types

LEMMA PublishTypes == Types /\ Publish /\ FlagsInv' => Types'
<1> SUFFICES ASSUME Types, Publish, FlagsInv' PROVE Types'
  OBVIOUS
<1>1. PICK t \in [drive : SUBSET Int, restarted : BOOLEAN] : tick = <<t>>
  BY DEF Types, WorkerTypes, Ticks, Publish, SafetyAbort
<1>2. tick[1] = t
  BY <1>1
<1>3. WorkerTypes'
  BY <1>2 DEF Types, WorkerTypes, Publish, SafetyAbort, Ticks
<1>4. SumTypes'
  <2>1. haveT0' = haveT0 /\ seen' = seen
    BY DEF Publish, SafetyAbort, dialog
  <2>2. elapsed' \in -MaxLag..Dwell
    <3>1. elapsed \in -MaxLag..Dwell /\ Dwell \in Nat /\ MaxLag \in Nat
      BY SweepAssumption DEF Types, SumTypes
    <3> QED
      BY <3>1 DEF Publish, SafetyAbort
  <2> QED
    BY <2>1, <2>2 DEF Types, SumTypes
<1> QED
  BY <1>3, <1>4, AsideTypes DEF Publish, SafetyAbort, dialog, Types, OutcomeTypes

LEMMA PollTypes == IInv /\ Types /\ Poll /\ FlagsInv' => Types'
<1> SUFFICES ASSUME IInv, Types, Poll, FlagsInv' PROVE Types'
  OBVIOUS
<1>1. /\ known' \in BOOLEAN /\ frameBox = <<>>
      /\ UNCHANGED <<restarted, tick, frame, form, steps, startBox>>
  BY DEF Poll
<1>2. frame.drive \in SUBSET Int /\ frame.fault \in BOOLEAN
  BY DEF Types, WorkerTypes
<1>3. Since \in -MaxLag..Dwell /\ seen \cup {frame.drive} \in SUBSET (SUBSET Int)
  <2>1. 0 \in -MaxLag..Dwell
    BY SweepAssumption
  <2> QED
    BY <1>2, <2>1 DEF Since, Types, SumTypes
<1>4. CASE ~running
  <2>1. UNCHANGED <<drive, link, running, index, sums, rows, daq, frameBox, halted>>
    BY <1>4 DEF Poll
  <2>2. WorkerTypes' /\ SumTypes'
    BY <1>1, <2>1 DEF Types, WorkerTypes, SumTypes, sums
  <2> QED
    BY <1>1, <2>1, <2>2, AsideTypes DEF Types, OutcomeTypes
<1>5. CASE running /\ ~frame.present
  <2>1. StopTest(known') /\ UNCHANGED <<index, rows, sums, frameBox>>
    BY <1>5, Zenon DEF Poll, AppendTelemetry
  <2>2. SumTypes'
    BY <2>1 DEF Types, SumTypes, sums
  <2> QED
    BY <1>1, <2>1, <2>2, StopTypes, AsideTypes DEF Types, OutcomeTypes
<1>6. CASE running /\ frame.present /\ daq = "ended"
  <2>1. /\ Sampled(seen \cup {frame.drive}, Since) /\ daq' = "none"
        /\ frameBox' = <<[fault |-> frame.fault, late |-> Since >= Dwell]>>
        /\ UNCHANGED <<index, rows, drive, link, running, halted>>
    BY <1>6, Zenon DEF Poll, AppendTelemetry
  <2>2. SumTypes'
    BY <1>3, <2>1 DEF Sampled, SumTypes
  <2>3. frameBox' \in Waiting
    <3>1. (Since >= Dwell) \in BOOLEAN
      OBVIOUS
    <3> QED
      BY <1>2, <2>1, <3>1 DEF Waiting
  <2>4. WorkerTypes'
    BY <1>1, <2>1 DEF Types, WorkerTypes
  <2> QED
    BY <1>1, <2>1, <2>2, <2>3, <2>4, AsideTypes DEF Types, OutcomeTypes
<1>7. CASE running /\ frame.present /\ daq # "ended"
  <2>1. /\ Judge(known', frame.fault, Since >= Dwell, seen \cup {frame.drive}, Since)
        /\ frameBox' = frameBox
    BY <1>7, Zenon DEF Poll, AppendTelemetry
  <2>2. (Since >= Dwell) \in BOOLEAN
    OBVIOUS
  <2>3. JudgedTypes
    BY <1>1, <1>2, <1>3, <1>7, <2>1, <2>2, JudgeTypes
  <2> QED
    BY <1>1, <1>7, <2>1, <2>3, JudgedKeepsTypes DEF Types, OutcomeTypes
<1> QED
  BY <1>4, <1>5, <1>6, <1>7 DEF IInv, FlagsInv

LEMMA CloseFrameBoxTypes == IInv /\ Types /\ CloseFrameBox /\ FlagsInv' => Types'
<1> SUFFICES ASSUME IInv, Types, CloseFrameBox, FlagsInv' PROVE Types'
  OBVIOUS
<1>1. running /\ known \in BOOLEAN
  BY DEF IInv, BoxesInv, FlagsInv, CloseFrameBox
<1>2. PICK w \in [fault : BOOLEAN, late : BOOLEAN] : frameBox = <<w>>
  BY DEF Types, OutcomeTypes, Waiting, CloseFrameBox
<1>3. frameBox[1] = w /\ w.fault \in BOOLEAN /\ w.late \in BOOLEAN
  BY <1>2
<1>4. /\ frameBox' = <<>> /\ Judge(known, w.fault, w.late, seen, elapsed)
      /\ UNCHANGED <<restarted, tick, frame, form, steps>>
  BY <1>3 DEF CloseFrameBox
<1>5. seen \in SUBSET (SUBSET Int) /\ elapsed \in -MaxLag..Dwell
  BY DEF Types, SumTypes
<1>6. JudgedTypes
  BY <1>1, <1>3, <1>4, <1>5, JudgeTypes
<1> QED
  BY <1>1, <1>4, <1>6, JudgedKeepsTypes DEF Waiting

(* Every step keeps the types.                                             *)
LEMMA StepTyped == IInv /\ Types /\ [Next]_vars => Types'
<1> SUFFICES ASSUME IInv, Types, [Next]_vars PROVE Types'
  OBVIOUS
<1>1. FlagsInv'
  BY StepInv DEF IInv
<1>2. CASE Start \/ CloseStartBox \/ Publish \/ Poll \/ CloseFrameBox
  BY <1>1, <1>2, StartTypes, CloseStartBoxTypes, PublishTypes, PollTypes, CloseFrameBoxTypes
<1>3. CASE ToggleConfirm
  <2>1. WorkerTypes' /\ SumTypes'
    BY <1>3 DEF ToggleConfirm, Types, WorkerTypes, SumTypes, worker, sums
  <2> QED
    BY <1>1, <1>3, <2>1, AsideTypes DEF ToggleConfirm, Types, OutcomeTypes
<1>4. CASE Stop
  <2>1. WorkerTypes' /\ halted' \in BOOLEAN /\ running' = FALSE /\ daq' = "none"
    BY <1>4, StopTypes DEF Stop
  <2>2. SumTypes'
    BY <1>4 DEF Stop, Types, SumTypes, sums
  <2> QED
    BY <1>1, <1>4, <2>1, <2>2, AsideTypes DEF Stop, Types, OutcomeTypes
<1>5. CASE EmergencyStop
  <2>1. WorkerTypes' /\ SumTypes'
    BY <1>5 DEF EmergencyStop, Types, WorkerTypes, SumTypes, sums
  <2> QED
    BY <1>1, <1>5, <2>1, AsideTypes DEF EmergencyStop, Types, OutcomeTypes, FlagsInv
<1>6. CASE Connect \/ Disconnect
  <2>1. WorkerTypes' /\ SumTypes'
    BY <1>6 DEF Connect, Disconnect, Types, WorkerTypes, SumTypes, sums
  <2> QED
    BY <1>1, <1>6, <2>1, AsideTypes DEF Connect, Disconnect, Types, OutcomeTypes
<1>7. CASE TickStart
  <2>1. [drive |-> drive, restarted |-> restarted] \in [drive : SUBSET Int, restarted : BOOLEAN]
    BY DEF Types, WorkerTypes
  <2>2. WorkerTypes'
    BY <1>7, <2>1 DEF TickStart, Types, WorkerTypes, Ticks
  <2>3. SumTypes'
    BY <1>7 DEF TickStart, dialog, Types, SumTypes
  <2> QED
    BY <1>1, <1>7, <2>2, <2>3, AsideTypes DEF TickStart, dialog, Types, OutcomeTypes
<1>8. CASE ReaderEnds
  <2>1. WorkerTypes' /\ SumTypes'
    BY <1>8 DEF ReaderEnds, Types, WorkerTypes, SumTypes, worker, sums
  <2> QED
    BY <1>1, <1>8, <2>1, AsideTypes DEF ReaderEnds, Types, OutcomeTypes
<1>9. CASE UNCHANGED vars
  <2>1. WorkerTypes' /\ SumTypes'
    BY <1>9 DEF vars, Types, WorkerTypes, SumTypes, worker, sums
  <2> QED
    BY <1>1, <1>9, <2>1, AsideTypes DEF vars, Types, OutcomeTypes
<1> QED
  BY <1>2, <1>3, <1>4, <1>5, <1>6, <1>7, <1>8, <1>9 DEF Next, Operator

(* Whatever is clicked under whatever box, every variable keeps its type   *)
(* and the step index points at a step of the list.                        *)
THEOREM TypeCorrect == Spec => []TypeOK
<1>1. IInv /\ Types /\ [Next]_vars => Types'
  BY StepTyped
<1> QED
  BY <1>1, InitTypes, InvariantHolds, TypesSuffice, PTL DEF Spec
-----------------------------------------------------------------------------
(* Why a row holds no sample of an older step.  A snapshot lags behind the *)
(* commands by the tick in progress and the frame published before it: the *)
(* first frame of a step sets its clock, the tick that starts after it     *)
(* measures the step's own current, and the frame two periods on shows it. *)
(* So a step that lasts two periods or more hands over a lag of one step.  *)
Own(f, s, i) == {{}, {Setpoint(f, s, i)}}

Near(f, s, i) == Own(f, s, i) \cup Own(f, s, i - 1)

TickIn(S) == tick # <<>> => tick[1].drive \in S

RowsInv ==
  /\ Len(rows) <= Len(steps)
  /\ \A i \in 1..Len(rows) : rows[i].step = i /\ (i > 1 => rows[i].clean)

LagInv ==
  index > 1 => /\ seen \cup {frame.drive} \subseteq Near(form, steps, index)
               /\ TickIn(Near(form, steps, index))

FreshInv ==
  /\ haveT0 /\ elapsed >= 1 => TickIn(Own(form, steps, index))
  /\ haveT0 /\ elapsed >= 2 => frame.drive \in Own(form, steps, index)
  /\ frameBox # <<>> =>
       /\ haveT0
       /\ frameBox[1].late => /\ TickIn(Own(form, steps, index))
                              /\ frame.drive \in Own(form, steps, index)

StepMeasured ==
  /\ Len(rows) = index - 1
  /\ drive \in Own(form, steps, index)
  /\ LagInv /\ FreshInv

MeasureInv == ~boxed => RowsInv /\ (running => StepMeasured)

(* The end of a sweep keeps its rows.                                      *)
LEMMA MeasuredEnded ==
  ASSUME MeasureInv, running' = FALSE, UNCHANGED <<steps, rows, boxed>>
  PROVE  MeasureInv'
  BY DEF MeasureInv, RowsInv

(* A step aside of the sweep may only idle the joint.                      *)
LEMMA MeasuredAside ==
  ASSUME MeasureInv, drive' \in {drive, {}},
         UNCHANGED <<running, form, steps, index, haveT0, elapsed, seen, tick, frame,
                     rows, frameBox, boxed>>
  PROVE  MeasureInv'
<1> SUFFICES ASSUME ~boxed PROVE RowsInv' /\ (running => StepMeasured')
  BY DEF MeasureInv
<1>1. RowsInv'
  BY DEF MeasureInv, RowsInv
<1> SUFFICES ASSUME running PROVE StepMeasured'
  BY <1>1
<1>2. StepMeasured
  BY DEF MeasureInv
<1>3. LagInv' /\ FreshInv'
  BY <1>2, Zenon DEF StepMeasured, LagInv, FreshInv, TickIn
<1>4. drive' \in Own(form, steps, index)
  BY <1>2 DEF StepMeasured, Own
<1> QED
  BY <1>2, <1>3, <1>4 DEF StepMeasured

(* The row of a step that is late is clean.                                *)
LEMMA RowClean ==
  ASSUME Types, running, LagInv, NEW sample,
         index > 1 => sample \subseteq Near(form, steps, index)
  PROVE  index > 1 => ResultRow(sample).clean
<1> SUFFICES ASSUME index > 1 PROVE ResultRow(sample).clean
  OBVIOUS
<1>1. index \in Int
  BY DEF Types, StepTypes
<1>2. index \in (index - 1)..index /\ index - 1 \in (index - 1)..index
  BY <1>1
<1>3. Near(form, steps, index) \subseteq
        {{}} \cup {{Setpoint(form, steps, i)} : i \in (index - 1)..index}
  BY <1>2 DEF Near, Own
<1> QED
  BY <1>3 DEF ResultRow

(* Judging a frame: `late' frames are fresh, so the lag they hand over to  *)
(* the next step is one step.                                              *)
LEMMA MeasuredJudged ==
  ASSUME Types, ~boxed, running, MeasureInv, NEW k, NEW fault, NEW late, NEW sample,
         NEW since \in Int,
         Judge(k, fault, late, sample, since),
         UNCHANGED <<form, steps, tick, frame, boxed>>, frameBox' = <<>>,
         index > 1 => sample \subseteq Near(form, steps, index),
         since >= 1 => TickIn(Own(form, steps, index)),
         since >= 2 => frame.drive \in Own(form, steps, index),
         late => TickIn(Own(form, steps, index)) /\ frame.drive \in Own(form, steps, index)
  PROVE  MeasureInv'
<1>1. RowsInv /\ StepMeasured
  BY DEF MeasureInv
<1>2. index \in 1..Len(steps) /\ Len(steps) \in Nat /\ rows \in Seq(ResultRows)
  BY DEF Types, StepTypes, OutcomeTypes, StepsUsable
<1>3. CASE fault
  BY <1>3, MeasuredEnded DEF Judge, StopTest
<1>4. CASE ~fault /\ ~late
  <2>1. /\ haveT0' = TRUE /\ elapsed' = since /\ seen' = sample
        /\ UNCHANGED <<index, rows, drive, running>>
    BY <1>4, Zenon DEF Judge, Sampled
  <2>2. LagInv'
    BY <1>1, <2>1 DEF StepMeasured, LagInv, TickIn
  <2>3. FreshInv'
    BY <2>1 DEF FreshInv, TickIn
  <2>4. RowsInv' /\ Len(rows') = index' - 1 /\ drive' \in Own(form', steps', index')
    BY <1>1, <2>1 DEF RowsInv, StepMeasured
  <2> QED
    BY <2>2, <2>3, <2>4 DEF MeasureInv, StepMeasured
<1>5. CASE ~fault /\ late
  <2>1. FinishStep(k, sample, since)
    BY <1>5, Zenon DEF Judge
  <2>2. rows' = Append(rows, ResultRow(sample))
    BY <2>1 DEF FinishStep
  <2>3. ResultRow(sample).step = index /\ (index > 1 => ResultRow(sample).clean)
    BY <1>1, RowClean DEF ResultRow, StepMeasured
  <2>4. /\ Len(rows) \in Nat /\ Len(rows') = Len(rows) + 1
        /\ rows'[Len(rows) + 1] = ResultRow(sample)
        /\ \A i \in 1..Len(rows) : rows'[i] = rows[i]
    <3>1. ResultRow(sample) \in ResultRows
      BY <1>2 DEF ResultRow, ResultRows
    <3> QED
      BY <1>2, <2>2, <3>1, AppendProperties, LenProperties
  <2>5. RowsInv'
    <3>1. Len(rows') = index /\ Len(rows') <= Len(steps)
      BY <1>1, <1>2, <2>4 DEF StepMeasured
    <3>2. ASSUME NEW i \in 1..Len(rows')
          PROVE  rows'[i].step = i /\ (i > 1 => rows'[i].clean)
      <4>1. CASE i \in 1..Len(rows)
        BY <1>1, <2>4, <4>1 DEF RowsInv
      <4>2. CASE i = index
        BY <1>1, <1>2, <2>3, <2>4, <4>2 DEF StepMeasured
      <4>3. i \in 1..Len(rows) \/ i = index
        BY <1>1, <1>2, <2>4 DEF StepMeasured
      <4> QED
        BY <4>1, <4>2, <4>3
    <3> QED
      BY <3>1, <3>2 DEF RowsInv
  <2>6. CASE index = Len(steps)
    <3>1. running' = FALSE
      BY <2>1, <2>6 DEF FinishStep, StopTest
    <3> QED
      BY <2>5, <3>1 DEF MeasureInv
  <2>7. CASE index # Len(steps)
    <3>1. /\ index' = index + 1 /\ haveT0' = FALSE /\ seen' = {}
          /\ drive' = {Setpoint(form, steps, index + 1)}
      BY <2>1, <2>7 DEF FinishStep, BeginStep, Command
    <3>2. (index + 1) - 1 = index
      BY <1>2
    <3>3. Own(form, steps, index) \subseteq Near(form, steps, index + 1)
      BY <3>2, Zenon DEF Near
    <3>4. LagInv'
      BY <1>5, <3>1, <3>3 DEF LagInv, TickIn
    <3>5. FreshInv'
      BY <3>1 DEF FreshInv
    <3>6. Len(rows') = index' - 1
      BY <1>1, <1>2, <2>4, <3>1 DEF StepMeasured
    <3>7. drive' \in Own(form', steps', index')
      BY <3>1, Zenon DEF Own
    <3> QED
      BY <2>5, <3>4, <3>5, <3>6, <3>7 DEF MeasureInv, StepMeasured
  <2> QED
    BY <2>6, <2>7
<1> QED
  BY <1>3, <1>4, <1>5

(* Before the first sweep there are no rows; each one begins without any.  *)
LEMMA InitMeasured == Init => MeasureInv
<1> SUFFICES ASSUME Init PROVE MeasureInv
  OBVIOUS
<1>1. rows = <<>> /\ steps = <<>> /\ running = FALSE
  BY DEF Init
<1> QED
  BY <1>1 DEF MeasureInv, RowsInv

LEMMA StartMeasured == Start => MeasureInv'
<1> SUFFICES ASSUME Start, ~boxed' PROVE RowsInv' /\ StepMeasured'
  BY DEF MeasureInv
<1>1. PICK f \in Forms, reader \in {"none", "running", "ended"} :
        /\ form' = f /\ steps' = BuildSteps(f) /\ boxed' = (reader = "ended")
        /\ IF reader = "ended"
           THEN index' = 1 /\ UNCHANGED <<drive, link, sums>>
           ELSE BeginStep(f, BuildSteps(f), 1)
  BY DEF Start
<1>2. /\ index' = 1 /\ haveT0' = FALSE /\ drive' = {Setpoint(form', steps', 1)}
  BY <1>1 DEF BeginStep, Command
<1>3. rows' = <<>> /\ frameBox' = <<>>
  BY DEF Start, NoBox
<1>4. Len(steps') \in Nat
  <2>1. SweepForm(f)
    BY <1>1, SweepAssumption
  <2> QED
    BY <1>1, <2>1, BuildStepsCorrect DEF StepsUsable
<1>5. RowsInv'
  BY <1>3, <1>4 DEF RowsInv
<1>6. LagInv' /\ FreshInv'
  BY <1>2, <1>3 DEF LagInv, FreshInv
<1>7. Len(rows') = index' - 1
  BY <1>2, <1>3
<1>8. drive' \in Own(form', steps', index')
  BY <1>2, Zenon DEF Own
<1> QED
  BY <1>5, <1>6, <1>7, <1>8 DEF StepMeasured

LEMMA TickStartMeasured == MeasureInv /\ TickStart => MeasureInv'
<1> SUFFICES ASSUME MeasureInv, TickStart PROVE MeasureInv'
  OBVIOUS
<1>0. boxed' = boxed /\ running' = running
  BY DEF TickStart, dialog
<1> SUFFICES ASSUME ~boxed PROVE RowsInv' /\ (running => StepMeasured')
  BY <1>0 DEF MeasureInv
<1>1. /\ tick' = <<[drive |-> drive, restarted |-> restarted]>>
      /\ UNCHANGED <<drive, frame, running, form, steps, index, haveT0, elapsed, seen,
                     rows, frameBox>>
  BY DEF TickStart, dialog
<1>2. tick'[1].drive = drive
  BY <1>1
<1>3. RowsInv'
  BY <1>1 DEF MeasureInv, RowsInv
<1> SUFFICES ASSUME running PROVE StepMeasured'
  BY <1>3
<1>4. StepMeasured
  BY DEF MeasureInv
<1>5. drive \in Own(form, steps, index) /\ drive \in Near(form, steps, index)
  BY <1>4 DEF StepMeasured, Near
<1>6. LagInv'
  BY <1>1, <1>2, <1>4, <1>5 DEF StepMeasured, LagInv, TickIn
<1>7. FreshInv'
  BY <1>1, <1>2, <1>4, <1>5, Zenon DEF StepMeasured, FreshInv, TickIn
<1> QED
  BY <1>1, <1>4, <1>6, <1>7 DEF StepMeasured

LEMMA PublishMeasured ==
  Types /\ MeasureInv /\ Publish /\ Dwell >= 2 => MeasureInv'
<1> SUFFICES ASSUME Types, MeasureInv, Publish, Dwell >= 2 PROVE MeasureInv'
  OBVIOUS
<1>0. boxed' = boxed /\ running' = running
  BY DEF Publish, SafetyAbort, dialog
<1> SUFFICES ASSUME ~boxed PROVE RowsInv' /\ (running => StepMeasured')
  BY <1>0 DEF MeasureInv
<1>1. /\ tick # <<>> /\ tick' = <<>> /\ frame'.drive = tick[1].drive /\ drive' \in {drive, {}}
      /\ UNCHANGED <<running, form, steps, index, haveT0, seen, rows, frameBox>>
  BY DEF Publish, SafetyAbort, dialog
<1>2. elapsed \in Int /\ Dwell \in Int
  BY SweepAssumption DEF Types, SumTypes
<1>3. haveT0 /\ elapsed' >= 2 => elapsed >= 1
  <2>1. CASE haveT0 /\ tick[1].restarted
    <3>1. elapsed' <= 0
      BY <2>1, SweepAssumption DEF Publish, SafetyAbort
    <3> QED
      BY <3>1, SweepAssumption, <2>1 DEF Publish, SafetyAbort
  <2>2. CASE haveT0 /\ ~tick[1].restarted
    BY <1>2, <2>2 DEF Publish, SafetyAbort
  <2> QED
    BY <2>1, <2>2
<1>4. RowsInv'
  BY <1>1 DEF MeasureInv, RowsInv
<1> SUFFICES ASSUME running PROVE StepMeasured'
  BY <1>4
<1>5. StepMeasured
  BY DEF MeasureInv
<1>6. LagInv'
  BY <1>1, <1>5 DEF StepMeasured, LagInv, TickIn
<1>7. FreshInv'
  BY <1>1, <1>3, <1>5, Zenon DEF StepMeasured, FreshInv, TickIn
<1>8. drive' \in Own(form, steps, index)
  BY <1>1, <1>5 DEF StepMeasured, Own
<1> QED
  BY <1>1, <1>5, <1>6, <1>7, <1>8 DEF StepMeasured

LEMMA PollMeasured ==
  IInv /\ Types /\ MeasureInv /\ Poll /\ Dwell >= 2 => MeasureInv'
<1> SUFFICES ASSUME IInv, Types, MeasureInv, Poll, Dwell >= 2 PROVE MeasureInv'
  OBVIOUS
<1>1. /\ frameBox = <<>>
      /\ UNCHANGED <<tick, frame, form, steps, boxed>>
  BY DEF Poll
<1>2. CASE ~running
  BY <1>1, <1>2, MeasuredAside DEF Poll, sums
<1>3. CASE running /\ ~frame.present
  <2>1. StopTest(known') /\ rows' = rows
    BY <1>3, Zenon DEF Poll, AppendTelemetry
  <2> QED
    BY <1>1, <2>1, MeasuredEnded DEF StopTest
<1>4. CASE running /\ frame.present /\ boxed
  BY <1>1, <1>4 DEF MeasureInv
<1>5. CASE running /\ frame.present /\ ~boxed
  <2> DEFINE sample == seen \cup {frame.drive}
             late == Since >= Dwell
  <2>1. StepMeasured /\ RowsInv
    BY <1>5 DEF MeasureInv
  <2>2. Since \in Int /\ elapsed \in Int /\ Dwell \in Int
    BY SweepAssumption DEF Since, Types, SumTypes
  <2>3. index > 1 => sample \subseteq Near(form, steps, index)
    BY <2>1 DEF StepMeasured, LagInv
  <2>4. /\ Since >= 1 => TickIn(Own(form, steps, index))
        /\ Since >= 2 => frame.drive \in Own(form, steps, index)
    BY <2>1 DEF StepMeasured, FreshInv, Since
  <2>5. late => Since >= 1 /\ Since >= 2
    BY <2>2
  <2>6. CASE daq = "ended"
    <3>1. /\ haveT0' = TRUE /\ elapsed' = Since /\ seen' = sample
          /\ frameBox' = <<[fault |-> frame.fault, late |-> late]>>
          /\ UNCHANGED <<index, rows, drive, running>>
      BY <1>5, <2>6, Zenon DEF Poll, AppendTelemetry, Sampled
    <3>2. frameBox'[1].late = late
      BY <3>1
    <3> HIDE DEF sample, late
    <3>3. LagInv'
      BY <1>1, <2>1, <2>3, <3>1 DEF StepMeasured, LagInv, TickIn
    <3>4. FreshInv'
      BY <1>1, <2>1, <2>4, <2>5, <3>1, <3>2 DEF FreshInv, TickIn
    <3>5. RowsInv' /\ Len(rows') = index' - 1 /\ drive' \in Own(form', steps', index')
      BY <1>1, <2>1, <3>1 DEF RowsInv, StepMeasured
    <3> QED
      BY <3>3, <3>4, <3>5 DEF MeasureInv, StepMeasured
  <2>7. CASE daq # "ended"
    <3>1. Judge(known', frame.fault, late, sample, Since) /\ frameBox' = frameBox
      BY <1>5, <2>7, Zenon DEF Poll, AppendTelemetry
    <3> HIDE DEF sample, late
    <3> QED
      BY <1>1, <1>5, <2>2, <2>3, <2>4, <2>5, <3>1, MeasuredJudged
  <2> QED
    BY <2>6, <2>7
<1> QED
  BY <1>2, <1>3, <1>4, <1>5

LEMMA CloseFrameBoxMeasured ==
  IInv /\ Types /\ MeasureInv /\ CloseFrameBox => MeasureInv'
<1> SUFFICES ASSUME IInv, Types, MeasureInv, CloseFrameBox, ~boxed PROVE MeasureInv'
  BY DEF MeasureInv, CloseFrameBox
<1>1. /\ frameBox # <<>> /\ frameBox' = <<>>
      /\ Judge(known, frameBox[1].fault, frameBox[1].late, seen, elapsed)
      /\ UNCHANGED <<form, steps, tick, frame, boxed>>
  BY DEF CloseFrameBox
<1>2. running /\ elapsed \in Int
  BY <1>1 DEF IInv, BoxesInv, Types, SumTypes
<1>3. StepMeasured
  BY <1>2 DEF MeasureInv
<1>4. /\ elapsed >= 1 => TickIn(Own(form, steps, index))
      /\ elapsed >= 2 => frame.drive \in Own(form, steps, index)
      /\ frameBox[1].late => /\ TickIn(Own(form, steps, index))
                             /\ frame.drive \in Own(form, steps, index)
  BY <1>1, <1>3 DEF StepMeasured, FreshInv
<1>5. index > 1 => seen \subseteq Near(form, steps, index)
  BY <1>3 DEF StepMeasured, LagInv
<1> QED
  BY <1>1, <1>2, <1>4, <1>5, MeasuredJudged

LEMMA StepIsMeasured ==
  IInv /\ Types /\ MeasureInv /\ [Next]_vars /\ Dwell >= 2 => MeasureInv'
<1> SUFFICES ASSUME IInv, Types, MeasureInv, [Next]_vars, Dwell >= 2 PROVE MeasureInv'
  OBVIOUS
<1>1. CASE Start \/ TickStart \/ Publish \/ Poll \/ CloseFrameBox
  BY <1>1, StartMeasured, TickStartMeasured, PublishMeasured, PollMeasured,
     CloseFrameBoxMeasured
<1>2. CASE ToggleConfirm
  BY <1>2, MeasuredAside DEF ToggleConfirm, worker, sums
<1>3. CASE Stop
  BY <1>3, MeasuredEnded DEF Stop, StopTest
<1>4. CASE EmergencyStop
  BY <1>4, MeasuredAside DEF EmergencyStop, sums
<1>5. CASE Connect
  BY <1>5, MeasuredAside DEF Connect, sums
<1>6. CASE Disconnect
  BY <1>6, MeasuredAside DEF Disconnect, sums
<1>7. CASE CloseStartBox
  BY <1>7 DEF CloseStartBox, IInv, BoxesInv, MeasureInv
<1>8. CASE ReaderEnds
  BY <1>8, MeasuredAside DEF ReaderEnds, worker, sums
<1>9. CASE UNCHANGED vars
  BY <1>9, MeasuredAside DEF vars, worker, sums
<1> QED
  BY <1>1, <1>2, <1>3, <1>4, <1>5, <1>6, <1>7, <1>8, <1>9 DEF Next, Operator

(* The k-th row is the k-th step, averaged over nothing older than the     *)
(* step before it, for every dwell time the panel offers: its least, 0.2 s, *)
(* is ten periods, and two are enough.                                     *)
THEOREM RowsCorrect ==
  ASSUME Dwell >= 2
  PROVE  Spec => []RowsMeasured
<1>1. IInv /\ Types /\ MeasureInv /\ [Next]_vars => Types' /\ MeasureInv'
  BY StepTyped, StepIsMeasured
<1>2. MeasureInv => RowsMeasured
  BY DEF MeasureInv, RowsInv, RowsMeasured
<1> QED
  BY <1>1, <1>2, InitTypes, InitMeasured, InvariantHolds, PTL DEF Spec
=============================================================================
