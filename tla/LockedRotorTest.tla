--------------------------- MODULE LockedRotorTest ---------------------------
(***************************************************************************)
(* The locked-rotor sweep (gui/widgets/locked_rotor_test_panel.cpp): a     *)
(* dialog that steps one joint through a list of currents, each held until *)
(* the telemetry clock has advanced by the dwell time, and that averages   *)
(* the telemetry of each step into one row of results.                     *)
(*                                                                         *)
(* The dialog runs in the GUI thread: operator clicks, and MainWindow's    *)
(* poll timer which hands it the last published frame.  Message boxes run  *)
(* an event loop of their own: one opened by a click lets the timer fire,  *)
(* one opened inside poll() stops it, because Qt does not deliver a timer  *)
(* event to a handler that has not returned.  An open box blocks all other *)
(* operator input.                                                         *)
(*                                                                         *)
(* The worker is reduced to what the sweep can see and do: `drive' is the  *)
(* current the queued commands amount to ({c}, or {} when the joint is     *)
(* idle) and a tick publishes the current it started with.  The joint's    *)
(* envelope stays captured, otherwise the worker refuses every current.    *)
(***************************************************************************)
EXTENDS Integers, Sequences, SweepSteps

CONSTANTS
  Forms,   \* what the operator may enter: a SweepForm and the inversion
  Dwell,   \* m_dwell_spin, in telemetry periods (0.2 s are ten of them)
  MaxLag   \* bound: how far a reconnect sets the telemetry clock back

ASSUME SweepAssumption ==
  /\ \A f \in Forms : SweepForm(f) /\ f.invert \in BOOLEAN
  /\ Dwell \in Nat \ {0} /\ MaxLag \in Nat

VARIABLES
  link,       \* the worker's connection: "down", "connected", "disconnected"
  drive,      \* the current commanded so far, {} when the joint is idle
  restarted,  \* a reconnect has set impl.tick to 0
  tick,       \* the control tick in progress, if any
  frame,      \* m_telemetry: the snapshot poll() reads
  known,      \* m_joints is not empty
  confirmed,  \* m_confirm_check
  startBtn,   \* m_start_btn is enabled
  stopBtn,    \* m_stop_btn is enabled
  running,    \* m_running
  form,       \* the fields of the form, frozen while a sweep runs
  steps,      \* m_steps_a
  index,      \* m_step_index (from 1)
  haveT0,     \* m_have_step_t0
  elapsed,    \* snapshot time minus m_step_t0_s, counted up to Dwell
  seen,       \* the currents the accumulated samples were taken under
  rows,       \* m_results_table
  daq,        \* m_external_daq: "none", "running", "ended"
  startBox,   \* the box of onStartClicked is open
  frameBox,   \* the frame whose handler waits for its box, if any
  boxed,      \* history: this sweep was started with a failing reader
  halted      \* history: the emergency stop was pressed during this sweep

worker == <<link, drive, restarted, tick, frame>>
buttons == <<known, confirmed, startBtn, stopBtn>>
sums == <<haveT0, elapsed, seen>>
vars == <<worker, buttons, running, form, steps, index, sums, rows, daq,
          startBox, frameBox, boxed, halted>>

NoForm == [start |-> 0, end |-> 0, step |-> 1, ret |-> FALSE, opp |-> FALSE,
           invert |-> FALSE]

Init ==
  /\ link = "down" /\ drive = {} /\ restarted = FALSE /\ tick = <<>>
  /\ frame = [present |-> FALSE, drive |-> {}, fault |-> FALSE]
  /\ known = FALSE /\ confirmed = FALSE /\ startBtn = FALSE /\ stopBtn = FALSE
  /\ running = FALSE /\ form = NoForm /\ steps = <<>> /\ index = 1
  /\ haveT0 = FALSE /\ elapsed = 0 /\ seen = {} /\ rows = <<>>
  /\ daq = "none" /\ startBox = FALSE /\ frameBox = <<>>
  /\ boxed = FALSE /\ halted = FALSE
-----------------------------------------------------------------------------
(* appliedCurrentA of one step *)
Setpoint(f, s, i) == IF f.invert THEN -s[i] ELSE s[i]

StartEnabled(k, c, r) == c /\ k /\ ~r
-----------------------------------------------------------------------------
(* currentSetpointRequested as the worker handles it: any CurrentCommand   *)
(* also ends Disconnected, because the bus stays up after a disconnect.    *)
Command(d) ==
  /\ drive' = d
  /\ link' = IF link = "disconnected" THEN "connected" ELSE link

(* Mutant of Release: the joint is left in the current test.               *)
ReleaseNothing == UNCHANGED <<drive, link>>

Release == Command({})

(* Mutants of BeginStep: the sums go on, the index is one too low.         *)
BeginStepKeepingSums(f, s, i) ==
  /\ index' = i
  /\ haveT0' = FALSE /\ elapsed' = 0 /\ seen' = seen
  /\ Command({Setpoint(f, s, i)})
BeginStepBelow(f, s, i) ==
  /\ index' = i - 1
  /\ haveT0' = FALSE /\ elapsed' = 0 /\ seen' = {}
  /\ Command({Setpoint(f, s, i)})

BeginStep(f, s, i) ==
  /\ index' = i
  /\ haveT0' = FALSE /\ elapsed' = 0 /\ seen' = {}
  /\ Command({Setpoint(f, s, i)})

(* Mutants of StopTest: the reader is kept, the button is set too early.   *)
StopTestKeepingReader(k) ==
  /\ running' = FALSE
  /\ Release
  /\ daq' = daq
  /\ stopBtn' = FALSE /\ startBtn' = StartEnabled(k, confirmed, FALSE)
  /\ halted' = FALSE
StopTestButtonsFirst(k) ==
  /\ running' = FALSE
  /\ Release
  /\ daq' = "none"
  /\ stopBtn' = FALSE /\ startBtn' = StartEnabled(k, confirmed, running)
  /\ halted' = FALSE

(* stopTest, with the joints known to the dialog.                          *)
StopTest(k) ==
  /\ running' = FALSE
  /\ Release
  /\ daq' = "none"
  /\ stopBtn' = FALSE /\ startBtn' = StartEnabled(k, confirmed, FALSE)
  /\ halted' = FALSE

(* What finishStep puts into the table: the step, and whether the samples  *)
(* it averages were all measured at that step's current, the one before it *)
(* or on an idle joint.                                                    *)
ResultRow(sample) ==
  [step |-> index,
   clean |-> LET first == IF index > 1 THEN index - 1 ELSE 1
             IN  sample \subseteq {{}} \cup
                   {{Setpoint(form, steps, i)} : i \in first..index}]

Sampled(sample, since) ==
  haveT0' = TRUE /\ elapsed' = since /\ seen' = sample

FinishStep(k, sample, since) ==
  /\ rows' = Append(rows, ResultRow(sample))
  /\ IF index = Len(steps)
     THEN StopTest(k) /\ Sampled(sample, since) /\ UNCHANGED index
     ELSE /\ BeginStep(form, steps, index + 1)
          /\ UNCHANGED <<running, daq, stopBtn, startBtn, halted>>

(* The end of appendTelemetry, after the box if there was one.             *)
Judge(k, fault, late, sample, since) ==
  IF fault
  THEN StopTest(k) /\ Sampled(sample, since) /\ UNCHANGED <<index, rows>>
  ELSE IF late
  THEN FinishStep(k, sample, since)
  ELSE /\ Sampled(sample, since)
       /\ UNCHANGED <<index, rows, drive, link, running, daq, stopBtn, startBtn,
                      halted>>
-----------------------------------------------------------------------------
(* The operator. Nothing can be clicked while a box is open.               *)
NoBox == ~startBox /\ frameBox = <<>>

ToggleConfirm ==
  /\ NoBox /\ ~running
  /\ confirmed' = ~confirmed
  /\ startBtn' = StartEnabled(known, ~confirmed, running)
  /\ UNCHANGED <<worker, known, stopBtn, running, form, steps, index, sums,
                 rows, daq, startBox, frameBox, boxed, halted>>

(* onStartClicked; `reader' says whether the external reader is not asked  *)
(* for, starts, or fails to start: then a box is shown before step 0.      *)
Start ==
  /\ NoBox /\ startBtn /\ ~running
  /\ \E f \in Forms, reader \in {"none", "running", "ended"} :
       /\ form' = f /\ steps' = BuildSteps(f)
       /\ daq' = reader
       /\ startBox' = (reader = "ended") /\ boxed' = (reader = "ended")
       /\ IF reader = "ended"
          THEN index' = 1 /\ UNCHANGED <<drive, link, sums>>
          ELSE BeginStep(f, BuildSteps(f), 1)
  /\ running' = TRUE /\ startBtn' = FALSE /\ stopBtn' = TRUE
  /\ rows' = <<>> /\ halted' = FALSE
  /\ UNCHANGED <<restarted, tick, frame, known, confirmed, frameBox>>

(* The rest of onStartClicked once that box is closed: unconditional.      *)
CloseStartBox ==
  /\ startBox /\ frameBox = <<>>
  /\ startBox' = FALSE /\ daq' = "none"
  /\ BeginStep(form, steps, 1)
  /\ UNCHANGED <<restarted, tick, frame, buttons, running, form, steps, rows,
                 frameBox, boxed, halted>>

Stop ==
  /\ NoBox /\ stopBtn /\ running
  /\ StopTest(known)
  /\ UNCHANGED <<restarted, tick, frame, known, confirmed, form, steps, index,
                 sums, rows, startBox, frameBox, boxed>>

(* The main window's emergency stop idles every joint; the dialog is not   *)
(* told.                                                                   *)
EmergencyStop ==
  /\ NoBox /\ link = "connected"
  /\ drive' = {} /\ halted' = running
  /\ UNCHANGED <<link, restarted, tick, frame, buttons, running, form, steps,
                 index, sums, rows, daq, startBox, frameBox, boxed>>

(* Connecting again after a disconnect restarts the telemetry clock.       *)
Connect ==
  /\ NoBox /\ link # "connected"
  /\ link' = "connected" /\ drive' = {} /\ restarted' = TRUE
  /\ UNCHANGED <<tick, frame, buttons, running, form, steps, index, sums, rows,
                 daq, startBox, frameBox, boxed, halted>>

Disconnect ==
  /\ NoBox /\ link = "connected"
  /\ link' = "disconnected" /\ drive' = {}
  /\ UNCHANGED <<restarted, tick, frame, buttons, running, form, steps, index,
                 sums, rows, daq, startBox, frameBox, boxed, halted>>
-----------------------------------------------------------------------------
dialog == <<buttons, running, form, steps, index, haveT0, seen, rows, daq,
            startBox, frameBox, boxed, halted>>

(* The worker starts a tick with what is commanded, and publishes it. No   *)
(* tick starts while Disconnected.                                         *)
TickStart ==
  /\ tick = <<>> /\ link = "connected"
  /\ tick' = <<[drive |-> drive, restarted |-> restarted]>>
  /\ restarted' = FALSE
  /\ UNCHANGED <<link, drive, frame, dialog, elapsed>>

(* A tick that finds the drive faulted, too hot or with the same error     *)
(* code again idles it, unless another current was queued meanwhile.       *)
SafetyAbort == drive' \in {drive, {}}

(* The end of the tick: the frame shows the fault bit as it is then, and   *)
(* no other reason for which the drive was idled.                          *)
Publish ==
  /\ tick # <<>>
  /\ \E fault \in BOOLEAN :
       frame' = [present |-> TRUE, drive |-> tick[1].drive, fault |-> fault]
  /\ SafetyAbort
  /\ IF ~haveT0 THEN UNCHANGED elapsed
     ELSE IF tick[1].restarted THEN \E back \in 0..MaxLag : elapsed' = -back
     ELSE elapsed' = IF elapsed < Dwell THEN elapsed + 1 ELSE Dwell
  /\ tick' = <<>>
  /\ UNCHANGED <<link, restarted, dialog>>

(* The acquisition thread of the external reader may end at any time.      *)
ReaderEnds ==
  /\ daq = "running"
  /\ daq' = "ended"
  /\ UNCHANGED <<worker, buttons, running, form, steps, index, sums, rows,
                 startBox, frameBox, boxed, halted>>

(* Mutant of Since: every frame is taken for the first one.                *)
SinceThisFrame == 0

(* The time since the first frame of the step, which may be this one.      *)
Since == IF haveT0 THEN elapsed ELSE 0

(* appendTelemetry of the last published frame. When the reader has ended, *)
(* it is released and a box opens before the frame is judged.              *)
AppendTelemetry(k) ==
  LET late == Since >= Dwell
      sample == seen \cup {frame.drive}
  IN  IF ~frame.present
      THEN /\ StopTest(k)
           /\ UNCHANGED <<index, rows, sums, frameBox>>
      ELSE IF daq = "ended"
      THEN /\ Sampled(sample, Since)
           /\ daq' = "none"
           /\ frameBox' = <<[fault |-> frame.fault, late |-> late]>>
           /\ UNCHANGED <<index, rows, drive, link, running, stopBtn, startBtn,
                          halted>>
      ELSE Judge(k, frame.fault, late, sample, Since) /\ UNCHANGED frameBox

(* One poll of the main window. The joint list reaches the dialog first.   *)
Poll ==
  /\ frameBox = <<>>
  /\ known' = (link # "down")
  /\ IF running THEN AppendTelemetry(known')
     ELSE /\ startBtn' = IF known' # known
                         THEN StartEnabled(known', confirmed, running)
                         ELSE startBtn
          /\ UNCHANGED <<drive, link, running, stopBtn, index, sums, rows, daq,
                         frameBox, halted>>
  /\ UNCHANGED <<restarted, tick, frame, confirmed, form, steps, startBox,
                 boxed>>

(* The rest of appendTelemetry once its box is closed.                     *)
CloseFrameBox ==
  /\ frameBox # <<>>
  /\ frameBox' = <<>>
  /\ Judge(known, frameBox[1].fault, frameBox[1].late, seen, elapsed)
  /\ UNCHANGED <<restarted, tick, frame, known, confirmed, form, steps, startBox,
                 boxed>>

Operator == \/ ToggleConfirm \/ Start \/ Stop \/ EmergencyStop
            \/ Connect \/ Disconnect \/ CloseStartBox \/ CloseFrameBox
Next == Operator \/ TickStart \/ Publish \/ ReaderEnds \/ Poll

Spec == Init /\ [][Next]_vars

(* The worker ticks while connected and the poll timer fires; the operator *)
(* need not do anything.                                                   *)
FairSpec == Spec /\ WF_vars(TickStart) /\ WF_vars(Publish) /\ WF_vars(Poll)
-----------------------------------------------------------------------------
(* Every variable keeps its type and the step index points into the steps. *)
TypeOK ==
  /\ link \in {"down", "connected", "disconnected"}
  /\ {restarted, known, confirmed, startBtn, stopBtn, running, haveT0, startBox,
      boxed, halted} \subseteq BOOLEAN
  /\ elapsed \in -MaxLag..Dwell
  /\ drive \subseteq Int /\ seen \subseteq SUBSET Int
  /\ daq \in {"none", "running", "ended"}
  /\ form \in Forms \cup {NoForm}
  /\ Len(tick) <= 1 /\ Len(frameBox) <= 1
  /\ steps # <<>> => index \in 1..Len(steps)

(* A sweep that runs can always be stopped and never started again, and    *)
(* the Start button is offered exactly when its three conditions hold, in  *)
(* whatever order joints, confirmation and the end of a sweep come.        *)
ButtonsMatchSweep ==
  /\ stopBtn = running
  /\ startBtn = StartEnabled(known, confirmed, running)

(* The k-th row is the k-th step, and its averages are taken only over     *)
(* frames measured at that step's current, at most the one before it (the  *)
(* snapshot lags), or on an idle joint: never over an older step's. The    *)
(* first row may hold the end of the sweep before. This is not so when the *)
(* sweep was started under the box of a failing reader, where frames are   *)
(* counted before the first step begins.                                   *)
RowsMeasured ==
  ~boxed =>
    /\ Len(rows) <= Len(steps)
    /\ \A i \in 1..Len(rows) : rows[i].step = i /\ (i > 1 => rows[i].clean)

(* Once a sweep has ended, by itself, on a fault or by Stop, its current   *)
(* is off the joint, unless it was started under the failing reader's box; *)
(* and a reader is kept only while a sweep runs, also across both boxes.   *)
ReleasedAfterSweep ==
  /\ ~running /\ ~boxed => drive = {}
  /\ daq # "none" => running

(* A sweep ends by itself, unless the bus is disconnected or its own box   *)
(* waits for the operator: every step's dwell time passes, also after the  *)
(* telemetry clock was set back.                                           *)
SweepEnds ==
  running ~> (~running \/ link = "disconnected" \/ frameBox # <<>>)

(* isRunning() is documented as true while the sweep is stepping through   *)
(* currents: a current the sweep commanded can be stopped in the dialog.   *)
CurrentMeansRunning == drive # {} => running

(* After the emergency stop, which idles all drives, the sweep it was      *)
(* pressed in gives no current again.                                      *)
EmergencyStopHolds == halted => drive = {}
=============================================================================
