# A verification project for ecp-playground

TLA+ modules, TLC configurations and TLAPS proofs about the actuator
characterisation tools of this repository: the Qt application that drives
EtherCAT actuators at 1 kHz (`src/gui/`), the control core it shares with the
console tools (`src/src/actuator_test/`), and the console tools themselves.
Source paths are relative to the directory that holds `src/` and `tla/`.

## 1. Inventory of the system

| part | state | operations | talks to |
| --- | --- | --- | --- |
| **ControllerWorker** (`gui/core/controller_worker.*`, `commands.hpp`, `telemetry.hpp`) | command FIFO, controller state, per joint: activity, engaged, hard and soft limits, setpoint, trail, trajectory, logs, last error | `post` and fourteen command handlers, `controlTick`, `publishTelemetry`, `drainEvents` | GUI thread (commands in; state events and snapshots out), drives, loggers |
| **JointCsvLogger** (`actuator_test/logging.*`) | open file, batch being filled, batch handed over, two flags | `open`, `open_plain`, `write`, `close`, `writer_main` | control thread and its own writer thread, one mutex, one condition variable |
| **MainWindow and panels** (`gui/main_window.*`, `gui/widgets/*`) | last state, joint names, record toggle, enabled buttons, selection | buttons, shortcuts, 60 Hz `poll` | worker only through `post`, `snapshot`, `joints`, `drainEvents` |
| **LockedRotorTestDialog** (`gui/widgets/locked_rotor_test_panel.*`) | step list, current step, timers, CSV file, accumulated samples | start, timer step, telemetry, stop, close | MainWindow (current commands out, frames in), ExternalDaqReader |
| **ExternalDaqReader** (`actuator_test/external_daq.*`) | running and stop flags, thread, tasks, latest sample, last error | `start`, `stop`, acquisition loop | DAQ hardware, LockedRotorTestDialog |
| **Console session** (`actuator_test/session.*`, `actuator-test-spline.cpp`, `actuator-cli.cpp`) | per joint plan, trail, trajectory, logger; phase of the run | `capture_limits_multi`, `run_trajectory_multi`, prompts | drives, loggers, terminal |
| **Device adapters** (`actuator_test/device.*`, `runtime.*`) | driver handles | read, command, idle, enumerate, pick | EtherCAT library |
| **Trajectories** (`actuator_test/trajectory.*`, `decimate_trail`) | none, or a spline's knots | sample, approach target | worker, session |
| **Settings** (`actuator_test/settings.*`) | profile | load TOML | everything reads it |
| **Plot panel** (`gui/widgets/plot_panel.*`) | view, checked joints, charts and series, samples, time window, throttle | one frame per poll, view and joint boxes, freeze, clear | MainWindow (frames in) |
| **Diagnostics, wizard** | what they paint | paint | MainWindow |
| **multi-master example** | none | start two masters | EtherCAT library |

What is hard here, and what makes each part correct:

* *Worker.* Twelve handlers change a joint's activity and its power separately,
  commands of several panels interleave with ticks, faults arrive inside a tick,
  and one label stands for all joints. Correct means: power follows the
  activity; no power without an envelope; limits ordered whenever something is
  clamped to them; the label hides no motion; stop, disconnect and shutdown
  release every drive; a fault is cleared only together with the power.
* *Logger.* A real-time thread and a disk thread exchange whole batches and
  share one condition variable. Correct means: no sample lost, repeated or
  reordered; no missed wake-up; `write` and `close` return.
* *GUI.* It decides from a state that is older than the commands it has queued.
  A modal box opened by a click lets `poll` run behind it; one opened inside
  `poll` stops it, since Qt delivers no timer event to a handler that has not
  returned. Correct means: its toggles agree with the worker once everything
  queued has been handled; no command it lets through does harm when it arrives
  late.
* *Locked-rotor test.* Telemetry frames, the operator, other controls of the
  main window and its own two message boxes race, and time is the telemetry's.
  Correct means: whatever ends a sweep, the joint and the reader are released
  and the buttons restored; a sample counts for the step that commanded it; a
  sweep ends.
* *DAQ reader.* Its thread may die on its own and every driver call of `start`
  may fail. Correct means: no task is leaked, or read after its release; `stop`
  returns; the reader ends by itself only with a reason.
* *Algorithms.* Trail decimation, knot times, the spline, the waveforms and the
  list of currents of a sweep are small and full of boundaries: end points,
  turning points, rounding, overflow, inputs that are constant or too short.
* *Plot panel.* Views are rebuilt, cleared, frozen and widened at any moment
  while the worker's clock runs, stands still or starts again. Correct means:
  every series is fed, and shows what was sampled up to the newest frame.
* *Console session.* Faults, keys and Ctrl-C come at any moment of a
  multi-joint run. Correct means: drives are powered together and only in a run,
  inside the envelope captured for each; joints keep step; every way out idles
  every drive and closes every log.

Every hazard is listed with its line in `PROJECT.json` (`hazards`), with the
properties that would catch it, or with the reason why none does.

## 2. Modules

| module | what it is |
| --- | --- |
| `ControllerWorker` | the worker: FIFO, handlers, tick, loop of `run()` |
| `ControllerWorkerProofs` | theorems about it, for all constants |
| `Console` | the main window above `ControllerWorker`: poll, boxes, gated buttons, record toggle, press and hold |
| `ConsoleProofs` | its theorems, on top of the worker's |
| `MCWorkerActivities`, `MCWorkerPair`, `MCWorkerStop`, `MCConsole` | instances for TLC |
| `SampleLog` | abstract: what a CSV log promises |
| `JointCsvLogger` | the double-buffered logger; implements `SampleLog` |
| `JointCsvLoggerProofs` | its theorems, the refinement among them |
| `MCLogger` | instance for TLC |
| `SweepSteps`, `SweepStepsProofs` | pure: the list of currents of a sweep, and what it should be; its theorem |
| `LockedRotorTest` | the sweep dialog with the poll timer, the operator and as much of the worker as it sees |
| `LockedRotorTestProofs` | its theorems |
| `Acquisition` | abstract: what the external reader promises |
| `ExternalDaqReader` | `start`, `stop` and the acquisition thread; implements `Acquisition` |
| `ExternalDaqReaderProofs` | its theorems, the refinement among them |
| `SplineWaypoints` | pure: from a recorded trail to waypoints, knot times and the segment played, and what they should be |
| `Waveforms` | pure: swing, approach and samples of the parametric waves, phase of the linear chirp |
| `Settings` | pure: the profile that is loaded, whatever is configured |
| `Selecting` | the loop that appends what qualifies; shared by the next two |
| `JointSelection` | pure: from configured devices to joints, and the line that selects them |
| `PlotHistory` | the plot panel: series, sampling, trimming, what is in sight |
| `AlgorithmsProofs` | theorems about all the pure modules and the plot, on top of `MCAlgorithms` |
| `ConsoleSession`, `ConsoleSessionProofs` | the console program: every round, every tick of a run, every way out; its theorems |
| `MCSweep`, `MCDaq`, `MCAlgorithms`, `MCSession` | instances for TLC |

### ControllerWorker

One action per command handler (split where the handler has outcomes of its
own: `JogStop`, `JogStart`, `JogIgnored`), one per joint and activity of a tick,
and the loop of `run()` around them (`Resume`, `WaitAgain`, `BeginTick`,
`EndTick`, `Exit`). A handler runs on the worker thread alone and is one step;
a tick is one step per joint, in any order, because the GUI posts and drains
between them.

| variable | in the code |
| --- | --- |
| `queue`, `shutdown` | `m_commands`, `m_shutdown` |
| `pc`, `todo`, `tick` | the position in `run()` and `controlTick()`, `impl.tick` modulo the telemetry decimation |
| `state`, `event` | `m_state`, the last `StateChanged` in `m_events` |
| `joints`, `busUp` | `impl.joints`, `impl.bus_up` |
| `ctl` | `impl.ctl` with the drive's torque register |
| `recording`, `rec`, `frame` | `impl.recording`, the open `rec_logger`s, the recording flag last published |

Abstractions. Angles are counts in `0 .. MaxCount`, converted before they are
posted, so distinct angles may be equal counts. A measured position is any
count. `min_jerk` gives any count between where a move began and its target, a
filtered trajectory any count, and the phases end whenever their time may be
over. A trail is reduced to whether it decimates to enough waypoints. Over
temperature and the DS402 fault bit are one Boolean reading; the error code is
kept because a violation needs the same code twice. A `CaptureLimitsCommand` with
no joints is refused (`CaptureIgnored`); a trail that never
moved may still be long, since `waypoint_decimation_deg` may be 0. `arg` holds whichever
parameter the current activity reads. A jog step is zero or one count. All
drives are present (`jh.driver` is never null: `enumerate_joints` makes no handle
without one). A second `ShutdownCommand` is not posted, as in the destructor.

### JointCsvLogger and SampleLog

What a thread does under the mutex is one step; the notification after the
unlock is a step of its own; a wait whose predicate fails sleeps in the step
that tests it, and may wake up for no reason. `notify_one` wakes any one
sleeper. A sample is its number. `SampleLog` keeps only what the file holds and
how many samples were taken; its `Close` demands that they agree. The mapping
is the identity on `open`, `accepted` and `stored`: `WriteBatch` is a `Store`,
`Join` (the end of `close()`) is `Close`, the rest of the hand-over stutters.

### LockedRotorTest and SweepSteps

The dialog lives in the GUI thread: a click or a poll is one action, split where
a message box runs an event loop of its own. `Start` stops at the box of a
reader that failed to start and `CloseStartBox` is the rest of
`onStartClicked`; `Poll` stops at the box of a reader that ended and
`CloseFrameBox` is the rest of `appendTelemetry`. Both rests go on
unconditionally, as the code does. An open box blocks every other click; `Poll`
runs behind the first kind only.

The worker is reduced to the current its queue amounts to (`drive`), the
connection (`link`) and the tick in progress, which publishes the current it
started with: so a frame may be older than the last command. The queue is FIFO
and drained before each tick, which is why the last command posted decides.
`EmergencyStop`, `Connect` and `Disconnect` are the main window's; a
`CurrentCommand` handled after a Disconnect makes the worker Connected again
(`recomputeState`), and the model does the same. Any tick may
idle the joint, with or without the fault bit in its frame: over temperature or a
repeated error code idle the drive too (`SafetyAbort`), and the sweep goes on. The
envelope is assumed captured. Time is `elapsed`: telemetry time since the first frame
of the step,
counted up to the dwell time; a reconnect sets the telemetry clock back, by at
most `MaxLag`. A sample is the current it was measured under; averages become
the set of those. `boxed` and `halted` are history for two properties.

`SweepSteps` counts currents in units of the least step, 0.05 A, so the
tolerances on doubles become equality.

### Console

`Console` EXTENDS `ControllerWorker` and adds the GUI thread. `at` is where
`poll` is: idle, or before the states of the drained batch are applied, before
the frame, or at one of the two boxes that a handler of `poll` opens: one for the
first error of the batch whose text contains "record" (a recording that could not
start, wholly or for some joint, and a spline refused for "not enough recorded
motion", `controller_worker.cpp:747`), one for a recording that was saved. A box
blocks the operator's
other clicks and every further poll; the worker goes on below it. `shown` is
`m_last_state`, `pending` what the loop over the batch has still to apply,
`toggle` and `was` the record button and `m_was_recording`, `held` the jog
button. `Offered` is what `applyState` leaves enabled, the shortcuts included.
`fresh` holds until a first state is applied: until then the controls are as
they were built, so the emergency stop, the record toggle and the limits panel are
enabled before there is a bus.

Abstractions: of several state events the last decides, as `applyState` is told
every one in turn; an "error box" is one or several in a row; the capture toggles
may post either half whatever they show; a pressed button that is disabled, or
loses the focus to a box, is released, as Qt does it. The sweep dialog is not
part of it (see `LockedRotorTest`), and the window is not closed.

### ConsoleSession

One thread leads through a round: pick, mode, capture, the question, settling,
the run, release. `pc` names the place; `plans`, `limits` and `ctl` are the
`JointPlan`s; `power` the drives whose operation mode is enabled; `running` is
`rt_app_t::running()`, which a signal clears and the program reads only at some
places. `Check` is the head of the run's loop (keys, signal, safety of all
joints) and `Move` is one joint of a tick. Drives fault and recover at any
moment. `actuator-cli.cpp` and the programs built on the library run the same
session; the map names the lines of the former.

### JointSelection, Settings, PlotHistory

`JointSelection` keeps the index arithmetic and the order of refusals of
`pick_joints`; a token is blank, a word, a number, or a text that only begins with a
number, and `StoiReads` is what `std::stoi` makes of each: of the last kind it takes
the beginning and says nothing. Which mode a kind of drive is made with depends on
its driver; `DrivenAsConfigured` demands that every handle, of whatever driver, has
the code of the mode named in its own device entry. The lines `q` and end of input
are in `ConsoleSession`. `Settings` counts each key in
the step in which the source states its least value. In `PlotHistory` all series
of the panel take the same frames, so one sequence of x values stands for each;
`taken` is history: what was sampled since the charts were built or cleared.
`AppendFrame` is one call of `appendFrame`, with the throttle as it counts;
`WorkerPublishes` gives the next frame, or the first one after a reconnect.

### ExternalDaqReader and Acquisition

Each driver call of `start` is a step that succeeds or fails and then clears the
tasks made so far; a created task is a number per kind. The thread is where its
loop is. A thread that ended but was not joined is `exited`; starting another one
over it terminates the program (`LaunchAgain`). The module is the build with
NI-DAQmx; without it `start` only fails. `Acquisition` has three phases; the
mapping reads them off `m_impl` and `m_running`, and `Launch`, `Leave` and
`ReleaseTasks` are its `Begin`, `End` and `Release`.

### SplineWaypoints and Waveforms

A loop of the code (a waypoint is kept relative to the last one kept, a knot's
time is the one before it and a segment) is a recursive function over its
passes. Angles are counts and the threshold is a count; time is in units in which
the speed limit is one count, so that a segment lasts as long as its slowest
joint moves. `decimate_trail` of the worker is the case of one joint. The cubic
is evaluated at the whole times of a segment, over a common denominator
(`Weight`).

In `Waveforms` an angle is a position on a circle of twelve, where the sine is
known to a table; counts are integers of one word that wrap as on the targets;
the chirp's phase is scaled until it is an integer, so its mirror at both turns
is exact. The reference predicates (`EndsKept`, `PathFollowed`, `KnotsPlayable`,
`LookupInside`, `CubicNear`, `SweepOf`, `CentreRight`, `StaysInside`,
`PhaseSmooth`, `SelectionAsTyped`, `GoodLineTaken`, `SettingsUsable`) do not
follow the code: they say what its result is for.

## 3. Runs

| run | checks | shows |
| --- | --- | --- |
| `worker_activities` | `PoweredMatchesActivity`, `NothingLeftPowered`, `EnvelopeBeforePower`, `EnvelopeOrdered`, `SetpointInsideEnvelope` | one joint, three positions, all commands but recording |
| `worker_pair` | `LabelShowsMotion`, `FaultClearedOnlyByIdling` | two interchangeable joints (symmetry), faults |
| `worker_stop` | `RecordingMatchesFiles`, `StopIdlesEverything`, `ShutdownEnds` | two queued commands, a current that trips by an error code; liveness |
| `console` | `NewsArrives`, `StopWithinReach`, `DeadMan`, `WindowSettles` | the window above the whole worker: connect, jog by press and hold, recording, a spline that is refused or trips; liveness |
| `logger` | `TypeOK`, `InOrder`, `NoLostWakeup`, `ImplementsLog`, `CallsReturn` | batches of two, nine samples |
| `sweep` | `TypeOK`, `ButtonsMatchSweep`, `RowsMeasured`, `ReleasedAfterSweep`, `SweepEnds` | two forms, all interference, liveness |
| `daq` | `TasksOwned`, `StopReturns`, `ImplementsAcquisition` | every failure, unbounded restarts |
| `session` | `TypeOK`, `PowerOnlyInRun`, `PoweredInsideCapture`, `PhasesInStep`, `SignalIdlesForGood`, `FaultIdlesAll` | two joints, envelopes and approaches that differ, faults and a signal at any moment; liveness |
| `algorithms` | `SweepAsRequested`, `DecimationFaithful`, `SplinePlays`, `ReferencesInside`, `ChirpSmooth`, `SelectionSound`, `PlotFaithful` | all trails of two joints up to six frames, all small forms, every envelope of a word with every small chirp and settings in and out of range, all lines of three tokens for two devices, the plot's states |
| `faulted_not_idled` | `FaultedMeansIdled`, violated | a comment the code does not keep |
| `current_without_sweep` | `CurrentMeansRunning`, violated | a joint driven by no sweep |
| `emergency_stop_undone` | `EmergencyStopHolds`, violated | a tooltip the code does not keep |

The types of the worker, of the window and of the reader are not among the runs'
invariants: they are proved for every instance.

Bounds. `QueueBound` 1 already gives every order of commands and ticks, because
the worker drains the queue between ticks and a command can be posted between
any two steps; 2 is used where a property is about what is queued around a
command. Two positions are the smallest envelope that spans a range; three let
soft limits lie inside hard ones with room on one side. Two joints
show what one label hides. One error code with its absence covers "the same
code twice"; where codes are not the question there is none and the fault
reading remains. `PublishEvery` is 1: the frame is then as fresh as it can be.
`MaxSamples` 9 with batches of two fills the writer's batch, the hand-over
buffer and the active batch at once and leaves a last batch that is not full.
`MaxCount` also stops a jog that has no envelope to be clamped to; this bound is
the model's. The sweep has one form of three different currents, so that
a sample of an older step shows, and one of a single current, whose first step is
its last; `Dwell` 2 is the least for which a step sees a frame of its own
current; `MaxLag` 1 makes the clock go back further than it had come. The reader
needs no bound: it is finite. `MCAlgorithms` has one joint that drifts in steps
below the threshold and through twice of it and one that jumps; six frames
reach the thinning to three waypoints with a rounding that is not exact. A word
of sixteen values has every sign of the ends of an envelope and their sum on both
sides of it; three ticks and frequencies make a chirp that rises, falls or
stands, with a middle. Settings are given below and above their bounds.
Three tokens name one of two joints twice with another in between; four samples
over a clock of five leave windows of one and two seconds. `kind` says which
input varies: trails and plots grow step by step and end at their bound, so
deadlock is not checked there. `SettingsAssumed` is an assumption TLC evaluates:
what is loaded is usable, a least range of 0 and a decimation of 0 included.

The session's `MaxTicks` 4 is one tick more than hold and longest approach, so both
joints have entered their trajectory when the clock stands still, and the run goes
on. `MinRange` is 0 there: then envelopes of one count are captured and those of the
two joints differ, so a setpoint clamped to another joint's would show; that a
powered joint's envelope is wide enough says something for a greater `MinRange` and
is left to the theorem `EnvelopeSafe`. The console has one joint and one queued
command: its hazards are about what is shown, not about how many joints there are.
Its commands are those that open boxes, move the record toggle, jog or play; the
safety properties hold for all commands by theorem.

Fairness. `FairSpec` of the worker is weak fairness of its steps: it is a thread
that nothing but its own condition variable blocks. Nothing is assumed of
clients: nobody has to post, and events need not be drained. The logger's two
threads each have weak fairness for what they do once inside `write` or `close`
and inside `writer_main`; nobody has to write, and spurious wake-ups are not
fair. The disk is assumed to finish a write. For the sweep the worker's ticks
and the poll timer are weakly fair; the operator need not close a box or connect
again, and `SweepEnds` excepts exactly those two. The reader's thread is fair
because each read has a timeout of one second, and so is a `stop` once called;
nobody has to call. In the console
the worker's loop between commands and the window's event loop are weakly fair and
the operator need do nothing, not even close a box: `WindowSettles` is about behaviours in which at last
nothing more is posted, and excepts a box that stays open.
In the session the program's thread is weakly fair; at a prompt it waits for a
line nobody need type, and the bus, faults and signals are not fair.

## 4. What is proved

All theorems hold for every value of the constants that satisfies the named
assumptions of the module (`ConstantsAssumption`, `PairsAssumption`,
`LoggerAssumption`, `TopAssumption`, `ProfileAssumption`, `PlotAssumption`,
`BoundsAssumption`); the sweep's and the reader's need none. Every invariant and
every safety action property of a passing run is the statement of one of them.

*Worker.* The invariant `Inv` of `ControllerWorkerProofs` is inductive; from it
follow `TypeOK`, `PoweredMatchesActivity`, `EnvelopeOrdered`,
`LabelShowsMotion`, `NothingLeftPowered`, `RecordingMatchesFiles` and the
action properties `FaultClearedOnlyByIdling`, `SetpointInsideEnvelope` and
`EnvelopeBeforePower`. The properties are not inductive alone: the label is only
right because a bus that is down has no joints and every joint not enumerated is
idle, and nothing is left powered while Disconnected only because the label is
right and a current test also requires an enumerated joint on a bus that is up.
`EnvelopeBeforePower` needs `MinRange # 0`: `settings.cpp` lets
`min_range_deg` be 0, and then a trajectory starts without any range.

*Logger.* `IInv` of `JointCsvLoggerProofs` adds what each position of the two
threads says about the buffers (for instance that the flag is set exactly when
the hand-over buffer is not empty, and that a caller past its flush has an empty
batch). It gives `InOrder` and `NoLostWakeup`, and with `InOrder` every step of
the logger is a step of `SampleLog` or a stutter (`LogRefined`).

*Sweep.* `IInv` of `LockedRotorTestProofs` ties the boxes to the sweep: an open
box of a frame means that a sweep runs, and an open box of `onStartClicked` that
it was started under it. What a frame can do is one lemma (`JudgeOutcome`: it
ends the sweep as `stopTest` does, or leaves it running with its buttons), used
for `Poll` and for `CloseFrameBox`. From it follow `ButtonsMatchSweep` and
`ReleasedAfterSweep`, for any forms, dwell time and clock.

`TypeOK` of the sweep needs the list of steps to be usable, which is the sweep's
own theorem (below). `RowsMeasured` is the hardest of the dialog: a row must not
hold a sample of an older step although frames lag behind commands and the clock
may go back. `MeasureInv` says what is in flight: the current of the step is the
one commanded, or none after an emergency stop; the frame, the tick in progress
and the samples since the step began are of this step or the one before it; the
tick is of this step's own current once a period has passed since the step's
first frame, and the frame once two have. It is proved for a dwell time of two
frames or more (`RowsCorrect`); with one frame a step could end on the very frame
that began it. The panel's least dwell time, 0.2 s, is ten frames.

*Reader.* `IInv` of `ExternalDaqReaderProofs` says that the driver has one task
of a kind for `m_impl` and one for a `start` that got that far, and that
`m_running` is exactly that the thread is inside its loop. It gives `TypeOK`,
`TasksOwned` and the refinement of `Acquisition`.

*Console.* Every step of the console is a step of the worker or leaves it alone
(`WorkerBelow`), so the worker's invariant holds below the window and is used, not
proved again. `WindowInv` adds where a batch can be pending and that the newest
news is the worker's state; it gives `NewsArrives`, and with the worker's
`NothingLeftPowered` also `StopWithinReach`. `DeadMan` needs a third invariant
about the queue: behind every queued jog its stop is queued too, unless its
button is held; the lemmas `QueueStep`, `JogWorker` and `JogPosting` show it for
any joints, commands and length of the queue.

*Session.* `IInv` of `ConsoleSessionProofs` says per place which joints are
powered, logged and planned, and accounts for the ticks of each. From it follow
`TypeOK`, `PowerOnlyInRun`, `PoweredInsideCapture` and `PhasesInStep`, for any
joints, envelopes, times and numbers of ticks. `ReplayApart` draws the consequence:
two joints that play are apart by the difference of their approach times.

*Algorithms.* What a loop computes is proved by induction over its passes. The
provers cannot instantiate the library's induction theorems, which take a
predicate as a parameter, so `AlgorithmsProofs` starts with two lemmas that take
sets instead, both from the existence of a least element (`LeastMember`, by
`WFMin`): a set of numbers that holds 0 and is closed under the next number has
them all (`InductionUpTo`), and a loop of N passes over states in a set has a
history (`LoopHasHistory`). A recursive function is then that history, and a
property of its passes is the set of passes after which it holds. Where the
theorem of a run is about the inputs the run enumerates, it rests on one about
every input, which is listed beside it.

* *Sweep form.* `BuildStepsCorrect`: for every start, end, step and both options
  the list starts and ends where it should, passes the end point, changes by no
  more than the step, and its second half is the opposite of the first.
* *Waveforms.* The centre lies in the envelope exactly when the sum of the ends
  fits the word (`CentreCorrect`), and then every sample and approach of every
  mode lies in it (`EnvelopeKept`): a multisine of n tones is at most n units,
  by induction over its tones, and is divided by n. `ChirpHasNoStep`: the phase of
  two ticks differs by the frequency of the tick played, upwards or mirrored.
* *Settings.* `SettingsCorrect`: whatever integers are configured, what the program
  divides by is positive, what may be zero is not negative (`min_range_deg` among
  them: `ControllerWorker` and `ConsoleSession` therefore assume `MinRange \in Nat`
  only), and what is bounded by another setting or from above is.
* *Selection.* `LinesReadRight`, for lines and configurations of any length: the
  picks made so far are the numbers that the tokens so far are, or begin with,
  unless one was refused (`Follows`); they are distinct and selectable, each has
  the mode its device is configured for, whatever its driver, and a token of a
  usable line is never refused.
* *Plot.* Every view feeds each of its series by one item of a checked joint
  (`ChartsFed`). `HistoryShown` is not inductive: `HistoryInv` says that while the
  clock goes on the points of a series are the end of what was taken, up to the
  newest sample, and that what was cut lies left of the narrowest window, whatever
  windows were set in between. Trimming an end of an end gives an end
  (`EndOfEnd`), which is why frames, narrower windows and wider ones can follow
  each other in any order.
* *Decimation.* `TrailFollowed`, for trails of any length and number of joints.
  After m frames the kept ones rise, begin with the first, and each of the m
  frames is nearer than the threshold to one of them or equal to it (`Sparse`);
  replacing the last kept frame by the final one costs at most another threshold
  (`NearThenClose`); thinning steps by one at least, since more are kept than are
  wanted (`RoundedSteps`), so no frame is picked twice and both ends stay.
* *Spline.* `SplineThrough`. The duration of a segment is attained, because there
  are finitely many joints, and positive, so knots rise. The scan of `sample()` is
  the least segment that ends later. Of the cubic: both value bases are not
  negative and add up to one, so that without tangents it stays between its
  waypoints; a tangent is at most one count per unit of time, because the
  slopes of both segments beside the knot are; and the tangents' bases together
  are x (dt - x) / dt, at most a quarter of the segment's time. The
  bound of a quarter is therefore a consequence of the knots' times, not of the
  trail. Rounding of doubles is not part of it.

Only model-checked: liveness (`StopIdlesEverything`, `ShutdownEnds`,
`CallsReturn`, `SweepEnds`, `StopReturns`, `WindowSettles`, `SignalIdlesForGood`,
`FaultIdlesAll`), which is out of the prover's reach, and the assumption
`SettingsAssumed`, of which `SettingsCorrect` proves the general form.

## 5. What the code does differently from its comments

* `telemetry.hpp:27` says a fault means the drives are idled; only the joint
  that tripped is (`controller_worker.cpp:1060`). Run `faulted_not_idled`.
* `locked_rotor_test_panel.hpp:50` says the sweep runs while it steps through
  currents. When the reader fails to start, a box is shown before the first step;
  the poll timer runs behind it and may end the sweep, and closing the box then
  commands the first current all the same (`locked_rotor_test_panel.cpp:502`),
  with Stop disabled. Run `current_without_sweep`.
* `main_window.cpp:157` says the emergency stop idles all drives. The sweep is
  not told of it and commands its next current (`locked_rotor_test_panel.cpp:629`).
  Run `emergency_stop_undone`.
* `external_daq.hpp:69` says `start` is safe to call repeatedly. After the thread
  has ended on an error it terminates the program (`external_daq.cpp:165`,
  `LaunchAgain`). The dialog makes a new reader for every sweep and does not meet
  this.
* `enhanced_limits_panel.cpp:107` says limits are edited "never mid-motion". A
  constant current leaves the state Connected, and the state shown may be older
  than a motion already queued; the panel is enabled then.
* `main_window.cpp:507` says the record toggle follows a recording that stops by
  itself "e.g. on disconnect". No frame is published while Disconnected, so the
  toggle stays as the last one said, checked, and the next click posts a stop.
  `WindowSettles` states that for the time Disconnected. The toggle is also enabled
  before there is a bus: a click then is refused with a box, and undone by the
  frame after it. On a bus that is up a recording can be started while Disconnected.
* The box for a recording that failed (`main_window.cpp:473`) is chosen by the word
  "record" in the error's text: a refused spline opens it too.
* `pick_joints` takes the number a token begins with (`actuator-cli.cpp:1199`,
  `device.cpp:384`): `3abc`, and `1 2` without a comma, select joints 3 and 1
  without a word.
* A box opened inside `poll` holds up the emergency stop and every later state
  until it is closed; the jog button is released under it, which is what
  `DeadMan` relies on. `JogPanel` stops the joint selected at release.
* `PlotHistory` holds `PlotFaithful` only while the worker's clock goes on. A
  Connect on a bus that was left up sets it to zero and the plot keeps
  `m_latest_x` (`plot_panel.cpp:74`): new samples lie left of the window, and are
  kept or dropped by the old time, until the clock passes it or the plot is
  cleared or rebuilt. While Disconnected the last frame is sampled again and
  again; those points are never trimmed. The throttle counts the time since the
  last sample on every call (`plot_panel.cpp:731`), so it samples sooner than
  `setUpdateRate` says.
* `JointInfo::selectable` is published and no panel reads it: the window jogs and
  plays joints that `pick_joints` refuses, with the mode `OP_HOM` a handle was
  made with when its name is unknown (`device.hpp:61`).
* `map_status_to_cia402_state` (`controller_worker.cpp:68`) takes an enabled drive
  (0x27, 0x37) for FaultReactionActive, 0x21 and 0x40 for NotReadyToSwitchOn.
  `acceleration_deg_s2` divides the change between two published frames by the
  period of one tick (`controller_worker.cpp:1235`). Both are only shown.
* Ctrl-C at a prompt of the console program does not interrupt the line; Enter
  after it still engages the drives, which are idled after settling. A recording of
  several joints is replayed with each joint behind by its own approach time
  (`ReplayApart`; `session.cpp:33`).
* The console prints its plan through a cast to `SplineTrajectory` in every mode
  but sine (`session.cpp:333`).
* `(min + max) / 2` overflows for multi-turn counts far from zero; `ReferencesInside`
  is stated up to there.

## 6. Plan

Done: the worker; the window above it; the logger; the sweep; the external reader;
the console session; selection and settings; the plot panel; the pure operators on
trails, splines, waveforms and sweep steps. What is left, in order of what matters:

1. The sweep with the limits of the worker: a reset of the envelope in the middle
   of a sweep. Then the sweep dialog inside `Console`.
2. Presets, exports and the profiler of the main window, the panel scheduler, the
   pannable chart of the sweep dialog, the CiA-402 decoding.

## 7. Not modelled

EtherCAT and CANopen traffic, the real-time scheduler and the duration of a tick
(so also the burst of ticks after a long block), rounding of doubles (also in the
sum of the steps of a sweep, `locked_rotor_test_panel.cpp:402`), the
logarithmic chirp, the TOML parser, CSV formatting, painting and layout, the
names of run directories (two runs within one second share one), widgets that
only show the last frame, the setup wizard, the multi-master example and the
plotting script.
