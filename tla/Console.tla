------------------------------- MODULE Console -------------------------------
(***************************************************************************)
(* The main window (gui/main_window.cpp) above its worker: the operator    *)
(* clicks, a click posts a command, and a timer polls the worker's events  *)
(* and telemetry.  Clicks are gated by the state last shown, which is      *)
(* older than the worker's; and a message box opened inside poll() blocks  *)
(* the window and further polls until the operator closes it.              *)
(***************************************************************************)
EXTENDS ControllerWorker

VARIABLES
  at,       \* where poll() is: "idle" between two polls, or at a message box
  shown,    \* m_last_state
  fresh,    \* no state was applied yet: the controls are as they were built
  pending,  \* the last state event of the drained batch, while it is looped over
  errors,   \* the text of an undrained Error event contains "record"
  toggle,   \* m_record_btn is checked
  was,      \* m_was_recording
  held      \* the joint whose jog button is pressed: empty or a singleton

guiVars == <<at, shown, fresh, pending, errors, toggle, was, held>>
consoleVars == <<vars, guiVars>>

Boxes == {"error box", "saved box"}

(* The window posts the other half of a press or a toggle by itself.       *)
ASSUME PairsAssumption ==
  \A c \in Commands :
    /\ c.type = "Jog" => [c EXCEPT !.velocity = 0] \in Commands
    /\ c.type = "Record" => [c EXCEPT !.start = ~@] \in Commands

ConsoleInit ==
  /\ Init
  /\ at = "idle" /\ shown = "Disconnected" /\ fresh = TRUE /\ pending = "none"
  /\ errors = FALSE /\ toggle = FALSE /\ was = FALSE /\ held = {}
-----------------------------------------------------------------------------
(* What applyState leaves enabled, by the state it was last given; before  *)
(* its first call, what is not disabled where it is built: the emergency   *)
(* stop, the record toggle and the limits panel (of joint 0, when there is *)
(* none yet).  The play shortcut works while Running, unlike its button.   *)
Connected == shown # "Disconnected"
JogPanelEnabled == shown \notin {"Disconnected", "Running"}
LimitsPanelEnabled == shown \in {"Connected", "Capturing"}

Offered(c) ==
  CASE c.type = "Connect" -> ~Connected
    [] c.type \in {"Disconnect", "StartTrajectory"} -> Connected
    [] c.type = "Stop" -> Connected \/ fresh
    [] c.type = "Pause" -> shown = "Running"
    [] c.type = "ResetFault" -> shown = "Faulted"
    [] c.type = "GoTo" -> JogPanelEnabled
    [] c.type = "Current" -> JogPanelEnabled /\ ~c.release
    [] c.type \in {"SetLimits", "ResetLimits"} -> LimitsPanelEnabled \/ fresh
    [] c.type = "CaptureLimits" -> JogPanelEnabled \/ fresh
    [] OTHER -> FALSE

(* A button or shortcut that posts one command.  The capture toggles of    *)
(* the limits and trajectory panels post start or finish as they happen to *)
(* stand; their own state is left open.                                    *)
Click(c) ==
  /\ at = "idle" /\ Offered(c)
  /\ Post(c)
  /\ UNCHANGED guiVars

(* The record button, or its shortcut.                                     *)
ToggleRecord(c) ==
  /\ at = "idle" /\ (Connected \/ fresh)
  /\ c.type = "Record" /\ c.start = ~toggle
  /\ Post(c)
  /\ toggle' = ~toggle
  /\ UNCHANGED <<at, shown, fresh, pending, errors, was, held>>

(* Press-and-hold jogging: jog while held, stop on release.                *)
PressJog(c) ==
  /\ at = "idle" /\ JogPanelEnabled /\ held = {}
  /\ c.type = "Jog" /\ c.velocity # 0
  /\ Post(c)
  /\ held' = {c.joint}
  /\ UNCHANGED <<at, shown, fresh, pending, errors, toggle, was>>

(* Mutant of Release: the release posts nothing.                           *)
ReleaseSilently(c) ==
  /\ c.type = "Jog" /\ c.velocity = 0 /\ held = {c.joint}
  /\ held' = {}
  /\ UNCHANGED <<vars, at, shown, fresh, pending, errors, toggle, was>>

Release(c) ==
  /\ c.type = "Jog" /\ c.velocity = 0 /\ held = {c.joint}
  /\ Post(c)
  /\ held' = {}
  /\ UNCHANGED <<at, shown, fresh, pending, errors, toggle, was>>

CloseErrorBox ==
  /\ at = "error box" /\ held = {}
  /\ at' = "apply"
  /\ UNCHANGED <<vars, shown, fresh, pending, errors, toggle, was, held>>

CloseSavedBox ==
  /\ at = "saved box" /\ held = {}
  /\ at' = "idle"
  /\ UNCHANGED <<vars, shown, fresh, pending, errors, toggle, was, held>>

Operator ==
  \/ \E c \in Commands : Click(c) \/ ToggleRecord(c) \/ PressJog(c) \/ Release(c)
  \/ CloseErrorBox \/ CloseSavedBox
-----------------------------------------------------------------------------
(* poll(): drainEvents takes every event there is.  The first error whose  *)
(* text contains "record" opens a box in the middle of the loop over them; *)
(* the state events of the batch are then applied behind it.               *)
Drain ==
  /\ at = "idle"
  /\ at' = IF errors THEN "error box" ELSE "apply"
  /\ pending' = event /\ event' = "none" /\ errors' = FALSE
  /\ UNCHANGED <<queue, loopVars, state, busVars, ctl, recVars>>
  /\ UNCHANGED <<shown, fresh, toggle, was, held>>

(* The jog panel is disabled by the state about to be applied.             *)
Disabling == at = "apply" /\ pending \in {"Disconnected", "Running"}

(* Qt releases a pressed button that is disabled or loses the focus to a   *)
(* message box.                                                            *)
LoseButton ==
  /\ Disabling \/ at \in Boxes
  /\ \E c \in Commands : Release(c)

(* Mutant of Apply: the drained states are lost.                           *)
ApplyNothing ==
  /\ at = "apply" /\ at' = "frame"
  /\ pending' = "none"
  /\ UNCHANGED <<vars, shown, fresh, errors, toggle, was, held>>

Apply ==
  /\ at = "apply" /\ at' = "frame"
  /\ Disabling => held = {}
  /\ shown' = (IF pending = "none" THEN shown ELSE pending)
  /\ fresh' = (fresh /\ pending = "none")
  /\ pending' = "none"
  /\ UNCHANGED <<vars, errors, toggle, was, held>>

(* Mutant of Frame: the toggle is left to the operator.                    *)
FrameWithoutSync ==
  /\ at = "frame"
  /\ was' = frame
  /\ at' = IF was /\ ~frame THEN "saved box" ELSE "idle"
  /\ UNCHANGED <<vars, shown, fresh, pending, errors, toggle, held>>

(* The telemetry frame: the record toggle follows it without posting, and  *)
(* the end of a recording opens a box.                                     *)
Frame ==
  /\ at = "frame"
  /\ toggle' = frame /\ was' = frame
  /\ at' = IF was /\ ~frame THEN "saved box" ELSE "idle"
  /\ UNCHANGED <<vars, shown, fresh, pending, errors, held>>

Window == Drain \/ LoseButton \/ Apply \/ Frame

(* The errors whose texts contain "record": a recording that cannot start, *)
(* wholly or for some joint, and a spline refused for "not enough recorded *)
(* motion".  File and joint names with that word in them are left out.     *)
RecordingRefused ==
  /\ Msg.type = "Record" /\ Msg.start /\ ~recording
  /\ ~busUp \/ joints = {} \/ rec' # joints

SplineRefused ==
  /\ Msg.type = "StartTrajectory" /\ Msg.mode = "spline"
  /\ \E j \in Msg.joints \cap joints : ~Playable(ctl[j], "spline")

ErrorWithRecord == queue # <<>> /\ queue' # queue /\ (RecordingRefused \/ SplineRefused)

WorkerStep ==
  /\ UNCHANGED <<at, shown, fresh, pending, toggle, was, held>>
  /\ Worker
  /\ errors' = (errors \/ ErrorWithRecord)

ConsoleNext == WorkerStep \/ Window \/ Operator
ConsoleSpec == ConsoleInit /\ [][ConsoleNext]_consoleVars

(* The worker's loop between two commands.                                 *)
WorkerTick ==
  /\ UNCHANGED guiVars
  /\ Resume \/ BeginTick \/ EndTick \/ \E j \in Joints : TickJoint(j)

(* The worker and the window's event loop are threads nothing blocks; the  *)
(* operator need never do anything, not even close a box.                  *)
FairConsoleSpec ==
  ConsoleSpec /\ WF_<<at, held>>(Window) /\ WF_<<pc, todo>>(WorkerTick)
-----------------------------------------------------------------------------
ConsoleTypeOK ==
  /\ at \in {"idle", "apply", "frame"} \cup Boxes
  /\ shown \in States /\ fresh \in BOOLEAN
  /\ pending \in States \cup {"none"}
  /\ at \in {"idle", "frame", "saved box"} => pending = "none"
  /\ errors \in BOOLEAN /\ toggle \in BOOLEAN /\ was \in BOOLEAN
  /\ held \subseteq Joints

(* What the operator sees is the worker's state, or newer news is on its   *)
(* way: in the worker's event queue or in the batch poll() loops over.     *)
Newest ==
  IF event # "none" THEN event ELSE IF pending # "none" THEN pending ELSE shown
NewsArrives == Newest = state

(* While a drive is powered the emergency stop is enabled, as soon as the  *)
(* events queued so far have been looked at: m_estop_btn is disabled while *)
(* shown is Disconnected.                                                  *)
StopWithinReach ==
  event = "none" /\ pending = "none" /\ ~AllReleased => Connected

(* jog_panel.cpp:123: "jog while held, stop on release".  No joint jogs    *)
(* unless its button is held or the command that stops it is on its way,   *)
(* whatever disables or covers the button meanwhile.                       *)
JogStopQueued(j) ==
  \E i \in 1 .. Len(queue) :
    queue[i] = [type |-> "Jog", joint |-> j, velocity |-> 0]
DeadMan ==
  \A j \in Joints : ctl[j].activity = "Jog" => j \in held \/ JogStopQueued(j)

(* When no more commands are posted, the window comes to show the state the *)
(* worker is in and whether it records, unless a box waits to be closed:    *)
(* also after the toggle was clicked before there was a bus, or while a     *)
(* recording ended behind a box.  While Disconnected no frame is published, *)
(* and the toggle shows what the last one said.                             *)
ToggleRight == toggle = (IF state = "Disconnected" THEN frame ELSE recording)
Settled == at \in Boxes \/ (shown = state /\ ToggleRight)
LeftAlone == <>[](queue = <<>>)
WindowSettles == LeftAlone => <>[]Settled
=============================================================================
