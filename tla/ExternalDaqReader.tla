-------------------------- MODULE ExternalDaqReader --------------------------
(***************************************************************************)
(* The external torque sensor's reader (actuator_test/external_daq.cpp):   *)
(* start() sets up two NI-DAQmx tasks and a thread that reads both until   *)
(* it is asked to stop or a read fails; stop() joins the thread and then   *)
(* releases the tasks.  One user thread calls start and stop; the driver   *)
(* may fail any call.  What one thread does between two points where the   *)
(* other one can look is one step.                                         *)
(***************************************************************************)
EXTENDS Naturals

VARIABLES
  caller,    \* where the user thread is in start() or stop(), or "idle"
  thread,    \* m_thread: "none", where run() is, or "exited" and not joined;
             \* both are "terminated" after std::terminate
  tasks,     \* how many tasks of each kind the driver has
  held,      \* m_impl is set: it holds one task of each kind
  running,   \* m_running
  stopping,  \* m_stop_requested
  reason,    \* m_last_error is not empty
  latest     \* m_latest: "none", or of this or of an earlier acquisition

vars == <<caller, thread, tasks, held, running, stopping, reason, latest>>

Kinds == {"ai", "di"}

Init ==
  /\ caller = "idle" /\ thread = "none" /\ tasks = [k \in Kinds |-> 0]
  /\ held = FALSE /\ running = FALSE /\ stopping = FALSE /\ reason = FALSE
  /\ latest = "none"
-----------------------------------------------------------------------------
Created(made) == [k \in Kinds |-> IF k \in made THEN tasks[k] + 1 ELSE tasks[k]]
Cleared(mine) == [k \in Kinds |-> IF k \in mine THEN tasks[k] - 1 ELSE tasks[k]]

(* start() returns at once while m_running.                                *)
Start ==
  /\ caller = "idle" /\ ~running
  /\ caller' = "createAnalog"
  /\ UNCHANGED <<thread, tasks, held, running, stopping, reason, latest>>

(* One call of the driver in start(): it makes a task or prepares one, or  *)
(* it fails and start() returns after clearing the tasks made so far.      *)
Setup(here, next, made, mine) ==
  /\ caller = here
  /\ \/ caller' = next /\ tasks' = Created(made)
     \/ caller' = "idle" /\ tasks' = Cleared(mine)
  /\ UNCHANGED <<thread, held, running, stopping, reason, latest>>

CreateAnalog == Setup("createAnalog", "prepareAnalog", {"ai"}, {})
PrepareAnalog == Setup("prepareAnalog", "createDigital", {}, {"ai"})

(* Mutant of CreateDigital: the analog task is forgotten.                  *)
CreateDigitalOnly == Setup("createDigital", "prepareDigital", {"di"}, {})

CreateDigital == Setup("createDigital", "prepareDigital", {"di"}, {"ai"})
PrepareDigital == Setup("prepareDigital", "startTasks", {}, Kinds)
StartTasks == Setup("startTasks", "launch", {}, Kinds)

(* start() keeps the last sample of an earlier acquisition.                *)
Aged == IF latest = "none" THEN "none" ELSE "earlier"

(* Mutant of Launch: the error of the acquisition before is kept.          *)
LaunchKeepingError ==
  /\ caller = "launch" /\ thread = "none"
  /\ held' = TRUE /\ running' = TRUE /\ stopping' = FALSE
  /\ thread' = "check" /\ caller' = "idle" /\ latest' = Aged
  /\ UNCHANGED <<tasks, reason>>

(* The tasks are handed to m_impl and the thread is started.               *)
Launch ==
  /\ caller = "launch" /\ thread = "none"
  /\ held' = TRUE /\ running' = TRUE /\ stopping' = FALSE /\ reason' = FALSE
  /\ thread' = "check" /\ caller' = "idle" /\ latest' = Aged
  /\ UNCHANGED tasks

(* Assigning to a std::thread that was never joined terminates the program; *)
(* what memory it leaves does not matter then.                             *)
LaunchAgain ==
  /\ caller = "launch" /\ thread # "none"
  /\ caller' = "terminated" /\ thread' = "terminated"
  /\ UNCHANGED <<tasks, held, running, stopping, reason, latest>>
-----------------------------------------------------------------------------
(* Mutant of Stop: the thread is not told.                                 *)
StopSilently ==
  /\ caller = "idle"
  /\ caller' = "join"
  /\ UNCHANGED <<stopping, thread, tasks, held, running, reason, latest>>

(* stop(), also from the destructor.                                       *)
Stop ==
  /\ caller = "idle"
  /\ caller' = "join" /\ stopping' = TRUE
  /\ UNCHANGED <<thread, tasks, held, running, reason, latest>>

(* Mutant of Join: the tasks are released without waiting.                 *)
JoinAtOnce ==
  /\ caller = "join"
  /\ caller' = "release"
  /\ UNCHANGED <<thread, tasks, held, running, stopping, reason, latest>>

Join ==
  /\ caller = "join" /\ thread \in {"none", "exited"}
  /\ thread' = "none" /\ caller' = "release"
  /\ UNCHANGED <<tasks, held, running, stopping, reason, latest>>

ReleaseTasks ==
  /\ caller = "release"
  /\ tasks' = IF held THEN Cleared(Kinds) ELSE tasks
  /\ held' = FALSE /\ running' = FALSE /\ caller' = "idle"
  /\ UNCHANGED <<thread, stopping, reason, latest>>
-----------------------------------------------------------------------------
(* run() *)
CheckStop ==
  /\ thread = "check"
  /\ thread' = IF stopping THEN "leave" ELSE "readAnalog"
  /\ UNCHANGED <<caller, tasks, held, running, stopping, reason, latest>>

(* A read returns within its timeout of one second, with data or an error. *)
Read(here, next) ==
  /\ thread = here
  /\ \/ thread' = next /\ UNCHANGED reason
     \/ thread' = "leave" /\ reason' = TRUE
  /\ UNCHANGED <<caller, tasks, held, running, stopping, latest>>

ReadAnalog == Read("readAnalog", "readDigital")
ReadDigital == Read("readDigital", "publish")

Publish ==
  /\ thread = "publish"
  /\ thread' = "check" /\ latest' = "this"
  /\ UNCHANGED <<caller, tasks, held, running, stopping, reason>>

Leave ==
  /\ thread = "leave"
  /\ thread' = "exited" /\ running' = FALSE
  /\ UNCHANGED <<caller, tasks, held, stopping, reason, latest>>

Starting == CreateAnalog \/ PrepareAnalog \/ CreateDigital \/ PrepareDigital
            \/ StartTasks \/ Launch \/ LaunchAgain
Stopping == Join \/ ReleaseTasks
Run == CheckStop \/ ReadAnalog \/ ReadDigital \/ Publish \/ Leave

(* Nothing happens in a program that was terminated.                       *)
Terminated == caller = "terminated" /\ UNCHANGED vars

Next == Start \/ Stop \/ Starting \/ Stopping \/ Run \/ Terminated

Spec == Init /\ [][Next]_vars

(* The thread and the calls proceed; nobody has to call.                   *)
FairSpec == Spec /\ WF_vars(Run) /\ WF_vars(Stopping)
-----------------------------------------------------------------------------
RunPoints == {"check", "readAnalog", "readDigital", "publish", "leave"}

(* Every variable keeps its type.                                          *)
TypeOK ==
  /\ caller \in {"idle", "createAnalog", "prepareAnalog", "createDigital",
                 "prepareDigital", "startTasks", "launch", "join", "release",
                 "terminated"}
  /\ thread \in {"none", "exited", "terminated"} \cup RunPoints
  /\ tasks \in [Kinds -> 0..2] /\ latest \in {"none", "this", "earlier"}
  /\ {held, running, stopping, reason} \subseteq BOOLEAN

(* Between two calls the driver has exactly the tasks the reader holds,    *)
(* whichever step of start() failed and however acquisition ended; and the *)
(* thread never touches a task or m_impl that stop() has released.         *)
TasksOwned ==
  /\ caller = "idle" =>
       \A k \in Kinds : tasks[k] = IF held THEN 1 ELSE 0
  /\ thread \in RunPoints => held /\ \A k \in Kinds : tasks[k] > 0

(* stop() returns, also when the thread is in the middle of a read or has  *)
(* ended by itself.                                                        *)
StopReturns == caller = "join" ~> caller = "idle"

(* The reader keeps the promise of Acquisition: it ends by itself only     *)
(* with a reason, and is started again only after a stop().                *)
Acq == INSTANCE Acquisition WITH
  phase <- IF ~held THEN "idle" ELSE IF running THEN "acquiring" ELSE "ended",
  asked <- stopping

ImplementsAcquisition == Acq!Spec
=============================================================================
