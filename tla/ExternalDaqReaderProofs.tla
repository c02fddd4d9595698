----------------------- MODULE ExternalDaqReaderProofs -----------------------
(***************************************************************************)
(* Proofs about the external reader, for any sequence of calls and any     *)
(* failures of the driver.  The properties are not inductive: what the     *)
(* driver has follows from where start() is, and whether the thread still  *)
(* reads follows from m_running.                                           *)
(***************************************************************************)
EXTENDS ExternalDaqReader, TLAPS

(* The tasks that belong to the local Impl of start(), or did when the      *)
(* program was terminated there.                                           *)
Local(k) ==
  IF \/ k = "ai" /\ caller \in {"prepareAnalog", "createDigital"}
     \/ caller \in {"prepareDigital", "startTasks", "launch", "terminated"}
  THEN 1 ELSE 0

InStart == {"createAnalog", "prepareAnalog", "createDigital", "prepareDigital",
            "startTasks", "launch"}

(* Where the tasks are.                                                    *)
TasksInv ==
  /\ tasks \in [Kinds -> 0..2]
  /\ \A k \in Kinds : tasks[k] = (IF held THEN 1 ELSE 0) + Local(k)

(* How the flags follow the thread and the caller.                         *)
ThreadInv ==
  /\ running <=> thread \in RunPoints
  /\ caller \in InStart => ~running
  /\ caller = "release" => thread = "none"
  /\ thread # "none" => held
  /\ held /\ thread = "none" => caller = "release"
  /\ caller \in {"join", "release"} => stopping
  /\ thread \in {"leave", "exited"} => reason \/ stopping

FlagsInv ==
  /\ caller \in {"idle", "createAnalog", "prepareAnalog", "createDigital",
                 "prepareDigital", "startTasks", "launch", "join", "release",
                 "terminated"}
  /\ thread \in {"none", "exited", "terminated"} \cup RunPoints
  /\ held \in BOOLEAN /\ running \in BOOLEAN /\ stopping \in BOOLEAN
  /\ reason \in BOOLEAN
  /\ latest \in {"none", "this", "earlier"}

IInv == FlagsInv /\ ThreadInv /\ TasksInv
-----------------------------------------------------------------------------
(* The initial state is typed, idle and without tasks.                     *)
LEMMA InitInv == Init => IInv
<1> SUFFICES ASSUME Init PROVE IInv
  OBVIOUS
<1>1. FlagsInv
  BY DEF Init, FlagsInv, RunPoints
<1>2. ThreadInv
  BY DEF Init, ThreadInv, RunPoints, InStart
<1>3. TasksInv
  BY DEF Init, TasksInv, Kinds, Local
<1> QED
  BY <1>1, <1>2, <1>3 DEF IInv

(* Every step keeps the types of the flags and of both program points.     *)
LEMMA FlagsStep ==
  ASSUME IInv, Start \/ Stop \/ Starting \/ Stopping \/ Run
  PROVE  FlagsInv'
<1> USE DEF IInv, FlagsInv, RunPoints
<1>1. CASE Start
  BY <1>1 DEF Start
<1>2. CASE CreateAnalog
  BY <1>2 DEF CreateAnalog, Setup, Created, Cleared
<1>3. CASE PrepareAnalog
  BY <1>3 DEF PrepareAnalog, Setup, Created, Cleared
<1>4. CASE CreateDigital
  BY <1>4 DEF CreateDigital, Setup, Created, Cleared
<1>5. CASE PrepareDigital
  BY <1>5 DEF PrepareDigital, Setup, Created, Cleared
<1>6. CASE StartTasks
  BY <1>6 DEF StartTasks, Setup, Created, Cleared
<1>7. CASE Launch
  BY <1>7 DEF Launch, Aged
<1>8. CASE Stop
  BY <1>8 DEF Stop
<1>9. CASE Join
  BY <1>9 DEF Join
<1>10. CASE ReleaseTasks
  BY <1>10 DEF ReleaseTasks, Cleared
<1>11. CASE CheckStop
  BY <1>11 DEF CheckStop
<1>12. CASE ReadAnalog
  BY <1>12 DEF ReadAnalog, Read
<1>13. CASE ReadDigital
  BY <1>13 DEF ReadDigital, Read
<1>14. CASE Publish
  BY <1>14 DEF Publish
<1>15. CASE Leave
  BY <1>15 DEF Leave
<1>16. CASE LaunchAgain
  BY <1>16 DEF LaunchAgain
<1> QED
  BY <1>1, <1>2, <1>3, <1>4, <1>5, <1>6, <1>7, <1>8,
     <1>9, <1>10, <1>11, <1>12, <1>13, <1>14, <1>15, <1>16
     DEF Starting, Stopping, Run

(* Every step keeps the relation of the flags to the thread and the caller: *)
(* m_running is exactly that run() is inside its loop, stop() releases only *)
(* what no thread reads.                                                   *)
LEMMA ThreadStep ==
  ASSUME IInv, Start \/ Stop \/ Starting \/ Stopping \/ Run
  PROVE  ThreadInv'
<1> USE DEF IInv, FlagsInv, ThreadInv, RunPoints, InStart
<1>1. CASE Start
  BY <1>1 DEF Start
<1>2. CASE CreateAnalog
  BY <1>2 DEF CreateAnalog, Setup, Created, Cleared
<1>3. CASE PrepareAnalog
  BY <1>3 DEF PrepareAnalog, Setup, Created, Cleared
<1>4. CASE CreateDigital
  BY <1>4 DEF CreateDigital, Setup, Created, Cleared
<1>5. CASE PrepareDigital
  BY <1>5 DEF PrepareDigital, Setup, Created, Cleared
<1>6. CASE StartTasks
  BY <1>6 DEF StartTasks, Setup, Created, Cleared
<1>7. CASE Launch
  BY <1>7 DEF Launch, Aged
<1>8. CASE Stop
  BY <1>8 DEF Stop
<1>9. CASE Join
  BY <1>9 DEF Join
<1>10. CASE ReleaseTasks
  BY <1>10 DEF ReleaseTasks, Cleared
<1>11. CASE CheckStop
  BY <1>11 DEF CheckStop
<1>12. CASE ReadAnalog
  BY <1>12 DEF ReadAnalog, Read
<1>13. CASE ReadDigital
  BY <1>13 DEF ReadDigital, Read
<1>14. CASE Publish
  BY <1>14 DEF Publish
<1>15. CASE Leave
  BY <1>15 DEF Leave
<1>16. CASE LaunchAgain
  BY <1>16 DEF LaunchAgain
<1> QED
  BY <1>1, <1>2, <1>3, <1>4, <1>5, <1>6, <1>7, <1>8,
     <1>9, <1>10, <1>11, <1>12, <1>13, <1>14, <1>15, <1>16
     DEF Starting, Stopping, Run

(* Every step makes and clears tasks so that the driver has one of a kind   *)
(* for m_impl and one for an unfinished start() that got that far.          *)
LEMMA TasksStep ==
  ASSUME IInv, Start \/ Stop \/ Starting \/ Stopping \/ Run
  PROVE  TasksInv'
<1> USE DEF IInv, FlagsInv, ThreadInv, TasksInv, RunPoints, InStart, Kinds, Local
<1>1. CASE Start
  BY <1>1 DEF Start
<1>2. CASE CreateAnalog
  BY <1>2 DEF CreateAnalog, Setup, Created, Cleared
<1>3. CASE PrepareAnalog
  BY <1>3 DEF PrepareAnalog, Setup, Created, Cleared
<1>4. CASE CreateDigital
  BY <1>4 DEF CreateDigital, Setup, Created, Cleared
<1>5. CASE PrepareDigital
  BY <1>5 DEF PrepareDigital, Setup, Created, Cleared
<1>6. CASE StartTasks
  BY <1>6 DEF StartTasks, Setup, Created, Cleared
<1>7. CASE Launch
  BY <1>7 DEF Launch, Aged
<1>8. CASE Stop
  BY <1>8 DEF Stop
<1>9. CASE Join
  BY <1>9 DEF Join
<1>10. CASE ReleaseTasks
  BY <1>10 DEF ReleaseTasks, Cleared
<1>11. CASE CheckStop
  BY <1>11 DEF CheckStop
<1>12. CASE ReadAnalog
  BY <1>12 DEF ReadAnalog, Read
<1>13. CASE ReadDigital
  BY <1>13 DEF ReadDigital, Read
<1>14. CASE Publish
  BY <1>14 DEF Publish
<1>15. CASE Leave
  BY <1>15 DEF Leave
<1>16. CASE LaunchAgain
  BY <1>16 DEF LaunchAgain
<1> QED
  BY <1>1, <1>2, <1>3, <1>4, <1>5, <1>6, <1>7, <1>8,
     <1>9, <1>10, <1>11, <1>12, <1>13, <1>14, <1>15, <1>16
     DEF Starting, Stopping, Run

(* Every step keeps the invariant; a terminated program takes none.        *)
LEMMA StepInv == IInv /\ [Next]_vars => IInv'
<1> SUFFICES ASSUME IInv, [Next]_vars
             PROVE  IInv'
  OBVIOUS
<1>1. CASE Start \/ Stop \/ Starting \/ Stopping \/ Run
  BY <1>1, FlagsStep, ThreadStep, TasksStep DEF IInv
<1>2. CASE UNCHANGED vars
  <2>1. FlagsInv'
    BY <1>2 DEF vars, IInv, FlagsInv, RunPoints
  <2>2. ThreadInv'
    BY <1>2 DEF vars, IInv, ThreadInv, RunPoints, InStart
  <2>3. TasksInv'
    BY <1>2 DEF vars, IInv, TasksInv, Kinds, Local
  <2> QED
    BY <2>1, <2>2, <2>3 DEF IInv
<1> QED
  BY <1>1, <1>2 DEF Next, Terminated

(* The inductive invariant holds in every reachable state.                 *)
THEOREM InvariantHolds == Spec => []IInv
<1> QED
  BY InitInv, StepInv, PTL DEF Spec
-----------------------------------------------------------------------------
(* Every variable keeps its type; the driver never has more than the tasks *)
(* of one finished and one unfinished start().                             *)
THEOREM TypeCorrect == Spec => []TypeOK
<1>1. IInv => TypeOK
  BY DEF IInv, FlagsInv, TasksInv, TypeOK
<1> QED
  BY <1>1, InvariantHolds, PTL

(* No task is leaked or missing between two calls, whichever call of the   *)
(* driver failed, and the acquisition thread never reads a released task.  *)
THEOREM TasksCorrect == Spec => []TasksOwned
<1>1. IInv => TasksOwned
  <2> SUFFICES ASSUME IInv PROVE TasksOwned
    OBVIOUS
  <2>1. caller = "idle" => \A k \in Kinds : tasks[k] = IF held THEN 1 ELSE 0
    BY DEF IInv, FlagsInv, TasksInv, Local, Kinds
  <2>2. thread \in RunPoints => held /\ \A k \in Kinds : tasks[k] > 0
    BY DEF IInv, FlagsInv, ThreadInv, TasksInv, Local, Kinds, RunPoints
  <2> QED
    BY <2>1, <2>2 DEF TasksOwned
<1> QED
  BY <1>1, InvariantHolds, PTL
-----------------------------------------------------------------------------
(* The reader implements Acquisition: an acquisition ends by itself only    *)
(* with a recorded reason, and the next one begins only after a stop().    *)
THEOREM AcquisitionRefined == Spec => ImplementsAcquisition
<1>1. Init => Acq!Init
  BY DEF Init, Acq!Init
<1>2. IInv /\ [Next]_vars => [Acq!Next]_(Acq!state)
  <2> SUFFICES ASSUME IInv, [Next]_vars
               PROVE  Acq!Next \/ UNCHANGED Acq!state
    OBVIOUS
  <2> USE DEF IInv, FlagsInv, ThreadInv, RunPoints, InStart, Acq!Next, Acq!state
  <2>1. CASE Start
    BY <2>1 DEF Start
  <2>2. CASE CreateAnalog
    BY <2>2 DEF CreateAnalog, Setup
  <2>3. CASE PrepareAnalog
    BY <2>3 DEF PrepareAnalog, Setup
  <2>4. CASE CreateDigital
    BY <2>4 DEF CreateDigital, Setup
  <2>5. CASE PrepareDigital
    BY <2>5 DEF PrepareDigital, Setup
  <2>6. CASE StartTasks
    BY <2>6 DEF StartTasks, Setup
  <2>7. CASE Launch
    BY <2>7 DEF Launch, Acq!Begin
  <2>8. CASE Stop
    BY <2>8 DEF Stop, Acq!Ask
  <2>9. CASE Join
    BY <2>9 DEF Join
  <2>10. CASE ReleaseTasks
    BY <2>10 DEF ReleaseTasks, Acq!Release
  <2>11. CASE CheckStop
    BY <2>11 DEF CheckStop
  <2>12. CASE ReadAnalog
    BY <2>12 DEF ReadAnalog, Read, Acq!Fail
  <2>13. CASE ReadDigital
    BY <2>13 DEF ReadDigital, Read, Acq!Fail
  <2>14. CASE Publish
    BY <2>14 DEF Publish
  <2>15. CASE Leave
    BY <2>15 DEF Leave, Acq!End
  <2>16. CASE LaunchAgain
    BY <2>16 DEF LaunchAgain
  <2>17. CASE UNCHANGED vars
    BY <2>17 DEF vars
  <2> QED
    BY <2>1, <2>2, <2>3, <2>4, <2>5, <2>6, <2>7, <2>8, <2>9, <2>10, <2>11,
       <2>12, <2>13, <2>14, <2>15, <2>16, <2>17
       DEF Next, Starting, Stopping, Run, Terminated
<1> QED
  BY <1>1, <1>2, InvariantHolds, PTL DEF Spec, ImplementsAcquisition, Acq!Spec
=============================================================================
