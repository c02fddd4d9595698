----------------------- MODULE ControllerWorkerProofs -----------------------
(***************************************************************************)
(* Proofs about ControllerWorker, for any joints, counts and commands.     *)
(*                                                                         *)
(* The invariant is that every joint is a GoodJoint: well typed, its       *)
(* parameter of the kind its activity reads, powered exactly when its      *)
(* activity is, its envelope ordered.  The first part shows, operator by   *)
(* operator, that what a handler or a tick makes of a GoodJoint is one.    *)
(* The second part adds what relates the joints to the bus, the label, the *)
(* loop and the recording, action by action.                               *)
(***************************************************************************)
EXTENDS ControllerWorker, TLAPS

(* The parameter of a joint is of the kind its activity reads.             *)
ArgMatches(c) ==
  /\ c.activity = "Jog" => c.arg \in {-1, 1}
  /\ c.activity = "Current" => c.arg \in {-1, 0, 1}
  /\ c.activity \in {"GoTo"} \cup Playing => c.arg \in Counts

GoodJoint == {c \in JointCtl : ArgMatches(c) /\ PowerMatches(c) /\ Ordered(c)}

USE DEF Playing, Manual, Backdrivable

LEMMA CountsInt == Counts \subseteq Int /\ 0 \in Counts
BY ConstantsAssumption DEF ConstantsAssumption, Counts

(* A setpoint is clamped into the envelope, which lies inside Counts.      *)
LEMMA ClampBounds ==
  ASSUME NEW x \in Int, NEW lo \in Int, NEW hi \in Int, lo <= hi
  PROVE  Clamp(x, lo, hi) \in lo .. hi
BY DEF Clamp

LEMMA GoodFields ==
  ASSUME NEW c \in GoodJoint
  PROVE  /\ c \in JointCtl
         /\ {c.min, c.max, c.soft_min, c.soft_max, c.cmd} \subseteq Counts
         /\ {c.min, c.max, c.soft_min, c.soft_max, c.cmd} \subseteq Int
         /\ c.min <= c.soft_min /\ c.soft_min <= c.soft_max /\ c.soft_max <= c.max
BY CountsInt DEF GoodJoint, JointCtl, Ordered

(* Whatever it is asked for, a clamped setpoint lies in the hard envelope. *)
LEMMA LimitedBounds ==
  ASSUME NEW c \in GoodJoint, NEW x \in Int
  PROVE  Limited(c, x) \in c.min .. c.max /\ Limited(c, x) \in Counts
<1>1. /\ LimMin(c) \in Int /\ LimMax(c) \in Int /\ LimMin(c) <= LimMax(c)
      /\ c.min <= LimMin(c) /\ LimMax(c) <= c.max
  BY GoodFields DEF LimMin, LimMax, SoftValid
<1>2. Limited(c, x) \in LimMin(c) .. LimMax(c)
  BY <1>1, ClampBounds DEF Limited
<1>3. c.min \in Counts /\ c.max \in Counts
  BY GoodFields
<1> QED BY <1>1, <1>2, <1>3, ConstantsAssumption DEF Counts, ConstantsAssumption

LEMMA IdledGood ==
  ASSUME NEW c \in GoodJoint
  PROVE  Idled(c) \in GoodJoint
<1> DEFINE d == Idled(c)
<1>a. 0 \in Int /\ 0 \in {-1, 0, 1} /\ "Idle" \in Activities
  BY DEF Activities
<1>1. d \in JointCtl
  BY GoodFields, <1>a, Zenon DEF JointCtl, Idled
<1>2. ArgMatches(d)
  BY CountsInt DEF GoodJoint, JointCtl, ArgMatches, Idled
<1>3. PowerMatches(d)
  BY CountsInt DEF GoodJoint, JointCtl, PowerMatches, Idled
<1>4. Ordered(d)
  BY CountsInt DEF GoodJoint, JointCtl, Ordered, Idled
<1> QED BY <1>1, <1>2, <1>3, <1>4 DEF GoodJoint

LEMMA CollapsedGood ==
  ASSUME NEW c \in GoodJoint, NEW now \in Counts
  PROVE  Collapsed(c, now) \in GoodJoint
<1> DEFINE d == Collapsed(c, now)
<1>1. d \in JointCtl
  BY GoodFields, Zenon DEF JointCtl, Collapsed
<1>2. ArgMatches(d)
  BY CountsInt DEF GoodJoint, JointCtl, ArgMatches, Collapsed
<1>3. PowerMatches(d)
  BY CountsInt DEF GoodJoint, JointCtl, PowerMatches, Collapsed
<1>4. Ordered(d)
  BY CountsInt DEF GoodJoint, JointCtl, Ordered, Collapsed
<1> QED BY <1>1, <1>2, <1>3, <1>4 DEF GoodJoint

LEMMA LearnedGood ==
  ASSUME NEW c \in GoodJoint, NEW now \in Counts
  PROVE  Learned(c, now) \in GoodJoint
<1> DEFINE lo == Lesser(c.min, now)
           hi == Greater(c.max, now)
           d == Learned(c, now)
<1>1. lo \in Counts /\ hi \in Counts /\ (lo < hi) \in BOOLEAN
  BY GoodFields DEF Lesser, Greater
<1>2. d \in JointCtl
  BY GoodFields, <1>1, Zenon DEF JointCtl, Learned
<1>3. ArgMatches(d)
  BY DEF GoodJoint, JointCtl, Learned, ArgMatches
<1>4. PowerMatches(d)
  BY DEF GoodJoint, JointCtl, Learned, PowerMatches
<1>5. /\ d.min = lo /\ d.max = hi
      /\ d.soft_min = c.soft_min /\ d.soft_max = c.soft_max
      /\ d.limits_set = (lo < hi)
  BY GoodFields DEF JointCtl, Learned
<1>6. lo <= c.min /\ c.max <= hi /\ lo \in Int /\ hi \in Int
  BY GoodFields, CountsInt DEF Lesser, Greater
<1>7. lo <= c.soft_min /\ c.soft_max <= hi
  BY <1>6, GoodFields
<1> HIDE DEF lo, hi, d
<1>8. Ordered(d)
  BY <1>5, <1>7, GoodFields DEF Ordered
<1> QED BY <1>2, <1>3, <1>4, <1>8 DEF GoodJoint, d

LEMMA ExplicitGood ==
  ASSUME NEW c \in GoodJoint, NEW lo \in Counts, NEW hi \in Counts, lo <= hi
  PROVE  Explicit(c, lo, hi) \in GoodJoint
<1> DEFINE d == Explicit(c, lo, hi)
<1>1. (lo < hi) \in BOOLEAN
  OBVIOUS
<1>2. d \in JointCtl
  BY GoodFields, <1>1, Zenon DEF JointCtl, Explicit
<1>3. ArgMatches(d)
  BY DEF GoodJoint, JointCtl, Explicit, ArgMatches
<1>4. PowerMatches(d)
  BY DEF GoodJoint, JointCtl, Explicit, PowerMatches
<1>5. /\ d.min = lo /\ d.max = hi /\ d.soft_min = lo /\ d.soft_max = hi
      /\ d.limits_set = (lo < hi)
  BY GoodFields DEF JointCtl, Explicit
<1>6. lo <= lo /\ hi <= hi
  BY CountsInt
<1> HIDE DEF d
<1>7. Ordered(d)
  BY <1>5, <1>6, Zenon DEF Ordered
<1> QED BY <1>2, <1>3, <1>4, <1>7 DEF GoodJoint, d

LEMMA CaptureFinishedGood ==
  ASSUME NEW c \in GoodJoint, c.activity = "Capture"
  PROVE  CaptureFinished(c) \in GoodJoint
<1> DEFINE d == CaptureFinished(c)
<1>1. (c.min < c.max) \in BOOLEAN /\ "Idle" \in Activities
  BY DEF Activities
<1>2. d \in JointCtl
  BY GoodFields, <1>1, Zenon DEF JointCtl, CaptureFinished
<1>3. ArgMatches(d)
  BY DEF GoodJoint, JointCtl, CaptureFinished, ArgMatches
<1>4. PowerMatches(d)
  BY DEF GoodJoint, JointCtl, CaptureFinished, PowerMatches
<1>5. /\ d.min = c.min /\ d.max = c.max /\ d.soft_min = c.min /\ d.soft_max = c.max
      /\ d.limits_set = (c.min < c.max)
  BY GoodFields DEF JointCtl, CaptureFinished
<1>6. c.min <= c.min /\ c.min <= c.max /\ c.max <= c.max
  BY GoodFields
<1> HIDE DEF d
<1>7. Ordered(d)
  BY <1>5, <1>6, Zenon DEF Ordered
<1> QED BY <1>2, <1>3, <1>4, <1>7 DEF GoodJoint, d

LEMMA BlankGood == Blank \in GoodJoint
<1>1. Blank \in JointCtl
  BY CountsInt DEF Blank, JointCtl, Activities
<1>2. ArgMatches(Blank) /\ PowerMatches(Blank) /\ Ordered(Blank)
  BY DEF Blank, ArgMatches, PowerMatches, Ordered
<1> QED BY <1>1, <1>2 DEF GoodJoint

(* A joint that is not powered may start to track its range.               *)
LEMMA CaptureGood ==
  ASSUME NEW c \in GoodJoint, c.activity = "Idle"
  PROVE  Perform(c, "Capture", 0) \in GoodJoint
<1> DEFINE d == Perform(c, "Capture", 0)
<1>a. 0 \in Int /\ "Capture" \in Activities
  BY DEF Activities
<1>1. d \in JointCtl
  BY GoodFields, <1>a, Zenon DEF JointCtl, Perform
<1>2. ArgMatches(d)
  BY CountsInt DEF GoodJoint, JointCtl, ArgMatches, Perform
<1>3. PowerMatches(d)
  BY CountsInt DEF GoodJoint, JointCtl, PowerMatches, Perform
<1>4. Ordered(d)
  BY CountsInt DEF GoodJoint, JointCtl, Ordered, Perform
<1> QED BY <1>1, <1>2, <1>3, <1>4 DEF GoodJoint

LEMMA FreshGood ==
  ASSUME NEW now \in Counts
  PROVE  Fresh(now) \in GoodJoint
<1> DEFINE d == Fresh(now)
<1>a. 0 \in Int /\ 0 \in {-1, 0, 1} /\ "Idle" \in Activities /\ "Capture" \in Activities
  BY DEF Activities
<1>1. d \in JointCtl
  BY CountsInt, <1>a, Zenon DEF JointCtl, Fresh, Collapsed, Blank
<1>2. ArgMatches(d)
  BY CountsInt DEF GoodJoint, JointCtl, ArgMatches, Fresh, Collapsed, Blank
<1>3. PowerMatches(d)
  BY CountsInt DEF GoodJoint, JointCtl, PowerMatches, Fresh, Collapsed, Blank
<1>4. Ordered(d)
  BY CountsInt DEF GoodJoint, JointCtl, Ordered, Fresh, Collapsed, Blank
<1> QED BY <1>1, <1>2, <1>3, <1>4 DEF GoodJoint

(* Entering a powered manual activity, engaging the drive if it is not.    *)
LEMMA PoweredGood ==
  ASSUME NEW c \in GoodJoint, NEW now \in Counts,
         NEW activity \in {"Jog", "GoTo", "Current"}, NEW arg \in Int,
         activity = "Jog" => arg \in {-1, 1},
         activity = "Current" => arg \in {-1, 0, 1},
         activity = "GoTo" => arg \in Counts
  PROVE  Perform(EngageIfNeeded(c, now), activity, arg) \in GoodJoint
<1> DEFINE d == Perform(EngageIfNeeded(c, now), activity, arg)
<1>a. activity \in Activities
  BY DEF Activities
<1>1. d \in JointCtl
  BY GoodFields, <1>a, Zenon DEF JointCtl, Perform, EngageIfNeeded, Engage
<1>2. ArgMatches(d)
  BY CountsInt DEF GoodJoint, JointCtl, ArgMatches, Perform, EngageIfNeeded, Engage
<1>3. PowerMatches(d)
  BY CountsInt DEF GoodJoint, JointCtl, PowerMatches, Perform, EngageIfNeeded, Engage
<1>4. Ordered(d)
  BY CountsInt DEF GoodJoint, JointCtl, Ordered, Perform, EngageIfNeeded, Engage
<1> QED BY <1>1, <1>2, <1>3, <1>4 DEF GoodJoint

LEMMA HoldingGood ==
  ASSUME NEW c \in GoodJoint, NEW now \in Counts, c.engaged
  PROVE  Holding([c EXCEPT !.cmd = now]) \in GoodJoint
<1> DEFINE d == Holding([c EXCEPT !.cmd = now])
<1>a. "GoTo" \in Activities /\ now \in Int
  BY CountsInt DEF Activities
<1>1. d \in JointCtl
  BY GoodFields, <1>a, Zenon DEF JointCtl, Holding, Perform
<1>2. ArgMatches(d)
  BY CountsInt DEF GoodJoint, JointCtl, ArgMatches, Holding, Perform
<1>3. PowerMatches(d)
  BY CountsInt DEF GoodJoint, JointCtl, PowerMatches, Holding, Perform
<1>4. Ordered(d)
  BY CountsInt DEF GoodJoint, JointCtl, Ordered, Holding, Perform
<1> QED BY <1>1, <1>2, <1>3, <1>4 DEF GoodJoint

LEMMA StartedGood ==
  ASSUME NEW c \in GoodJoint, NEW now \in Counts, NEW dir \in BOOLEAN,
         NEW opens \in BOOLEAN, NEW wanted \in BOOLEAN
  PROVE  Started(c, now, dir, opens, wanted) \in GoodJoint
<1> DEFINE d == Started(c, now, dir, opens, wanted)
<1>a. "Hold" \in Activities /\ now \in Int /\ 0 \in ErrorCodes \cup {0}
  BY CountsInt DEF Activities
<1>1. d \in JointCtl
  BY GoodFields, <1>a, ZenonT(40) DEF JointCtl, Started, Engage
<1>2. ArgMatches(d)
  BY CountsInt DEF GoodJoint, JointCtl, ArgMatches, Started, Engage
<1>3. PowerMatches(d)
  BY CountsInt DEF GoodJoint, JointCtl, PowerMatches, Started, Engage
<1>4. Ordered(d)
  BY CountsInt DEF GoodJoint, JointCtl, Ordered, Started, Engage
<1> QED BY <1>1, <1>2, <1>3, <1>4 DEF GoodJoint

LEMMA MovedGood ==
  ASSUME NEW c \in GoodJoint, NEW x \in Counts
  PROVE  [c EXCEPT !.cmd = x] \in GoodJoint
<1> DEFINE d == [c EXCEPT !.cmd = x]
<1>1. d \in JointCtl
  BY GoodFields, Zenon DEF JointCtl, Counts
<1>2. ArgMatches(d)
  BY CountsInt DEF GoodJoint, JointCtl, ArgMatches, Counts
<1>3. PowerMatches(d)
  BY CountsInt DEF GoodJoint, JointCtl, PowerMatches, Counts
<1>4. Ordered(d)
  BY CountsInt DEF GoodJoint, JointCtl, Ordered, Counts
<1> QED BY <1>1, <1>2, <1>3, <1>4 DEF GoodJoint

LEMMA TrackedGood ==
  ASSUME NEW c \in GoodJoint, NEW now \in Counts, NEW long \in BOOLEAN
  PROVE  [c EXCEPT !.cmd = now, !.trail = long] \in GoodJoint
<1> DEFINE d == [c EXCEPT !.cmd = now, !.trail = long]
<1>1. d \in JointCtl
  BY GoodFields, Zenon DEF JointCtl, Counts
<1>2. ArgMatches(d)
  BY CountsInt DEF GoodJoint, JointCtl, ArgMatches, Counts
<1>3. PowerMatches(d)
  BY CountsInt DEF GoodJoint, JointCtl, PowerMatches, Counts
<1>4. Ordered(d)
  BY CountsInt DEF GoodJoint, JointCtl, Ordered, Counts
<1> QED BY <1>1, <1>2, <1>3, <1>4 DEF GoodJoint

LEMMA CurrentGood ==
  ASSUME NEW c \in GoodJoint, c.activity = "Current",
         NEW now \in Counts, NEW e \in ErrorCodes \cup {0}
  PROVE  [c EXCEPT !.last_error = e, !.cmd = now, !.torque = c.arg] \in GoodJoint
<1> DEFINE d == [c EXCEPT !.last_error = e, !.cmd = now, !.torque = c.arg]
<1>a. c.arg \in {-1, 0, 1}
  BY DEF GoodJoint, ArgMatches
<1>1. d \in JointCtl
  BY GoodFields, <1>a, Zenon DEF JointCtl, Counts
<1>2. ArgMatches(d)
  BY CountsInt DEF GoodJoint, JointCtl, ArgMatches, Counts
<1>3. PowerMatches(d)
  BY CountsInt DEF GoodJoint, JointCtl, PowerMatches, Counts
<1>4. Ordered(d)
  BY CountsInt DEF GoodJoint, JointCtl, Ordered, Counts
<1> QED BY <1>1, <1>2, <1>3, <1>4 DEF GoodJoint

LEMMA PlayedGood ==
  ASSUME NEW c \in GoodJoint, c.activity \in Playing, NEW phase \in Playing,
         NEW x \in Counts, NEW e \in ErrorCodes \cup {0}
  PROVE  [c EXCEPT !.last_error = e, !.activity = phase, !.cmd = x] \in GoodJoint
<1> DEFINE d == [c EXCEPT !.last_error = e, !.activity = phase, !.cmd = x]
<1>a. phase \in Activities
  BY DEF Activities
<1>1. d \in JointCtl
  BY GoodFields, <1>a, Zenon DEF JointCtl, Counts
<1>2. ArgMatches(d)
  BY CountsInt DEF GoodJoint, JointCtl, ArgMatches, Counts
<1>3. PowerMatches(d)
  BY CountsInt DEF GoodJoint, JointCtl, PowerMatches, Counts
<1>4. Ordered(d)
  BY CountsInt DEF GoodJoint, JointCtl, Ordered, Counts
<1> QED BY <1>1, <1>2, <1>3, <1>4 DEF GoodJoint
-----------------------------------------------------------------------------
(* What the head of the queue carries.                                     *)
LEMMA HeadType ==
  ASSUME TypeOK, queue # <<>>
  PROVE  Msg \in AllCommands /\ Tail(queue) \in Seq(AllCommands)
BY DEF TypeOK, Msg

LEMMA JogType ==
  ASSUME NEW m \in AllCommands, m.type = "Jog"
  PROVE  m.joint \in Joints /\ m.velocity \in {-1, 0, 1}
BY DEF AllCommands

LEMMA CurrentType ==
  ASSUME NEW m \in AllCommands, m.type = "Current"
  PROVE  m.joint \in Joints /\ m.amps \in {-1, 0, 1}
BY DEF AllCommands

LEMMA GoToType ==
  ASSUME NEW m \in AllCommands, m.type = "GoTo"
  PROVE  m.joint \in Joints /\ m.target \in Counts
BY DEF AllCommands

LEMMA SetLimitsType ==
  ASSUME NEW m \in AllCommands, m.type = "SetLimits"
  PROVE  m.joint \in Joints /\ m.min \in Counts /\ m.max \in Counts
BY DEF AllCommands

LEMMA StartType ==
  ASSUME NEW m \in AllCommands, m.type = "StartTrajectory"
  PROVE  m.enable_logging \in BOOLEAN
BY DEF AllCommands

(* How the joints relate to the bus, in every state.                       *)
BusOK ==
  /\ busUp <=> joints # {}
  /\ busUp \/ state = "Disconnected"
  /\ todo \subseteq joints

(* Every joint is good, and only those on the bus are ever powered.        *)
JointsOK ==
  /\ ctl \in [Joints -> GoodJoint]
  /\ \A j \in Joints \ joints : ~ctl[j].engaged

Inv ==
  /\ TypeOK /\ JointsOK /\ BusOK
  /\ LabelShowsMotion /\ NothingLeftPowered /\ RecordingMatchesFiles

LEMMA InitInv == Init => Inv
<1> SUFFICES ASSUME Init PROVE Inv
  OBVIOUS
<1>1. ctl = [j \in Joints |-> Blank] /\ \A j \in Joints : ctl[j] = Blank
  BY DEF Init
<1>2. JointsOK
  BY <1>1, BlankGood DEF JointsOK, Blank
<1>3. TypeOK
  <2>1. ctl \in [Joints -> JointCtl]
    BY <1>2 DEF JointsOK, GoodJoint
  <2>2. tick \in 0 .. PublishEvery - 1 /\ queue \in Seq(AllCommands)
    BY ConstantsAssumption DEF Init, ConstantsAssumption
  <2> QED BY <2>1, <2>2 DEF Init, TypeOK, States
<1>4. BusOK /\ RecordingMatchesFiles
  BY DEF Init, BusOK, RecordingMatchesFiles
<1>5. LabelShowsMotion /\ NothingLeftPowered
  BY <1>1 DEF Init, LabelShowsMotion, NothingLeftPowered, Blank, Some
<1> QED BY <1>2, <1>3, <1>4, <1>5 DEF Inv

(* Idling every joint of the bus leaves none powered.                      *)
LEMMA AllIdledGood ==
  ASSUME Inv
  PROVE  AllIdled \in [Joints -> GoodJoint] /\ \A j \in Joints : ~AllIdled[j].engaged
<1>1. \A j \in Joints : ctl[j] \in GoodJoint /\ Idled(ctl[j]) \in GoodJoint
  BY IdledGood DEF Inv, JointsOK
<1>2. \A j \in Joints : ~Idled(ctl[j]).engaged
  BY <1>1, ZenonT(40) DEF Idled, GoodJoint, JointCtl
<1>3. \A j \in Joints : AllIdled[j] = IF j \in joints THEN Idled(ctl[j]) ELSE ctl[j]
  BY DEF AllIdled
<1>4. \A j \in Joints \ joints : ~ctl[j].engaged
  BY DEF Inv, JointsOK
<1> QED BY <1>1, <1>2, <1>3, <1>4 DEF AllIdled

(* A good joint is powered exactly when it is played or moved by hand.     *)
LEMMA Unpowered ==
  ASSUME NEW c \in GoodJoint, ~c.engaged
  PROVE  c.activity \notin Playing /\ c.activity \notin Manual
BY DEF GoodJoint, PowerMatches

(* What a handler that ends in recomputeState shows.                       *)
LEMMA RecomputeShows ==
  ASSUME Inv, JointsOK', busUp' = busUp, joints' = joints, Recompute(ctl')
  PROVE  /\ state' \in States /\ event' \in States \cup {"none"}
         /\ busUp \/ state' = "Disconnected"
         /\ LabelShowsMotion'
         /\ state' = "Disconnected" => \A j \in Joints : ~ctl'[j].engaged
<1>1. CASE busUp /\ state # "Faulted"
  <2>1. state' = Label(ctl') /\ event' = Label(ctl')
    BY <1>1 DEF Recompute, SetState
  <2>2. Label(ctl') \in {"Running", "Capturing", "Jogging", "Connected"}
    BY DEF Label
  <2>3. Some(ctl', Playing) => Label(ctl') = "Running"
    BY DEF Label
  <2>4. Some(ctl', Manual) => Label(ctl') # "Connected"
    BY DEF Label
  <2> QED BY <1>1, <2>1, <2>2, <2>3, <2>4 DEF LabelShowsMotion, States
<1>2. CASE busUp /\ state = "Faulted"
  <2>1. state' = "Faulted" /\ event' = event
    BY <1>2 DEF Recompute
  <2> QED BY <1>2, <2>1 DEF LabelShowsMotion, States, Inv, TypeOK
<1>3. CASE ~busUp
  <2>1. state' = "Disconnected" /\ event' = event /\ joints = {}
    BY <1>3 DEF Recompute, Inv, BusOK
  <2>2. \A j \in Joints : ~ctl'[j].engaged
    BY <2>1 DEF JointsOK
  <2>3. ~Some(ctl', Playing) /\ ~Some(ctl', Manual)
    BY <2>2, Unpowered DEF Some, JointsOK
  <2> QED BY <2>1, <2>2, <2>3 DEF LabelShowsMotion, States, Inv, TypeOK
<1> QED BY <1>1, <1>2, <1>3

(* One joint of the bus is replaced by a good one, or several are.         *)
LEMMA OneJoint ==
  ASSUME Inv, joints' = joints, NEW j \in joints, NEW c \in GoodJoint,
         ctl' = [ctl EXCEPT ![j] = c]
  PROVE  JointsOK'
BY DEF Inv, JointsOK

LEMMA SomeJoints ==
  ASSUME Inv, joints' = joints, NEW S \in SUBSET joints, NEW f,
         \A j \in S : f[j] \in GoodJoint,
         ctl' = [j \in Joints |-> IF j \in S THEN f[j] ELSE ctl[j]]
  PROVE  JointsOK'
BY DEF Inv, JointsOK

LEMMA NoJoint ==
  ASSUME Inv, joints' = joints, ctl' = ctl
  PROVE  JointsOK'
BY DEF Inv, JointsOK

LEMMA NoneLeft ==
  ASSUME Inv, joints' = joints, ctl' = AllIdled
  PROVE  JointsOK' /\ \A j \in Joints : ~ctl'[j].engaged
BY AllIdledGood DEF JointsOK
-----------------------------------------------------------------------------
(* One lemma per handler that changes joints: all stay good.               *)
LEMMA ConnectJoints == ASSUME Inv, Connect PROVE JointsOK' /\ \A j \in Joints : ~ctl'[j].engaged
<1>1. PICK found \in (SUBSET Joints) \ {{}} : \E now \in [found -> Counts] :
        /\ joints' = found
        /\ ctl' = [j \in Joints |-> IF j \in found THEN Fresh(now[j]) ELSE ctl[j]]
  BY DEF Connect
<1>2. PICK now \in [found -> Counts] :
        /\ joints' = found
        /\ ctl' = [j \in Joints |-> IF j \in found THEN Fresh(now[j]) ELSE ctl[j]]
  BY <1>1
<1>3. joints = {}
  BY DEF Connect, Inv, BusOK
<1>4. \A j \in Joints : ctl[j] \in GoodJoint /\ ~ctl[j].engaged
  BY <1>3 DEF Inv, JointsOK
<1>5. \A j \in found : Fresh(now[j]) \in GoodJoint
  BY FreshGood
<1>6. \A j \in found : ~Fresh(now[j]).engaged
  BY DEF Fresh, Collapsed, Blank
<1> QED BY <1>2, <1>4, <1>5, <1>6 DEF JointsOK

LEMMA JogJoints == ASSUME Inv, JogStop \/ JogStart PROVE JointsOK'
<1> USE DEF Take, ManualUnchanged, busVars
<1>1. queue # <<>> /\ Msg.type = "Jog" /\ joints' = joints
  BY DEF JogStop, JogStart, Msg
<1>2. Msg.joint \in Joints /\ Msg.velocity \in {-1, 0, 1}
  BY <1>1, HeadType, JogType DEF Inv
<1>3. Msg.joint \in joints /\ ctl[Msg.joint] \in GoodJoint
  BY <1>2 DEF JogStop, JogStart, Blocked, Free, Inv, JointsOK
<1> DEFINE c == ctl[Msg.joint]
<1>4. CASE JogStop
  <2>1. CASE c.activity = "Jog"
    <3>1. c.engaged /\ c.cmd \in Counts
      BY <1>3, <2>1, GoodFields DEF GoodJoint, PowerMatches
    <3>2. Holding([c EXCEPT !.cmd = c.cmd]) = Holding(c)
      BY <1>3 DEF Holding, Perform, GoodJoint, JointCtl
    <3>3. Holding(c) \in GoodJoint
      BY <1>3, <3>1, <3>2, HoldingGood
    <3>4. ctl' = [ctl EXCEPT ![Msg.joint] = Holding(c)]
      BY <1>4, <2>1 DEF JogStop
    <3> QED BY <1>1, <1>3, <3>3, <3>4, OneJoint
  <2>2. CASE c.activity # "Jog"
    <3>1. ctl' = [ctl EXCEPT ![Msg.joint] = c]
      BY <1>4, <2>2 DEF JogStop
    <3> QED BY <1>1, <1>3, <3>1, OneJoint
  <2> QED BY <2>1, <2>2
<1>5. CASE JogStart
  <2>1. PICK now \in Counts :
          ctl' = [ctl EXCEPT ![Msg.joint] = Perform(EngageIfNeeded(c, now), "Jog", Msg.velocity)]
    BY <1>5 DEF JogStart
  <2>2. Msg.velocity \in {-1, 1}
    BY <1>2, <1>5 DEF JogStart
  <2>3. Perform(EngageIfNeeded(c, now), "Jog", Msg.velocity) \in GoodJoint
    BY <1>3, <2>2, PoweredGood
  <2> QED BY <1>1, <1>3, <2>1, <2>3, OneJoint
<1> QED BY <1>4, <1>5

LEMMA CurrentJoints == ASSUME Inv, CurrentRelease \/ CurrentStart PROVE JointsOK'
<1> USE DEF Take, ManualUnchanged, busVars
<1>1. queue # <<>> /\ Msg.type = "Current" /\ joints' = joints
  BY DEF CurrentRelease, CurrentStart, Msg
<1>2. Msg.joint \in Joints /\ Msg.amps \in {-1, 0, 1}
  BY <1>1, HeadType, CurrentType DEF Inv
<1>3. Msg.joint \in joints /\ ctl[Msg.joint] \in GoodJoint
  BY <1>2 DEF CurrentRelease, CurrentStart, Blocked, Free, Inv, JointsOK
<1> DEFINE c == ctl[Msg.joint]
<1>4. CASE CurrentRelease
  <2>1. ctl' = [ctl EXCEPT ![Msg.joint] = Idled(c)]
    BY <1>4 DEF CurrentRelease
  <2> QED BY <1>1, <1>3, <2>1, IdledGood, OneJoint
<1>5. CASE CurrentStart
  <2>1. PICK now \in Counts :
          ctl' = [ctl EXCEPT ![Msg.joint] = Perform(EngageIfNeeded(c, now), "Current", Msg.amps)]
    BY <1>5 DEF CurrentStart
  <2>2. Perform(EngageIfNeeded(c, now), "Current", Msg.amps) \in GoodJoint
    BY <1>2, <1>3, PoweredGood
  <2> QED BY <1>1, <1>3, <2>1, <2>2, OneJoint
<1> QED BY <1>4, <1>5

LEMMA GoToJoints == ASSUME Inv, GoTo PROVE JointsOK'
<1> USE DEF Take, ManualUnchanged, busVars
<1>1. queue # <<>> /\ Msg.type = "GoTo" /\ joints' = joints
  BY DEF GoTo, Msg
<1>2. Msg.joint \in Joints /\ Msg.target \in Int
  BY <1>1, HeadType, GoToType, CountsInt DEF Inv
<1>3. Msg.joint \in joints /\ ctl[Msg.joint] \in GoodJoint
  BY <1>2 DEF GoTo, Blocked, Free, Inv, JointsOK
<1> DEFINE c == ctl[Msg.joint]
           x == Limited(c, Msg.target)
<1>4. x \in Counts /\ x \in Int
  BY <1>2, <1>3, LimitedBounds, CountsInt
<1>5. PICK now \in Counts :
        ctl' = [ctl EXCEPT ![Msg.joint] = Perform(EngageIfNeeded(c, now), "GoTo", x)]
  BY DEF GoTo
<1>6. Perform(EngageIfNeeded(c, now), "GoTo", x) \in GoodJoint
  BY <1>3, <1>4, PoweredGood
<1> QED BY <1>1, <1>3, <1>5, <1>6, OneJoint

LEMMA CaptureJoints == ASSUME Inv, CaptureStart \/ CaptureFinish PROVE JointsOK'
<1> USE DEF ManualUnchanged, busVars
<1>1. joints' = joints /\ joints \subseteq Joints
  BY DEF CaptureStart, CaptureFinish, Inv, TypeOK
<1>2. \A j \in joints : ctl[j] \in GoodJoint
  BY <1>1 DEF Inv, JointsOK
<1> DEFINE S == Msg.joints \cap joints
<1>3. CASE CaptureStart
  <2>1. PICK now \in [S -> Counts] :
          ctl' = [j \in Joints |->
                    IF j \in DOMAIN now
                    THEN Perform(Collapsed(Idled(ctl[j]), now[j]), "Capture", 0)
                    ELSE ctl[j]]
    BY <1>3 DEF CaptureStart
  <2> DEFINE f == [j \in S |-> Perform(Collapsed(Idled(ctl[j]), now[j]), "Capture", 0)]
  <2>2. ASSUME NEW j \in S PROVE f[j] \in GoodJoint
    <3>1. Collapsed(Idled(ctl[j]), now[j]) \in GoodJoint
      BY <1>2, IdledGood, CollapsedGood
    <3>2. Idled(ctl[j]).activity = "Idle"
      BY <1>2 DEF GoodJoint, JointCtl, Idled
    <3>3. Collapsed(Idled(ctl[j]), now[j]).activity = "Idle"
      BY <3>2, <1>2, IdledGood DEF GoodJoint, JointCtl, Collapsed
    <3> QED BY <3>1, <3>3, CaptureGood
  <2>3. ctl' = [j \in Joints |-> IF j \in S THEN f[j] ELSE ctl[j]]
    BY <2>1
  <2> HIDE DEF S, f
  <2> QED BY <1>1, <2>2, <2>3, SomeJoints DEF S
<1>4. CASE CaptureFinish
  <2> DEFINE F == {j \in S : ctl[j].activity = "Capture"}
             f == [j \in F |-> CaptureFinished(ctl[j])]
  <2>1. \A j \in F : f[j] \in GoodJoint
    BY <1>2, CaptureFinishedGood
  <2>2. ctl' = [j \in Joints |-> IF j \in F THEN f[j] ELSE ctl[j]]
    BY <1>4 DEF CaptureFinish
  <2>3. F \in SUBSET joints
    OBVIOUS
  <2> HIDE DEF F, f
  <2> QED BY <1>1, <2>1, <2>2, <2>3, SomeJoints
<1> QED BY <1>3, <1>4

LEMMA LesserGreater ==
  ASSUME NEW x \in Counts, NEW y \in Counts
  PROVE  /\ Lesser(x, y) \in Counts /\ Greater(x, y) \in Counts
         /\ Lesser(x, y) <= Greater(x, y)
BY CountsInt DEF Lesser, Greater

LEMMA LimitsJoints == ASSUME Inv, SetLimits \/ ResetLimits PROVE JointsOK'
<1> USE DEF Take, ManualUnchanged, busVars
<1>1. queue # <<>> /\ joints' = joints /\ joints \subseteq Joints
  BY DEF SetLimits, ResetLimits, Inv, TypeOK
<1>2. CASE Msg.joint \notin joints
  <2>1. ctl' = [ctl EXCEPT ![Msg.joint] = ctl[Msg.joint]]
    BY <1>2 DEF SetLimits, ResetLimits
  <2>2. ctl' = ctl
    BY <2>1 DEF Inv, TypeOK
  <2> QED BY <1>1, <2>2, NoJoint
<1>3. CASE SetLimits /\ Msg.joint \in joints
  <2> DEFINE lo == Lesser(Msg.min, Msg.max)
             hi == Greater(Msg.min, Msg.max)
  <2>1. Msg.type = "SetLimits"
    BY <1>3 DEF SetLimits, Msg
  <2>2. Msg.min \in Counts /\ Msg.max \in Counts
    BY <1>1, <2>1, HeadType, SetLimitsType DEF Inv
  <2>3. lo \in Counts /\ hi \in Counts /\ lo <= hi
    BY <2>2, LesserGreater
  <2>4. ctl[Msg.joint] \in GoodJoint
    BY <1>1, <1>3 DEF Inv, JointsOK
  <2>5. Explicit(ctl[Msg.joint], lo, hi) \in GoodJoint
    BY <2>3, <2>4, ExplicitGood
  <2>6. ctl' = [ctl EXCEPT ![Msg.joint] = Explicit(ctl[Msg.joint], lo, hi)]
    BY <1>3 DEF SetLimits
  <2> QED BY <1>1, <1>3, <2>5, <2>6, OneJoint
<1>4. CASE ResetLimits /\ Msg.joint \in joints
  <2>1. PICK now \in Counts :
          ctl' = [ctl EXCEPT ![Msg.joint] = Collapsed(ctl[Msg.joint], now)]
    BY <1>4 DEF ResetLimits
  <2>2. Collapsed(ctl[Msg.joint], now) \in GoodJoint
    BY <1>1, <1>4, CollapsedGood DEF Inv, JointsOK
  <2> QED BY <1>1, <1>4, <2>1, <2>2, OneJoint
<1> QED BY <1>2, <1>3, <1>4

LEMMA StartJoints == ASSUME Inv, StartTrajectory PROVE JointsOK'
<1> DEFINE ready == {j \in Msg.joints \cap joints : Playable(ctl[j], Msg.mode)}
           logs == Msg.enable_logging
<1>1. queue # <<>> /\ Msg.type = "StartTrajectory" /\ joints' = joints
  BY DEF StartTrajectory, Msg, Take, ManualUnchanged, busVars
<1>2. logs \in BOOLEAN
  BY <1>1, HeadType, StartType DEF Inv
<1>3. PICK now \in [ready -> Counts], opened \in SUBSET ready,
          dir \in IF logs THEN BOOLEAN ELSE {FALSE} :
        ctl' = [j \in Joints |->
                  IF j \in ready THEN Started(ctl[j], now[j], dir, j \in opened, logs)
                  ELSE ctl[j]]
  BY ZenonT(120) DEF StartTrajectory
<1> USE DEF Take, ManualUnchanged, busVars
<1>a. dir \in BOOLEAN
  BY <1>2
<1> DEFINE f == [j \in ready |-> Started(ctl[j], now[j], dir, j \in opened, logs)]
<1>4. ASSUME NEW j \in ready PROVE f[j] \in GoodJoint
  <2>1. ctl[j] \in GoodJoint
    BY DEF Inv, JointsOK, TypeOK
  <2>2. (j \in opened) \in BOOLEAN /\ now[j] \in Counts
    OBVIOUS
  <2> QED BY <1>2, <1>a, <2>1, <2>2, StartedGood
<1>5. ctl' = [j \in Joints |-> IF j \in ready THEN f[j] ELSE ctl[j]]
  BY <1>3
<1>6. ready \in SUBSET joints
  OBVIOUS
<1> HIDE DEF ready, f
<1> QED BY <1>1, <1>4, <1>5, <1>6, SomeJoints

LEMMA PauseJoints == ASSUME Inv, Pause PROVE JointsOK'
<1> DEFINE playing == {j \in joints : ctl[j].activity \in Playing}
<1>1. joints' = joints
  BY DEF Pause, ManualUnchanged, busVars
<1>2. PICK now \in [playing -> Counts] :
        ctl' = [j \in Joints |-> IF j \in playing THEN Holding([ctl[j] EXCEPT !.cmd = now[j]])
                                 ELSE ctl[j]]
  BY DEF Pause
<1> DEFINE f == [j \in playing |-> Holding([ctl[j] EXCEPT !.cmd = now[j]])]
<1>3. ASSUME NEW j \in playing PROVE f[j] \in GoodJoint
  <2>1. ctl[j] \in GoodJoint /\ ctl[j].activity \in Playing
    BY DEF Inv, JointsOK, TypeOK
  <2>2. ctl[j].engaged
    BY <2>1 DEF GoodJoint, PowerMatches
  <2> QED BY <2>1, <2>2, HoldingGood
<1>4. ctl' = [j \in Joints |-> IF j \in playing THEN f[j] ELSE ctl[j]]
  BY <1>2
<1>5. playing \in SUBSET joints
  OBVIOUS
<1> HIDE DEF playing, f
<1> QED BY <1>1, <1>3, <1>4, <1>5, SomeJoints
-----------------------------------------------------------------------------
(* A tick that does not trip moves its joint but not its kind of activity. *)
SameKind(c, d) ==
  /\ d.engaged = c.engaged
  /\ d.activity \in Playing <=> c.activity \in Playing
  /\ d.activity \in Manual <=> c.activity \in Manual

Ticking(j) == TickIdle(j) \/ TickCapture(j) \/ TickJog(j) \/ TickGoTo(j)
              \/ TickCurrent(j) \/ TickTrajectory(j)

LEMMA Between ==
  ASSUME NEW x \in Counts, NEW y \in Counts, NEW z \in Lesser(x, y) .. Greater(x, y)
  PROVE  z \in Counts
<1>1. Lesser(x, y) \in Counts /\ Greater(x, y) \in Counts
  BY LesserGreater
<1> QED BY <1>1, ConstantsAssumption DEF Counts, ConstantsAssumption

(* What one tick makes of its joint.                                       *)
LEMMA TickedJoint ==
  ASSUME Inv, NEW j \in Joints, Ticking(j)
  PROVE  \E d \in GoodJoint : ctl' = [ctl EXCEPT ![j] = d] /\ SameKind(ctl[j], d)
<1> DEFINE c == ctl[j]
<1>1. c \in GoodJoint /\ c \in JointCtl
  BY DEF Inv, JointsOK, GoodJoint
<1>2. CASE TickIdle(j)
  <2>1. PICK now \in Counts : ctl' = [ctl EXCEPT ![j] = Learned(c, now)]
    BY <1>2 DEF TickIdle
  <2>2. SameKind(c, Learned(c, now))
    BY <1>1 DEF SameKind, Learned, JointCtl
  <2> QED BY <1>1, <2>1, <2>2, LearnedGood
<1>3. CASE TickCapture(j)
  <2>1. PICK now \in Counts, long \in BOOLEAN :
          ctl' = [ctl EXCEPT ![j] = [Learned(c, now) EXCEPT !.cmd = now, !.trail = long]]
    BY <1>3 DEF TickCapture
  <2> DEFINE d == [Learned(c, now) EXCEPT !.cmd = now, !.trail = long]
  <2>2. Learned(c, now) \in GoodJoint
    BY <1>1, LearnedGood
  <2>3. d \in GoodJoint
    BY <2>2, TrackedGood
  <2>4. SameKind(c, d)
    BY <1>1, <2>2 DEF SameKind, Learned, JointCtl, GoodJoint
  <2> QED BY <2>1, <2>3, <2>4
<1>4. CASE TickJog(j)
  <2>1. PICK step \in {0, c.arg} : ctl' = [ctl EXCEPT ![j] = Jogged(c, step)]
    BY <1>4 DEF TickJog
  <2> DEFINE x == IF c.limits_set THEN Limited(c, c.cmd + step)
                  ELSE Clamp(c.cmd + step, 0, MaxCount)
  <2>2. c.cmd + step \in Int
    BY <1>1, GoodFields DEF JointCtl
  <2>3. Limited(c, c.cmd + step) \in Counts
    BY <1>1, <2>2, LimitedBounds
  <2>4. Clamp(c.cmd + step, 0, MaxCount) \in Counts
    <3>1. 0 \in Int /\ MaxCount \in Int /\ 0 <= MaxCount /\ Counts = 0 .. MaxCount
      BY ConstantsAssumption DEF ConstantsAssumption, Counts
    <3> QED BY <2>2, <3>1, ClampBounds
  <2>5. x \in Counts
    BY <2>3, <2>4
  <2>6. Jogged(c, step) = [c EXCEPT !.cmd = x]
    BY DEF Jogged
  <2> HIDE DEF x
  <2>7. Jogged(c, step) \in GoodJoint
    BY <1>1, <2>5, <2>6, MovedGood
  <2>8. SameKind(c, Jogged(c, step))
    BY <1>1, <2>6 DEF SameKind, JointCtl
  <2> QED BY <2>1, <2>7, <2>8
<1>5. CASE TickGoTo(j)
  <2>1. PICK x \in Lesser(c.cmd, c.arg) .. Greater(c.cmd, c.arg) :
          ctl' = [ctl EXCEPT ![j].cmd = x]
    BY <1>5 DEF TickGoTo
  <2>2. c.activity = "GoTo"
    BY <1>5 DEF TickGoTo, Serve
  <2>3. c.cmd \in Counts /\ c.arg \in Counts
    BY <1>1, <2>2 DEF JointCtl, GoodJoint, ArgMatches
  <2>4. x \in Counts
    BY <2>3, Between
  <2>5. ctl' = [ctl EXCEPT ![j] = [c EXCEPT !.cmd = x]]
    BY <2>1
  <2>6. SameKind(c, [c EXCEPT !.cmd = x])
    BY <1>1 DEF SameKind, JointCtl
  <2> QED BY <1>1, <2>4, <2>5, <2>6, MovedGood
<1>6. CASE TickCurrent(j)
  <2>1. PICK now \in Counts, r \in Readings :
          ctl' = [ctl EXCEPT ![j] = [c EXCEPT !.last_error = r.error, !.cmd = now,
                                              !.torque = c.arg]]
    BY <1>6 DEF TickCurrent
  <2> DEFINE d == [c EXCEPT !.last_error = r.error, !.cmd = now, !.torque = c.arg]
  <2>2. c.activity = "Current" /\ r.error \in ErrorCodes \cup {0}
    BY <1>6 DEF TickCurrent, Serve, Readings
  <2>3. d \in GoodJoint
    BY <1>1, <2>2, CurrentGood
  <2>4. SameKind(c, d)
    BY <1>1 DEF SameKind, JointCtl
  <2> QED BY <2>1, <2>3, <2>4
<1>7. CASE TickTrajectory(j)
  <2>1. c.activity \in Playing
    BY <1>7 DEF TickTrajectory, Serve
  <2>2. PICK r \in Readings, phase \in NextPhase(c.activity),
             ref \in IF c.activity = "Hold" THEN {c.arg} ELSE Counts :
          ctl' = [ctl EXCEPT ![j] = [c EXCEPT !.last_error = r.error, !.activity = phase,
                                              !.cmd = Limited(c, ref)]]
    BY <1>7, Zenon DEF TickTrajectory
  <2> DEFINE x == Limited(c, ref)
             d == [c EXCEPT !.last_error = r.error, !.activity = phase, !.cmd = x]
  <2>3. phase \in Playing
    BY <2>1 DEF NextPhase
  <2>4. r.error \in ErrorCodes \cup {0}
    BY DEF Readings
  <2>5. ref \in Int
    BY <1>1, <2>1, CountsInt DEF GoodJoint, ArgMatches
  <2>6. x \in Counts
    BY <1>1, <2>5, LimitedBounds
  <2> HIDE DEF x
  <2>7. d \in GoodJoint
    BY <1>1, <2>1, <2>3, <2>4, <2>6, PlayedGood
  <2>8. SameKind(c, d)
    BY <1>1, <2>1, <2>3 DEF SameKind, JointCtl
  <2>9. ctl' = [ctl EXCEPT ![j] = d]
    BY <2>2 DEF x
  <2> QED BY <2>7, <2>8, <2>9
<1> QED BY <1>2, <1>3, <1>4, <1>5, <1>6, <1>7 DEF Ticking
-----------------------------------------------------------------------------
(* Steps that change no joint and no label keep the invariant.             *)
Still == UNCHANGED <<state, busUp, joints, ctl, recording, rec>>

LEMMA StillInv ==
  ASSUME Inv, Still, TypeOK', todo' \subseteq joints,
         pc' = "exited" => pc = "exited"
  PROVE  Inv'
BY DEF Still, Inv, JointsOK, BusOK, LabelShowsMotion, NothingLeftPowered,
       RecordingMatchesFiles, Some

(* A handler that ends in recomputeState keeps it.                         *)
LEMMA RecomputeInv ==
  ASSUME Inv, JointsOK', Recompute(ctl'), UNCHANGED <<busUp, joints, recording, rec, pc, todo>>,
         pc # "exited", state' \in States /\ event' \in States \cup {"none"} => TypeOK'
  PROVE  Inv'
<1>1. /\ state' \in States /\ event' \in States \cup {"none"}
      /\ busUp \/ state' = "Disconnected"
      /\ LabelShowsMotion'
      /\ state' = "Disconnected" => \A j \in Joints : ~ctl'[j].engaged
  BY RecomputeShows
<1>2. BusOK' /\ RecordingMatchesFiles'
  BY <1>1 DEF Inv, BusOK, RecordingMatchesFiles
<1>3. NothingLeftPowered'
  BY <1>1 DEF NothingLeftPowered
<1> QED BY <1>1, <1>2, <1>3 DEF Inv

(* A step after which no joint is powered keeps it, whatever the label.    *)
LEMMA ReleasedInv ==
  ASSUME Inv, TypeOK', JointsOK', BusOK', RecordingMatchesFiles',
         \A j \in Joints : ~ctl'[j].engaged
  PROVE  Inv'
<1>1. ~Some(ctl', Playing) /\ ~Some(ctl', Manual)
  BY Unpowered DEF Some, JointsOK
<1>2. LabelShowsMotion'
  BY <1>1 DEF LabelShowsMotion
<1>3. NothingLeftPowered'
  BY DEF NothingLeftPowered
<1> QED BY <1>2, <1>3 DEF Inv

(* The state after a handler is well typed when its parts are.             *)
LEMMA TakeType ==
  ASSUME Inv, queue # <<>>, queue' = Tail(queue), UNCHANGED <<pc, todo, frame>>,
         tick' \in {0, tick}, shutdown' \in BOOLEAN, JointsOK',
         joints' \subseteq Joints, busUp' \in BOOLEAN,
         state' \in States, event' \in States \cup {"none"},
         recording' \in BOOLEAN, rec' \subseteq Joints
  PROVE  TypeOK'
<1>1. queue' \in Seq(AllCommands)
  BY HeadType DEF Inv
<1>2. tick' \in 0 .. PublishEvery - 1
  BY ConstantsAssumption DEF Inv, TypeOK, ConstantsAssumption
<1>3. ctl' \in [Joints -> JointCtl]
  BY DEF JointsOK, GoodJoint
<1> QED BY <1>1, <1>2, <1>3 DEF Inv, TypeOK

(* The handlers that leave the loop, the bus and the recording alone.      *)
LEMMA ManualInv ==
  ASSUME Inv, NEW type, Take(type), ManualUnchanged, JointsOK',
         Recompute(ctl') \/ (UNCHANGED <<state, event>> /\ ctl' = ctl)
  PROVE  Inv'
<1>1. /\ queue # <<>> /\ queue' = Tail(queue) /\ UNCHANGED <<pc, todo, frame>>
      /\ UNCHANGED <<shutdown, tick, busUp, joints, recording, rec>> /\ pc # "exited"
  BY DEF Take, MayPop, ManualUnchanged, busVars, recVars
<1>2. state' \in States /\ event' \in States \cup {"none"} => TypeOK'
  BY <1>1, TakeType DEF Inv, TypeOK
<1>3. CASE Recompute(ctl')
  BY <1>1, <1>2, <1>3, RecomputeInv
<1>4. CASE UNCHANGED <<state, event>> /\ ctl' = ctl
  <2>1. TypeOK'
    BY <1>2, <1>4 DEF Inv, TypeOK
  <2> QED BY <1>1, <1>4, <2>1, StillInv DEF Still, Inv, BusOK
<1> QED BY <1>3, <1>4

(* Every joint keeps its kind of activity, and the label stays.            *)
LEMMA SameKindInv ==
  ASSUME Inv, JointsOK', TypeOK', UNCHANGED <<state, busUp, joints, recording, rec>>,
         todo' \subseteq joints, pc' = pc, \A j \in Joints : SameKind(ctl[j], ctl'[j])
  PROVE  Inv'
<1>1. /\ Some(ctl', Playing) => Some(ctl, Playing)
      /\ Some(ctl', Manual) => Some(ctl, Manual)
  BY DEF Some, SameKind
<1>2. LabelShowsMotion'
  BY <1>1 DEF Inv, LabelShowsMotion
<1>3. NothingLeftPowered'
  BY DEF Inv, NothingLeftPowered, SameKind
<1>4. BusOK' /\ RecordingMatchesFiles'
  BY DEF Inv, BusOK, RecordingMatchesFiles
<1> QED BY <1>2, <1>3, <1>4 DEF Inv

LEMMA LimitsInv == ASSUME Inv, SetLimits \/ ResetLimits PROVE Inv'
<1>1. JointsOK'
  BY LimitsJoints
<1>2. /\ queue # <<>> /\ queue' = Tail(queue) /\ UNCHANGED <<pc, todo, frame>>
      /\ UNCHANGED <<shutdown, tick, state, event, busUp, joints, recording, rec>>
  BY DEF SetLimits, ResetLimits, Take, ManualUnchanged, busVars, recVars
<1>3. TypeOK'
  BY <1>1, <1>2, TakeType DEF Inv, TypeOK
<1>4. ASSUME NEW j \in Joints PROVE SameKind(ctl[j], ctl'[j])
  <2>1. ctl[j] \in JointCtl /\ ctl \in [Joints -> JointCtl]
    BY DEF Inv, TypeOK
  <2>2. ctl'[j] = ctl[j] \/ (\E lo, hi : ctl'[j] = Explicit(ctl[j], lo, hi))
        \/ (\E now : ctl'[j] = Collapsed(ctl[j], now))
    BY <2>1 DEF SetLimits, ResetLimits
  <2> QED BY <2>1, <2>2 DEF SameKind, Explicit, Collapsed, JointCtl
<1> QED BY <1>1, <1>2, <1>3, <1>4, SameKindInv DEF Inv, BusOK

LEMMA StartInv == ASSUME Inv, StartTrajectory PROVE Inv'
<1>1. JointsOK' /\ Take("StartTrajectory") /\ ManualUnchanged
  BY StartJoints DEF StartTrajectory
<1> DEFINE ready == {j \in Msg.joints \cap joints : Playable(ctl[j], Msg.mode)}
<1>2. CASE ready = {}
  <2>1. ctl' = [j \in Joints |-> ctl[j]]
    BY <1>2 DEF StartTrajectory
  <2>2. ctl' = ctl /\ UNCHANGED <<state, event>>
    BY <1>2, <2>1 DEF StartTrajectory, Inv, TypeOK
  <2> QED BY <1>1, <2>2, ManualInv
<1>3. CASE ready # {}
  <2>1. Recompute(ctl')
    BY <1>3, Zenon DEF StartTrajectory
  <2> QED BY <1>1, <2>1, ManualInv
<1> QED BY <1>2, <1>3

LEMMA PauseInv == ASSUME Inv, Pause PROVE Inv'
<1>1. JointsOK' /\ Take("Pause") /\ ManualUnchanged
  BY PauseJoints DEF Pause
<1> DEFINE playing == {j \in joints : ctl[j].activity \in Playing}
<1>2. CASE playing = {}
  <2>1. ctl' = [j \in Joints |-> ctl[j]]
    BY <1>2 DEF Pause
  <2>2. ctl' = ctl /\ UNCHANGED <<state, event>>
    BY <1>2, <2>1 DEF Pause, Inv, TypeOK
  <2> QED BY <1>1, <2>2, ManualInv
<1>3. CASE playing # {}
  <2>1. Recompute(ctl')
    BY <1>3, Zenon DEF Pause
  <2> QED BY <1>1, <2>1, ManualInv
<1> QED BY <1>2, <1>3

LEMMA ManualHandlersInv ==
  ASSUME Inv,
         \/ JogStop \/ JogStart \/ JogIgnored \/ CurrentRelease \/ CurrentStart
         \/ CurrentIgnored \/ GoTo \/ GoToIgnored
         \/ CaptureIgnored \/ CaptureStart \/ CaptureFinish
  PROVE  Inv'
<1>1. ManualUnchanged /\ joints' = joints
  BY DEF JogStop, JogStart, JogIgnored, CurrentRelease, CurrentStart, CurrentIgnored, GoTo,
         GoToIgnored, CaptureIgnored, CaptureStart, CaptureFinish, ManualUnchanged, busVars
<1>2. CASE JogStop \/ JogStart
  BY <1>1, <1>2, JogJoints, ManualInv DEF JogStop, JogStart
<1>3. CASE CurrentRelease \/ CurrentStart
  BY <1>1, <1>3, CurrentJoints, ManualInv DEF CurrentRelease, CurrentStart
<1>4. CASE GoTo
  BY <1>1, <1>4, GoToJoints, ManualInv DEF GoTo
<1>5. CASE CaptureStart \/ CaptureFinish
  BY <1>1, <1>5, CaptureJoints, ManualInv DEF CaptureStart, CaptureFinish
<1>6. CASE JogIgnored \/ CurrentIgnored \/ GoToIgnored \/ CaptureIgnored
  <2>1. ctl' = ctl /\ UNCHANGED <<state, event>>
    BY <1>6 DEF JogIgnored, CurrentIgnored, GoToIgnored, CaptureIgnored
  <2> QED BY <1>1, <1>6, <2>1, NoJoint, ManualInv
        DEF JogIgnored, CurrentIgnored, GoToIgnored, CaptureIgnored
<1> QED BY <1>2, <1>3, <1>4, <1>5, <1>6

(* The handlers that idle every joint.                                     *)
LEMMA IdlingInv == ASSUME Inv, Reconnect \/ Disconnect \/ Stop \/ ResetFault PROVE Inv'
<1> USE DEF Take, ManualUnchanged, busVars, recVars, SetState
<1>1. /\ queue # <<>> /\ queue' = Tail(queue)
      /\ UNCHANGED <<pc, todo, frame, shutdown, joints, busUp>>
      /\ tick' \in {0, tick}
  BY DEF Reconnect, Disconnect, Stop, ResetFault
<1>2. ctl' = AllIdled
  <2>1. CASE ResetFault /\ ~busUp
    <3>1. ctl' = ctl /\ joints = {}
      BY <2>1 DEF ResetFault, Inv, BusOK
    <3> QED BY <3>1 DEF AllIdled, Inv, TypeOK
  <2> QED BY <2>1 DEF Reconnect, Disconnect, Stop, ResetFault
<1>3. JointsOK' /\ \A j \in Joints : ~ctl'[j].engaged
  BY <1>1, <1>2, NoneLeft
<1>4. /\ state' \in States /\ event' \in States \cup {"none"}
      /\ busUp \/ state' = "Disconnected"
  <2>1. CASE busUp
    BY <2>1 DEF Reconnect, Disconnect, Stop, ResetFault, States, Inv, TypeOK
  <2>2. CASE ~busUp
    <3>1. joints = {} /\ state = "Disconnected"
      BY <2>2 DEF Inv, BusOK
    <3> QED BY <2>2, <3>1 DEF Reconnect, Disconnect, Stop, ResetFault, Recompute, States, Inv, TypeOK
  <2> QED BY <2>1, <2>2
<1>5. UNCHANGED <<recording, rec>> \/ (recording' = FALSE /\ rec' = {})
  BY DEF Reconnect, Disconnect, Stop, ResetFault, StopRecording
<1>6. TypeOK'
  BY <1>1, <1>3, <1>4, <1>5, TakeType DEF Inv, TypeOK
<1>7. BusOK' /\ RecordingMatchesFiles'
  BY <1>1, <1>4, <1>5 DEF Inv, BusOK, RecordingMatchesFiles
<1> QED BY <1>3, <1>6, <1>7, ReleasedInv

LEMMA ConnectInv == ASSUME Inv, Connect PROVE Inv'
<1>1. JointsOK' /\ \A j \in Joints : ~ctl'[j].engaged
  BY ConnectJoints
<1>2. /\ joints' \in (SUBSET Joints) \ {{}} /\ busUp' = TRUE /\ tick' = 0 /\ ~busUp
      /\ state' = "Capturing" /\ event' = "Capturing"
      /\ queue # <<>> /\ queue' = Tail(queue)
      /\ UNCHANGED <<pc, todo, frame, shutdown, recording, rec>>
  BY DEF Connect, Take, recVars, SetState
<1>3. TypeOK'
  BY <1>1, <1>2, TakeType DEF Inv, TypeOK, States
<1>4. joints = {} /\ todo = {} /\ rec = {}
  BY <1>2 DEF Inv, BusOK, RecordingMatchesFiles
<1>5. BusOK'
  <2>1. busUp'
    BY <1>2, Zenon
  <2>2. joints' # {} /\ todo' = {}
    BY <1>2, <1>4
  <2> QED BY <2>1, <2>2 DEF BusOK
<1>6. RecordingMatchesFiles'
  BY <1>2, <1>4 DEF Inv, RecordingMatchesFiles
<1> QED BY <1>1, <1>3, <1>5, <1>6, ReleasedInv

LEMMA RecordInv == ASSUME Inv, RecordStart \/ RecordStop PROVE Inv'
<1>1. /\ queue # <<>> /\ queue' = Tail(queue) /\ UNCHANGED <<pc, todo, frame>>
      /\ UNCHANGED <<shutdown, tick, state, event, busUp, joints, ctl>> /\ pc # "exited"
  BY DEF RecordStart, RecordStop, Take, MayPop, busVars
<1>2. recording' \in BOOLEAN /\ (recording' <=> rec' # {}) /\ rec' \subseteq joints
  BY DEF RecordStart, RecordStop, StopRecording, recVars, Inv, TypeOK, RecordingMatchesFiles
<1>3. JointsOK'
  BY <1>1, NoJoint
<1>4. TypeOK'
  BY <1>1, <1>2, <1>3, TakeType DEF Inv, TypeOK
<1> QED BY <1>1, <1>2, <1>3, <1>4 DEF Inv, BusOK, LabelShowsMotion, NothingLeftPowered,
                                     RecordingMatchesFiles, Some

(* The loop around the handlers, and the clients.                          *)
LEMMA LoopInv ==
  ASSUME Inv,
         \/ ConnectFails \/ Shutdown \/ Resume \/ WaitAgain \/ BeginTick \/ EndTick
         \/ DrainEvents \/ \E c \in Commands : Post(c)
  PROVE  Inv'
<1> USE DEF busVars, recVars, loopVars, LoopUnchanged
<1>1. (Still /\ UNCHANGED tick) \/ (Still /\ EndTick) \/ (Still /\ ConnectFails)
  BY DEF ConnectFails, Shutdown, Resume, WaitAgain, BeginTick, EndTick, DrainEvents, Post, Still
<1>2. JointsOK'
  BY <1>1, NoJoint DEF Still
<1>3. todo' \subseteq joints /\ (pc' = "exited" => pc = "exited")
      /\ pc' \in {"waiting", "draining", "control", "exited"}
  BY DEF ConnectFails, Shutdown, Resume, WaitAgain, BeginTick, EndTick, DrainEvents, Post,
         Take, Inv, BusOK, TypeOK
<1>4. tick' \in 0 .. PublishEvery - 1
  BY ConstantsAssumption DEF ConstantsAssumption, ConnectFails, Shutdown, Resume, WaitAgain,
     BeginTick, EndTick, DrainEvents, Post, Inv, TypeOK
<1>5. queue' \in Seq(AllCommands)
  <2>1. CASE ConnectFails \/ Shutdown
    BY <2>1, HeadType DEF ConnectFails, Shutdown, Take, Inv
  <2>2. CASE \E c \in Commands : Post(c)
    BY <2>2, ConstantsAssumption DEF Post, ConstantsAssumption, Inv, TypeOK
  <2> QED BY <2>1, <2>2 DEF Resume, WaitAgain, BeginTick, EndTick, DrainEvents, Inv, TypeOK
<1>6. /\ shutdown' \in BOOLEAN /\ frame' \in BOOLEAN
      /\ event' \in States \cup {"none"}
  BY DEF ConnectFails, Shutdown, Resume, WaitAgain, BeginTick, EndTick, DrainEvents, Post,
         Take, Inv, TypeOK
<1>7. TypeOK'
  BY <1>1, <1>3, <1>4, <1>5, <1>6 DEF Inv, TypeOK, Still, BusOK
<1> QED BY <1>1, <1>3, <1>7, StillInv

LEMMA ExitInv == ASSUME Inv, Exit PROVE Inv'
<1> USE DEF busVars, recVars
<1>1. /\ pc' = "exited" /\ UNCHANGED <<queue, shutdown, todo, tick, state, event, joints, busUp, frame>>
  BY DEF Exit
<1>2. JointsOK' /\ \A j \in Joints : ~ctl'[j].engaged
  <2>1. CASE busUp
    BY <1>1, <2>1, NoneLeft DEF Exit
  <2>2. CASE ~busUp
    <3>1. ctl' = ctl /\ joints = {}
      BY <2>2 DEF Exit, Inv, BusOK
    <3> QED BY <1>1, <3>1, NoJoint DEF JointsOK
  <2> QED BY <2>1, <2>2
<1>3. recording' = FALSE /\ rec' = {}
  BY DEF Exit, StopRecording, Inv, BusOK, RecordingMatchesFiles, TypeOK
<1>4. TypeOK'
  BY <1>1, <1>2, <1>3 DEF Inv, TypeOK, JointsOK, GoodJoint
<1>5. BusOK' /\ RecordingMatchesFiles'
  BY <1>1, <1>3 DEF Inv, BusOK, RecordingMatchesFiles
<1> QED BY <1>2, <1>4, <1>5, ReleasedInv

LEMMA TickInv == ASSUME Inv, NEW j \in Joints, TickJoint(j) PROVE Inv'
<1> USE DEF LoopUnchanged, busVars, recVars
<1>1. /\ j \in joints /\ j \in todo /\ todo' = todo \ {j} /\ pc = "control"
      /\ UNCHANGED <<pc, tick, frame, queue, shutdown, busUp, joints, recording, rec>>
  BY DEF TickJoint, TickIdle, TickCapture, TickJog, TickGoTo, TickCurrent, TickTrajectory,
         SafetyAbort, Serve, Inv, BusOK
<1>2. todo' \subseteq joints
  BY <1>1 DEF Inv, BusOK
<1>3. ASSUME JointsOK', state' \in States, event' \in States \cup {"none"} PROVE TypeOK'
  BY <1>1, <1>2, <1>3 DEF Inv, TypeOK, JointsOK, GoodJoint
<1>4. CASE Ticking(j)
  <2>1. PICK d \in GoodJoint : ctl' = [ctl EXCEPT ![j] = d] /\ SameKind(ctl[j], d)
    BY <1>4, TickedJoint
  <2>2. JointsOK'
    BY <1>1, <2>1, OneJoint
  <2>3. UNCHANGED <<state, event>>
    BY <1>4 DEF Ticking, TickIdle, TickCapture, TickJog, TickGoTo, TickCurrent, TickTrajectory
  <2>4. ASSUME NEW k \in Joints PROVE SameKind(ctl[k], ctl'[k])
    <3>1. ctl'[k] = IF k = j THEN d ELSE ctl[k]
      BY <2>1 DEF Inv, TypeOK
    <3> QED BY <2>1, <3>1 DEF SameKind
  <2>5. TypeOK'
    BY <1>3, <2>2, <2>3 DEF Inv, TypeOK
  <2> QED BY <1>1, <1>2, <2>2, <2>3, <2>4, <2>5, SameKindInv
<1>5. CASE SafetyAbort(j)
  <2>1. ctl' = [ctl EXCEPT ![j] = Idled(ctl[j])] /\ state' = "Faulted" /\ event' = "Faulted"
    BY <1>5 DEF SafetyAbort, SetState
  <2>2. JointsOK'
    BY <1>1, <2>1, IdledGood, OneJoint DEF Inv, JointsOK
  <2>3. TypeOK'
    BY <1>3, <2>1, <2>2 DEF States
  <2>4. busUp
    BY <1>1 DEF Inv, BusOK
  <2>5. LabelShowsMotion' /\ NothingLeftPowered'
    BY <1>1, <2>1 DEF LabelShowsMotion, NothingLeftPowered
  <2>6. BusOK' /\ RecordingMatchesFiles'
    BY <1>1, <1>2, <2>4 DEF Inv, BusOK, RecordingMatchesFiles
  <2> QED BY <2>2, <2>3, <2>5, <2>6 DEF Inv
<1> QED BY <1>4, <1>5 DEF TickJoint, Ticking

LEMMA StepInv == Inv /\ [Next]_vars => Inv'
<1> SUFFICES ASSUME Inv, [Next]_vars PROVE Inv'
  OBVIOUS
<1>1. CASE HandleCommand
  BY <1>1, IdlingInv, ConnectInv, LoopInv, ManualHandlersInv, LimitsInv, StartInv, PauseInv,
     RecordInv DEF HandleCommand
<1>2. CASE \E j \in Joints : TickJoint(j)
  BY <1>2, TickInv
<1>3. CASE Resume \/ WaitAgain \/ BeginTick \/ EndTick \/ DrainEvents \/ \E c \in Commands : Post(c)
  BY <1>3, LoopInv
<1>4. CASE Exit
  BY <1>4, ExitInv
<1>5. CASE UNCHANGED vars
  <2>1. Still /\ todo' = todo /\ pc' = pc
    BY <1>5 DEF vars, Still
  <2>2. TypeOK'
    BY <1>5 DEF vars, Inv, TypeOK
  <2> QED BY <2>1, <2>2, StillInv DEF Inv, BusOK
<1> QED BY <1>1, <1>2, <1>3, <1>4, <1>5 DEF Next, Worker, Exited

THEOREM InvariantHolds == Spec => []Inv
<1> QED BY InitInv, StepInv, PTL DEF Spec

(* TypeOK, for any constants: the bounded counts, the queue of commands,   *)
(* and every joint's record.                                               *)
THEOREM TypeCorrect == Spec => []TypeOK
<1>1. Inv => TypeOK
  BY DEF Inv
<1> QED BY InvariantHolds, <1>1, PTL

(* engageJoint and idleJoint pair up in every handler: a drive is powered  *)
(* exactly while its joint performs a powered activity.                    *)
THEOREM PowerCorrect == Spec => []PoweredMatchesActivity
<1>1. Inv => PoweredMatchesActivity
  BY DEF Inv, JointsOK, GoodJoint, PoweredMatchesActivity
<1> QED BY InvariantHolds, <1>1, PTL

(* Soft limits inside hard limits, through every handler that sets them.   *)
THEOREM EnvelopeCorrect == Spec => []EnvelopeOrdered
<1>1. Inv => EnvelopeOrdered
  BY DEF Inv, JointsOK, GoodJoint, EnvelopeOrdered
<1> QED BY InvariantHolds, <1>1, PTL

(* The operator is never shown rest while a joint is under position        *)
(* control, for any number of joints.                                      *)
THEOREM LabelCorrect == Spec => []LabelShowsMotion
<1>1. Inv => LabelShowsMotion
  BY DEF Inv
<1> QED BY InvariantHolds, <1>1, PTL

(* Nothing is powered after a disconnect or when the thread is gone.       *)
THEOREM ReleaseCorrect == Spec => []NothingLeftPowered
<1>1. Inv => NothingLeftPowered
  BY DEF Inv
<1> QED BY InvariantHolds, <1>1, PTL

(* The recording flag and the open files agree in every state.             *)
THEOREM RecordingCorrect == Spec => []RecordingMatchesFiles
<1>1. Inv => RecordingMatchesFiles
  BY DEF Inv
<1> QED BY InvariantHolds, <1>1, PTL
-----------------------------------------------------------------------------
(* Faulted is only left through a handler that idles every joint.          *)
THEOREM FaultSticky == Spec => FaultClearedOnlyByIdling
<1> DEFINE Cleared == state = "Faulted" /\ state' # "Faulted" => \A j \in Joints : ~ctl'[j].engaged
<1>1. ASSUME Inv, [Next]_vars PROVE Cleared
  <2> SUFFICES ASSUME state = "Faulted", state' # "Faulted"
               PROVE  \A j \in Joints : ~ctl'[j].engaged
    OBVIOUS
  <2>1. busUp
    BY <1>1 DEF Inv, BusOK
  <2>2. ~Recompute(ctl')
    BY DEF Recompute
  <2>3. Reconnect \/ Disconnect \/ Stop \/ ResetFault
    <3>1. ~(UNCHANGED state)
      OBVIOUS
    <3>2. ~Connect
      BY <2>1 DEF Connect
    <3>3. \A j \in Joints : ~TickJoint(j)
      BY <3>1 DEF TickJoint, TickIdle, TickCapture, TickJog, TickGoTo, TickCurrent,
                  TickTrajectory, SafetyAbort, SetState
    <3>4. ~(Resume \/ WaitAgain \/ BeginTick \/ EndTick \/ Exit \/ Exited \/ DrainEvents)
      BY <3>1 DEF Resume, WaitAgain, BeginTick, EndTick, Exit, Exited, DrainEvents, vars
    <3>5. \A c \in Commands : ~Post(c)
      BY <3>1 DEF Post
    <3>6. ~(ConnectFails \/ JogStop \/ JogStart \/ JogIgnored \/ CurrentRelease \/ CurrentStart
            \/ CurrentIgnored \/ GoTo \/ GoToIgnored
            \/ CaptureIgnored \/ CaptureStart \/ CaptureFinish)
      BY <2>2, <3>1 DEF ConnectFails, JogStop, JogStart, JogIgnored, CurrentRelease,
         CurrentStart, CurrentIgnored, GoTo, GoToIgnored, CaptureIgnored, CaptureStart,
         CaptureFinish
    <3>7. ~(SetLimits \/ ResetLimits \/ StartTrajectory \/ Pause)
      BY <2>2, <3>1, Zenon DEF SetLimits, ResetLimits, StartTrajectory, Pause
    <3>8. ~(RecordStart \/ RecordStop \/ Shutdown)
      BY <3>1 DEF RecordStart, RecordStop, Shutdown
    <3> QED BY <1>1, <3>1, <3>2, <3>3, <3>4, <3>5, <3>6, <3>7, <3>8 DEF Next, Worker, HandleCommand, vars
  <2>4. ctl' = AllIdled
    BY <2>1, <2>3 DEF Reconnect, Disconnect, Stop, ResetFault
  <2> QED BY <1>1, <2>4, AllIdledGood
<1>2. Spec => [][Cleared]_vars
  <2>1. Inv /\ [Next]_vars => [Cleared]_vars
    BY <1>1
  <2> QED BY <2>1, InvariantHolds, PTL DEF Spec
<1> QED BY <1>2 DEF FaultClearedOnlyByIdling

(* A joint is served by a tick of its own.                                 *)
LEMMA TickedByOwnStep ==
  ASSUME Inv, Next, NEW j \in Joints, Ticked(j)
  PROVE  TickJoint(j)
<1> USE DEF Ticked, LoopUnchanged
<1>1. \A i \in Joints : TickJoint(i) => todo' = todo \ {i}
  BY DEF TickJoint, TickIdle, TickCapture, TickJog, TickGoTo, TickCurrent, TickTrajectory,
         SafetyAbort, Serve
<1>2. ~HandleCommand
  BY DEF HandleCommand, Reconnect, ConnectFails, Connect, Disconnect, JogStop, JogStart,
     JogIgnored, CurrentRelease, CurrentStart, CurrentIgnored, GoTo, GoToIgnored,
     CaptureIgnored, CaptureStart, CaptureFinish, SetLimits, ResetLimits, StartTrajectory,
     Stop, ResetFault, Pause, RecordStart, RecordStop, Shutdown, Take
<1>3. ~BeginTick
  BY DEF BeginTick, Inv, BusOK
<1>4. ~(Resume \/ WaitAgain \/ EndTick \/ Exit \/ Exited \/ DrainEvents)
  BY DEF Resume, WaitAgain, EndTick, Exit, Exited, DrainEvents, vars, loopVars
<1>5. \A c \in Commands : ~Post(c)
  BY DEF Post, loopVars
<1>6. PICK i \in Joints : TickJoint(i)
  BY <1>2, <1>3, <1>4, <1>5 DEF Next, Worker
<1>7. i = j
  BY <1>1, <1>6
<1> QED BY <1>6, <1>7

(* What a tick sends to a jogging or playing joint lies in its envelope,   *)
(* whatever sequence of handlers has set the hard and the soft limits.     *)
THEOREM SetpointBounded == Spec => SetpointInsideEnvelope
<1> DEFINE Moving(j) == ctl[j].activity \in Playing \/ (ctl[j].activity = "Jog" /\ ctl[j].limits_set)
           Inside == \A j \in Joints :
             Ticked(j) /\ ctl'[j].engaged
               /\ (ctl[j].activity \in Playing \/ (ctl[j].activity = "Jog" /\ ctl[j].limits_set))
             => ctl'[j].cmd \in ctl[j].min .. ctl[j].max
<1>1. ASSUME Inv, Next, NEW j \in Joints, Ticked(j), ctl'[j].engaged, Moving(j)
      PROVE  ctl'[j].cmd \in ctl[j].min .. ctl[j].max
  <2> DEFINE c == ctl[j]
  <2>1. c \in GoodJoint /\ c \in JointCtl /\ ctl \in [Joints -> GoodJoint]
    BY <1>1 DEF Inv, JointsOK, GoodJoint
  <2>2. TickJoint(j)
    BY <1>1, TickedByOwnStep
  <2>3. ~SafetyAbort(j)
    <3>1. ~Idled(c).engaged
      BY <2>1 DEF Idled, JointCtl
    <3>2. SafetyAbort(j) => ctl'[j] = Idled(c)
      BY <2>1 DEF SafetyAbort
    <3> QED BY <1>1, <3>1, <3>2
  <2>4. CASE TickJog(j)
    <3>1. PICK step \in {0, c.arg} : ctl' = [ctl EXCEPT ![j] = Jogged(c, step)]
      BY <2>4 DEF TickJog
    <3>2. c.limits_set /\ c.cmd + step \in Int
      BY <1>1, <2>1, <2>4, GoodFields DEF TickJog, Serve, JointCtl
    <3>3. ctl'[j].cmd = Limited(c, c.cmd + step)
      BY <2>1, <3>1, <3>2 DEF Jogged, JointCtl
    <3> QED BY <2>1, <3>2, <3>3, LimitedBounds
  <2>5. CASE TickTrajectory(j)
    <3>1. c.activity \in Playing
      BY <2>5 DEF TickTrajectory, Serve
    <3>2. PICK r \in Readings, phase \in NextPhase(c.activity),
               ref \in IF c.activity = "Hold" THEN {c.arg} ELSE Counts :
            ctl' = [ctl EXCEPT ![j] = [c EXCEPT !.last_error = r.error, !.activity = phase,
                                                !.cmd = Limited(c, ref)]]
      BY <2>5, Zenon DEF TickTrajectory
    <3>3. ref \in Int
      BY <2>1, <3>1, CountsInt DEF GoodJoint, ArgMatches
    <3>4. ctl'[j].cmd = Limited(c, ref)
      BY <2>1, <3>2 DEF JointCtl
    <3> QED BY <2>1, <3>3, <3>4, LimitedBounds
  <2>6. ~TickIdle(j) /\ ~TickCapture(j) /\ ~TickGoTo(j) /\ ~TickCurrent(j)
    BY <1>1 DEF TickIdle, TickCapture, TickGoTo, TickCurrent, Serve
  <2> QED BY <2>2, <2>3, <2>4, <2>5, <2>6 DEF TickJoint
<1>2. Inv /\ [Next]_vars => [Inside]_vars
  BY <1>1
<1>3. Spec => [][Inside]_vars
  BY <1>2, InvariantHolds, PTL DEF Spec
<1> QED BY <1>3 DEF SetpointInsideEnvelope
-----------------------------------------------------------------------------
(* The handlers that power a joint ask for an envelope or a trail.         *)
LEMMA PowerGuarded ==
  ASSUME Inv, MinRange # 0, NEW j \in Joints, ~ctl[j].engaged, ctl'[j].engaged,
         JogStart \/ CurrentStart \/ GoTo \/ StartTrajectory
  PROVE  ctl[j].limits_set \/ (ctl[j].trail /\ ctl'[j].activity = "Hold")
<1>1. ctl[j] \in GoodJoint /\ ctl[j] \in JointCtl /\ ctl \in [Joints -> GoodJoint]
  BY DEF Inv, JointsOK, GoodJoint
<1>2. CASE JogStart \/ CurrentStart \/ GoTo
  <2>1. ctl[Msg.joint].limits_set
    BY <1>2 DEF JogStart, CurrentStart, GoTo, Blocked
  <2>2. j # Msg.joint => ctl'[j] = ctl[j]
    BY <1>1, <1>2 DEF JogStart, CurrentStart, GoTo
  <2>3. j = Msg.joint
    BY <2>2
  <2> QED BY <2>1, <2>3
<1>3. CASE StartTrajectory
  <2> DEFINE ready == {i \in Msg.joints \cap joints : Playable(ctl[i], Msg.mode)}
             logs == Msg.enable_logging
  <2>1. PICK now \in [ready -> Counts], opened \in SUBSET ready,
            dir \in IF logs THEN BOOLEAN ELSE {FALSE} :
          ctl' = [i \in Joints |->
                    IF i \in ready THEN Started(ctl[i], now[i], dir, i \in opened, logs)
                    ELSE ctl[i]]
    BY <1>3, ZenonT(120) DEF StartTrajectory
  <2>2. j \in ready /\ ctl'[j] = Started(ctl[j], now[j], dir, j \in opened, logs)
    BY <2>1
  <2>3. ctl'[j].activity = "Hold"
    BY <1>1, <2>2 DEF Started, Engage, JointCtl
  <2>4. ctl[j].trail \/ ctl[j].max - ctl[j].min >= MinRange
    BY <2>2 DEF Playable
  <2>5. ASSUME ctl[j].max - ctl[j].min >= MinRange PROVE ctl[j].limits_set
    <3>1. ctl[j].min \in Int /\ ctl[j].max \in Int /\ MinRange \in Nat /\ MinRange # 0
      BY <1>1, GoodFields, ConstantsAssumption DEF ConstantsAssumption
    <3>2. ctl[j].min < ctl[j].max
      BY <2>5, <3>1
    <3> QED BY <1>1, <3>2 DEF GoodJoint, Ordered
  <2> QED BY <2>3, <2>4, <2>5
<1> QED BY <1>2, <1>3

(* No other step powers a joint.                                           *)
LEMMA PoweredByHandler ==
  ASSUME Inv, Next, NEW j \in Joints, ~ctl[j].engaged, ctl'[j].engaged
  PROVE  JogStart \/ CurrentStart \/ GoTo \/ StartTrajectory
<1>1. ctl[j] \in GoodJoint /\ ctl[j] \in JointCtl /\ ctl \in [Joints -> GoodJoint]
      /\ joints \subseteq Joints
  BY DEF Inv, JointsOK, GoodJoint, TypeOK
<1>2. ctl' # ctl
  OBVIOUS
<1>3. ~(ConnectFails \/ JogIgnored \/ CurrentIgnored \/ GoToIgnored \/ CaptureIgnored \/ RecordStart
        \/ RecordStop \/ Shutdown)
  BY <1>2 DEF ConnectFails, JogIgnored, CurrentIgnored, GoToIgnored, CaptureIgnored,
     RecordStart, RecordStop,
     Shutdown
<1>4. ~(Resume \/ WaitAgain \/ BeginTick \/ EndTick \/ Exited \/ DrainEvents)
      /\ \A c \in Commands : ~Post(c)
  BY <1>2 DEF Resume, WaitAgain, BeginTick, EndTick, Exited, DrainEvents, Post, vars
<1>5. ~(Reconnect \/ Disconnect \/ Stop \/ ResetFault \/ Exit)
  <2>1. ctl' # AllIdled
    BY AllIdledGood
  <2> QED BY <1>2, <2>1 DEF Reconnect, Disconnect, Stop, ResetFault, Exit
<1>6. ~Connect
  BY ConnectJoints
<1>7. ~JogStop /\ ~Pause
  <2>1. ASSUME JogStop PROVE FALSE
    <3>1. ctl'[j] = IF j = Msg.joint /\ ctl[j].activity = "Jog" THEN Holding(ctl[j]) ELSE ctl[j]
      BY <1>1, <2>1 DEF JogStop
    <3>2. ctl[j].activity # "Jog"
      BY <1>1 DEF GoodJoint, PowerMatches
    <3> QED BY <3>1, <3>2
  <2>2. ASSUME Pause PROVE FALSE
    <3>1. ctl[j].activity \notin Playing
      BY <1>1 DEF GoodJoint, PowerMatches
    <3>2. ctl'[j] = ctl[j]
      BY <2>2, <3>1 DEF Pause
    <3> QED BY <3>2
  <2> QED BY <2>1, <2>2
<1>8. ~CurrentRelease /\ ~CaptureStart /\ ~CaptureFinish
  <2>1. ASSUME CurrentRelease PROVE FALSE
    <3>1. ctl'[j] = ctl[j] \/ ctl'[j] = Idled(ctl[j])
      BY <1>1, <2>1 DEF CurrentRelease
    <3> QED BY <1>1, <3>1 DEF Idled, JointCtl
  <2>2. ASSUME CaptureStart PROVE FALSE
    <3>1. ctl'[j] = ctl[j] \/ \E now : ctl'[j] = Perform(Collapsed(Idled(ctl[j]), now), "Capture", 0)
      BY <1>1, <2>2 DEF CaptureStart
    <3> QED BY <1>1, <3>1, ZenonT(40) DEF Perform, Collapsed, Idled, JointCtl
  <2>3. ASSUME CaptureFinish PROVE FALSE
    <3>1. ctl'[j] = ctl[j] \/ ctl'[j] = CaptureFinished(ctl[j])
      BY <1>1, <2>3 DEF CaptureFinish
    <3> QED BY <1>1, <3>1 DEF CaptureFinished, JointCtl
  <2> QED BY <2>1, <2>2, <2>3
<1>9. ~SetLimits /\ ~ResetLimits
  <2>1. SetLimits \/ ResetLimits =>
          \/ ctl'[j] = ctl[j] \/ (\E lo, hi : ctl'[j] = Explicit(ctl[j], lo, hi))
          \/ (\E now : ctl'[j] = Collapsed(ctl[j], now))
    BY <1>1 DEF SetLimits, ResetLimits
  <2> QED BY <1>1, <2>1 DEF Explicit, Collapsed, JointCtl
<1>10. \A i \in Joints : ~TickJoint(i)
  <2> SUFFICES ASSUME NEW i \in Joints, TickJoint(i) PROVE FALSE
    OBVIOUS
  <2>1. CASE SafetyAbort(i)
    <3>1. ctl'[j] = ctl[j] \/ ctl'[j] = Idled(ctl[j])
      BY <1>1, <2>1 DEF SafetyAbort
    <3> QED BY <1>1, <3>1 DEF Idled, JointCtl
  <2>2. CASE Ticking(i)
    <3>1. PICK d \in GoodJoint : ctl' = [ctl EXCEPT ![i] = d] /\ SameKind(ctl[i], d)
      BY <2>2, TickedJoint
    <3>2. ctl'[j] = ctl[j] \/ (i = j /\ ctl'[j] = d)
      BY <1>1, <3>1
    <3> QED BY <3>1, <3>2 DEF SameKind
  <2> QED BY <2>1, <2>2 DEF TickJoint, Ticking
<1> QED BY <1>3, <1>4, <1>5, <1>6, <1>7, <1>8, <1>9, <1>10 DEF Next, Worker, HandleCommand

(* Powered motion starts from an envelope that spans a range, or plays a   *)
(* recorded trail.  A profile with min_range_deg = 0 is excluded: it lets  *)
(* a parametric trajectory start without an envelope.                      *)
THEOREM PowerNeedsEnvelope == ASSUME MinRange # 0 PROVE Spec => EnvelopeBeforePower
<1> DEFINE Guarded == \A j \in Joints :
             ~ctl[j].engaged /\ ctl'[j].engaged =>
               \/ ctl[j].limits_set
               \/ ctl[j].trail /\ ctl'[j].activity = "Hold"
<1>1. Inv /\ Next => Guarded
  BY PoweredByHandler, PowerGuarded
<1>2. Inv /\ [Next]_vars => [Guarded]_vars
  BY <1>1
<1>3. Spec => [][Guarded]_vars
  BY <1>2, InvariantHolds, PTL DEF Spec
<1> QED BY <1>3 DEF EnvelopeBeforePower
=============================================================================
