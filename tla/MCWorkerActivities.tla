------------------------- MODULE MCWorkerActivities -------------------------
(***************************************************************************)
(* One joint and every command but the recording: all paths between the    *)
(* activities, and every order of the commands that change the envelope.   *)
(***************************************************************************)
EXTENDS ControllerWorker

CONSTANT j1

MCJoints == {j1}
MCCommands ==
       [type : {"Connect", "Disconnect", "Stop", "ResetFault", "Pause", "Shutdown"}]
  \cup [type : {"Jog"}, joint : {j1}, velocity : {-1, 0, 1}]
  \cup [type : {"Current"}, joint : {j1}, amps : {1}, release : BOOLEAN]
  \cup [type : {"GoTo"}, joint : {j1}, target : {0, 2}]
  \cup [type : {"CaptureLimits"}, joints : {{j1}}, start : BOOLEAN]
  \cup [type : {"CaptureLimits"}, joints : {{}}, start : {TRUE}]
  \cup [type : {"SetLimits"}, joint : {j1}, min : {1}, max : {0, 1, 2}]
  \cup [type : {"ResetLimits"}, joint : {j1}]
  \cup [type : {"StartTrajectory"}, joints : {{j1}},
        mode : {"spline", "parametric"}, enable_logging : {TRUE}]
=============================================================================
