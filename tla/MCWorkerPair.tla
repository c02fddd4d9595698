---------------------------- MODULE MCWorkerPair ----------------------------
(***************************************************************************)
(* Two interchangeable joints: a controller state that depends on both,    *)
(* and faults on one while the other moves.                                *)
(***************************************************************************)
EXTENDS ControllerWorker, TLC

CONSTANTS j1, j2

MCJoints == {j1, j2}
MCCommands ==
       [type : {"Connect", "Disconnect", "Stop", "ResetFault", "Pause"}]
  \cup [type : {"Jog"}, joint : MCJoints, velocity : {0, 1}]
  \cup [type : {"CaptureLimits"}, joints : {MCJoints}, start : {TRUE}]
  \cup [type : {"StartTrajectory"}, joints : {MCJoints},
        mode : {"parametric"}, enable_logging : {FALSE}]
JointSymmetry == Permutations(MCJoints)
=============================================================================
