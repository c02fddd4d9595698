------------------------------ MODULE MCConsole ------------------------------
(***************************************************************************)
(* One joint under a window: connecting, which begins to capture its       *)
(* limits, jogging by press and hold, recording, and a spline that is      *)
(* refused, or trips while it plays.                                       *)
(***************************************************************************)
EXTENDS Console

CONSTANT j1

MCJoints == {j1}
MCCommands ==
  [type : {"Connect", "Disconnect"}]
  \cup [type : {"Record"}, start : BOOLEAN]
  \cup [type : {"Jog"}, joint : {j1}, velocity : {0, 1}]
  \cup [type : {"StartTrajectory"}, joints : {{j1}}, mode : {"spline"}, enable_logging : {FALSE}]
=============================================================================
