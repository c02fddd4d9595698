---------------------------- MODULE MCWorkerStop ----------------------------
(***************************************************************************)
(* Emergency stop, shutdown and recording with other commands queued       *)
(* around them, and a current that trips by an error code read twice.      *)
(***************************************************************************)
EXTENDS ControllerWorker

CONSTANT j1

MCJoints == {j1}
MCCommands ==
       [type : {"Connect", "Disconnect", "Stop", "Shutdown"}]
  \cup [type : {"Jog"}, joint : {j1}, velocity : {1}]
  \cup [type : {"Current"}, joint : {j1}, amps : {1}, release : {FALSE}]
  \cup [type : {"Record"}, start : BOOLEAN]
=============================================================================
