------------------------------ MODULE MCSession ------------------------------
(***************************************************************************)
(* Two joints with envelopes of their own, a single count included, one of *)
(* which may start its trajectory a tick later, and a clock that reaches   *)
(* into the trajectory of both.                                            *)
(***************************************************************************)
EXTENDS ConsoleSession

CONSTANTS hip, knee

MCJoints == {hip, knee}
=============================================================================
