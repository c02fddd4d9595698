------------------------------- MODULE MCSweep -------------------------------
(***************************************************************************)
(* One form of three different currents, so that a sample of an older step *)
(* shows, and one of a single current, whose first step is also its last.  *)
(* Dwell is two periods, the least for which a step has a frame of its own *)
(* current.                                                                *)
(***************************************************************************)
EXTENDS LockedRotorTest

MCForms == {
  [start |-> 1, end |-> -2, step |-> 2, ret |-> FALSE, opp |-> FALSE, invert |-> TRUE],
  [start |-> 1, end |-> 1, step |-> 1, ret |-> TRUE, opp |-> TRUE, invert |-> FALSE]
}
=============================================================================
