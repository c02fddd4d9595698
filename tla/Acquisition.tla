----------------------------- MODULE Acquisition -----------------------------
(***************************************************************************)
(* What ExternalDaqReader promises its user (actuator_test/external_daq    *)
(* .hpp): acquisition is started; it ends when it is asked to, or by       *)
(* itself and then there is a reason; and only a finished stop() makes the *)
(* reader ready to be started again.                                       *)
(***************************************************************************)
VARIABLES
  phase,   \* "idle", "acquiring" or "ended"
  reason,  \* lastError() is not empty
  asked    \* stop() has been called since the start

state == <<phase, reason, asked>>

Init == phase = "idle" /\ reason = FALSE /\ asked = FALSE

Begin == phase = "idle" /\ phase' = "acquiring" /\ reason' = FALSE /\ asked' = FALSE

(* The reason is there before running() turns false.                       *)
Fail == phase = "acquiring" /\ reason' = TRUE /\ UNCHANGED <<phase, asked>>

Ask == asked' = TRUE /\ UNCHANGED <<phase, reason>>

End ==
  /\ phase = "acquiring" /\ (reason \/ asked)
  /\ phase' = "ended" /\ UNCHANGED <<reason, asked>>

Release ==
  /\ phase = "ended" /\ asked
  /\ phase' = "idle" /\ UNCHANGED <<reason, asked>>

Next == Begin \/ Fail \/ Ask \/ End \/ Release

Spec == Init /\ [][Next]_state
=============================================================================
