----------------------------- MODULE MCAlgorithms -----------------------------
(***************************************************************************)
(* The pure algorithms over bounded inputs, and the plot's history.  Every *)
(* trail of two joints up to a length, grown frame by frame, every small   *)
(* sweep form, every envelope of one word with every small chirp, every    *)
(* short line of indices for two devices, and every order of frames,       *)
(* clearings and changes of the plot.  One joint of a trail drifts in      *)
(* steps below the threshold and through twice of it, the other one jumps. *)
(***************************************************************************)
EXTENDS SplineWaypoints, SweepSteps, Waveforms, JointSelection, PlotHistory,
        Settings

CONSTANTS
  Frames,     \* bound: the frames of a trail
  MaxTrail,   \* bound: frames in a trail
  MaxCurrent, \* bound: the ends of a sweep
  MaxSweep    \* bound: ticks and frequencies of a chirp

ASSUME BoundsAssumption ==
  /\ MaxTrail \in Nat /\ MaxCurrent \in Nat /\ MaxSweep \in Nat
  /\ Frames \subseteq [TrailJoints -> Int]

VARIABLES kind, trail, form, wave, prompt

vars == <<kind, trail, form, wave, prompt, plotVars>>

MCFrames == {[hip |-> h, knee |-> 0] : h \in {0, 2, 4, 6}}
              \cup {[hip |-> 0, knee |-> 3]}

Constant == [start |-> 0, end |-> 0, step |-> 1, ret |-> FALSE, opp |-> FALSE]

Inputs == [start : -MaxCurrent..MaxCurrent, end : -MaxCurrent..MaxCurrent,
           step : 1..(MaxCurrent + 1), ret : BOOLEAN, opp : BOOLEAN]

(* An envelope, and settings as they may be configured, usable or not.     *)
Waves == {w \in [lo : Word, hi : Word, gain : {-1, 7, 13}, harmonics : {0, 2, 3, 4, 6},
                 f0 : {0} \cup 2..MaxSweep, f1 : {0} \cup 2..MaxSweep,
                 sweep : {0} \cup 2..MaxSweep] : w.lo <= w.hi}

Still == [lo |-> 0, hi |-> 0, gain |-> 0, harmonics |-> 1, f0 |-> 1, f1 |-> 1,
          sweep |-> 1]

(* The wave that is generated from these settings.                         *)
Configured(w) ==
  LET profile == LoadRuntimeProfile(
        [traj_safety_factor |-> w.gain, multisine_harmonics |-> w.harmonics,
         chirp_f0_hz |-> w.f0, chirp_f1_hz |-> w.f1, chirp_sweep_seconds |-> w.sweep])
  IN  [w EXCEPT !.gain = profile["traj_safety_factor"],
                !.harmonics = profile["multisine_harmonics"],
                !.f0 = profile["chirp_f0_hz"], !.f1 = profile["chirp_f1_hz"],
                !.sweep = profile["chirp_sweep_seconds"]]

(* Whatever is configured, or left out, what is loaded is usable.          *)
ASSUME SettingsAssumed ==
  \A keys \in SUBSET {"min_spline_waypoints", "max_spline_waypoints", "temp_warn_celsius",
                      "temp_abort_celsius", "min_range_deg", "loop_rate_hz"} :
    \A config \in [keys -> {-1, 0, 2, 70}] : SettingsUsable(LoadRuntimeProfile(config))

Devices == [driver : {"MT_Device", "CapitanDrv"}, mode : {"", "OP_PVT", "OP_CSP", "PVT"}, present : {TRUE}]
             \cup [driver : {"MT_Device", "CapitanDrv"}, mode : {""}, present : {FALSE}]
             \cup [driver : {"other"}, mode : {""}, present : {TRUE}]

Tokens == {[kind |-> k, index |-> 0] : k \in {"blank", "word"}}
            \cup [kind : {"number"}, index : -1..2] \cup [kind : {"prefix"}, index : 0..1]

Prompts == [devices : [1..2 -> Devices], line : UNION {[1..n -> Tokens] : n \in 0..3}]

NoPrompt == [devices |-> <<>>, line |-> <<>>]

(* The inputs are independent: one kind varies beside the others' plain    *)
(* ones.                                                                   *)
Init ==
  /\ trail = <<>> /\ PlotInit /\ window = Narrowest
  /\ kind \in {"forms", "waves", "prompts", "trails", "plots"}
  /\ form \in IF kind = "forms" THEN Inputs ELSE {Constant}
  /\ wave \in IF kind = "waves" THEN Waves ELSE {Still}
  /\ prompt \in IF kind = "prompts" THEN Prompts ELSE {NoPrompt}

Record ==
  /\ kind = "trails" /\ Len(trail) < MaxTrail
  /\ \E frame \in Frames : trail' = Append(trail, frame)
  /\ UNCHANGED <<kind, form, wave, prompt, plotVars>>

Plot ==
  /\ kind = "plots"
  /\ PlotNext
  /\ UNCHANGED <<kind, trail, form, wave, prompt>>

Next == Record \/ Plot

Spec == Init /\ [][Next]_vars

(* The current sweep that is built is the one the form asks for, endpoint, *)
(* return leg and opposite sign included.                                  *)
SweepAsRequested == kind = "forms" => SweepOf(form, BuildSteps(form))

(* The waypoints keep both ends of the trail, in order and in number, and  *)
(* stay near the whole trail.                                              *)
DecimationFaithful ==
  LET kept == Decimated(trail)
  IN  EndsKept(trail, kept) /\ PathFollowed(trail, kept)

(* The spline through those waypoints can be played: time passes between   *)
(* its knots, playing it never leaves its segments, and its cubics join at *)
(* the waypoints and stay near them.                                       *)
SplinePlays ==
  LET kept == Decimated(trail)
      times == KnotTimes(trail, kept)
  IN  kept # <<>> => /\ KnotsPlayable(trail, kept, times)
                     /\ LookupInside(times)
                     /\ CubicNear(trail, kept, times)

(* The references of every mode stay inside the captured envelope, exactly *)
(* while the sum of its ends does not overflow, whatever is configured.    *)
ReferencesInside == kind = "waves" => LET w == Configured(wave) IN CentreRight(w) /\ StaysInside(w)

(* The linear chirp has no step in velocity, also where it turns.          *)
ChirpSmooth == kind = "waves" => PhaseSmooth(Configured(wave))

(* What the operator types is what the session drives: the joints of the   *)
(* numbers in the line, or at the beginning of its texts, each as its      *)
(* device is configured whatever its driver.  No usable line is refused.   *)
SelectionSound ==
  LET joints == EnumerateJoints(prompt.devices)
  IN  kind = "prompts" => SelectionAsTyped(joints, prompt.line) /\ GoodLineTaken(joints, prompt.line)

(* What is plotted is what was sampled: no series without a feed, no       *)
(* sample lost that a window still shows, the newest one in sight.         *)
PlotFaithful == kind = "plots" => SeriesFed /\ HistoryShown
=============================================================================
