------------------------------ MODULE Settings ------------------------------
(***************************************************************************)
(* load_runtime_profile(): what the program takes for the settings of the  *)
(* configuration.  A configuration is a function from the keys it has;     *)
(* numbers count the steps in which the source states the least value of   *)
(* that key (or tenths).                                                   *)
(***************************************************************************)
EXTENDS Integers

(* What a key that is not configured gets.                                 *)
Defaults ==
  [loop_rate_hz |-> 1000, lpf_cutoff_hz |-> 1000, traj_freq_hz |-> 500,
   traj_safety_factor |-> 8, chirp_f0_hz |-> 1000, chirp_f1_hz |-> 50000,
   chirp_sweep_seconds |-> 200, triangle_cycle_seconds |-> 40, step_cycle_seconds |-> 40,
   multisine_base_hz |-> 1000, multisine_harmonics |-> 10, approach_seconds |-> 20,
   max_approach_speed_deg_s |-> 1000, pre_ramp_hold_seconds |-> 5,
   status_print_interval_s |-> 10, min_range_deg |-> 20, waypoint_record_rate_hz |-> 20,
   waypoint_decimation_deg |-> 1, min_spline_waypoints |-> 3, max_spline_waypoints |-> 256,
   min_segment_seconds |-> 100, temp_warn_celsius |-> 60, temp_abort_celsius |-> 80,
   realtime_priority |-> 10]

Keys == DOMAIN Defaults

(* Keys that may be zero, that have a larger least value, or a largest.    *)
MayBeZero == {"traj_safety_factor", "approach_seconds", "pre_ramp_hold_seconds",
              "min_range_deg", "waypoint_decimation_deg"}

Least(key) == IF key \in MayBeZero THEN 0 ELSE IF key = "min_spline_waypoints" THEN 2 ELSE 1

Most == [traj_safety_factor |-> 10, multisine_harmonics |-> 64, realtime_priority |-> 99]

AtLeast(a, n) == IF n < a THEN a ELSE n

Bounded(key, n) ==
  LET low == AtLeast(Least(key), n)
  IN  IF key \in DOMAIN Most /\ low > Most[key] THEN Most[key] ELSE low

ConfigValue(config, key) ==
  IF key \in DOMAIN config THEN config[key] ELSE Defaults[key]

(* Two settings are bounded by another one as it was loaded; the warning   *)
(* temperature is not bounded at all.                                      *)
LoadRuntimeProfile(config) ==
  LET read(key) == ConfigValue(config, key)
      fewest == Bounded("min_spline_waypoints", read("min_spline_waypoints"))
      warn == read("temp_warn_celsius")
  IN  [key \in Keys |->
         CASE key = "max_spline_waypoints" -> AtLeast(fewest, read(key))
           [] key = "temp_warn_celsius"    -> warn
           [] key = "temp_abort_celsius"   -> AtLeast(warn, read(key))
           [] OTHER                        -> Bounded(key, read(key))]

(* The program divides by these, or waits for their length.                *)
Divisors == {"loop_rate_hz", "lpf_cutoff_hz", "traj_freq_hz", "chirp_f0_hz", "chirp_f1_hz",
             "chirp_sweep_seconds", "triangle_cycle_seconds", "step_cycle_seconds",
             "multisine_base_hz", "max_approach_speed_deg_s", "status_print_interval_s",
             "waypoint_record_rate_hz", "min_segment_seconds"}

(* What the program takes for granted of its settings.  The other modules  *)
(* have some of them as constants, and assume of these no more than this:  *)
(* a least range, a threshold of decimation and durations that may be      *)
(* zero, a segment that takes time, two waypoints at least and no fewer at *)
(* most.                                                                   *)
SettingsUsable(profile) ==
  /\ \A key \in Divisors : profile[key] > 0
  /\ \A key \in MayBeZero : profile[key] >= 0
  /\ 2 <= profile["min_spline_waypoints"]
  /\ profile["min_spline_waypoints"] <= profile["max_spline_waypoints"]
  /\ profile["temp_warn_celsius"] <= profile["temp_abort_celsius"]
  /\ profile["traj_safety_factor"] \in 0..10 /\ profile["multisine_harmonics"] \in 1..64
  /\ profile["realtime_priority"] \in 1..99
=============================================================================
