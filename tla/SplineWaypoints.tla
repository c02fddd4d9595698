--------------------------- MODULE SplineWaypoints ---------------------------
(***************************************************************************)
(* From a recorded trail to a spline: the decimation of the trail into     *)
(* waypoints (capture_limits_multi of actuator_test/session.cpp; the       *)
(* decimate_trail of gui/core/controller_worker.cpp is the case of one     *)
(* joint), the times of the knots (run_trajectory_multi), and the          *)
(* segment that SplineTrajectory::sample plays at a time.                  *)
(*                                                                         *)
(* A trail is a sequence of frames, a frame gives each joint a count.      *)
(* Time is in units in which max_approach_speed_deg_s is one count, so     *)
(* that the duration of a move is the number of its counts.                *)
(***************************************************************************)
EXTENDS Integers, Sequences, FiniteSets, SequencesExt

CONSTANTS
  TrailJoints,   \* the joints recorded together
  Decimation,    \* waypoint_decimation_deg, in counts
  MinWaypoints,  \* min_spline_waypoints
  MaxWaypoints,  \* max_spline_waypoints
  MinSegment     \* min_segment_seconds

(* The joints of a bus, and what load_runtime_profile clamps the settings  *)
(* to.                                                                     *)
ASSUME ProfileAssumption ==
  /\ IsFiniteSet(TrailJoints)
  /\ Decimation \in Nat
  /\ MinWaypoints \in Nat /\ MinWaypoints >= 2
  /\ MaxWaypoints \in Nat /\ MaxWaypoints >= MinWaypoints
  /\ MinSegment \in Nat \ {0}

Distance(a, b) == IF a < b THEN b - a ELSE a - b

(* Some joint has moved by the threshold between two frames.               *)
Moved(trail, i, k) ==
  \E j \in TrailJoints : Distance(trail[i][j], trail[k][j]) >= Decimation

(* Mutant of Kept: far enough from the frame before.                       *)
KeptByStep(trail) ==
  LET upto[n \in 0..(Len(trail) - 2)] ==
        IF n = 0 THEN <<1>>
        ELSE IF Moved(trail, n + 1, n) THEN Append(upto[n - 1], n + 1) ELSE upto[n - 1]
  IN  upto[Len(trail) - 2]

(* The first frame, and each inner frame far enough from the one kept last.*)
Kept(trail) ==
  LET upto[n \in 0..(Len(trail) - 2)] ==
        IF n = 0 THEN <<1>>
        ELSE LET kept == upto[n - 1]
             IN  IF Moved(trail, n + 1, Last(kept)) THEN Append(kept, n + 1) ELSE kept
  IN  upto[Len(trail) - 2]

(* The final frame is kept: it replaces the last one unless it is far      *)
(* enough from it.                                                         *)
Terminated(trail) ==
  LET kept == Kept(trail)
  IN  IF Moved(trail, Len(trail), Last(kept))
      THEN Append(kept, Len(trail))
      ELSE [kept EXCEPT ![Len(kept)] = Len(trail)]

(* Half away from zero, as std::round, of n / d.                           *)
Rounded(n, d) == (2 * n + d) \div (2 * d)

(* Mutant of Thinned: the step is one slot too short for the last frame.   *)
ThinnedShort(kept) ==
  IF Len(kept) <= MaxWaypoints THEN kept
  ELSE [k \in 1..MaxWaypoints |->
          kept[Rounded((k - 1) * (Len(kept) - 1), MaxWaypoints) + 1]]

(* Uniform thinning. The steps are longer than one, so that no frame is    *)
(* picked twice.                                                           *)
Thinned(kept) ==
  IF Len(kept) <= MaxWaypoints THEN kept
  ELSE [k \in 1..MaxWaypoints |->
          kept[Rounded((k - 1) * (Len(kept) - 1), MaxWaypoints - 1) + 1]]

(* The frames that become waypoints; none when they are too few.           *)
Decimated(trail) ==
  IF Len(trail) < 2 THEN <<>>
  ELSE LET kept == Thinned(Terminated(trail))
       IN  IF Len(kept) < MinWaypoints THEN <<>> ELSE kept

(* Mutant of SegmentTime: one joint decides.                               *)
SegmentTimeOfOne(trail, i, k) ==
  LET d == Distance(trail[i][CHOOSE j \in TrailJoints : TRUE],
                    trail[k][CHOOSE j \in TrailJoints : TRUE])
  IN  IF d < MinSegment THEN MinSegment ELSE d

(* The duration of one segment: the slowest joint's, and at least the      *)
(* shortest allowed.                                                       *)
SegmentTime(trail, i, k) ==
  CHOOSE s \in {MinSegment} \cup {Distance(trail[i][j], trail[k][j]) : j \in TrailJoints} :
    /\ s >= MinSegment
    /\ \A j \in TrailJoints : s >= Distance(trail[i][j], trail[k][j])

KnotTimes(trail, kept) ==
  LET time[k \in 1..Len(kept)] ==
        IF k = 1 THEN 0 ELSE time[k - 1] + SegmentTime(trail, kept[k - 1], kept[k])
  IN  [k \in 1..Len(kept) |-> time[k]]

(* The spline is played forth and back: where in 0..m_T the time t falls.  *)
Folded(times, t) ==
  LET total == Last(times)
      u == t % (2 * total)
  IN  IF u <= total THEN u ELSE 2 * total - u

(* Mutant of Segment: the scan runs off the end at the turning point.      *)
SegmentPastEnd(times, s) ==
  IF s >= Last(times) THEN Len(times)
  ELSE CHOOSE i \in 1..(Len(times) - 1) :
         s < times[i + 1] /\ \A k \in 2..i : s >= times[k]

(* The segment found by the scan of sample(): the first that ends later.   *)
Segment(times, s) ==
  IF s >= Last(times) THEN Len(times) - 1
  ELSE CHOOSE i \in 1..(Len(times) - 1) :
         s < times[i + 1] /\ \A k \in 2..i : s >= times[k]

(* Mutant of Tangents: as if the knots were one apart.                     *)
TangentsUniform(w, times) ==
  [i \in DOMAIN w |->
     LET a == IF i = 1 THEN 1 ELSE i - 1
         b == IF i = Len(w) THEN i ELSE i + 1
     IN  [rise |-> w[b] - w[a], run |-> b - a]]

(* m_m: the slope from the waypoint before to the one after, at the ends   *)
(* of the one segment there, as a fraction.                                *)
Tangents(w, times) ==
  [i \in DOMAIN w |->
     LET a == IF i = 1 THEN 1 ELSE i - 1
         b == IF i = Len(w) THEN i ELSE i + 1
     IN  [rise |-> w[b] - w[a], run |-> times[b] - times[a]]]

(* The cubic of segment i at time x into it, over Weight.                  *)
Weight(m, dt, i) == m[i].run * m[i + 1].run * dt * dt * dt

Cubic(w, m, dt, i, x) ==
  LET h00 == 2 * x * x * x - 3 * x * x * dt + dt * dt * dt
      h10 == x * x * x - 2 * x * x * dt + x * dt * dt
      h01 == 3 * x * x * dt - 2 * x * x * x
      h11 == x * x * x - x * x * dt
  IN  m[i].run * m[i + 1].run * (h00 * w[i] + h01 * w[i + 1])
        + dt * (h10 * m[i].rise * m[i + 1].run + h11 * m[i + 1].rise * m[i].run)
-----------------------------------------------------------------------------
(* Waypoints are frames of the trail in their order, as many as a spline   *)
(* may have, from the first frame to the last ("always keep the            *)
(* endpoints"), also when the last one replaced another or thinning chose. *)
EndsKept(trail, kept) ==
  kept # <<>> =>
    /\ Len(kept) \in MinWaypoints..MaxWaypoints
    /\ kept[1] = 1 /\ Last(kept) = Len(trail)
    /\ \A k \in 1..(Len(kept) - 1) : kept[k] < kept[k + 1]

(* Without thinning the spline passes every frame of the trail: for each   *)
(* one there is a waypoint nearer than twice the threshold, for all        *)
(* joints; slow motion is not lost and the replaced last frame costs no    *)
(* more than that.                                                         *)
PathFollowed(trail, kept) ==
  kept # <<>> /\ Len(Terminated(trail)) <= MaxWaypoints =>
    \A i \in 1..Len(trail) : \E k \in 1..Len(kept) :
      \A j \in TrailJoints :
        LET d == Distance(trail[i][j], trail[kept[k]][j])
        IN  d < 2 * Decimation \/ d = 0

(* Between two knots time passes, so no tangent divides by zero, and no    *)
(* joint would have to move faster than the limit on the straight line.    *)
KnotsPlayable(trail, kept, times) ==
  /\ Len(times) = Len(kept)
  /\ \A k \in 1..(Len(kept) - 1) :
       /\ times[k] < times[k + 1]
       /\ \A j \in TrailJoints :
            Distance(trail[kept[k]][j], trail[kept[k + 1]][j])
              <= times[k + 1] - times[k]

(* At every time, over two periods and for negative ones, sample() reads   *)
(* a segment that exists and that contains the folded time, and at every   *)
(* turn the motion is reversed without a jump.                             *)
LookupInside(times) ==
  \A t \in (-2 * Last(times))..(2 * Last(times)) :
    LET s == Folded(times, t)
        i == Segment(times, s)
    IN  /\ i \in 1..(Len(times) - 1)
        /\ times[i] <= s /\ s <= times[i + 1]
        /\ Distance(s, Folded(times, t + 1)) = 1

(* A joint's cubic starts and ends each segment at its waypoints, so that  *)
(* the approach joins it without a jump; between them it overshoots by at  *)
(* most a quarter of the counts the segment leaves time for, and a motion  *)
(* at constant speed is played at that speed.                              *)
CubicNear(trail, kept, times) ==
  \A j \in TrailJoints : \A i \in 1..(Len(kept) - 1) :
    LET w == [k \in 1..Len(kept) |-> trail[kept[k]][j]]
        m == Tangents(w, times)
        dt == times[i + 1] - times[i]
        rise == w[i + 1] - w[i]
        one == Weight(m, dt, i)
        low == IF rise > 0 THEN w[i] ELSE w[i + 1]
        high == IF rise > 0 THEN w[i + 1] ELSE w[i]
        steady == \A k \in 1..(Len(kept) - 1) :
                    (w[k + 1] - w[k]) * dt = rise * (times[k + 1] - times[k])
    IN  /\ Cubic(w, m, dt, i, 0) = one * w[i]
        /\ Cubic(w, m, dt, i, dt) = one * w[i + 1]
        /\ \A x \in 1..(dt - 1) :
             LET y == Cubic(w, m, dt, i, x)
             IN  /\ 4 * y \in (one * (4 * low - dt))..(one * (4 * high + dt))
                 /\ steady => dt * y = one * (dt * w[i] + rise * x)
=============================================================================
