------------------------------ MODULE Waveforms ------------------------------
(***************************************************************************)
(* The references of the parametric trajectories                           *)
(* (actuator_test/trajectory.cpp): the swing that the session and the      *)
(* worker derive from a captured envelope, the approach to it, the wave of *)
(* each mode and the phase of the linear chirp.                            *)
(*                                                                         *)
(* An angle is a position on a circle of twelve, where the sine is known   *)
(* well enough; a wave is given in parts of Unit, the safety factor in     *)
(* tenths.  Counts are integers of one word, as int32_t in the program.    *)
(* The chirp's time is in ticks and its phase in turns times 2T, which     *)
(* makes the phase of the linear sweep an integer.                         *)
(***************************************************************************)
EXTENDS Integers, Sequences

CONSTANT Top   \* one more than the largest int32_t

ASSUME TopAssumption == Top \in Nat \ {0}

Word == -Top..(Top - 1)
Unit == 3000
Circle == 0..11
Modes == {"Sin", "Triangle", "Step", "Multisine"}

(* A sum or a difference of two int32_t, which wraps on the targets.       *)
Wrapped(n) == IF n >= Top THEN n - 2 * Top ELSE IF n < -Top THEN n + 2 * Top ELSE n

(* Division by two truncates toward zero.                                  *)
Halved(n) == IF n < 0 THEN -((-n) \div 2) ELSE n \div 2

Centre(lo, hi) == Halved(Wrapped(lo + hi))

HalfRange(lo, hi) == Halved(Wrapped(hi - lo))
-----------------------------------------------------------------------------
Sine(p) == <<0, 1500, 2598, 3000, 2598, 1500,
             0, -1500, -2598, -3000, -2598, -1500>>[(p % 12) + 1]

(* (2 / pi) * asin(sin(theta))                                             *)
Tri(p) == <<0, 1000, 2000, 3000, 2000, 1000,
            0, -1000, -2000, -3000, -2000, -1000>>[(p % 12) + 1]

Edge(p) == IF p % 12 < 6 THEN Unit ELSE -Unit

(* The Schroeder phase of the k-th of n harmonics: -pi k (k - 1) / n. It is *)
(* a position of the circle when n is a divider of twelve.                 *)
SchroederPhase(n, k) == -((6 * k * (k - 1)) \div n)

(* The sum of n harmonics, which is n times their mean.                    *)
Multisine(n, p) ==
  LET sum[k \in 0..n] ==
        IF k = 0 THEN 0 ELSE sum[k - 1] + Sine(k * p + SchroederPhase(n, k))
  IN  sum[n]

(* Mutant of Swing: the multisine is not divided by its harmonics.         *)
SwingNotNormalised(n, mode, p) ==
  CASE mode = "Sin" -> n * Sine(p)
    [] mode = "Triangle" -> n * Tri(p)
    [] mode = "Step" -> n * Edge(p)
    [] mode = "Multisine" -> n * Multisine(n, p)

(* The wave of a mode, times the number of harmonics.                      *)
Swing(n, mode, p) ==
  CASE mode = "Sin" -> n * Sine(p)
    [] mode = "Triangle" -> n * Tri(p)
    [] mode = "Step" -> n * Edge(p)
    [] mode = "Multisine" -> Multisine(n, p)

(* One count in the scale of the references.                               *)
Count(w) == Unit * w.harmonics * 10

(* sample() at a position of its cycle.                                    *)
Sample(w, mode, p) == Centre(w.lo, w.hi) * Count(w)
                      + w.gain * HalfRange(w.lo, w.hi) * Swing(w.harmonics, mode, p)

(* Mutant of ApproachTarget: every mode is approached at its centre.       *)
ApproachCentre(w, mode) == Centre(w.lo, w.hi) * Count(w)

(* approach_target(): the centre, the first edge of a step, and for the    *)
(* multisine wherever its phases start.                                    *)
ApproachTarget(w, mode) ==
  IF mode = "Multisine" THEN Sample(w, mode, 0)
  ELSE IF mode = "Step"
  THEN Centre(w.lo, w.hi) * Count(w) + w.gain * HalfRange(w.lo, w.hi) * Unit * w.harmonics
  ELSE Centre(w.lo, w.hi) * Count(w)

(* min_jerk after i of ten parts of the approach, times 100 000.           *)
MinJerk(i) == 1000 * i * i * i - 150 * i * i * i * i + 6 * i * i * i * i * i
-----------------------------------------------------------------------------
(* sweep_integral of the linear chirp, times 2T.                           *)
SweepIntegral(c, x) == 2 * c.sweep * c.f0 * x + (c.f1 - c.f0) * x * x

(* Mutant of PhaseAt: the way back starts at the low frequency again.      *)
PhaseRestarting(c, t) ==
  LET u == t % (2 * c.sweep)
      n == t \div (2 * c.sweep)
      whole == SweepIntegral(c, c.sweep)
  IN  n * 2 * whole + IF u <= c.sweep THEN SweepIntegral(c, u)
                      ELSE whole + SweepIntegral(c, u - c.sweep)

(* phase_at: up, mirrored down, and so on; times before the start are 0.   *)
PhaseAt(c, t) ==
  LET s == IF t < 0 THEN 0 ELSE t
      u == s % (2 * c.sweep)
      n == s \div (2 * c.sweep)
      whole == SweepIntegral(c, c.sweep)
  IN  n * 2 * whole + IF u <= c.sweep THEN SweepIntegral(c, u)
                      ELSE 2 * whole - SweepIntegral(c, c.sweep - (u - c.sweep))
-----------------------------------------------------------------------------
(* The swing of an envelope stays inside it as long as the sum of the two  *)
(* ends fits the word; beyond that the centre is off the envelope.         *)
CentreRight(w) ==
  (w.lo + w.hi \in Word) <=> (Centre(w.lo, w.hi) \in w.lo..w.hi)

(* Every mode's reference stays inside, the approach ends where the wave   *)
(* begins, and on the way there, from anywhere inside, the filter is never *)
(* given a reference outside.                                              *)
StaysInside(w) ==
  LET inside == (w.lo * Count(w))..(w.hi * Count(w))
  IN  w.lo + w.hi \in Word =>
        \A mode \in Modes :
          /\ \A p \in Circle : Sample(w, mode, p) \in inside
          /\ ApproachTarget(w, mode) = Sample(w, mode, 0)
          /\ MinJerk(0) = 0 /\ MinJerk(10) = 100000
          /\ \A i \in 0..9 : MinJerk(i) <= MinJerk(i + 1)

(* The phase always advances, by a frequency between f0 and f1, and the    *)
(* frequency changes only as fast as the sweep says, also at both turns:   *)
(* the position has no step in velocity.                                   *)
PhaseSmooth(c) ==
  LET f(t) == PhaseAt(c, t + 1) - PhaseAt(c, t)
      low == IF c.f0 < c.f1 THEN c.f0 ELSE c.f1
      high == IF c.f0 < c.f1 THEN c.f1 ELSE c.f0
  IN  \A t \in 0..(4 * c.sweep) :
        /\ f(t) \in (2 * c.sweep * low)..(2 * c.sweep * high)
        /\ f(t + 1) - f(t) \in (-2 * (high - low))..(2 * (high - low))
=============================================================================
