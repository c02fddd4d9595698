--------------------------- MODULE AlgorithmsProofs ---------------------------
(***************************************************************************)
(* Proofs about the pure algorithms, for inputs of every size, and about   *)
(* the plot's history.  Where the code has a loop the model has a function *)
(* defined by recursion, and what the loop leaves behind is proved by      *)
(* induction over its passes.                                              *)
(***************************************************************************)
EXTENDS MCAlgorithms, SweepStepsProofs, FiniteSetTheorems, WellFoundedInduction, TLAPS

(* Induction, and recursion along the passes of a loop, without operators  *)
(* as parameters: a set of numbers that is closed under the next number    *)
(* has them all, and a loop of N passes over states in S has a history.    *)
LEMMA LeastMember ==
  ASSUME NEW T \in SUBSET Nat, T # {}
  PROVE  \E n \in T : \A m \in T : n <= m
<1> DEFINE R == OpToRel(<, Nat)
<1>1. IsWellFoundedOn(R, Nat)
  BY NatLessThanWellFounded
<1>2. \A x, y \in Nat : x < y => <<x, y>> \in R
  BY DEF OpToRel
<1> HIDE DEF R
<1>3. PICK x \in T : \A y \in T : ~ (<<y, x>> \in R)
  BY <1>1, WFMin
<1>4. ASSUME NEW m \in T PROVE x <= m
  <2>1. x \in Nat /\ m \in Nat
    OBVIOUS
  <2>2. ~ (m < x)
    BY <1>2, <1>3, <2>1
  <2> QED
    BY <2>1, <2>2
<1> QED
  BY <1>4

LEMMA InductionUpTo ==
  ASSUME NEW N \in Nat, NEW T, 0 \in T, \A n \in 1..N : n - 1 \in T => n \in T
  PROVE  0..N \subseteq T
<1> DEFINE Missing == {n \in 0..N : n \notin T}
<1> SUFFICES ASSUME Missing # {} PROVE FALSE
  OBVIOUS
<1>1. Missing \in SUBSET Nat
  OBVIOUS
<1>2. PICK n \in Missing : \A m \in Missing : n <= m
  <2> HIDE DEF Missing
  <2> QED
    BY <1>1, LeastMember
<1>3. n \in 1..N /\ n - 1 \in 0..N
  BY <1>2
<1>4. n - 1 \in T
  BY <1>2, <1>3
<1> QED
  BY <1>2, <1>3, <1>4

LoopBy(S, b, N, pass, g) ==
  g \in [0..N -> S] /\ g[0] = b /\ \A n \in 1..N : g[n] = pass[n][g[n - 1]]

LEMMA LoopHasHistory ==
  ASSUME NEW S, NEW b \in S, NEW N \in Nat, NEW pass \in [1..N -> [S -> S]]
  PROVE  \E g : LoopBy(S, b, N, pass, g)
<1> DEFINE P(k) == \E g \in [0..k -> S] :
                     g[0] = b /\ \A n \in 1..k : g[n] = pass[n][g[n - 1]]
           T == {k \in 0..N : P(k)}
<1>1. 0 \in T
  <2> DEFINE h == [i \in 0..0 |-> b]
  <2>1. h \in [0..0 -> S] /\ h[0] = b
    OBVIOUS
  <2>2. \A n \in 1..0 : h[n] = pass[n][h[n - 1]]
    OBVIOUS
  <2> HIDE DEF h
  <2>3. P(0)
    BY <2>1, <2>2
  <2> HIDE DEF P
  <2> QED
    BY <2>3
<1>2. ASSUME NEW k \in 1..N, k - 1 \in T PROVE k \in T
  <2>1. P(k - 1)
    <3> HIDE DEF P
    <3> QED
      BY <1>2
  <2>2. PICK g \in [0..(k - 1) -> S] :
          g[0] = b /\ \A n \in 1..(k - 1) : g[n] = pass[n][g[n - 1]]
    BY <2>1
  <2> DEFINE h == [i \in 0..k |-> IF i = k THEN pass[k][g[k - 1]] ELSE g[i]]
  <2>3. k - 1 \in 0..(k - 1) /\ g[k - 1] \in S /\ pass[k] \in [S -> S]
    BY <2>2
  <2>4. pass[k][g[k - 1]] \in S
    BY <2>3
  <2>5. h \in [0..k -> S]
    BY <2>2, <2>4
  <2>6. h[0] = b
    BY <2>2
  <2>7. ASSUME NEW n \in 1..k PROVE h[n] = pass[n][h[n - 1]]
    BY <2>2
  <2> HIDE DEF h
  <2>8. P(k)
    BY <2>5, <2>6, <2>7
  <2> HIDE DEF P
  <2> QED
    BY <2>8
<1>3. 0..N \subseteq T
  <2> HIDE DEF T
  <2> QED
    BY <1>1, <1>2, InductionUpTo
<1>4. N \in 0..N
  OBVIOUS
<1>5. P(N)
  <2> HIDE DEF P
  <2> QED
    BY <1>3, <1>4
<1> QED
  BY <1>5 DEF LoopBy
-----------------------------------------------------------------------------
(* Halving truncates toward zero.                                          *)
LEMMA HalvedBounds ==
  ASSUME NEW n \in Int
  PROVE  /\ Halved(n) \in Int
         /\ n >= 0 => Halved(n) >= 0 /\ n - 1 <= 2 * Halved(n) /\ 2 * Halved(n) <= n
         /\ n < 0 => Halved(n) <= 0 /\ n <= 2 * Halved(n) /\ 2 * Halved(n) <= n + 1
<1>1. CASE n < 0
  BY <1>1 DEF Halved
<1>2. CASE n >= 0
  BY <1>2 DEF Halved
<1> QED
  BY <1>1, <1>2

(* The centre of an envelope lies inside it exactly while the sum of its   *)
(* ends fits the word.                                                     *)
THEOREM CentreCorrect ==
  ASSUME NEW w, w.lo \in Word, w.hi \in Word, w.lo <= w.hi
  PROVE  CentreRight(w)
<1> DEFINE sum == w.lo + w.hi
<1>0. sum \in Int /\ w.lo \in Int /\ w.hi \in Int /\ Top \in Nat
  BY TopAssumption DEF Word
<1>1. CASE sum \in Word
  <2>1. Centre(w.lo, w.hi) = Halved(sum)
    BY <1>0, <1>1 DEF Centre, Wrapped, Word
  <2> HIDE DEF sum
  <2>2. Halved(sum) \in Int /\ 2 * Halved(sum) \in (sum - 1)..(sum + 1)
        /\ (sum >= 0 => 2 * Halved(sum) <= sum) /\ (sum < 0 => sum <= 2 * Halved(sum))
        /\ (sum >= 0 => Halved(sum) >= 0) /\ (sum < 0 => Halved(sum) <= 0)
    BY <1>0, HalvedBounds
  <2>3. Halved(sum) \in w.lo..w.hi
    BY <1>0, <2>2 DEF sum
  <2> QED
    BY <1>1, <2>1, <2>3 DEF CentreRight, sum
<1>2. CASE sum >= Top
  <2>1. Centre(w.lo, w.hi) = Halved(sum - 2 * Top) /\ sum - 2 * Top < 0
    BY <1>0, <1>2 DEF Centre, Wrapped, Word
  <2>2. Centre(w.lo, w.hi) <= 0 /\ w.lo > 0
    BY <1>0, <1>2, <2>1, HalvedBounds DEF Word
  <2> QED
    BY <1>0, <1>2, <2>1, <2>2, HalvedBounds DEF CentreRight, Word
<1>3. CASE sum < -Top
  <2>1. Centre(w.lo, w.hi) = Halved(sum + 2 * Top) /\ sum + 2 * Top >= 0
    BY <1>0, <1>3 DEF Centre, Wrapped, Word
  <2>2. Centre(w.lo, w.hi) >= 0 /\ w.hi < 0
    BY <1>0, <1>3, <2>1, HalvedBounds DEF Word
  <2> QED
    BY <1>0, <1>3, <2>1, <2>2, HalvedBounds DEF CentreRight, Word
<1> QED
  BY <1>0, <1>1, <1>2, <1>3 DEF Word

(* Half the range fits on both sides of the centre, also when computing    *)
(* the range itself wrapped and turned the swing around.                   *)
LEMMA SwingFits ==
  ASSUME NEW lo \in Word, NEW hi \in Word, lo <= hi, lo + hi \in Word
  PROVE  /\ Centre(lo, hi) \in Int /\ HalfRange(lo, hi) \in Int
         /\ lo <= Centre(lo, hi) - HalfRange(lo, hi)
         /\ lo <= Centre(lo, hi) + HalfRange(lo, hi)
         /\ Centre(lo, hi) + HalfRange(lo, hi) <= hi
         /\ Centre(lo, hi) - HalfRange(lo, hi) <= hi
<1> DEFINE sum == lo + hi
           d == Wrapped(hi - lo)
<1>0. lo \in Int /\ hi \in Int /\ Top \in Nat
  BY TopAssumption DEF Word
<1>1. Centre(lo, hi) = Halved(sum) /\ HalfRange(lo, hi) = Halved(d)
  BY <1>0 DEF Centre, HalfRange, Wrapped, Word
<1>2. d \in Int /\ d <= hi - lo /\ (d = hi - lo \/ (d < 0 /\ -d <= hi - lo))
  BY <1>0 DEF Wrapped, Word
<1>3. sum \in Int /\ sum = lo + hi
  BY <1>0
<1> HIDE DEF sum, d
<1>4. /\ Halved(sum) \in Int
      /\ sum >= 0 => sum - 1 <= 2 * Halved(sum) /\ 2 * Halved(sum) <= sum
      /\ sum < 0 => sum <= 2 * Halved(sum) /\ 2 * Halved(sum) <= sum + 1
  BY <1>3, HalvedBounds
<1>5. /\ Halved(d) \in Int
      /\ d >= 0 => d - 1 <= 2 * Halved(d) /\ 2 * Halved(d) <= d /\ Halved(d) >= 0
      /\ d < 0 => d <= 2 * Halved(d) /\ 2 * Halved(d) <= d + 1 /\ Halved(d) <= 0
  BY <1>2, HalvedBounds
<1> QED
  BY <1>0, <1>1, <1>2, <1>3, <1>4, <1>5

(* A reference swings about the centre by at most the half range, for any  *)
(* safety factor up to one and any wave within its unit: it stays inside   *)
(* the captured envelope.                                                  *)
THEOREM SwingInside ==
  ASSUME NEW lo \in Word, NEW hi \in Word, lo <= hi, lo + hi \in Word,
         NEW n \in Nat \ {0}, NEW gain \in 0..10,
         NEW s \in (-(n * Unit))..(n * Unit)
  PROVE  Centre(lo, hi) * (Unit * n * 10) + gain * HalfRange(lo, hi) * s
           \in (lo * (Unit * n * 10))..(hi * (Unit * n * 10))
<1> DEFINE one == Unit * n * 10
           q == gain * s
           c == Centre(lo, hi)
           h == HalfRange(lo, hi)
<1>1. one \in Nat /\ n * Unit \in Nat /\ one = 10 * (n * Unit)
  BY DEF Unit
<1>2. q \in Int /\ -one <= q /\ q <= one
  <2>1. s \in Int /\ gain \in Int
    BY <1>1
  <2>2. CASE s >= 0
    BY <1>1, <2>1, <2>2
  <2>3. CASE s < 0
    BY <1>1, <2>1, <2>3
  <2> QED
    BY <2>1, <2>2, <2>3
<1>3. /\ c \in Int /\ h \in Int /\ lo \in Int /\ hi \in Int
      /\ lo <= c - h /\ lo <= c + h /\ c + h <= hi /\ c - h <= hi
  BY SwingFits, TopAssumption DEF Word
<1>4. gain * h * s = q * h
  BY <1>3
<1> HIDE DEF one, q, c, h
<1>5. /\ q * h <= one * (IF h < 0 THEN -h ELSE h)
      /\ -(one * (IF h < 0 THEN -h ELSE h)) <= q * h
  BY <1>1, <1>2, <1>3
<1>6. lo * one <= c * one + q * h /\ c * one + q * h <= hi * one
  <2> DEFINE a == IF h < 0 THEN -h ELSE h
  <2>1. a \in Nat /\ lo <= c - a /\ c + a <= hi
    BY <1>3
  <2>2. q * h <= one * a /\ -(one * a) <= q * h
    BY <1>5
  <2> HIDE DEF a
  <2>3. lo * one <= (c - a) * one /\ (c + a) * one <= hi * one
    BY <1>1, <1>3, <2>1
  <2>4. (c - a) * one = c * one - one * a /\ (c + a) * one = c * one + one * a
    BY <1>1, <1>3, <2>1
  <2> QED
    BY <1>1, <1>2, <1>3, <2>1, <2>2, <2>3, <2>4
<1> QED
  BY <1>1, <1>2, <1>3, <1>4, <1>6 DEF one, q, c, h

(* Sine, triangle and edge stay within their unit.                         *)
LEMMA WavesInUnit ==
  ASSUME NEW p \in Int
  PROVE  Sine(p) \in -Unit..Unit /\ Tri(p) \in -Unit..Unit /\ Edge(p) \in -Unit..Unit
<1> DEFINE k == (p % 12) + 1
           sines == <<0, 1500, 2598, 3000, 2598, 1500, 0, -1500, -2598, -3000, -2598, -1500>>
           tris == <<0, 1000, 2000, 3000, 2000, 1000, 0, -1000, -2000, -3000, -2000, -1000>>
<1>1. k \in 1..12
  OBVIOUS
<1>2. Sine(p) \in -Unit..Unit
  <2>1. Sine(p) = sines[k]
    BY DEF Sine
  <2>2. /\ sines[1] = 0 /\ sines[2] = 1500 /\ sines[3] = 2598 /\ sines[4] = 3000
        /\ sines[5] = 2598 /\ sines[6] = 1500 /\ sines[7] = 0 /\ sines[8] = -1500
        /\ sines[9] = -2598 /\ sines[10] = -3000 /\ sines[11] = -2598 /\ sines[12] = -1500
    OBVIOUS
  <2> HIDE DEF k, sines
  <2> QED
    BY <1>1, <2>1, <2>2 DEF Unit
<1>3. Tri(p) \in -Unit..Unit
  <2>1. Tri(p) = tris[k]
    BY Zenon DEF Tri
  <2>2. /\ tris[1] = 0 /\ tris[2] = 1000 /\ tris[3] = 2000 /\ tris[4] = 3000
        /\ tris[5] = 2000 /\ tris[6] = 1000 /\ tris[7] = 0 /\ tris[8] = -1000
        /\ tris[9] = -2000 /\ tris[10] = -3000 /\ tris[11] = -2000 /\ tris[12] = -1000
    OBVIOUS
  <2> HIDE DEF k, tris
  <2> QED
    BY <1>1, <2>1, <2>2 DEF Unit
<1>4. Edge(p) \in -Unit..Unit
  BY DEF Edge, Unit
<1> QED
  BY <1>2, <1>3, <1>4

(* Every sample of a sine, a chirp, a triangle or a step is inside the     *)
(* envelope it was made from.                                              *)
THEOREM SamplesInside ==
  ASSUME NEW w, w.lo \in Word, w.hi \in Word, w.lo <= w.hi,
         w.lo + w.hi \in Word, w.gain \in 0..10, w.harmonics \in Nat \ {0},
         NEW mode \in {"Sin", "Triangle", "Step"}, NEW p \in Circle
  PROVE  Sample(w, mode, p) \in (w.lo * Count(w))..(w.hi * Count(w))
<1> DEFINE s == Swing(w.harmonics, mode, p)
<1>1. PICK y \in -Unit..Unit : s = w.harmonics * y
  BY WavesInUnit DEF Swing, Circle
<1>2. s \in (-(w.harmonics * Unit))..(w.harmonics * Unit)
  <2>1. w.harmonics \in Nat /\ y \in Int /\ -Unit <= y /\ y <= Unit /\ Unit \in Nat
    BY DEF Unit
  <2>2. w.harmonics * y <= w.harmonics * Unit /\ -(w.harmonics * Unit) <= w.harmonics * y
    BY <2>1 DEF Unit
  <2>3. w.harmonics * y \in Int /\ w.harmonics * Unit \in Int
    BY <2>1
  <2> QED
    BY <1>1, <2>2, <2>3
<1> HIDE DEF s
<1>3. Centre(w.lo, w.hi) * (Unit * w.harmonics * 10) + w.gain * HalfRange(w.lo, w.hi) * s
        \in (w.lo * (Unit * w.harmonics * 10))..(w.hi * (Unit * w.harmonics * 10))
  BY <1>2, SwingInside
<1> QED
  BY <1>3 DEF Sample, Count, s
-----------------------------------------------------------------------------
(* What is loaded for a key, whatever is configured or left out.           *)
Numbers(config) == \A key \in DOMAIN config : config[key] \in Int

LEMMA LoadedValues ==
  ASSUME NEW config, Numbers(config)
  PROVE  /\ \A key \in Divisors \cup MayBeZero \cup
                      {"min_spline_waypoints", "max_spline_waypoints", "temp_warn_celsius",
                       "temp_abort_celsius", "multisine_harmonics", "realtime_priority"} :
              key \in Keys /\ ConfigValue(config, key) \in Int
         /\ \A key \in Divisors \cup MayBeZero \cup
                      {"min_spline_waypoints", "multisine_harmonics", "realtime_priority"} :
              /\ LoadRuntimeProfile(config)[key] = Bounded(key, ConfigValue(config, key))
              /\ ConfigValue(config, key) \in Int
<1>1. \A key \in Divisors \cup MayBeZero \cup
                  {"min_spline_waypoints", "max_spline_waypoints", "temp_warn_celsius",
                   "temp_abort_celsius", "multisine_harmonics", "realtime_priority"} :
        key \in Keys
  BY DEF Divisors, MayBeZero, Keys, Defaults
<1>2. \A key \in Keys : ConfigValue(config, key) \in Int
  BY DEF Numbers, ConfigValue, Keys, Defaults
<1>3. \A key \in Divisors \cup MayBeZero \cup
                  {"min_spline_waypoints", "multisine_harmonics", "realtime_priority"} :
        key \notin {"max_spline_waypoints", "temp_warn_celsius", "temp_abort_celsius"}
  BY DEF Divisors, MayBeZero
<1>4. ASSUME NEW key \in Keys,
             key \notin {"max_spline_waypoints", "temp_warn_celsius", "temp_abort_celsius"}
      PROVE  LoadRuntimeProfile(config)[key] = Bounded(key, ConfigValue(config, key))
  BY <1>4 DEF LoadRuntimeProfile
<1> QED
  BY <1>1, <1>2, <1>3, <1>4

LEMMA BoundedWithin ==
  ASSUME NEW key, NEW n \in Int
  PROVE  /\ Bounded(key, n) \in Int
         /\ Bounded(key, n) >= Least(key) \/ (key \in DOMAIN Most /\ Bounded(key, n) = Most[key])
         /\ key \in DOMAIN Most => Bounded(key, n) <= Most[key]
<1>1. Least(key) \in Int
  BY DEF Least
<1>2. \A k \in DOMAIN Most : Most[k] \in Int
  BY DEF Most
<1> HIDE DEF Most, Least
<1> QED
  BY <1>1, <1>2 DEF Bounded, AtLeast

(* Whatever is configured, and whatever is left out: what is loaded is     *)
(* usable.  No setting the program divides by is zero, and those that may  *)
(* be zero, the least range among them, are not negative.                  *)
THEOREM SettingsCorrect ==
  ASSUME NEW config, Numbers(config)
  PROVE  SettingsUsable(LoadRuntimeProfile(config))
<1> DEFINE p == LoadRuntimeProfile(config)
           read(key) == ConfigValue(config, key)
<1>1. \A key \in Divisors \cup MayBeZero \cup
                  {"min_spline_waypoints", "multisine_harmonics", "realtime_priority"} :
        p[key] = Bounded(key, read(key)) /\ read(key) \in Int
  BY LoadedValues
<1>2. p["temp_warn_celsius"] <= p["temp_abort_celsius"]
  BY LoadedValues DEF LoadRuntimeProfile, AtLeast
<1>3. p["max_spline_waypoints"] = AtLeast(p["min_spline_waypoints"], read("max_spline_waypoints"))
  BY LoadedValues DEF LoadRuntimeProfile
<1>4. read("max_spline_waypoints") \in Int
  BY LoadedValues
<1> HIDE DEF p, read
<1>5. /\ \A key \in Divisors : Least(key) = 1 /\ key \notin DOMAIN Most
      /\ \A key \in MayBeZero : Least(key) = 0 /\ (key \in DOMAIN Most => Most[key] = 10)
      /\ Least("min_spline_waypoints") = 2 /\ "min_spline_waypoints" \notin DOMAIN Most
      /\ Least("multisine_harmonics") = 1 /\ Least("realtime_priority") = 1
      /\ "traj_safety_factor" \in MayBeZero /\ "traj_safety_factor" \in DOMAIN Most
      /\ "multisine_harmonics" \in DOMAIN Most /\ Most["multisine_harmonics"] = 64
      /\ "realtime_priority" \in DOMAIN Most /\ Most["realtime_priority"] = 99
  BY DEF Divisors, Least, MayBeZero, Most
<1>6. ASSUME NEW key \in Divisors PROVE p[key] \in Int /\ p[key] > 0
  <2>1. p[key] = Bounded(key, read(key)) /\ read(key) \in Int
    BY <1>1
  <2>2. Bounded(key, read(key)) \in Int /\ Bounded(key, read(key)) >= 1
    BY <1>5, <2>1, BoundedWithin
  <2> QED
    BY <2>1, <2>2
<1>7. ASSUME NEW key \in MayBeZero PROVE p[key] \in Int /\ p[key] >= 0
  <2> DEFINE n == read(key)
  <2>1. p[key] = Bounded(key, n) /\ n \in Int
    BY <1>1
  <2>2. Least(key) = 0 /\ (key \in DOMAIN Most => Most[key] = 10)
    BY <1>5
  <2> HIDE DEF n
  <2>3. Bounded(key, n) \in Int /\ Bounded(key, n) >= 0
    BY <2>1, <2>2, BoundedWithin
  <2> QED
    BY <2>1, <2>3
<1>8. p["min_spline_waypoints"] \in Int /\ p["min_spline_waypoints"] >= 2
  BY <1>1, <1>5, BoundedWithin
<1>9. /\ p["traj_safety_factor"] \in 0..10 /\ p["multisine_harmonics"] \in 1..64
      /\ p["realtime_priority"] \in 1..99
  <2>1. ASSUME NEW key \in {"traj_safety_factor", "multisine_harmonics", "realtime_priority"}
        PROVE  p[key] \in Int /\ (p[key] >= Least(key) \/ p[key] = Most[key])
    BY <1>1, <1>5, <2>1, BoundedWithin
  <2>2. ASSUME NEW key \in {"traj_safety_factor", "multisine_harmonics", "realtime_priority"}
        PROVE  p[key] \in Int /\ p[key] <= Most[key]
    BY <1>1, <1>5, <2>2, BoundedWithin
  <2>3. Least("traj_safety_factor") = 0 /\ Most["traj_safety_factor"] = 10
    BY <1>5
  <2> QED
    BY <1>5, <2>1, <2>2, <2>3
<1>10. p["min_spline_waypoints"] <= p["max_spline_waypoints"]
  BY <1>3, <1>4, <1>8 DEF AtLeast
<1> QED
  BY <1>2, <1>6, <1>7, <1>8, <1>9, <1>10 DEF SettingsUsable, p
-----------------------------------------------------------------------------
(* A sweep of every form, of any length, is the one the form asks for.     *)
THEOREM SweepsCorrect == Spec => []SweepAsRequested
<1>1. Init => SweepAsRequested
  <2> SUFFICES ASSUME Init, kind = "forms" PROVE SweepOf(form, BuildSteps(form))
    BY DEF SweepAsRequested
  <2>1. form \in Inputs
    BY DEF Init
  <2>2. SweepForm(form)
    BY <2>1, BoundsAssumption DEF Inputs, SweepForm
  <2> QED
    BY <2>2, BuildStepsCorrect
<1>2. SweepAsRequested /\ [Next]_vars => SweepAsRequested'
  BY DEF SweepAsRequested, Next, Record, Plot, vars
<1> QED
  BY <1>1, <1>2, PTL DEF Spec
-----------------------------------------------------------------------------
(* A chirp that can be generated: any two frequencies and any sweep time.  *)
Chirp(c) == c.f0 \in Nat /\ c.f1 \in Nat /\ c.sweep \in Nat \ {0}

(* One tick of the upward sweep, x ticks into it.                          *)
Advance(c, x) == 2 * c.sweep * c.f0 + (c.f1 - c.f0) * (2 * x + 1)

(* Where in the upward sweep the tick is that starts at time t: the way    *)
(* back plays the same ticks in the opposite order.                        *)
Played(c, t) ==
  LET u == t % (2 * c.sweep) IN IF u < c.sweep THEN u ELSE 2 * c.sweep - u - 1

LEMMA OneTick ==
  ASSUME NEW c, Chirp(c), NEW x \in Int
  PROVE  /\ SweepIntegral(c, x) \in Int /\ Advance(c, x) \in Int
         /\ SweepIntegral(c, x + 1) = SweepIntegral(c, x) + Advance(c, x)
         /\ SweepIntegral(c, 0) = 0
<1> DEFINE a == 2 * c.sweep * c.f0
           d == c.f1 - c.f0
<1>1. a \in Int /\ d \in Int
  BY DEF Chirp
<1>2. SweepIntegral(c, x) = a * x + d * x * x
      /\ SweepIntegral(c, x + 1) = a * (x + 1) + d * (x + 1) * (x + 1)
      /\ SweepIntegral(c, 0) = a * 0 + d * 0 * 0 /\ Advance(c, x) = a + d * (2 * x + 1)
  BY DEF SweepIntegral, Advance
<1> HIDE DEF a, d
<1>3. a * (x + 1) = a * x + a
  BY <1>1
<1>4. d * (x + 1) * (x + 1) = d * x * x + d * (2 * x + 1)
  BY <1>1
<1>5. a * x \in Int /\ d * x * x \in Int /\ d * (2 * x + 1) \in Int
  BY <1>1
<1> QED
  BY <1>1, <1>2, <1>3, <1>4, <1>5

(* The whole periods and the rest of a time, and of the next tick's.       *)
LEMMA NextTick ==
  ASSUME NEW p \in Nat \ {0}, NEW t \in Nat
  PROVE  /\ t % p \in 0..(p - 1) /\ (t \div p) \in Nat
         /\ t % p < p - 1 => (t + 1) % p = (t % p) + 1 /\ (t + 1) \div p = t \div p
         /\ t % p = p - 1 => (t + 1) % p = 0 /\ (t + 1) \div p = (t \div p) + 1
<1> DEFINE q == t \div p
           r == t % p
<1>1. q \in Nat /\ r \in 0..(p - 1) /\ t = p * q + r
  OBVIOUS
<1> HIDE DEF q, r
<1>2. ASSUME r < p - 1 PROVE (t + 1) % p = r + 1 /\ (t + 1) \div p = q
  BY <1>1, <1>2
<1>3. ASSUME r = p - 1 PROVE (t + 1) % p = 0 /\ (t + 1) \div p = q + 1
  <2>1. t + 1 = p * (q + 1)
    BY <1>1, <1>3
  <2> QED
    BY <1>1, <2>1
<1> QED
  BY <1>1, <1>2, <1>3 DEF q, r

(* Each tick advances the phase as one tick of the upward sweep, also at   *)
(* the turn in the middle of a period and at its end.                      *)
LEMMA PhaseAdvance ==
  ASSUME NEW c, Chirp(c), NEW t \in Nat
  PROVE  PhaseAt(c, t + 1) - PhaseAt(c, t) = Advance(c, Played(c, t))
<1> DEFINE T == c.sweep
           P == 2 * T
           u == t % P
           n == t \div P
           W == SweepIntegral(c, T)
           Leg(x) == IF x <= T THEN SweepIntegral(c, x) ELSE 2 * W - SweepIntegral(c, P - x)
<1>1. T \in Nat \ {0} /\ P \in Nat \ {0}
  BY DEF Chirp
<1>2. \A x \in Int : SweepIntegral(c, x) \in Int
  BY OneTick
<1>3. W \in Int /\ \A x \in Int : Leg(x) \in Int
  BY <1>1, <1>2
<1>4. /\ PhaseAt(c, t) = n * 2 * W + Leg(u)
      /\ PhaseAt(c, t + 1) = ((t + 1) \div P) * 2 * W + Leg((t + 1) % P)
  <2>1. ~(t < 0) /\ ~(t + 1 < 0)
    OBVIOUS
  <2>2. \A x \in Int : T - (x - T) = P - x
    BY <1>1
  <2>3. u \in Int /\ (t + 1) % P \in Int
    BY <1>1
  <2>4. T - (u - T) = P - u /\ T - (((t + 1) % P) - T) = P - ((t + 1) % P)
    BY <2>2, <2>3
  <2> QED
    BY <2>1, <2>4 DEF PhaseAt
<1>5. /\ u \in 0..(P - 1) /\ n \in Nat
      /\ u < P - 1 => (t + 1) % P = u + 1 /\ (t + 1) \div P = n
      /\ u = P - 1 => (t + 1) % P = 0 /\ (t + 1) \div P = n + 1
  BY <1>1, NextTick
<1>6. Played(c, t) = IF u < T THEN u ELSE P - u - 1
  BY DEF Played
<1>7. P = 2 * T
  OBVIOUS
<1>8. \A x \in Int : Advance(c, x) \in Int /\ SweepIntegral(c, x + 1) = SweepIntegral(c, x) + Advance(c, x)
  BY OneTick
<1>9. SweepIntegral(c, 0) = 0
  BY OneTick
<1> HIDE DEF P, u, n, W, T
<1>10. Leg(0) = 0 /\ Leg(P) = 2 * W
  BY <1>1, <1>3, <1>7, <1>9
<1>11. Leg(u + 1) = Leg(u) + Advance(c, Played(c, t))
  <2>1. CASE u < T
    BY <1>1, <1>5, <1>6, <1>8, <2>1
  <2>2. CASE u >= T
    <3> DEFINE v == P - u - 1
    <3>1. v \in Int /\ v + 1 = P - u /\ P - (u + 1) = v /\ Played(c, t) = v
      BY <1>1, <1>5, <1>6, <2>2
    <3>2. SweepIntegral(c, P - u) = SweepIntegral(c, v) + Advance(c, v)
      BY <1>8, <3>1
    <3>3. Leg(u + 1) = 2 * W - SweepIntegral(c, v)
      BY <1>1, <1>5, <2>2, <3>1
    <3>4. Leg(u) = 2 * W - SweepIntegral(c, P - u)
      <4>1. CASE u = T
        <5>1. P - u = T
          BY <1>1, <1>7, <4>1
        <5> QED
          BY <1>1, <1>3, <4>1, <5>1 DEF W
      <4> QED
        BY <1>1, <1>5, <2>2, <4>1
    <3>5. SweepIntegral(c, v) \in Int /\ Advance(c, v) \in Int /\ SweepIntegral(c, P - u) \in Int
      BY <1>2, <1>8, <3>1
    <3> HIDE DEF Leg, v
    <3> QED
      BY <1>3, <3>1, <3>2, <3>3, <3>4, <3>5
  <2> QED
    BY <1>1, <1>5, <2>1, <2>2
<1>12. Leg(u) \in Int /\ Leg(u + 1) \in Int /\ Advance(c, Played(c, t)) \in Int
  <2>1. u \in Int /\ u + 1 \in Int /\ Played(c, t) \in Int
    BY <1>1, <1>5, <1>6
  <2> HIDE DEF Leg
  <2> QED
    BY <1>3, <1>8, <2>1
<1> HIDE DEF Leg
<1>13. CASE u < P - 1
  <2>1. PhaseAt(c, t + 1) = n * 2 * W + Leg(u + 1)
    BY <1>4, <1>5, <1>13
  <2>2. n * 2 * W \in Int
    BY <1>3, <1>5
  <2> HIDE DEF Leg
  <2> QED
    BY <1>4, <1>11, <1>12, <2>1, <2>2
<1>14. CASE u = P - 1
  <2>1. PhaseAt(c, t + 1) = (n + 1) * 2 * W + Leg(0)
    BY <1>4, <1>5, <1>14
  <2>2. (n + 1) * 2 * W = n * 2 * W + 2 * W /\ n * 2 * W \in Int
    BY <1>3, <1>5
  <2>3. u + 1 = P
    BY <1>1, <1>14
  <2> HIDE DEF Leg
  <2> QED
    BY <1>3, <1>4, <1>10, <1>11, <1>12, <2>1, <2>2, <2>3
<1> QED
  BY <1>1, <1>5, <1>13, <1>14

(* The phase has no step in velocity, however long the chirp is played.    *)
THEOREM ChirpHasNoStep ==
  ASSUME NEW c, Chirp(c)
  PROVE  PhaseSmooth(c)
<1> DEFINE T == c.sweep
           d == c.f1 - c.f0
           f(t) == PhaseAt(c, t + 1) - PhaseAt(c, t)
           low == IF c.f0 < c.f1 THEN c.f0 ELSE c.f1
           high == IF c.f0 < c.f1 THEN c.f1 ELSE c.f0
           v(t) == Played(c, t)
<1>0. c.f0 \in Nat /\ c.f1 \in Nat /\ T \in Nat /\ T >= 1
  BY DEF Chirp
<1>1. ASSUME NEW t \in Nat
      PROVE  /\ v(t) \in 0..(T - 1) /\ v(t + 1) - v(t) \in -1..1
             /\ f(t) = 2 * T * c.f0 + d * (2 * v(t) + 1)
  <2>1. f(t) = 2 * T * c.f0 + d * (2 * v(t) + 1)
    BY PhaseAdvance DEF Advance
  <2>2. 2 * T \in Nat \ {0}
    BY <1>0
  <2> DEFINE p == 2 * T
             u == t % p
  <2>3. /\ u \in 0..(p - 1)
        /\ u < p - 1 => (t + 1) % p = u + 1
        /\ u = p - 1 => (t + 1) % p = 0
    BY <2>2, NextTick
  <2>4. /\ v(t) = IF u < T THEN u ELSE 2 * T - u - 1
        /\ v(t + 1) = IF (t + 1) % p < T THEN (t + 1) % p ELSE 2 * T - ((t + 1) % p) - 1
    BY DEF Played
  <2>5. p = 2 * T
    OBVIOUS
  <2>6. t + 1 \in Int
    OBVIOUS
  <2> DEFINE w == (t + 1) % p
  <2>7. /\ u < p - 1 => w = u + 1
        /\ u = p - 1 => w = 0
        /\ v(t + 1) = IF w < T THEN w ELSE 2 * T - w - 1
    BY <2>3, <2>4
  <2> HIDE DEF p, u, v, w
  <2>8. v(t) \in 0..(T - 1) /\ v(t + 1) - v(t) \in -1..1
    <3> HIDE DEF T
    <3>1. CASE u < p - 1
      BY <1>0, <2>3, <2>4, <2>5, <2>7, <3>1
    <3>2. CASE u = p - 1
      BY <1>0, <2>3, <2>4, <2>5, <2>7, <3>2
    <3> QED
      BY <1>0, <2>3, <2>5, <3>1, <3>2
  <2> QED
    BY <2>1, <2>8
<1> HIDE DEF f, v
<1>2. ASSUME NEW t \in Nat
      PROVE  f(t) \in (2 * T * low)..(2 * T * high)
  <2> DEFINE m == 2 * v(t) + 1
  <2>1. m \in Int /\ 0 <= m /\ m <= 2 * T
    BY <1>0, <1>1
  <2>2. f(t) = 2 * T * c.f0 + d * m
    BY <1>1
  <2> HIDE DEF m
  <2>3. CASE c.f0 < c.f1
    <3>1. d \in Nat
      BY <1>0, <2>3
    <3>2. 0 <= d * m /\ d * m <= d * (2 * T)
      BY <1>0, <2>1, <3>1
    <3>3. 2 * T * c.f0 + d * (2 * T) = 2 * T * c.f1
      BY <1>0
    <3>4. d * m \in Int /\ 2 * T * c.f0 \in Int /\ 2 * T * c.f1 \in Int
          /\ d * (2 * T) \in Int
      BY <1>0, <2>1, <3>1
    <3> HIDE DEF d, T
    <3> QED
      BY <2>2, <2>3, <3>2, <3>3, <3>4
  <2>4. CASE c.f0 >= c.f1
    <3> DEFINE e == c.f0 - c.f1
    <3>1. e \in Nat /\ d = -e
      BY <1>0, <2>4
    <3>2. 0 <= e * m /\ e * m <= e * (2 * T)
      BY <1>0, <2>1, <3>1
    <3>3. 2 * T * c.f0 - e * (2 * T) = 2 * T * c.f1 /\ d * m = -(e * m)
      BY <1>0, <2>1, <3>1
    <3>4. e * m \in Int /\ 2 * T * c.f0 \in Int /\ 2 * T * c.f1 \in Int
          /\ e * (2 * T) \in Int /\ c.f0 \in Int /\ c.f1 \in Int
      BY <1>0, <2>1, <3>1
    <3> HIDE DEF d, T, e
    <3>5. 2 * T * c.f1 <= f(t) /\ f(t) <= 2 * T * c.f0 /\ f(t) \in Int
      BY <2>2, <3>2, <3>3, <3>4
    <3>6. low = c.f1 /\ high = c.f0
      BY <2>4, <3>4
    <3> HIDE DEF low, high
    <3> QED
      BY <3>4, <3>5, <3>6
  <2> QED
    BY <1>0, <2>3, <2>4
<1>3. ASSUME NEW t \in Nat
      PROVE  f(t + 1) - f(t) \in (-2 * (high - low))..(2 * (high - low))
  <2> DEFINE s == v(t + 1) - v(t)
  <2>1. s \in {-1, 0, 1} /\ v(t) \in Int /\ v(t + 1) \in Int /\ d \in Int
    BY <1>0, <1>1
  <2>2. f(t + 1) = 2 * T * c.f0 + d * (2 * v(t + 1) + 1) /\ f(t) = 2 * T * c.f0 + d * (2 * v(t) + 1)
    BY <1>1
  <2>3. d * (2 * v(t + 1) + 1) = d * (2 * v(t) + 1) + 2 * (d * s)
    BY <2>1
  <2>4. 2 * T * c.f0 \in Int /\ d * (2 * v(t) + 1) \in Int /\ d * s \in Int
    BY <1>0, <2>1
  <2>5. d * s \in {-d, 0, d}
    BY <2>1
  <2>6. f(t + 1) - f(t) = 2 * (d * s)
    <3> HIDE DEF d, s, T
    <3> QED
      BY <2>2, <2>3, <2>4
  <2>7. high - low \in Nat /\ d \in {high - low, -(high - low)}
    BY <1>0
  <2> HIDE DEF d, s, low, high
  <2> QED
    BY <2>1, <2>5, <2>6, <2>7
<1>4. \A t \in 0..(4 * c.sweep) : t \in Nat
  BY <1>0
<1> QED
  BY <1>2, <1>3, <1>4 DEF PhaseSmooth, f
-----------------------------------------------------------------------------
(* What the loop over the harmonics adds in its k-th pass.                 *)
Tone(n, p, k) == Sine(k * p + SchroederPhase(n, k))

LEMMA ToneInUnit ==
  ASSUME NEW n \in Nat, NEW p \in Int, NEW k \in 1..n
  PROVE  Tone(n, p, k) \in Int /\ -Unit <= Tone(n, p, k) /\ Tone(n, p, k) <= Unit
<1>1. SchroederPhase(n, k) \in Int
  <2> DEFINE q == 6 * k * (k - 1)
  <2>1. q \in Int /\ n \in Nat \ {0}
    OBVIOUS
  <2> HIDE DEF q
  <2>2. -(q \div n) \in Int
    BY <2>1
  <2> QED
    BY <2>2 DEF SchroederPhase, q
<1> DEFINE a == k * p + SchroederPhase(n, k)
<1>2. a \in Int
  <2>1. k * p \in Int
    OBVIOUS
  <2> QED
    BY <1>1, <2>1
<1> HIDE DEF a
<1>3. Sine(a) \in -Unit..Unit
  BY <1>2, WavesInUnit
<1> DEFINE y == Tone(n, p, k)
<1>4. y \in -Unit..Unit
  BY <1>3 DEF Tone, a
<1> HIDE DEF y
<1>5. y \in Int /\ -Unit <= y /\ y <= Unit
  BY <1>4 DEF Unit
<1> QED
  BY <1>5 DEF y

(* The sum of n harmonics stays within n units: the loop adds one wave in  *)
(* each of its n passes.                                                   *)
LEMMA MultisineInside ==
  ASSUME NEW n \in Nat, NEW p \in Int
  PROVE  Multisine(n, p) \in (-(n * Unit))..(n * Unit)
<1> DEFINE pass == [k \in 1..n |-> [x \in Int |-> x + Tone(n, p, k)]]
           sum == CHOOSE f : f = [k \in 0..n |-> IF k = 0 THEN 0 ELSE f[k - 1] + Tone(n, p, k)]
<1>1. \A k \in 1..n : Tone(n, p, k) \in Int
  BY ToneInUnit
<1>2. pass \in [1..n -> [Int -> Int]]
  <2> SUFFICES ASSUME NEW k \in 1..n, NEW x \in Int PROVE x + Tone(n, p, k) \in Int
    OBVIOUS
  <2> DEFINE y == Tone(n, p, k)
  <2>1. y \in Int
    BY <1>1
  <2> HIDE DEF y
  <2>2. x + y \in Int
    BY <2>1
  <2> QED
    BY <2>2 DEF y
<1>3. PICK g \in [0..n -> Int] : g[0] = 0 /\ \A k \in 1..n : g[k] = pass[k][g[k - 1]]
  <2> DEFINE S == Int
             b == 0
  <2>1. b \in S /\ pass \in [1..n -> [S -> S]]
    BY <1>2
  <2> HIDE DEF pass, S, b
  <2>2. \E g : LoopBy(S, b, n, pass, g)
    BY <2>1, LoopHasHistory
  <2> QED
    BY <2>2 DEF S, b, LoopBy
<1>4. ASSUME NEW k \in 1..n PROVE g[k] = g[k - 1] + Tone(n, p, k)
  <2>1. g[k] = pass[k][g[k - 1]] /\ g[k - 1] \in Int
    BY <1>3
  <2>2. pass[k] = [x \in Int |-> x + Tone(n, p, k)]
    OBVIOUS
  <2> QED
    BY <2>1, <2>2
<1>5. g = [k \in 0..n |-> IF k = 0 THEN 0 ELSE g[k - 1] + Tone(n, p, k)]
  <2> HIDE DEF pass
  <2> QED
    BY <1>3, <1>4
<1>6. sum = [k \in 0..n |-> IF k = 0 THEN 0 ELSE sum[k - 1] + Tone(n, p, k)]
  BY <1>5
<1>7. sum[0] = 0 /\ \A k \in 1..n : sum[k] = sum[k - 1] + Tone(n, p, k)
  <2> HIDE DEF sum
  <2> QED
    BY <1>6
<1>8. Multisine(n, p) = sum[n]
  BY DEF Multisine, Tone
<1> HIDE DEF sum, pass
<1> DEFINE T == {k \in 0..n : sum[k] \in (-(k * Unit))..(k * Unit)}
<1>9. 0 \in T
  BY <1>7 DEF Unit
<1>10. ASSUME NEW k \in 1..n, k - 1 \in T PROVE k \in T
  <2>1. sum[k] = sum[k - 1] + Tone(n, p, k) /\ sum[k - 1] \in (-((k - 1) * Unit))..((k - 1) * Unit)
    BY <1>7, <1>10
  <2> DEFINE y == Tone(n, p, k)
             x == sum[k - 1]
  <2>2. y \in Int /\ -Unit <= y /\ y <= Unit
    BY ToneInUnit
  <2>3. sum[k] = x + y /\ x \in (-((k - 1) * Unit))..((k - 1) * Unit)
    BY <2>1
  <2> HIDE DEF x, y
  <2>4. (k - 1) * Unit = k * Unit - Unit /\ k * Unit \in Int /\ Unit \in Int
    BY DEF Unit
  <2>5. x + y \in (-(k * Unit))..(k * Unit)
    BY <2>2, <2>3, <2>4
  <2> QED
    BY <2>3, <2>5
<1>11. 0..n \subseteq T
  <2> HIDE DEF T
  <2> QED
    BY <1>9, <1>10, InductionUpTo
<1>12. n \in T
  <2> HIDE DEF T
  <2> QED
    BY <1>11
<1> QED
  BY <1>8, <1>12

(* The wave of every mode stays within its n units.                        *)
LEMMA SwingInUnits ==
  ASSUME NEW n \in Nat \ {0}, NEW mode \in Modes, NEW p \in Int
  PROVE  Swing(n, mode, p) \in (-(n * Unit))..(n * Unit)
<1>1. CASE mode = "Multisine"
  BY <1>1, MultisineInside DEF Swing
<1>2. CASE mode # "Multisine"
  <2>1. PICK y \in -Unit..Unit : Swing(n, mode, p) = n * y
    BY <1>2, WavesInUnit DEF Swing, Modes
  <2>2. n * y <= n * Unit /\ -(n * Unit) <= n * y /\ n * y \in Int
    BY DEF Unit
  <2> QED
    BY <2>1, <2>2 DEF Unit
<1> QED
  BY <1>1, <1>2

(* An envelope of words with settings as they are loaded.                  *)
Playable(w) ==
  /\ w.lo \in Word /\ w.hi \in Word /\ w.lo <= w.hi
  /\ w.gain \in 0..10 /\ w.harmonics \in Nat \ {0}

(* The approach ends where the wave of the mode begins.                    *)
LEMMA ApproachMeetsWave ==
  ASSUME NEW w, Playable(w), NEW mode \in Modes
  PROVE  ApproachTarget(w, mode) = Sample(w, mode, 0)
<1> DEFINE c == Centre(w.lo, w.hi) * Count(w)
           h == w.gain * HalfRange(w.lo, w.hi)
           n == w.harmonics
<1>1. Sine(0) = 0 /\ Tri(0) = 0 /\ Edge(0) = Unit
  BY DEF Sine, Tri, Edge
<1>2. w.lo \in Int /\ w.hi \in Int /\ n \in Nat /\ w.gain \in Int /\ Unit \in Nat
  BY TopAssumption DEF Playable, Word, Unit
<1>3. \A x \in Int : Wrapped(x) \in Int /\ Halved(Wrapped(x)) \in Int
  <2>1. \A x \in Int : Wrapped(x) \in Int
    BY TopAssumption DEF Wrapped
  <2> QED
    BY <2>1, HalvedBounds
<1>4. Centre(w.lo, w.hi) \in Int /\ HalfRange(w.lo, w.hi) \in Int /\ Count(w) \in Int
  BY <1>2, <1>3 DEF Centre, HalfRange, Count
<1>5. c \in Int /\ h \in Int
  BY <1>2, <1>4
<1>6. Sample(w, mode, 0) = c + h * Swing(n, mode, 0)
  BY DEF Sample
<1>7. CASE mode = "Multisine"
  BY <1>7 DEF ApproachTarget
<1>8. CASE mode \in {"Sin", "Triangle"}
  <2>1. ApproachTarget(w, mode) = c
    BY <1>8 DEF ApproachTarget
  <2>2. Swing(n, mode, 0) = n * 0
    BY <1>1, <1>8 DEF Swing
  <2> HIDE DEF c, h, n
  <2> QED
    BY <1>2, <1>5, <1>6, <2>1, <2>2
<1>9. CASE mode = "Step"
  <2>1. ApproachTarget(w, mode) = c + h * Unit * n
    BY <1>9 DEF ApproachTarget
  <2>2. Swing(n, mode, 0) = n * Unit
    BY <1>1, <1>9 DEF Swing
  <2> HIDE DEF c, h, n
  <2>3. h * Unit * n = h * (n * Unit)
    BY <1>2, <1>5
  <2> QED
    BY <1>6, <2>1, <2>2, <2>3
<1> QED
  BY <1>7, <1>8, <1>9 DEF Modes

(* The minimum-jerk profile only rises.                                    *)
LEMMA JerkRises ==
  MinJerk(0) = 0 /\ MinJerk(10) = 100000 /\ \A i \in 0..9 : MinJerk(i) <= MinJerk(i + 1)
<1>1. \A i \in 0..9 : i \in {0, 1, 2, 3, 4, 5, 6, 7, 8, 9}
  OBVIOUS
<1>2. /\ MinJerk(0) = 0 /\ MinJerk(1) = 856 /\ MinJerk(2) = 5792 /\ MinJerk(3) = 16308
      /\ MinJerk(4) = 31744 /\ MinJerk(5) = 50000 /\ MinJerk(6) = 68256
      /\ MinJerk(7) = 83692 /\ MinJerk(8) = 94208 /\ MinJerk(9) = 99144
      /\ MinJerk(10) = 100000
  BY DEF MinJerk
<1> QED
  BY <1>1, <1>2

(* Every mode, every harmonic and every position of the cycle: references  *)
(* stay inside an envelope whose ends have a sum that fits.                *)
THEOREM EnvelopeKept ==
  ASSUME NEW w, Playable(w)
  PROVE  CentreRight(w) /\ StaysInside(w)
<1>1. CentreRight(w)
  BY CentreCorrect DEF Playable
<1>2. ASSUME w.lo + w.hi \in Word, NEW mode \in Modes, NEW p \in Circle
      PROVE  Sample(w, mode, p) \in (w.lo * Count(w))..(w.hi * Count(w))
  <2> DEFINE s == Swing(w.harmonics, mode, p)
  <2>1. s \in (-(w.harmonics * Unit))..(w.harmonics * Unit)
    BY SwingInUnits DEF Playable, Circle
  <2> HIDE DEF s
  <2>2. Centre(w.lo, w.hi) * (Unit * w.harmonics * 10) + w.gain * HalfRange(w.lo, w.hi) * s
          \in (w.lo * (Unit * w.harmonics * 10))..(w.hi * (Unit * w.harmonics * 10))
    BY <1>2, <2>1, SwingInside DEF Playable
  <2> QED
    BY <2>2 DEF Sample, Count, s
<1>3. StaysInside(w)
  BY <1>2, ApproachMeetsWave, JerkRises DEF StaysInside
<1> QED
  BY <1>1, <1>3

(* The wave that is configured is an envelope with settings as loaded.     *)
LEMMA ConfiguredWave ==
  ASSUME NEW w \in Waves \cup {Still}
  PROVE  Playable(Configured(w)) /\ Chirp(Configured(w))
<1> DEFINE config == [traj_safety_factor |-> w.gain, multisine_harmonics |-> w.harmonics,
                      chirp_f0_hz |-> w.f0, chirp_f1_hz |-> w.f1,
                      chirp_sweep_seconds |-> w.sweep]
           p == LoadRuntimeProfile(config)
<1>0. 0 \in Word
  BY TopAssumption DEF Word
<1>1. /\ w.lo \in Word /\ w.hi \in Word /\ w.lo <= w.hi
      /\ w.gain \in Int /\ w.harmonics \in Int /\ w.f0 \in Int /\ w.f1 \in Int /\ w.sweep \in Int
  <2>1. CASE w = Still
    BY <1>0, <2>1 DEF Still
  <2>2. CASE w \in Waves
    BY <2>2, BoundsAssumption DEF Waves
  <2> QED
    BY <2>1, <2>2
<1>2. Numbers(config)
  BY <1>1 DEF Numbers
<1>3. /\ p["traj_safety_factor"] \in 0..10 /\ p["multisine_harmonics"] \in 1..64
      /\ p["chirp_sweep_seconds"] > 0
  BY <1>2, SettingsCorrect DEF SettingsUsable, Divisors
<1>4. \A key \in {"chirp_f0_hz", "chirp_f1_hz", "chirp_sweep_seconds"} :
        p[key] = Bounded(key, ConfigValue(config, key)) /\ ConfigValue(config, key) \in Int
  <2> HIDE DEF config
  <2> QED
    BY <1>2, LoadedValues DEF Divisors
<1>5. p["chirp_f0_hz"] \in Nat /\ p["chirp_f1_hz"] \in Nat /\ p["chirp_sweep_seconds"] \in Int
  <2>1. /\ Least("chirp_f0_hz") = 1 /\ Least("chirp_f1_hz") = 1
        /\ "chirp_f0_hz" \notin DOMAIN Most /\ "chirp_f1_hz" \notin DOMAIN Most
    BY DEF Least, MayBeZero, Most
  <2> HIDE DEF p, config
  <2> QED
    BY <1>4, <2>1, BoundedWithin
<1>6. /\ Configured(w).gain = p["traj_safety_factor"]
      /\ Configured(w).harmonics = p["multisine_harmonics"]
      /\ Configured(w).f0 = p["chirp_f0_hz"] /\ Configured(w).f1 = p["chirp_f1_hz"]
      /\ Configured(w).sweep = p["chirp_sweep_seconds"]
      /\ Configured(w).lo = w.lo /\ Configured(w).hi = w.hi
  <2>1. DOMAIN w = {"lo", "hi", "gain", "harmonics", "f0", "f1", "sweep"}
    BY DEF Waves, Still
  <2>2. w = [x \in {"lo", "hi", "gain", "harmonics", "f0", "f1", "sweep"} |-> w[x]]
    BY DEF Waves, Still
  <2> QED
    BY <2>1, <2>2 DEF Configured
<1> HIDE DEF p
<1>7. p["multisine_harmonics"] \in Nat \ {0}
  BY <1>3
<1>8. p["chirp_sweep_seconds"] \in Nat \ {0}
  BY <1>3, <1>5
<1> QED
  BY <1>1, <1>3, <1>5, <1>6, <1>7, <1>8 DEF Playable, Chirp

(* No configuration lets a reference leave an envelope whose ends have a   *)
(* sum that fits a word.                                                   *)
THEOREM ReferencesCorrect == Spec => []ReferencesInside
<1>1. Init => ReferencesInside
  <2> SUFFICES ASSUME Init PROVE ReferencesInside
    OBVIOUS
  <2>1. wave \in Waves \cup {Still}
    BY DEF Init
  <2> QED
    BY <2>1, ConfiguredWave, EnvelopeKept DEF ReferencesInside
<1>2. ReferencesInside /\ [Next]_vars => ReferencesInside'
  BY DEF ReferencesInside, Next, Record, Plot, vars
<1> QED
  BY <1>1, <1>2, PTL DEF Spec

(* No configuration makes the chirp jump in velocity.                      *)
THEOREM ChirpsCorrect == Spec => []ChirpSmooth
<1>1. Init => ChirpSmooth
  <2> SUFFICES ASSUME Init PROVE ChirpSmooth
    OBVIOUS
  <2>1. wave \in Waves \cup {Still}
    BY DEF Init
  <2> QED
    BY <2>1, ConfiguredWave, ChirpHasNoStep DEF ChirpSmooth
<1>2. ChirpSmooth /\ [Next]_vars => ChirpSmooth'
  BY DEF ChirpSmooth, Next, Record, Plot, vars
<1> QED
  BY <1>1, <1>2, PTL DEF Spec
-----------------------------------------------------------------------------
(* The loop of Chosen, pass by pass.                                       *)
ChosenPass(S, x, e) == IF e \in S THEN Append(x, e) ELSE x

ChosenBy(E, N, s, S, u) ==
  /\ u \in [0..N -> Seq(E)] /\ u[0] = <<>>
  /\ \A i \in 1..N : u[i] = ChosenPass(S, u[i - 1], s[i])

LEMMA ChosenPasses ==
  ASSUME NEW E, NEW N \in Nat, NEW s \in [1..N -> E], NEW S \in SUBSET E
  PROVE  \E u : ChosenBy(E, N, s, S, u)
<1> DEFINE Q == Seq(E)
           b == <<>>
           pass == [i \in 1..N |-> [x \in Q |-> ChosenPass(S, x, s[i])]]
<1>1. b \in Q /\ \A i \in 1..N : \A x \in Q : ChosenPass(S, x, s[i]) \in Q
  <2>1. b \in Q
    OBVIOUS
  <2>2. ASSUME NEW i \in 1..N, NEW x \in Q PROVE ChosenPass(S, x, s[i]) \in Q
    <3>1. s[i] \in E
      OBVIOUS
    <3>2. Append(x, s[i]) \in Q
      BY <3>1
    <3> QED
      BY <3>2 DEF ChosenPass
  <2> QED
    BY <2>1, <2>2
<1> HIDE DEF Q, b
<1>2. pass \in [1..N -> [Q -> Q]]
  BY <1>1
<1> HIDE DEF pass
<1>3. PICK g : LoopBy(Q, b, N, pass, g)
  BY <1>1, <1>2, LoopHasHistory
<1>4. ASSUME NEW i \in 1..N PROVE g[i] = ChosenPass(S, g[i - 1], s[i])
  <2>1. g[i] = pass[i][g[i - 1]] /\ g[i - 1] \in Q
    BY <1>3 DEF LoopBy
  <2>2. pass[i] = [x \in Q |-> ChosenPass(S, x, s[i])]
    BY DEF pass
  <2> QED
    BY <2>1, <2>2
<1> QED
  BY <1>3, <1>4 DEF Q, b, LoopBy, ChosenBy

ChosenIs(E, N, s, S, u) == ChosenBy(E, N, s, S, u) /\ Chosen(s, S) = u[N]

LEMMA ChosenHistory ==
  ASSUME NEW E, NEW N \in Nat, NEW s \in [1..N -> E], NEW S \in SUBSET E, Len(s) = N
  PROVE  \E u : ChosenIs(E, N, s, S, u)
<1> DEFINE upto == CHOOSE f : f = [i \in 0..N |->
                     IF i = 0 THEN <<>>
                     ELSE IF s[i] \in S THEN Append(f[i - 1], s[i]) ELSE f[i - 1]]
<1>1. PICK g : ChosenBy(E, N, s, S, g)
  BY ChosenPasses
<1>2. /\ g \in [0..N -> Seq(E)] /\ g[0] = <<>>
      /\ \A i \in 1..N : g[i] = ChosenPass(S, g[i - 1], s[i])
  BY <1>1 DEF ChosenBy
<1>3. g = [i \in 0..N |-> IF i = 0 THEN <<>> ELSE ChosenPass(S, g[i - 1], s[i])]
  <2>1. \A i \in 0..N : i = 0 \/ i \in 1..N
    OBVIOUS
  <2>2. DOMAIN g = 0..N
    BY <1>2
  <2>3. ASSUME NEW i \in 0..N
        PROVE  g[i] = IF i = 0 THEN <<>> ELSE ChosenPass(S, g[i - 1], s[i])
    BY <1>2, <2>1, Zenon
  <2>4. g = [i \in 0..N |-> g[i]]
    BY <1>2, Zenon
  <2> QED
    BY <2>3, <2>4, Zenon
<1>4. upto = [i \in 0..N |-> IF i = 0 THEN <<>>
                ELSE IF s[i] \in S THEN Append(upto[i - 1], s[i]) ELSE upto[i - 1]]
  <2>1. g = [i \in 0..N |-> IF i = 0 THEN <<>>
                ELSE IF s[i] \in S THEN Append(g[i - 1], s[i]) ELSE g[i - 1]]
    BY <1>3, Zenon DEF ChosenPass
  <2> QED
    BY <2>1, Zenon
<1>5. Chosen(s, S) = upto[N]
  BY Zenon DEF Chosen
<1> HIDE DEF upto
<1>6. /\ upto[0] = <<>>
      /\ \A i \in 1..N : upto[i] = ChosenPass(S, upto[i - 1], s[i])
  <2>1. 0 \in 0..N /\ \A i \in 1..N : i \in 0..N /\ i # 0
    OBVIOUS
  <2> QED
    BY <1>4, <2>1, Zenon DEF ChosenPass
<1>7. \A i \in 0..N : upto[i] = g[i]
  <2> DEFINE T == {i \in 0..N : upto[i] = g[i]}
  <2>1. 0 \in T
    BY <1>2, <1>6
  <2>2. ASSUME NEW i \in 1..N, i - 1 \in T PROVE i \in T
    <3>1. upto[i - 1] = g[i - 1] /\ i \in 0..N
      BY <2>2
    <3>2. upto[i] = g[i]
      BY <1>2, <1>6, <3>1, Zenon
    <3> QED
      BY <3>1, <3>2
  <2> HIDE DEF T
  <2>3. 0..N \subseteq T
    BY <2>1, <2>2, InductionUpTo
  <2> QED
    BY <2>3 DEF T
<1>8. g[N] = Chosen(s, S)
  BY <1>5, <1>7
<1> QED
  BY <1>1, <1>8 DEF ChosenIs

(* The loop of pick_joints over the tokens of the line, pass by pass.      *)
Reads == [picks : Seq(Int), bad : BOOLEAN]

ReadBy(joints, line, N, r) ==
  /\ r \in [0..N -> Reads] /\ r[0] = [picks |-> <<>>, bad |-> FALSE]
  /\ \A i \in 1..N : r[i] = FlushToken(joints, r[i - 1], line[i])

LEMMA FlushedRead ==
  ASSUME NEW joints, Len(joints) \in Nat, NEW read \in Reads, NEW token
  PROVE  FlushToken(joints, read, token) \in Reads
<1>1. read.picks \in Seq(Int) /\ read = [picks |-> read.picks, bad |-> read.bad]
  BY DEF Reads
<1>2. CASE Blank(token)
  BY <1>2 DEF FlushToken
<1>3. CASE ~Blank(token) /\ Usable(joints, read.picks, token)
  <2>1. token.index \in Int
    BY <1>3 DEF Usable
  <2>2. Append(read.picks, token.index) \in Seq(Int)
    BY <1>1, <2>1
  <2>3. FlushToken(joints, read, token) = [read EXCEPT !.picks = Append(@, token.index)]
    BY <1>3 DEF FlushToken
  <2> QED
    BY <1>1, <2>2, <2>3 DEF Reads
<1>4. CASE ~Blank(token) /\ ~Usable(joints, read.picks, token)
  BY <1>1, <1>4 DEF FlushToken, Reads
<1> QED
  BY <1>2, <1>3, <1>4

LEMMA ReadPasses ==
  ASSUME NEW N \in Nat, NEW joints, Len(joints) \in Nat, NEW line
  PROVE  \E r : ReadBy(joints, line, N, r)
<1> DEFINE Q == Reads
           b == [picks |-> <<>>, bad |-> FALSE]
           pass == [i \in 1..N |-> [x \in Q |-> FlushToken(joints, x, line[i])]]
<1>1. b \in Q
  BY DEF Reads
<1>2. pass \in [1..N -> [Q -> Q]]
  BY FlushedRead
<1> HIDE DEF Q, b
<1> HIDE DEF pass
<1>3. PICK g : LoopBy(Q, b, N, pass, g)
  BY <1>1, <1>2, LoopHasHistory
<1>4. ASSUME NEW i \in 1..N PROVE g[i] = FlushToken(joints, g[i - 1], line[i])
  <2>1. g[i] = pass[i][g[i - 1]] /\ g[i - 1] \in Q
    BY <1>3 DEF LoopBy
  <2>2. pass[i] = [x \in Q |-> FlushToken(joints, x, line[i])]
    BY DEF pass
  <2> QED
    BY <2>1, <2>2
<1> QED
  BY <1>3, <1>4 DEF Q, b, LoopBy, ReadBy

Answer(read) ==
  [answer |-> IF read.bad \/ read.picks = <<>> THEN "again" ELSE "picked",
   picks |-> read.picks]

LEMMA ReadHistory ==
  ASSUME NEW N \in Nat, NEW joints, Len(joints) \in Nat, NEW line, Len(line) = N
  PROVE  \E r : ReadBy(joints, line, N, r) /\ PickedJoints(joints, line) = Answer(r[N])
<1> DEFINE read == CHOOSE f : f = [i \in 0..N |->
                     IF i = 0 THEN [picks |-> <<>>, bad |-> FALSE]
                     ELSE FlushToken(joints, f[i - 1], line[i])]
<1>1. PICK g : ReadBy(joints, line, N, g)
  BY ReadPasses
<1>2. /\ g \in [0..N -> Reads] /\ g[0] = [picks |-> <<>>, bad |-> FALSE]
      /\ \A i \in 1..N : g[i] = FlushToken(joints, g[i - 1], line[i])
  BY <1>1 DEF ReadBy
<1>3. g = [i \in 0..N |-> IF i = 0 THEN [picks |-> <<>>, bad |-> FALSE]
                         ELSE FlushToken(joints, g[i - 1], line[i])]
  <2>1. \A i \in 0..N : i = 0 \/ i \in 1..N
    OBVIOUS
  <2>2. ASSUME NEW i \in 0..N
        PROVE  g[i] = IF i = 0 THEN [picks |-> <<>>, bad |-> FALSE]
                      ELSE FlushToken(joints, g[i - 1], line[i])
    BY <1>2, <2>1, Zenon
  <2>3. g = [i \in 0..N |-> g[i]]
    BY <1>2, Zenon
  <2> QED
    BY <2>2, <2>3, Zenon
<1>4. read = [i \in 0..N |-> IF i = 0 THEN [picks |-> <<>>, bad |-> FALSE]
                            ELSE FlushToken(joints, read[i - 1], line[i])]
  BY <1>3, Zenon
<1>5. PickedJoints(joints, line) =
        [answer |-> IF read[N].bad \/ read[N].picks = <<>> THEN "again" ELSE "picked",
         picks |-> read[N].picks]
  BY Zenon DEF PickedJoints
<1> HIDE DEF read
<1>6. /\ read[0] = [picks |-> <<>>, bad |-> FALSE]
      /\ \A i \in 1..N : read[i] = FlushToken(joints, read[i - 1], line[i])
  <2>1. 0 \in 0..N /\ \A i \in 1..N : i \in 0..N /\ i # 0
    OBVIOUS
  <2> QED
    BY <1>4, <2>1, Zenon
<1>7. \A i \in 0..N : read[i] = g[i]
  <2> DEFINE T == {i \in 0..N : read[i] = g[i]}
  <2>1. 0 \in T
    <3>1. read[0] = g[0]
      BY <1>2, <1>6, Zenon
    <3> QED
      BY <3>1
  <2>2. ASSUME NEW i \in 1..N, i - 1 \in T PROVE i \in T
    <3>1. read[i - 1] = g[i - 1] /\ i \in 0..N
      BY <2>2
    <3>2. read[i] = g[i]
      BY <1>2, <1>6, <3>1, Zenon
    <3> QED
      BY <3>1, <3>2
  <2> HIDE DEF T
  <2>3. 0..N \subseteq T
    BY <2>1, <2>2, InductionUpTo
  <2> QED
    BY <2>3 DEF T
<1>8. read[N] = g[N]
  BY <1>7
<1> QED
  BY <1>1, <1>5, <1>8, Zenon DEF Answer

(* What has been read follows what has been typed: unless a token was      *)
(* refused, the picks are the typed numbers, and they always name joints   *)
(* that may be driven, each once.                                          *)
Follows(joints, typed, read) ==
  /\ ~read.bad => /\ Len(read.picks) = Len(typed)
                  /\ \A k \in 1..Len(typed) : /\ StoiReads(typed[k])
                                              /\ read.picks[k] = typed[k].index
  /\ \A k \in 1..Len(read.picks) : /\ read.picks[k] \in 0..(Len(joints) - 1)
                                   /\ joints[read.picks[k] + 1].selectable
  /\ \A k, l \in 1..Len(read.picks) : read.picks[k] = read.picks[l] => k = l

LEMMA FollowsOn ==
  ASSUME NEW E, NEW typed \in Seq(E), NEW read \in Reads, NEW token \in E, NEW joints,
         Len(joints) \in Nat, Follows(joints, typed, read)
  PROVE  Follows(joints, IF Blank(token) THEN typed ELSE Append(typed, token),
                 FlushToken(joints, read, token))
<1> DEFINE next == FlushToken(joints, read, token)
           more == Append(typed, token)
<1>1. /\ read.picks \in Seq(Int) /\ read = [picks |-> read.picks, bad |-> read.bad]
      /\ read.bad \in BOOLEAN /\ Len(read.picks) \in Nat /\ Len(typed) \in Nat
  BY DEF Reads
<1>2. /\ Len(more) = Len(typed) + 1 /\ more[Len(typed) + 1] = token
      /\ \A k \in 1..Len(typed) : more[k] = typed[k]
  BY <1>1, AppendProperties
<1>3. CASE Blank(token)
  BY <1>3 DEF FlushToken
<1>4. CASE ~Blank(token) /\ ~Usable(joints, read.picks, token)
  <2>1. next.bad = TRUE /\ next.picks = read.picks
    BY <1>1, <1>4 DEF FlushToken
  <2> HIDE DEF next
  <2>2. Follows(joints, more, next)
    BY <2>1 DEF Follows
  <2> QED
    BY <1>4, <2>2 DEF next
<1>5. CASE ~Blank(token) /\ Usable(joints, read.picks, token)
  <2> DEFINE n == Len(read.picks)
             x == token.index
             picks == Append(read.picks, x)
  <2>1. next.bad = read.bad /\ next.picks = picks
    BY <1>1, <1>5 DEF FlushToken
  <2>2. /\ x \in 0..(Len(joints) - 1) /\ joints[x + 1].selectable /\ StoiReads(token)
        /\ \A k \in 1..n : read.picks[k] # x
    BY <1>5 DEF Usable, Contains
  <2>3. x \in Int
    BY <2>2
  <2>4. /\ Len(picks) = n + 1 /\ picks[n + 1] = x /\ \A k \in 1..n : picks[k] = read.picks[k]
        /\ n \in Nat
    BY <1>1, <2>3, AppendProperties
  <2> HIDE DEF next, more, picks, n, x
  <2>5. \A k \in 1..(n + 1) : k \in 1..n \/ k = n + 1
    BY <2>4
  <2>6. ASSUME ~next.bad
        PROVE  /\ Len(next.picks) = Len(more)
               /\ \A k \in 1..Len(more) : StoiReads(more[k]) /\ next.picks[k] = more[k].index
    <3>1. ~read.bad
      BY <2>1, <2>6
    <3>2. n = Len(typed) /\ \A k \in 1..Len(typed) : StoiReads(typed[k]) /\ read.picks[k] = typed[k].index
      BY <3>1 DEF Follows, n
    <3>3. \A k \in 1..(n + 1) : StoiReads(more[k]) /\ picks[k] = more[k].index
      <4> SUFFICES ASSUME NEW k \in 1..(n + 1)
                   PROVE  StoiReads(more[k]) /\ picks[k] = more[k].index
        OBVIOUS
      <4>1. CASE k \in 1..n
        BY <1>2, <2>4, <3>2, <4>1
      <4>2. CASE k = n + 1
        BY <1>2, <2>2, <2>4, <3>2, <4>2 DEF x
      <4> QED
        BY <2>5, <4>1, <4>2
    <3> QED
      BY <1>2, <2>1, <2>4, <3>2, <3>3
  <2>7. ASSUME NEW k \in 1..Len(next.picks)
        PROVE  next.picks[k] \in 0..(Len(joints) - 1) /\ joints[next.picks[k] + 1].selectable
    <3>1. CASE k \in 1..n
      BY <2>1, <2>4, <3>1 DEF Follows, n
    <3>2. CASE k = n + 1
      BY <2>1, <2>2, <2>4, <3>2
    <3> QED
      BY <2>1, <2>4, <2>5, <3>1, <3>2
  <2>8. ASSUME NEW k \in 1..Len(next.picks), NEW l \in 1..Len(next.picks),
               next.picks[k] = next.picks[l]
        PROVE  k = l
    <3>1. CASE k \in 1..n /\ l \in 1..n
      BY <2>1, <2>4, <2>8, <3>1 DEF Follows, n
    <3>2. CASE k \in 1..n /\ l = n + 1
      BY <2>1, <2>2, <2>4, <2>8, <3>2
    <3>3. CASE k = n + 1 /\ l \in 1..n
      BY <2>1, <2>2, <2>4, <2>8, <3>3
    <3> QED
      BY <2>1, <2>4, <2>5, <3>1, <3>2, <3>3
  <2>9. Follows(joints, more, next)
    BY <2>6, <2>7, <2>8 DEF Follows
  <2> QED
    BY <1>5, <2>9 DEF next, more
<1> QED
  BY <1>3, <1>4, <1>5

(* The passes of the two loops beside each other.                          *)
LEMMA ReadingFollows ==
  ASSUME NEW E, NEW N \in Nat, NEW line \in [1..N -> E], NEW joints, Len(joints) \in Nat,
         NEW r, ReadBy(joints, line, N, r),
         NEW u, ChosenBy(E, N, line, {token \in Range(line) : ~Blank(token)}, u)
  PROVE  \A i \in 0..N : u[i] \in Seq(E) /\ r[i] \in Reads /\ Follows(joints, u[i], r[i])
<1> DEFINE S == {token \in Range(line) : ~Blank(token)}
           T == {i \in 0..N : Follows(joints, u[i], r[i])}
<1>1. /\ u[0] = <<>> /\ r[0] = [picks |-> <<>>, bad |-> FALSE]
      /\ \A i \in 1..N : u[i] = ChosenPass(S, u[i - 1], line[i])
      /\ \A i \in 1..N : r[i] = FlushToken(joints, r[i - 1], line[i])
  BY DEF ChosenBy, ReadBy
<1>2. \A i \in 0..N : u[i] \in Seq(E) /\ r[i] \in Reads
  BY DEF ChosenBy, ReadBy
<1>3. \A i \in 1..N : line[i] \in E /\ (line[i] \in S <=> ~Blank(line[i]))
  BY DEF Range
<1> HIDE DEF S
<1>4. 0 \in T
  BY <1>1 DEF Follows
<1>5. ASSUME NEW i \in 1..N, i - 1 \in T PROVE i \in T
  <2>1. Follows(joints, u[i - 1], r[i - 1]) /\ i - 1 \in 0..N /\ i \in 0..N
    BY <1>5
  <2>2. u[i] = IF Blank(line[i]) THEN u[i - 1] ELSE Append(u[i - 1], line[i])
    BY <1>1, <1>3 DEF ChosenPass
  <2>3. Follows(joints, IF Blank(line[i]) THEN u[i - 1] ELSE Append(u[i - 1], line[i]),
                FlushToken(joints, r[i - 1], line[i]))
    BY <1>2, <1>3, <2>1, FollowsOn
  <2> QED
    BY <1>1, <2>1, <2>2, <2>3
<1> HIDE DEF T
<1>6. 0..N \subseteq T
  BY <1>4, <1>5, InductionUpTo
<1> QED
  BY <1>2, <1>6 DEF T

(* What was typed up to a token is the beginning of all that was typed.    *)
BeginsWith(v, w) == Len(v) <= Len(w) /\ \A k \in 1..Len(v) : w[k] = v[k]

LEMMA ChosenGrows ==
  ASSUME NEW E, NEW N \in Nat, NEW s \in [1..N -> E], NEW S, NEW u, ChosenBy(E, N, s, S, u),
         NEW i \in 0..N
  PROVE  BeginsWith(u[i], u[N])
<1> DEFINE Begins(j) == Len(u[i]) <= Len(u[j]) /\ \A k \in 1..Len(u[i]) : u[j][k] = u[i][k]
           T == {j \in 0..N : i <= j => Begins(j)}
<1>1. \A j \in 0..N : u[j] \in Seq(E) /\ Len(u[j]) \in Nat
  BY DEF ChosenBy
<1>2. \A j \in 1..N : u[j] = ChosenPass(S, u[j - 1], s[j])
  BY DEF ChosenBy
<1>3. Begins(i)
  BY <1>1
<1> HIDE DEF Begins
<1>4. 0 \in T
  BY <1>3
<1>5. ASSUME NEW j \in 1..N, j - 1 \in T PROVE j \in T
  <2>1. CASE j <= i
    BY <1>3, <2>1
  <2>2. CASE i < j
    <3>1. Begins(j - 1) /\ j - 1 \in 0..N
      BY <1>5, <2>2
    <3>2. s[j] \in E
      OBVIOUS
    <3>3. CASE u[j] = u[j - 1]
      BY <3>1, <3>3 DEF Begins
    <3>4. CASE u[j] = Append(u[j - 1], s[j])
      <4>1. /\ Len(u[j]) = Len(u[j - 1]) + 1
            /\ \A k \in 1..Len(u[j - 1]) : u[j][k] = u[j - 1][k]
        BY <1>1, <3>1, <3>2, <3>4, AppendProperties
      <4>2. Begins(j)
        BY <1>1, <3>1, <4>1 DEF Begins
      <4> QED
        BY <4>2
    <3> QED
      BY <1>2, <3>3, <3>4 DEF ChosenPass
  <2> QED
    BY <2>1, <2>2
<1> HIDE DEF T
<1>6. 0..N \subseteq T
  BY <1>4, <1>5, InductionUpTo
<1>7. Begins(N)
  BY <1>6 DEF T
<1> QED
  BY <1>7 DEF Begins, BeginsWith

(* A joint that may be driven is driven in the mode of its device.         *)
LEMMA EnumeratedJoints ==
  ASSUME NEW D, NEW devices \in Seq(D)
  PROVE  LET joints == EnumerateJoints(devices)
         IN  /\ Len(joints) \in Nat /\ DOMAIN joints = 1..Len(joints)
             /\ \A i \in 1..Len(joints) : joints[i].selectable => DrivenAsConfigured(joints[i])
<1> DEFINE N == Len(devices)
           created == {d \in Range(devices) : d.driver \in Drivers /\ d.present}
           found == Chosen(devices, created)
           joints == EnumerateJoints(devices)
<1>1. N \in Nat /\ devices \in [1..N -> D] /\ created \in SUBSET D
  BY DEF Range
<1>2. joints = [i \in DOMAIN found |-> Handle(found[i])]
  BY DEF EnumerateJoints
<1> HIDE DEF created
<1>3. found \in Seq(D)
  <2> DEFINE S == created
             n == N
  <2>1. n \in Nat /\ devices \in [1..n -> D] /\ S \in SUBSET D /\ Len(devices) = n
    BY <1>1
  <2> HIDE DEF S, n
  <2>2. PICK u : ChosenIs(D, n, devices, S, u)
    BY <2>1, ChosenHistory
  <2>3. Chosen(devices, S) \in Seq(D)
    BY <2>1, <2>2 DEF ChosenIs, ChosenBy
  <2> QED
    BY <2>3 DEF S
<1> DEFINE n == Len(found)
<1>4. n \in Nat /\ DOMAIN found = 1..n
  BY <1>3
<1> HIDE DEF found, n, joints
<1>5. joints = [i \in 1..n |-> Handle(found[i])]
  BY <1>2, <1>4
<1>6. Len(joints) = n
  BY <1>4, <1>5
<1>7. ASSUME NEW i \in 1..n, joints[i].selectable PROVE DrivenAsConfigured(joints[i])
  <2> DEFINE d == found[i]
  <2>1. joints[i] = Handle(d)
    BY <1>5
  <2> HIDE DEF d
  <2>2. Handle(d).selectable /\ Handle(d).device = d /\ Handle(d).code = ModeCode(d)
    BY <1>7, <2>1 DEF Handle
  <2>3. /\ ModeName(d) \in NamedModes
        /\ d.driver = "MT_Device" => ModeName(d) = "OP_PVT"
    <3>1. CASE d.driver = "MT_Device"
      BY <2>2, <3>1 DEF Handle, SelectableMyActuator, NamedModes
    <3>2. CASE d.driver # "MT_Device"
      BY <2>2, <3>2 DEF Handle, SelectableNovanta
    <3> QED
      BY <3>1, <3>2
  <2>4. ModeCode(d) = ModeName(d)
    BY <2>3 DEF ModeCode
  <2> QED
    BY <1>7, <2>1, <2>2, <2>3, <2>4 DEF DrivenAsConfigured
<1> QED
  BY <1>4, <1>5, <1>6, <1>7 DEF joints

(* Both loops over the tokens of one line.                                 *)
LineReadBy(E, joints, line, r, u) ==
  LET N == Len(line)
  IN  /\ ReadBy(joints, line, N, r)
      /\ ChosenBy(E, N, line, {token \in Range(line) : ~Blank(token)}, u)
      /\ Typed(line) = u[N]
      /\ PickedJoints(joints, line) = Answer(r[N])

LEMMA SelectionHistories ==
  ASSUME NEW E, NEW line \in Seq(E), NEW joints, Len(joints) \in Nat
  PROVE  \E r, u : LineReadBy(E, joints, line, r, u)
<1> DEFINE N == Len(line)
           S == {token \in Range(line) : ~Blank(token)}
<1>1. N \in Nat /\ line \in [1..N -> E] /\ S \in SUBSET E /\ Len(line) = N
  BY DEF Range
<1>2. Typed(line) = Chosen(line, S)
  BY DEF Typed
<1> HIDE DEF N, S
<1>3. PICK u : ChosenIs(E, N, line, S, u)
  BY <1>1, ChosenHistory
<1>4. PICK r : /\ ReadBy(joints, line, N, r)
               /\ PickedJoints(joints, line) = Answer(r[N])
  BY <1>1, ReadHistory
<1>5. LineReadBy(E, joints, line, r, u)
  BY <1>1, <1>2, <1>3, <1>4, Zenon DEF ChosenIs, LineReadBy, N, S
<1> QED
  BY <1>5

(* However many devices of however many kinds are configured and however   *)
(* long the line is: the joints picked are those of the numbers that the   *)
(* tokens are or begin with, each is driven as it is configured, and a     *)
(* good line is taken.                                                     *)
THEOREM LinesReadRight ==
  ASSUME NEW D, NEW devices \in Seq(D), NEW E, NEW line \in Seq(E)
  PROVE  LET joints == EnumerateJoints(devices)
         IN  SelectionAsTyped(joints, line) /\ GoodLineTaken(joints, line)
<1> DEFINE js == EnumerateJoints(devices)
<1>1. /\ Len(js) \in Nat /\ DOMAIN js = 1..Len(js)
      /\ \A i \in 1..Len(js) : js[i].selectable => DrivenAsConfigured(js[i])
  BY EnumeratedJoints
<1> SUFFICES ASSUME NEW joints, joints = js
             PROVE  SelectionAsTyped(joints, line) /\ GoodLineTaken(joints, line)
  BY Zenon
<1>2. /\ Len(joints) \in Nat /\ DOMAIN joints = 1..Len(joints)
      /\ \A i \in 1..Len(joints) : joints[i].selectable => DrivenAsConfigured(joints[i])
  BY <1>1
<1> HIDE DEF js
<1> DEFINE typed == Typed(line)
<1> DEFINE N == Len(line)
<1>3. PICK r, u :
        /\ ReadBy(joints, line, N, r)
        /\ ChosenBy(E, N, line, {token \in Range(line) : ~Blank(token)}, u)
        /\ typed = u[N]
        /\ PickedJoints(joints, line) = Answer(r[N])
  <2>1. PICK r, u : LineReadBy(E, joints, line, r, u)
    BY <1>2, SelectionHistories
  <2> QED
    BY <2>1, Zenon DEF LineReadBy
<1>. N \in Nat /\ line \in [1..N -> E]
  OBVIOUS
<1>4. \A i \in 0..N : u[i] \in Seq(E) /\ r[i] \in Reads /\ Follows(joints, u[i], r[i])
  BY <1>2, <1>3, ReadingFollows
<1> DEFINE picks == r[N].picks
           answer == PickedJoints(joints, line).answer
<1>5. /\ N \in 0..N /\ 0 \in 0..N /\ typed \in Seq(E) /\ picks \in Seq(Int)
      /\ r[N] \in Reads /\ Follows(joints, typed, r[N])
  BY <1>3, <1>4 DEF Reads
<1>6. /\ PickedJoints(joints, line).picks = picks
      /\ answer = "picked" <=> ~r[N].bad /\ picks # <<>>
  BY <1>3 DEF Answer
<1> HIDE DEF typed, picks, answer, N
<1>7. SelectionAsTyped(joints, line)
  <2> SUFFICES ASSUME answer = "picked"
               PROVE  /\ \A i \in DOMAIN typed : StoiReads(typed[i])
                      /\ picks = [i \in DOMAIN typed |-> typed[i].index]
                      /\ IsInjective(picks)
                      /\ \A i \in DOMAIN picks : DrivenAsConfigured(joints[picks[i] + 1])
    BY <1>6, Zenon DEF SelectionAsTyped, typed, answer
  <2>1. ~r[N].bad
    BY <1>6
  <2>2. /\ Len(picks) = Len(typed)
        /\ \A k \in 1..Len(typed) : StoiReads(typed[k]) /\ picks[k] = typed[k].index
        /\ \A k \in 1..Len(picks) : /\ picks[k] \in 0..(Len(joints) - 1)
                                     /\ joints[picks[k] + 1].selectable
        /\ \A k, l \in 1..Len(picks) : picks[k] = picks[l] => k = l
    BY <1>5, <2>1 DEF Follows, picks
  <2>3. DOMAIN typed = 1..Len(typed) /\ DOMAIN picks = 1..Len(picks) /\ picks = [i \in DOMAIN picks |-> picks[i]]
    BY <1>5
  <2>4. picks = [i \in DOMAIN typed |-> typed[i].index]
    BY <2>2, <2>3
  <2>5. IsInjective(picks)
    BY <2>2, <2>3 DEF IsInjective
  <2>6. ASSUME NEW i \in DOMAIN picks
        PROVE  DrivenAsConfigured(joints[picks[i] + 1])
    <3>1. picks[i] + 1 \in 1..Len(joints) /\ joints[picks[i] + 1].selectable
      BY <1>2, <2>2, <2>3
    <3> QED
      BY <1>2, <3>1
  <2>7. \A i \in DOMAIN typed : StoiReads(typed[i])
    BY <2>2, <2>3
  <2> QED
    BY <2>4, <2>5, <2>6, <2>7
<1>8. GoodLineTaken(joints, line)
  <2> DEFINE good == {i - 1 : i \in {k \in DOMAIN joints : joints[k].selectable}}
  <2> SUFFICES ASSUME /\ typed # <<>>
                      /\ \A i \in DOMAIN typed : typed[i].kind = "number" /\ typed[i].index \in good
                      /\ IsInjective([i \in DOMAIN typed |-> typed[i].index])
               PROVE  answer = "picked"
    BY Zenon DEF GoodLineTaken, typed, answer
  <2>1. \A x \in good : x \in 0..(Len(joints) - 1) /\ joints[x + 1].selectable
    BY <1>2
  <2>2. DOMAIN typed = 1..Len(typed) /\ Len(typed) \in Nat
    BY <1>5
  <2>3. \A i \in 1..Len(typed) :
          /\ StoiReads(typed[i]) /\ typed[i].index \in 0..(Len(joints) - 1)
          /\ joints[typed[i].index + 1].selectable
    BY <2>1, <2>2 DEF StoiReads
  <2>4. \A i, k \in 1..Len(typed) : typed[i].index = typed[k].index => i = k
    BY <2>2 DEF IsInjective
  <2> HIDE DEF good
  <2> DEFINE T == {i \in 0..N : ~r[i].bad}
  <2>5. 0 \in T
    BY <1>3, <1>5 DEF ReadBy
  <2>6. ASSUME NEW i \in 1..N, i - 1 \in T PROVE i \in T
    <3>1. i \in 0..N /\ i - 1 \in 0..N /\ ~r[i - 1].bad
      BY <2>6
    <3> DEFINE read == r[i - 1]
               before == u[i - 1]
               token == line[i]
    <3>2. /\ read \in Reads /\ before \in Seq(E) /\ token \in E /\ u[i] \in Seq(E)
          /\ Follows(joints, before, read) /\ r[i] = FlushToken(joints, read, token)
      BY <1>3, <1>4, <3>1 DEF ReadBy
    <3>3. u[i] = IF Blank(token) THEN before ELSE Append(before, token)
      <4>1. token \in Range(line)
        BY <1>3 DEF Range
      <4> QED
        BY <1>3, <4>1 DEF ChosenBy, ChosenPass
    <3>4. Len(u[i]) <= Len(typed) /\ \A k \in 1..Len(u[i]) : typed[k] = u[i][k]
      <4> DEFINE S == {t \in Range(line) : ~Blank(t)}
      <4>1. ChosenBy(E, N, line, S, u)
        BY <1>3
      <4> HIDE DEF S
      <4>2. BeginsWith(u[i], u[N])
        BY <3>1, <4>1, ChosenGrows
      <4> QED
        BY <1>3, <4>2, Zenon DEF BeginsWith
    <3>5. /\ Len(read.picks) = Len(before) /\ Len(before) \in Nat
          /\ \A k \in 1..Len(before) : read.picks[k] = before[k].index
      <4>1. ~read.bad
        BY <3>1
      <4> HIDE DEF read, before, token
      <4> QED
        BY <3>2, <4>1, SMTT(60) DEF Follows
    <3> HIDE DEF read, before, token
    <3>6. CASE Blank(token)
      <4>1. r[i] = read
        BY <3>2, <3>6 DEF FlushToken
      <4> QED
        BY <3>1, <4>1 DEF read
    <3>7. CASE ~Blank(token)
      <4> DEFINE n == Len(before) + 1
      <4>1. /\ Len(u[i]) = n /\ u[i][n] = token /\ \A k \in 1..Len(before) : u[i][k] = before[k]
        BY <3>2, <3>3, <3>7, AppendProperties
      <4>2. /\ n \in 1..Len(typed) /\ typed[n] = token
            /\ \A k \in 1..Len(before) : k \in 1..Len(typed) /\ k # n /\ typed[k] = before[k]
        BY <2>2, <3>4, <3>5, <4>1
      <4> HIDE DEF n
      <4>3. /\ StoiReads(token) /\ token.index \in 0..(Len(joints) - 1)
            /\ joints[token.index + 1].selectable
        BY <2>3, <4>2
      <4>4. \A k \in 1..Len(before) : read.picks[k] # token.index
        BY <2>4, <3>5, <4>2
      <4>5. Usable(joints, read.picks, token)
        BY <3>5, <4>3, <4>4 DEF Usable, Contains
      <4>6. r[i] = [read EXCEPT !.picks = Append(@, token.index)]
        BY <3>2, <3>7, <4>5 DEF FlushToken
      <4>7. r[i].bad = read.bad
        BY <3>2, <4>6 DEF Reads
      <4> QED
        BY <3>1, <4>7 DEF read
    <3> QED
      BY <3>6, <3>7
  <2> HIDE DEF T
  <2>7. 0..N \subseteq T
    BY <1>3, <2>5, <2>6, InductionUpTo
  <2>8. ~r[N].bad
    BY <1>5, <2>7 DEF T
  <2>9. Len(picks) = Len(typed) /\ Len(typed) # 0
    <3>1. Len(picks) = Len(typed)
      BY <1>5, <2>8 DEF Follows, picks
    <3>2. Len(typed) # 0
      BY <1>5, EmptySeq
    <3> QED
      BY <3>1, <3>2
  <2>10. picks # <<>>
    BY <2>9
  <2> QED
    BY <1>6, <2>8, <2>10
<1> QED
  BY <1>7, <1>8

(* In every order of devices and tokens: the session drives what was typed.*)
THEOREM SelectionCorrect == Spec => []SelectionSound
<1>1. Init => SelectionSound
  <2> SUFFICES ASSUME Init, kind = "prompts"
               PROVE  LET joints == EnumerateJoints(prompt.devices)
                      IN  /\ SelectionAsTyped(joints, prompt.line)
                          /\ GoodLineTaken(joints, prompt.line)
    BY DEF SelectionSound
  <2>1. prompt \in Prompts
    BY DEF Init
  <2>2. prompt.devices \in [1..2 -> Devices] /\ \E n \in 0..3 : prompt.line \in [1..n -> Tokens]
    BY <2>1 DEF Prompts
  <2>3. prompt.devices \in Seq(Devices)
    <3>1. \A n \in Nat : \A S, s : s \in [1..n -> S] => s \in Seq(S)
      OBVIOUS
    <3> HIDE DEF Devices
    <3> QED
      BY <2>2, <3>1, 2 \in Nat, Zenon
  <2>4. prompt.line \in Seq(Tokens)
    BY <2>2
  <2> QED
    BY <2>3, <2>4, LinesReadRight
<1>2. SelectionSound /\ [Next]_vars => SelectionSound'
  BY DEF SelectionSound, Next, Record, Plot, vars
<1> QED
  BY <1>1, <1>2, PTL DEF Spec
-----------------------------------------------------------------------------
(* The list of checked joints has every checked joint once.                *)
Listing(x, boxes) ==
  /\ x \in Seq(Int)
  /\ \A k, l \in 1..Len(x) : x[k] = x[l] => k = l
  /\ \A k \in 1..Len(x) : x[k] \in boxes
  /\ \A b \in boxes : \E k \in 1..Len(x) : x[k] = b

LEMMA ListedOn ==
  ASSUME NEW x, NEW b \in Int, NEW boxes \in SUBSET Int, b \notin boxes, Listing(x, boxes)
  PROVE  Listing(Append(x, b), boxes \cup {b})
<1> DEFINE n == Len(x)
           y == Append(x, b)
           more == boxes \cup {b}
<1>1. /\ n \in Nat /\ y \in Seq(Int) /\ Len(y) = n + 1 /\ y[n + 1] = b
      /\ \A k \in 1..n : y[k] = x[k]
  BY AppendProperties DEF Listing
<1>2. /\ \A k, l \in 1..n : x[k] = x[l] => k = l
      /\ \A k \in 1..n : x[k] \in boxes
      /\ \A c \in boxes : \E k \in 1..n : x[k] = c
  BY DEF Listing
<1> HIDE DEF n, y
<1>3. \A k \in 1..(n + 1) : k \in 1..n \/ k = n + 1
  BY <1>1
<1>4. \A k \in 1..(n + 1) : y[k] \in more
  BY <1>1, <1>2, <1>3
<1>5. \A k, l \in 1..(n + 1) : y[k] = y[l] => k = l
  BY <1>1, <1>2, <1>3
<1>6. \A c \in more : \E k \in 1..(n + 1) : y[k] = c
  <2>1. ASSUME NEW c \in boxes PROVE \E k \in 1..(n + 1) : y[k] = c
    <3>1. PICK k \in 1..n : x[k] = c
      BY <1>2
    <3> QED
      BY <1>1, <3>1
  <2>2. \E k \in 1..(n + 1) : y[k] = b
    BY <1>1
  <2> QED
    BY <2>1, <2>2
<1> QED
  BY <1>1, <1>4, <1>5, <1>6 DEF Listing, y

LEMMA CheckedListed ==
  ASSUME NEW n \in Nat, NEW boxes \in SUBSET (0..(n - 1))
  PROVE  Listing(Chosen([i \in 1..n |-> i - 1], boxes), boxes)
<1> DEFINE s == [i \in 1..n |-> i - 1]
<1>1. s \in [1..n -> Int] /\ Len(s) = n /\ boxes \in SUBSET Int
  OBVIOUS
<1>2. /\ \A i \in 1..n : s[i] = i - 1
      /\ \A b \in boxes : b \in Int /\ 0 <= b /\ b < n
  OBVIOUS
<1> HIDE DEF s
<1>3. PICK u : ChosenIs(Int, n, s, boxes, u)
  BY <1>1, ChosenHistory
<1>4. /\ u[0] = <<>> /\ Chosen(s, boxes) = u[n]
      /\ \A i \in 1..n : u[i] = ChosenPass(boxes, u[i - 1], s[i])
  BY <1>3 DEF ChosenIs, ChosenBy
<1> DEFINE upto(i) == {b \in boxes : b < i}
           T == {i \in 0..n : Listing(u[i], upto(i))}
<1>5. 0 \in T
  <2>1. upto(0) = {}
    <3>1. \A b \in boxes : ~ (b < 0)
      BY <1>2
    <3> QED
      BY <3>1, Zenon
  <2>2. Listing(<<>>, {})
    BY DEF Listing
  <2>3. Listing(u[0], upto(0)) /\ 0 \in 0..n
    <3>1. 0 \in 0..n
      OBVIOUS
    <3> QED
      BY <1>4, <2>1, <2>2, <3>1, Zenon
  <2> QED
    BY <2>3, Zenon
<1>6. ASSUME NEW i \in 1..n, i - 1 \in T PROVE i \in T
  <2>1. i \in 0..n /\ i - 1 \in Int /\ Listing(u[i - 1], upto(i - 1))
    BY <1>6
  <2>2. u[i] = IF i - 1 \in boxes THEN Append(u[i - 1], i - 1) ELSE u[i - 1]
    BY <1>2, <1>4 DEF ChosenPass
  <2>3. CASE i - 1 \in boxes
    <3>1. upto(i) = upto(i - 1) \cup {i - 1} /\ i - 1 \notin upto(i - 1)
      <4>1. \A b \in boxes : b < i <=> b < i - 1 \/ b = i - 1
        BY <1>2
      <4>2. ~ (i - 1 < i - 1)
        OBVIOUS
      <4> QED
        BY <2>3, <4>1, <4>2, Zenon
    <3> DEFINE before == upto(i - 1)
    <3>2. before \in SUBSET Int
      BY <1>1
    <3> HIDE DEF before
    <3>3. Listing(u[i], before \cup {i - 1})
      BY <2>1, <2>2, <2>3, <3>1, <3>2, ListedOn DEF before
    <3> QED
      BY <2>1, <3>1, <3>3 DEF before
  <2>4. CASE i - 1 \notin boxes
    <3>1. upto(i) = upto(i - 1)
      <4>1. \A b \in boxes : b < i <=> b < i - 1 \/ b = i - 1
        BY <1>2
      <4> QED
        BY <2>4, <4>1, Zenon
    <3> QED
      BY <2>1, <2>2, <2>4, <3>1
  <2> QED
    BY <2>3, <2>4
<1> HIDE DEF T
<1>7. 0..n \subseteq T
  BY <1>5, <1>6, InductionUpTo
<1>8. Listing(u[n], upto(n))
  BY <1>7 DEF T
<1>9. upto(n) = boxes
  BY <1>2
<1> QED
  BY <1>4, <1>8, <1>9 DEF s

(* What a function pairs off is equally many.                              *)
PairedOff(f, A, B) ==
  /\ f \in [A -> B]
  /\ \A x, y \in A : f[x] = f[y] => x = y
  /\ \A z \in B : \E x \in A : f[x] = z

LEMMA SameNumber ==
  ASSUME NEW A, IsFiniteSet(A), NEW B, NEW f, PairedOff(f, A, B)
  PROVE  IsFiniteSet(B) /\ Cardinality(A) = Cardinality(B)
<1>1. f \in Bijection(A, B)
  BY Zenon DEF PairedOff, Bijection, Injection, Surjection, IsInjective
<1> QED
  BY <1>1, FS_Bijection DEF ExistsBijection

LEMMA ImageFinite ==
  ASSUME NEW n \in Nat, NEW f, DOMAIN f = 1..n, NEW B, B = {f[k] : k \in 1..n}
  PROVE  IsFiniteSet(B)
<1> DEFINE g == [k \in 1..n |-> f[k]]
<1>1. g \in Surjection(1..n, B)
  BY Zenon DEF Surjection
<1>2. IsFiniteSet(1..n)
  <2>1. 1 \in Int /\ n \in Int
    OBVIOUS
  <2> QED
    BY <2>1, FS_Interval, Zenon
<1> QED
  BY <1>1, <1>2, FS_Surjection

(* Every way to build the charts gives each series one feed, and feeds it  *)
(* with a checked joint.                                                   *)
Seats(cs) == UNION {{<<c, s>> : s \in 1..cs[c]} : c \in DOMAIN cs}

LEMMA SeatsAre ==
  ASSUME NEW cs
  PROVE  /\ \A z \in Seats(cs) : \E c \in DOMAIN cs : \E s \in 1..cs[c] : z = <<c, s>>
         /\ \A c, s : <<c, s>> \in Seats(cs) <=> c \in DOMAIN cs /\ s \in 1..cs[c]
<1>1. \A z \in Seats(cs) : \E c \in DOMAIN cs : \E s \in 1..cs[c] : z = <<c, s>>
  BY Zenon DEF Seats
<1>2. \A c, s, d, r : <<c, s>> = <<d, r>> => c = d /\ s = r
  OBVIOUS
<1>3. ASSUME NEW c, NEW s
      PROVE  <<c, s>> \in Seats(cs) <=> c \in DOMAIN cs /\ s \in 1..cs[c]
  <2>1. ASSUME <<c, s>> \in Seats(cs) PROVE c \in DOMAIN cs /\ s \in 1..cs[c]
    <3>1. PICK d \in DOMAIN cs : \E r \in 1..cs[d] : <<c, s>> = <<d, r>>
      BY <1>1, <2>1, Zenon
    <3>2. PICK r \in 1..cs[d] : <<c, s>> = <<d, r>>
      BY <3>1
    <3>3. c = d /\ s = r
      BY <1>2, <3>2
    <3> QED
      BY <3>1, <3>2, <3>3
  <2>2. ASSUME c \in DOMAIN cs, s \in 1..cs[c] PROVE <<c, s>> \in Seats(cs)
    <3>1. <<c, s>> \in {<<c, r>> : r \in 1..cs[c]}
      BY <2>2, Zenon
    <3> QED
      BY <2>2, <3>1, Zenon DEF Seats
  <2> QED
    BY <2>1, <2>2
<1> QED
  BY <1>1, <1>3, Zenon

FedBy(feeds, cs, boxes) ==
  /\ feeds # {}
  /\ {<<i.chart, i.series>> : i \in feeds} = Seats(cs)
  /\ Cardinality(feeds) = Cardinality(Seats(cs))
  /\ {i.joint : i \in feeds} \subseteq boxes

LEMMA FedOnce ==
  ASSUME NEW n \in Nat, NEW f, DOMAIN f = 1..n, NEW feeds, feeds = {f[k] : k \in 1..n},
         n # 0, NEW cs, NEW boxes,
         \A k \in 1..n : f[k].joint \in boxes /\ <<f[k].chart, f[k].series>> \in Seats(cs),
         \A z \in Seats(cs) : \E k \in 1..n : z = <<f[k].chart, f[k].series>>,
         \A k, l \in 1..n : f[k].chart = f[l].chart /\ f[k].series = f[l].series => k = l
  PROVE  FedBy(feeds, cs, boxes)
<1> DEFINE pairs == {<<i.chart, i.series>> : i \in feeds}
           g == [i \in feeds |-> <<i.chart, i.series>>]
<1>1. \A i \in feeds : \E k \in 1..n : i = f[k]
  OBVIOUS
<1>2. \A k \in 1..n : f[k] \in feeds
  OBVIOUS
<1>3. feeds # {}
  BY <1>2, 1 \in 1..n
<1>4. pairs = Seats(cs)
  <2>1. \A z \in pairs : z \in Seats(cs)
    BY <1>1
  <2>2. ASSUME NEW z \in Seats(cs) PROVE z \in pairs
    <3>1. PICK k \in 1..n : z = <<f[k].chart, f[k].series>>
      OBVIOUS
    <3> QED
      BY <1>2, <3>1
  <2> QED
    BY <2>1, <2>2
<1>5. PairedOff(g, feeds, pairs)
  <2>1. \A i, j \in feeds : i.chart = j.chart /\ i.series = j.series => i = j
    BY <1>1
  <2>2. g \in [feeds -> pairs] /\ \A i \in feeds : g[i] = <<i.chart, i.series>>
    OBVIOUS
  <2>3. \A z \in pairs : \E i \in feeds : z = <<i.chart, i.series>>
    OBVIOUS
  <2> HIDE DEF g, pairs
  <2>4. ASSUME NEW i \in feeds, NEW j \in feeds, g[i] = g[j] PROVE i = j
    <3>1. <<i.chart, i.series>> = <<j.chart, j.series>>
      BY <2>2, <2>4, Zenon
    <3>2. i.chart = j.chart /\ i.series = j.series
      BY <3>1
    <3> QED
      BY <2>1, <3>2, Zenon
  <2>5. ASSUME NEW z \in pairs PROVE \E i \in feeds : g[i] = z
    <3>1. PICK i \in feeds : z = <<i.chart, i.series>>
      BY <2>3
    <3>2. g[i] = z
      BY <2>2, <3>1, Zenon
    <3> QED
      BY <3>2
  <2> QED
    BY <2>2, <2>4, <2>5, Zenon DEF PairedOff
<1>6. IsFiniteSet(feeds)
  BY ImageFinite
<1> HIDE DEF g, pairs
<1>7. Cardinality(feeds) = Cardinality(pairs)
  BY <1>5, <1>6, SameNumber
<1>8. {i.joint : i \in feeds} \subseteq boxes
  <2>1. \A i \in feeds : i.joint \in boxes
    BY <1>1
  <2> QED
    BY <2>1, Zenon
<1> QED
  BY <1>3, <1>4, <1>7, <1>8 DEF FedBy, pairs

LEMMA FocusFed ==
  ASSUME NEW x, NEW boxes, x \in boxes,
         NEW feeds, feeds = {Feed(c, 1, x) : c \in 1..6} \cup {Feed(1, 2, x), Feed(3, 2, x)}
  PROVE  FedBy(feeds, <<2, 1, 2, 1, 1, 1>>, boxes)
<1> DEFINE cs == <<2, 1, 2, 1, 1, 1>>
           f == [k \in 1..8 |-> IF k <= 6 THEN Feed(k, 1, x)
                                ELSE IF k = 7 THEN Feed(1, 2, x) ELSE Feed(3, 2, x)]
           n == 8
<1>1. n \in Nat /\ n # 0 /\ DOMAIN f = 1..n
  OBVIOUS
<1>2. /\ \A k \in 1..6 : f[k] = Feed(k, 1, x)
      /\ f[7] = Feed(1, 2, x) /\ f[8] = Feed(3, 2, x)
      /\ \A k \in 1..n : k \in 1..6 \/ k = 7 \/ k = 8
      /\ 7 \in 1..n /\ 8 \in 1..n /\ \A k \in 1..6 : k \in 1..n
  OBVIOUS
<1> HIDE DEF f
<1>3. feeds = {f[k] : k \in 1..n}
  <2>1. \A z \in feeds : \E k \in 1..n : z = f[k]
    BY <1>2
  <2>2. \A k \in 1..n : f[k] \in feeds
    BY <1>2
  <2> QED
    BY <2>1, <2>2
<1>4. /\ \A c \in 1..6 : <<c, 1>> \in Seats(cs)
      /\ <<1, 2>> \in Seats(cs) /\ <<3, 2>> \in Seats(cs)
      /\ \A z \in Seats(cs) : z = <<1, 2>> \/ z = <<3, 2>> \/ \E c \in 1..6 : z = <<c, 1>>
  <2>1. /\ DOMAIN cs = 1..6 /\ \A c \in 1..6 : cs[c] \in {1, 2}
        /\ \A c \in 1..6 : cs[c] = 2 <=> c \in {1, 3}
    OBVIOUS
  <2>2. 1..1 = {1} /\ 1..2 = {1, 2}
    OBVIOUS
  <2> HIDE DEF cs
  <2>3. \A c, s : <<c, s>> \in Seats(cs) <=> c \in DOMAIN cs /\ s \in 1..cs[c]
    BY SeatsAre
  <2>4. \A z \in Seats(cs) : \E c \in DOMAIN cs : \E s \in 1..cs[c] : z = <<c, s>>
    BY SeatsAre
  <2>5. /\ \A c \in 1..6 : <<c, 1>> \in Seats(cs)
        /\ <<1, 2>> \in Seats(cs) /\ <<3, 2>> \in Seats(cs)
    BY <2>1, <2>2, <2>3
  <2>6. ASSUME NEW z \in Seats(cs)
        PROVE  z = <<1, 2>> \/ z = <<3, 2>> \/ \E c \in 1..6 : z = <<c, 1>>
    <3>1. PICK c \in 1..6 : \E s \in 1..cs[c] : z = <<c, s>>
      BY <2>1, <2>4
    <3>2. PICK s \in 1..cs[c] : z = <<c, s>>
      BY <3>1
    <3>3. s = 1 \/ (s = 2 /\ c \in {1, 3})
      BY <2>1, <2>2, <3>2
    <3> QED
      BY <3>2, <3>3
  <2> QED
    BY <2>5, <2>6
<1> HIDE DEF cs
<1>5. \A k \in 1..n : f[k].joint \in boxes /\ <<f[k].chart, f[k].series>> \in Seats(cs)
  BY <1>2, <1>4 DEF Feed
<1>6. ASSUME NEW z \in Seats(cs) PROVE \E k \in 1..n : z = <<f[k].chart, f[k].series>>
  <2>1. CASE z = <<1, 2>>
    BY <1>2, <2>1 DEF Feed
  <2>2. CASE z = <<3, 2>>
    BY <1>2, <2>2 DEF Feed
  <2>3. CASE \E c \in 1..6 : z = <<c, 1>>
    BY <1>2, <2>3 DEF Feed
  <2> QED
    BY <1>4, <2>1, <2>2, <2>3
<1>7. \A k, l \in 1..n : f[k].chart = f[l].chart /\ f[k].series = f[l].series => k = l
  BY <1>2 DEF Feed
<1> HIDE DEF n
<1>8. FedBy(feeds, cs, boxes)
  BY <1>1, <1>3, <1>5, <1>6, <1>7, FedOnce
<1> QED
  BY <1>8 DEF cs

LEMMA StackFed ==
  ASSUME NEW shown, NEW boxes, boxes # {}, Listing(shown, boxes),
         NEW feeds, feeds = {Feed(i, 1, shown[i]) : i \in DOMAIN shown},
         NEW cs, cs = [c \in 1..Len(shown) |-> 1]
  PROVE  FedBy(feeds, cs, boxes)
<1> DEFINE n == Len(shown)
           f == [k \in 1..n |-> Feed(k, 1, shown[k])]
<1>1. /\ n \in Nat /\ n # 0 /\ DOMAIN shown = 1..n /\ \A k \in 1..n : shown[k] \in boxes
      /\ DOMAIN f = 1..n
  BY DEF Listing
<1>2. \A k \in 1..n : f[k] = Feed(k, 1, shown[k])
  OBVIOUS
<1>3. feeds = {f[k] : k \in 1..n}
  BY <1>1, <1>2, Zenon
<1> HIDE DEF f
<1>4. \A k \in 1..n : f[k].chart = k /\ f[k].series = 1 /\ f[k].joint = shown[k]
  <2>1. \A k : LET d == Feed(k, 1, shown[k])
               IN  d.chart = k /\ d.series = 1 /\ d.joint = shown[k]
    BY DEF Feed
  <2> QED
    BY <1>2, <2>1, Zenon
<1>5. DOMAIN cs = 1..n /\ \A c \in 1..n : 1..cs[c] = {1}
  OBVIOUS
<1>6. \A k \in 1..n : <<k, 1>> \in Seats(cs)
  BY <1>5, SeatsAre, Zenon
<1>7. \A z \in Seats(cs) : \E k \in 1..n : z = <<k, 1>>
  <2> SUFFICES ASSUME NEW z \in Seats(cs) PROVE \E k \in 1..n : z = <<k, 1>>
    OBVIOUS
  <2>1. PICK c \in DOMAIN cs : \E s \in 1..cs[c] : z = <<c, s>>
    BY SeatsAre
  <2>2. PICK s \in 1..cs[c] : z = <<c, s>>
    BY <2>1
  <2>3. c \in 1..n /\ s = 1
    BY <1>5, <2>1, <2>2
  <2> QED
    BY <2>2, <2>3
<1> HIDE DEF n
<1>8. \A k \in 1..n : f[k].joint \in boxes /\ <<f[k].chart, f[k].series>> \in Seats(cs)
  BY <1>1, <1>4, <1>6
<1>9. \A z \in Seats(cs) : \E k \in 1..n : z = <<f[k].chart, f[k].series>>
  BY <1>4, <1>7
<1>10. \A k, l \in 1..n : f[k].chart = f[l].chart /\ f[k].series = f[l].series => k = l
  BY <1>4
<1> QED
  BY <1>1, <1>3, <1>8, <1>9, <1>10, FedOnce

LEMMA OneChartFed ==
  ASSUME NEW shown, NEW boxes, boxes # {}, Listing(shown, boxes),
         NEW feeds, feeds = {Feed(1, i, shown[i]) : i \in DOMAIN shown},
         NEW cs, cs = <<Len(shown)>>
  PROVE  FedBy(feeds, cs, boxes)
<1> DEFINE n == Len(shown)
           f == [k \in 1..n |-> Feed(1, k, shown[k])]
<1>1. /\ n \in Nat /\ n # 0 /\ DOMAIN shown = 1..n /\ \A k \in 1..n : shown[k] \in boxes
      /\ DOMAIN f = 1..n
  BY DEF Listing
<1>2. \A k \in 1..n : f[k] = Feed(1, k, shown[k])
  OBVIOUS
<1>3. feeds = {f[k] : k \in 1..n}
  BY <1>1, <1>2, Zenon
<1> HIDE DEF f
<1>4. \A k \in 1..n : f[k].chart = 1 /\ f[k].series = k /\ f[k].joint = shown[k]
  <2>1. \A k : LET d == Feed(1, k, shown[k])
               IN  d.chart = 1 /\ d.series = k /\ d.joint = shown[k]
    BY DEF Feed
  <2> QED
    BY <1>2, <2>1, Zenon
<1>5. DOMAIN cs = {1} /\ 1..cs[1] = 1..n
  OBVIOUS
<1>6. \A k \in 1..n : <<1, k>> \in Seats(cs)
  BY <1>5, SeatsAre, Zenon
<1>7. \A z \in Seats(cs) : \E k \in 1..n : z = <<1, k>>
  <2> SUFFICES ASSUME NEW z \in Seats(cs) PROVE \E k \in 1..n : z = <<1, k>>
    OBVIOUS
  <2>1. PICK c \in DOMAIN cs : \E s \in 1..cs[c] : z = <<c, s>>
    BY SeatsAre
  <2>2. PICK s \in 1..cs[c] : z = <<c, s>>
    BY <2>1
  <2>3. c = 1 /\ s \in 1..n
    BY <1>5, <2>1, <2>2
  <2> QED
    BY <2>2, <2>3
<1> HIDE DEF n
<1>8. \A k \in 1..n : f[k].joint \in boxes /\ <<f[k].chart, f[k].series>> \in Seats(cs)
  BY <1>1, <1>4, <1>6
<1>9. \A z \in Seats(cs) : \E k \in 1..n : z = <<f[k].chart, f[k].series>>
  BY <1>4, <1>7
<1>10. \A k, l \in 1..n : f[k].chart = f[l].chart /\ f[k].series = f[l].series => k = l
  BY <1>4
<1> QED
  BY <1>1, <1>3, <1>8, <1>9, <1>10, FedOnce

LEMMA ChartsFed ==
  ASSUME NEW v \in Views, NEW shown, NEW boxes, boxes # {}, Listing(shown, boxes)
  PROVE  FedBy(ItemsOf(v, shown), ChartsOf(v, shown), boxes)
<1>1. CASE v = "Focus"
  <2>1. shown # <<>> /\ shown[1] \in boxes
    BY DEF Listing
  <2>2. /\ ItemsOf(v, shown) = {Feed(c, 1, shown[1]) : c \in 1..6}
                                 \cup {Feed(1, 2, shown[1]), Feed(3, 2, shown[1])}
        /\ ChartsOf(v, shown) = <<2, 1, 2, 1, 1, 1>>
    BY <1>1, <2>1 DEF ItemsOf, ChartsOf
  <2> QED
    BY <2>1, <2>2, FocusFed, Zenon
<1>2. CASE v = "Stacked"
  <2>1. /\ ItemsOf(v, shown) = {Feed(i, 1, shown[i]) : i \in DOMAIN shown}
        /\ ChartsOf(v, shown) = [c \in 1..Len(shown) |-> 1]
    BY <1>2, Zenon DEF ItemsOf, ChartsOf
  <2> QED
    BY <2>1, StackFed, Zenon
<1>3. CASE v # "Focus" /\ v # "Stacked"
  <2>1. /\ ItemsOf(v, shown) = {Feed(1, i, shown[i]) : i \in DOMAIN shown}
        /\ ChartsOf(v, shown) = <<Len(shown)>>
    BY <1>3, Zenon DEF ItemsOf, ChartsOf
  <2> QED
    BY <2>1, OneChartFed, Zenon
<1> QED
  BY <1>1, <1>2, <1>3

(* What an inductive argument needs of the plot: the types, and of the     *)
(* history that a time chart ends in the newest sample, that its points    *)
(* are the end of what was taken, and that what it dropped is older than   *)
(* every window shows.                                                     *)
PlotTyped ==
  /\ known \in Nat /\ checked \in SUBSET (0..(known - 1)) /\ view \in Views
  /\ points \in Seq(Nat) /\ taken \in Seq(Nat) /\ latest \in Nat
  /\ window \in Windows /\ snapshot.t \in Nat

EndsIn(xs, ys) ==
  /\ Len(xs) <= Len(ys)
  /\ \A k \in 1..Len(xs) : xs[k] = ys[Len(ys) - Len(xs) + k]

Held ==
  /\ Len(points) > 0 /\ EndsIn(points, taken) /\ latest = taken[Len(taken)]
  /\ \A i \in 1..(Len(taken) - Len(points)) : taken[i] < latest - Narrowest

HistoryInv ==
  /\ taken = <<>> => points = <<>> /\ latest = 0
  /\ TimeAxis /\ ClockWentOn /\ taken # <<>> => Held
  /\ ~TimeAxis => points = Capped(taken)

PlotInv == PlotTyped /\ SeriesFed /\ HistoryInv

LEMMA EndOf ==
  ASSUME NEW xs \in Seq(Nat), NEW n \in 0..Len(xs)
  PROVE  /\ LastPoints(xs, n) \in Seq(Nat) /\ Len(LastPoints(xs, n)) = n
         /\ \A k \in 1..n : LastPoints(xs, n)[k] = xs[Len(xs) - n + k]
<1> DEFINE m == Len(xs)
<1>1. m \in Nat /\ n \in Nat /\ n <= m
  OBVIOUS
<1>2. SubSeq(xs, m - n + 1, m) = [k \in 1..n |-> xs[m - n + k]]
  BY <1>1, SubSeqProperties
<1>3. \A k \in 1..n : m - n + k \in 1..m
  BY <1>1
<1>4. \A k \in 1..n : xs[m - n + k] \in Nat
  BY <1>3
<1> QED
  BY <1>1, <1>2, <1>4 DEF LastPoints

LEMMA EndsCompose ==
  ASSUME NEW xs \in Seq(Nat), NEW ys \in Seq(Nat), EndsIn(xs, ys), NEW x \in Nat
  PROVE  EndsIn(Append(xs, x), Append(ys, x))
<1> DEFINE n == Len(xs)
           m == Len(ys)
           xx == Append(xs, x)
           yy == Append(ys, x)
<1>1. /\ n \in Nat /\ m \in Nat /\ n <= m /\ Len(xx) = n + 1 /\ Len(yy) = m + 1
      /\ \A k \in 1..n : xx[k] = xs[k] /\ xs[k] = ys[m - n + k]
      /\ \A k \in 1..m : yy[k] = ys[k]
      /\ xx[n + 1] = x /\ yy[m + 1] = x
  BY DEF EndsIn
<1> HIDE DEF n, m, xx, yy
<1>2. ASSUME NEW k \in 1..(n + 1)
      PROVE  xx[k] = yy[(m + 1) - (n + 1) + k]
  <2>1. CASE k = n + 1
    <3>1. (m + 1) - (n + 1) + k = m + 1
      BY <1>1, <2>1
    <3> QED
      BY <1>1, <2>1, <3>1
  <2>2. CASE k \in 1..n
    <3>1. (m + 1) - (n + 1) + k = m - n + k /\ m - n + k \in 1..m
      BY <1>1, <2>2
    <3> QED
      BY <1>1, <2>2, <3>1
  <2> QED
    BY <1>1, <2>1, <2>2
<1>3. EndsIn(xx, yy)
  <2>1. Len(xx) <= Len(yy)
    BY <1>1
  <2>2. \A k \in 1..Len(xx) : xx[k] = yy[Len(yy) - Len(xx) + k]
    BY <1>1, <1>2
  <2> QED
    BY <2>1, <2>2, Zenon DEF EndsIn
<1> QED
  BY <1>3 DEF xx, yy

LEMMA EndOfEnd ==
  ASSUME NEW xs \in Seq(Nat), NEW ys \in Seq(Nat), NEW zs \in Seq(Nat),
         EndsIn(xs, ys), EndsIn(ys, zs)
  PROVE  EndsIn(xs, zs)
<1> DEFINE a == Len(xs)
           b == Len(ys)
           c == Len(zs)
<1>1. /\ a \in Nat /\ b \in Nat /\ c \in Nat /\ a <= b /\ b <= c
      /\ \A k \in 1..a : xs[k] = ys[b - a + k]
      /\ \A k \in 1..b : ys[k] = zs[c - b + k]
  BY DEF EndsIn
<1> HIDE DEF a, b, c
<1>2. ASSUME NEW k \in 1..a PROVE xs[k] = zs[c - a + k]
  <2>1. b - a + k \in 1..b /\ c - b + (b - a + k) = c - a + k
    BY <1>1
  <2> QED
    BY <1>1, <2>1
<1>3. a <= c
  BY <1>1
<1> QED
  BY <1>2, <1>3, Zenon DEF EndsIn, a, c

LEMMA EndsInEnd ==
  ASSUME NEW xs \in Seq(Nat), NEW n \in 0..Len(xs)
  PROVE  EndsIn(LastPoints(xs, n), xs)
<1> DEFINE e == LastPoints(xs, n)
<1>1. Len(e) = n /\ \A k \in 1..n : e[k] = xs[Len(xs) - n + k]
  BY EndOf
<1> HIDE DEF e
<1>2. EndsIn(e, xs)
  BY <1>1 DEF EndsIn
<1> QED
  BY <1>2 DEF e

(* append() of a time chart drops old points from the front, and keeps the *)
(* last one.                                                               *)
LEMMA TrimmedRight ==
  ASSUME NEW xs \in Seq(Nat), Len(xs) > 0, NEW from \in Int
  PROVE  \E n \in 0..(Len(xs) - 1) : /\ Trimmed(xs, from) = LastPoints(xs, Len(xs) - n)
                                      /\ \A i \in 1..n : xs[i] < from
<1> DEFINE m == Len(xs)
           Old(n) == \A i \in 1..n : xs[i] < from
           Right(n) == Old(n) /\ (n = m - 1 \/ ~Old(n + 1))
           Ends == {n \in 0..(m - 1) : n = m - 1 \/ ~Old(n + 1)}
<1>1. m \in Nat /\ m >= 1
  OBVIOUS
<1>2. m - 1 \in Ends /\ Ends \in SUBSET Nat
  BY <1>1
<1>3. PICK n \in Ends : \A k \in Ends : n <= k
  <2> HIDE DEF Ends
  <2> QED
    BY <1>2, LeastMember
<1>4. Old(n)
  <2>1. CASE n = 0
    BY <2>1
  <2>2. CASE n # 0
    <3>1. n - 1 \in 0..(m - 1) /\ n - 1 < n
      BY <1>1, <1>3, <2>2
    <3>2. n - 1 \notin Ends
      <4>1. n \in Nat /\ ~ (n <= n - 1)
        BY <1>2
      <4> HIDE DEF Ends
      <4> QED
        BY <1>3, <4>1
    <3>3. Old((n - 1) + 1)
      BY <3>1, <3>2
    <3>4. (n - 1) + 1 = n
      BY <1>2, <1>3
    <3> QED
      BY <3>3, <3>4
  <2> QED
    BY <2>1, <2>2
<1>5. n \in 0..(m - 1) /\ Right(n)
  BY <1>3, <1>4
<1> DEFINE drop == CHOOSE k \in 0..(m - 1) : Right(k)
<1>6. drop \in 0..(m - 1) /\ Right(drop)
  <2> HIDE DEF Right
  <2> QED
    BY <1>5, Zenon
<1>7. Trimmed(xs, from) = LastPoints(xs, m - drop)
  BY Zenon DEF Trimmed
<1> HIDE DEF drop
<1> QED
  BY <1>6, <1>7

(* A cap that is applied sample by sample keeps what one applied at the    *)
(* end would.                                                              *)
Shorter(n, m) == IF n > m THEN m ELSE n

LEMMA CappedIs ==
  ASSUME NEW xs \in Seq(Nat)
  PROVE  /\ Capped(xs) \in Seq(Nat) /\ EndsIn(Capped(xs), xs)
         /\ Len(Capped(xs)) = Shorter(Len(xs), MaxPoints)
<1>1. MaxPoints \in Nat /\ Len(xs) \in Nat
  BY PlotAssumption
<1>2. CASE Len(xs) > MaxPoints
  <2>1. MaxPoints \in 0..Len(xs)
    BY <1>1, <1>2
  <2>2. Capped(xs) = LastPoints(xs, MaxPoints)
    BY <1>2 DEF Capped
  <2> QED
    BY <1>2, <2>1, <2>2, EndOf, EndsInEnd, Zenon DEF Shorter
<1>3. CASE ~ (Len(xs) > MaxPoints)
  <2>1. Capped(xs) = xs
    BY <1>3 DEF Capped
  <2>2. EndsIn(xs, xs)
    BY <1>1 DEF EndsIn
  <2> QED
    BY <1>3, <2>1, <2>2, Zenon DEF Shorter
<1> QED
  BY <1>2, <1>3

LEMMA SameEnd ==
  ASSUME NEW xs \in Seq(Nat), NEW ys \in Seq(Nat), NEW zs, EndsIn(xs, zs), EndsIn(ys, zs),
         Len(xs) = Len(ys)
  PROVE  xs = ys
<1>1. \A k \in 1..Len(xs) : xs[k] = ys[k]
  BY DEF EndsIn
<1> QED
  BY <1>1

LEMMA CappedGrows ==
  ASSUME NEW xs \in Seq(Nat), NEW x \in Nat
  PROVE  Capped(Append(Capped(xs), x)) = Capped(Append(xs, x))
<1> DEFINE cut == Capped(xs)
           short == Append(cut, x)
           long == Append(xs, x)
           a == Capped(short)
           b == Capped(long)
<1>1. cut \in Seq(Nat) /\ EndsIn(cut, xs) /\ Len(cut) = Shorter(Len(xs), MaxPoints)
  BY CappedIs
<1> HIDE DEF cut
<1>2. /\ short \in Seq(Nat) /\ long \in Seq(Nat)
      /\ Len(short) = Len(cut) + 1 /\ Len(long) = Len(xs) + 1
  BY <1>1
<1>3. EndsIn(short, long)
  BY <1>1, EndsCompose
<1> HIDE DEF short, long
<1>4. /\ a \in Seq(Nat) /\ EndsIn(a, short) /\ Len(a) = Shorter(Len(short), MaxPoints)
      /\ b \in Seq(Nat) /\ EndsIn(b, long) /\ Len(b) = Shorter(Len(long), MaxPoints)
  BY <1>2, CappedIs
<1> HIDE DEF a, b
<1>5. EndsIn(a, long)
  BY <1>2, <1>3, <1>4, EndOfEnd
<1>6. Len(a) = Len(b)
  <2>1. MaxPoints \in Nat /\ Len(xs) \in Nat
    BY PlotAssumption
  <2> QED
    BY <1>1, <1>2, <1>4, <2>1 DEF Shorter
<1>7. a = b
  BY <1>4, <1>5, <1>6, SameEnd
<1> QED
  BY <1>7 DEF a, b, short, long, cut

LEMMA NarrowestWindow ==
  /\ Narrowest \in Windows /\ Narrowest \in Nat
  /\ \A w \in Windows : w \in Nat /\ Narrowest <= w
<1>1. Windows \in SUBSET Nat /\ Windows # {}
  BY PlotAssumption
<1>2. \E w \in Windows : \A u \in Windows : w <= u
  BY <1>1, LeastMember
<1>3. Narrowest \in Windows /\ \A u \in Windows : Narrowest <= u
  BY <1>2, Zenon DEF Narrowest
<1> QED
  BY <1>1, <1>3

LEMMA SampleTaken ==
  ASSUME PlotInv, AppendPoint(snapshot.t), taken' = Append(taken, snapshot.t),
         UNCHANGED <<view, window>>
  PROVE  /\ points' \in Seq(Nat) /\ taken' \in Seq(Nat) /\ latest' \in Nat
         /\ HistoryInv'
<1> DEFINE x == snapshot.t
           xs == Append(points, x)
           ys == Append(taken, x)
           p == Len(points)
           m == Len(taken)
<1>1. x \in Nat /\ points \in Seq(Nat) /\ taken \in Seq(Nat) /\ latest \in Nat /\ window \in Nat
      /\ window \in Windows
  BY NarrowestWindow DEF PlotInv, PlotTyped
<1>2. /\ p \in Nat /\ m \in Nat /\ xs \in Seq(Nat) /\ ys \in Seq(Nat)
      /\ Len(xs) = p + 1 /\ Len(ys) = m + 1 /\ xs[p + 1] = x /\ ys[m + 1] = x
      /\ \A k \in 1..m : ys[k] = taken[k]
      /\ taken' = ys
  BY <1>1, AppendProperties
<1>3. HistoryInv
  BY DEF PlotInv
<1>4. CASE TimeAxis
  <2> DEFINE from == latest' - window
  <2>1. latest' = Later(x) /\ points' = Trimmed(xs, from)
    BY <1>4, Zenon DEF AppendPoint
  <2>2. latest' \in Nat /\ latest' >= x
    BY <1>1, <2>1 DEF Later
  <2>3. from \in Int /\ Len(xs) > 0
    BY <1>1, <1>2, <2>2
  <2> HIDE DEF from, xs, ys
  <2>4. PICK n \in 0..(Len(xs) - 1) : /\ points' = LastPoints(xs, Len(xs) - n)
                                       /\ \A i \in 1..n : xs[i] < from
    BY <1>2, <2>1, <2>3, TrimmedRight
  <2> DEFINE r == Len(xs) - n
  <2>5. r \in 0..Len(xs) /\ r > 0 /\ r = p + 1 - n /\ n \in Nat
    BY <1>2, <2>4
  <2>6. points' \in Seq(Nat) /\ Len(points') = r /\ EndsIn(points', xs)
    BY <1>2, <2>4, <2>5, EndOf, EndsInEnd
  <2>7. HistoryInv'
    <3>1. taken' # <<>>
      BY <1>2
    <3>2. TimeAxis'
      BY <1>4 DEF TimeAxis
    <3>3. ASSUME ClockWentOn' PROVE Held'
      <4>1. \A i \in 2..(m + 1) : ys[i - 1] <= ys[i]
        BY <1>2, <3>3 DEF ClockWentOn
      <4>2. /\ EndsIn(points, taken) /\ latest <= x
            /\ \A i \in 1..(m - p) : taken[i] < latest - Narrowest
        <5>1. CASE taken = <<>>
          <6>1. points = <<>> /\ latest = 0 /\ p = 0 /\ m = 0
            BY <1>3, <5>1 DEF HistoryInv
          <6> QED
            BY <1>1, <5>1, <6>1 DEF EndsIn
        <5>2. CASE taken # <<>>
          <6>1. \A i \in 2..m : i - 1 \in 1..m /\ i \in 1..m /\ i \in 2..(m + 1)
            BY <1>2
          <6>2. ClockWentOn
            BY <1>2, <4>1, <6>1 DEF ClockWentOn
          <6>3. Held
            BY <1>3, <1>4, <5>2, <6>2 DEF HistoryInv
          <6>4. m \in 1..m /\ m + 1 \in 2..(m + 1) /\ (m + 1) - 1 = m
            BY <1>1, <1>2, <5>2
          <6>5. latest <= x
            BY <1>2, <4>1, <6>3, <6>4 DEF Held
          <6> QED
            BY <6>3, <6>5 DEF Held
        <5> QED
          BY <5>1, <5>2
      <4>3. latest' = x
        BY <1>1, <2>1, <4>2 DEF Later
      <4>4. EndsIn(xs, ys)
        BY <1>1, <4>2, EndsCompose DEF xs, ys
      <4>5. EndsIn(points', ys)
        BY <1>2, <2>6, <4>4, EndOfEnd
      <4>6. ASSUME NEW i \in 1..((m + 1) - r) PROVE ys[i] < x - Narrowest
        <5>1. Narrowest \in Nat /\ Narrowest <= window
          BY <1>1, NarrowestWindow
        <5>2. p <= m
          BY <4>2 DEF EndsIn
        <5>3. CASE i \in 1..(m - p)
          <6>1. i \in 1..m
            <7> HIDE DEF p, m
            <7> QED
              BY <1>2, <5>2, <5>3
          <6>2. ys[i] = taken[i] /\ taken[i] \in Nat
            <7>1. ys[i] = taken[i]
              BY <1>2, <6>1
            <7>2. taken[i] \in Nat
              BY <1>1, <6>1
            <7> QED
              BY <7>1, <7>2
          <6>3. taken[i] < latest - Narrowest
            BY <4>2, <5>3
          <6> QED
            BY <1>1, <4>2, <5>1, <6>2, <6>3, SMTT(60)
        <5>4. CASE i \notin 1..(m - p)
          <6> DEFINE k == i - (m - p)
          <6>1. /\ k \in 1..n /\ k \in 1..(p + 1) /\ k \in Int
                /\ (m + 1) - (p + 1) + k = i
            <7>1. i \in Int /\ 1 <= i /\ i <= (m + 1) - (p + 1 - n) /\ m \in Nat /\ p \in Nat
              BY <1>2, <2>5
            <7>2. n \in Nat /\ n <= p
              BY <1>2, <2>5
            <7> HIDE DEF p, m
            <7>3. i > m - p
              BY <5>2, <5>4, <7>1
            <7> QED
              BY <5>2, <7>1, <7>2, <7>3
          <6> HIDE DEF k
          <6>2. xs[k] = ys[i]
            <7>1. xs[k] = ys[(m + 1) - (p + 1) + k]
              BY <1>2, <4>4, <6>1 DEF EndsIn
            <7> QED
              BY <6>1, <7>1
          <6>3. xs[k] < from
            BY <2>4, <6>1
          <6>4. xs[k] \in Nat
            <7>1. k \in 1..Len(xs)
              BY <1>2, <6>1
            <7> HIDE DEF p, m
            <7> QED
              BY <1>2, <7>1
          <6>5. from = x - window
            BY <4>3 DEF from
          <6> DEFINE sample == xs[k]
          <6> HIDE DEF sample, x
          <6>6. sample < x - Narrowest
            BY <1>1, <5>1, <6>3, <6>4, <6>5 DEF sample
          <6> QED
            BY <6>2, <6>6 DEF sample
        <5> QED
          BY <5>3, <5>4
      <4>7. Len(points') > 0 /\ EndsIn(points', taken') /\ latest' = taken'[Len(taken')]
        BY <1>2, <2>5, <2>6, <4>3, <4>5
      <4>8. \A i \in 1..(Len(taken') - Len(points')) : taken'[i] < latest' - Narrowest
        BY <1>2, <2>6, <4>3, <4>6
      <4> QED
        BY <4>7, <4>8 DEF Held, EndsIn
    <3> QED
      BY <3>1, <3>2, <3>3 DEF HistoryInv
  <2> QED
    BY <1>2, <2>2, <2>6, <2>7
<1>5. CASE ~TimeAxis
  <2>1. points' = Capped(xs) /\ latest' = latest
    BY <1>5, Zenon DEF AppendPoint
  <2>2. points = Capped(taken)
    BY <1>3, <1>5 DEF HistoryInv
  <2>3. points' = Capped(ys)
    BY <1>1, <2>1, <2>2, CappedGrows
  <2>4. Capped(ys) \in Seq(Nat)
    BY <1>2, CappedIs
  <2>5. taken' # <<>> /\ ~TimeAxis'
    BY <1>2, <1>5 DEF TimeAxis
  <2>6. points' = Capped(taken)'
    BY <1>2, <2>3 DEF Capped, LastPoints
  <2> QED
    BY <1>1, <1>2, <2>1, <2>3, <2>4, <2>5, <2>6 DEF HistoryInv
<1> QED
  BY <1>4, <1>5

(* New charts forget the samples, and have one feed for each series.       *)
LEMMA ForgottenRight ==
  ASSUME Cleared
  PROVE  /\ points' \in Seq(Nat) /\ taken' \in Seq(Nat) /\ latest' \in Nat /\ HistoryInv'
<1>1. points' = <<>> /\ taken' = <<>> /\ latest' = 0
  BY DEF Cleared
<1>2. MaxPoints \in Nat /\ Len(<<>>) = 0
  BY PlotAssumption
<1>3. Capped(taken)' = <<>>
  BY <1>1, <1>2 DEF Capped
<1>4. HistoryInv'
  BY <1>1, <1>3 DEF HistoryInv
<1> QED
  BY <1>1, <1>4

LEMMA RebuiltRight ==
  ASSUME PlotInv, NEW v \in Views, NEW n \in Nat, NEW boxes \in SUBSET (0..(n - 1)),
         RebuildCharts(v, boxes, n)
  PROVE  PlotInv'
<1> DEFINE now == KeptChecked(boxes, n)
           shown == Chosen([i \in 1..n |-> i - 1], now)
<1>1. /\ checked' = now /\ view' = v /\ known' = n
      /\ charts' = ChartsOf(v, shown) /\ items' = ItemsOf(v, shown)
      /\ Cleared /\ window' = window /\ snapshot' = snapshot
  BY Zenon DEF RebuildCharts
<1>2. now \in SUBSET (0..(n - 1)) /\ (n > 0 => now # {})
  BY DEF KeptChecked
<1> HIDE DEF now
<1>3. Listing(shown, now)
  BY <1>2, CheckedListed
<1> HIDE DEF shown
<1>4. SeriesFed'
  <2> SUFFICES ASSUME n > 0
               PROVE  items' # {} /\ checked' # {}
                      /\ {<<i.chart, i.series>> : i \in items'} = Seats(charts')
                      /\ Cardinality(items') = Cardinality(Seats(charts'))
                      /\ {i.joint : i \in items'} \subseteq checked'
    BY <1>1, Zenon DEF SeriesFed, Seats
  <2>1. FedBy(ItemsOf(v, shown), ChartsOf(v, shown), now)
    BY <1>2, <1>3, ChartsFed
  <2> QED
    BY <1>1, <1>2, <2>1, Zenon DEF FedBy
<1>5. HistoryInv' /\ PlotTyped'
  BY <1>1, <1>2, ForgottenRight DEF PlotInv, PlotTyped
<1> QED
  BY <1>4, <1>5 DEF PlotInv

LEMMA FeedsKept ==
  ASSUME SeriesFed, UNCHANGED <<known, checked, items, charts>>
  PROVE  SeriesFed'
<1>1. known' = known /\ checked' = checked /\ items' = items /\ charts' = charts
  OBVIOUS
<1>2. known > 0 => checked # {} /\ FedBy(items, charts, checked)
  BY Zenon DEF SeriesFed, FedBy, Seats
<1>3. (known' > 0 => checked' # {} /\ FedBy(items', charts', checked')) => SeriesFed'
  BY Zenon DEF SeriesFed, FedBy, Seats
<1> QED
  BY <1>1, <1>2, <1>3, Zenon

LEMMA PlotStep == PlotInv /\ PlotNext => PlotInv'
<1> SUFFICES ASSUME PlotInv, PlotNext PROVE PlotInv'
  OBVIOUS
<1>1. PlotTyped /\ SeriesFed /\ HistoryInv
  BY DEF PlotInv
<1>2. CASE SetJoints
  <2>1. RebuildCharts(view, {0}, PlotJoints)
    BY <1>2 DEF SetJoints
  <2>2. PlotJoints \in Nat /\ {0} \in SUBSET (0..(PlotJoints - 1)) /\ view \in Views
    BY <1>1, PlotAssumption DEF PlotTyped
  <2> QED
    BY <2>1, <2>2, RebuiltRight
<1>3. CASE SetView
  <2>1. PICK v \in Views : RebuildCharts(v, checked, known)
    BY <1>3 DEF SetView
  <2>2. known \in Nat /\ checked \in SUBSET (0..(known - 1))
    BY <1>1 DEF PlotTyped
  <2> QED
    BY <2>1, <2>2, RebuiltRight
<1>4. CASE ToggleJoint
  <2>1. PICK j \in 0..(known - 1) : RebuildCharts(view, SymDiff(checked, {j}), known)
    BY <1>4 DEF ToggleJoint
  <2>2. view \in Views /\ known \in Nat /\ SymDiff(checked, {j}) \in SUBSET (0..(known - 1))
    BY <1>1 DEF PlotTyped, SymDiff
  <2> QED
    BY <2>1, <2>2, RebuiltRight
<1>5. CASE ClearHistory
  <2>1. /\ Cleared
        /\ UNCHANGED <<known, checked, view, items, charts, window, snapshot>>
    BY <1>5 DEF ClearHistory
  <2>2. SeriesFed'
    BY <1>1, <2>1, FeedsKept
  <2>3. HistoryInv' /\ PlotTyped'
    BY <1>1, <2>1, ForgottenRight DEF PlotTyped
  <2> QED
    BY <2>2, <2>3 DEF PlotInv
<1>6. CASE SetWindowSeconds \/ Freeze
  <2>1. /\ window' \in Windows
        /\ UNCHANGED <<known, checked, view, items, charts, points, latest, snapshot, taken>>
    BY <1>1, <1>6 DEF SetWindowSeconds, Freeze, PlotTyped
  <2>2. SeriesFed'
    BY <1>1, <2>1, FeedsKept
  <2>3. HistoryInv'
    BY <1>1, <2>1, Zenon DEF HistoryInv, TimeAxis, ClockWentOn, Held, EndsIn, Capped, LastPoints
  <2>4. PlotTyped'
    BY <1>1, <2>1 DEF PlotTyped
  <2> QED
    BY <2>2, <2>3, <2>4 DEF PlotInv
<1>7. CASE AppendFrame
  <2>1. UNCHANGED <<known, checked, view, items, charts, window, snapshot>>
    BY <1>7 DEF AppendFrame
  <2>2. SeriesFed'
    BY <1>1, <2>1, FeedsKept
  <2>3. CASE UNCHANGED <<points, latest, taken>>
    <3>1. HistoryInv'
      BY <1>1, <2>1, <2>3, Zenon DEF HistoryInv, TimeAxis, ClockWentOn, Held, EndsIn, Capped,
                                     LastPoints
    <3>2. PlotTyped'
      BY <1>1, <2>1, <2>3 DEF PlotTyped
    <3> QED
      BY <2>2, <3>1, <3>2 DEF PlotInv
  <2>4. CASE AppendPoint(snapshot.t) /\ taken' = Append(taken, snapshot.t)
    <3>1. /\ points' \in Seq(Nat) /\ taken' \in Seq(Nat) /\ latest' \in Nat
          /\ HistoryInv'
      BY <2>1, <2>4, SampleTaken
    <3>2. PlotTyped'
      BY <1>1, <2>1, <3>1 DEF PlotTyped
    <3> QED
      BY <2>2, <3>1, <3>2 DEF PlotInv
  <2> QED
    BY <1>7, <2>3, <2>4, Zenon DEF AppendFrame, AppendSample
<1>8. CASE WorkerPublishes
  <2>1. UNCHANGED <<known, checked, view, items, charts, points, latest, window, taken>>
    BY <1>8 DEF WorkerPublishes
  <2>2. snapshot'.t \in Nat
    <3>1. snapshot.t \in Nat /\ MaxClock \in Nat
      BY <1>1, PlotAssumption DEF PlotTyped
    <3>2. PICK t \in {0} \cup (snapshot.t + 1)..MaxClock :
            snapshot' = [t |-> t, joints |-> PlotJoints]
      BY <1>8 DEF WorkerPublishes
    <3>3. t \in Nat
      BY <3>1
    <3> QED
      BY <3>2, <3>3
  <2>3. SeriesFed'
    BY <1>1, <2>1, FeedsKept
  <2>4. HistoryInv'
    BY <1>1, <2>1, Zenon DEF HistoryInv, TimeAxis, ClockWentOn, Held, EndsIn, Capped, LastPoints
  <2>5. PlotTyped'
    BY <1>1, <2>1, <2>2 DEF PlotTyped
  <2> QED
    BY <2>3, <2>4, <2>5 DEF PlotInv
<1> QED
  BY <1>2, <1>3, <1>4, <1>5, <1>6, <1>7, <1>8 DEF PlotNext

LEMMA EndsInSuffix ==
  ASSUME NEW xs \in Seq(Nat), NEW ys \in Seq(Nat), EndsIn(xs, ys)
  PROVE  IsSuffix(xs, ys)
<1> DEFINE n == Len(xs)
           m == Len(ys)
           a == Reverse(xs)
           b == Reverse(ys)
<1>1. /\ n \in Nat /\ m \in Nat /\ n <= m
      /\ \A k \in 1..n : xs[k] = ys[m - n + k]
  BY DEF EndsIn
<1>2. a = [i \in 1..n |-> xs[(n - i) + 1]] /\ b = [i \in 1..m |-> ys[(m - i) + 1]]
  BY Zenon DEF Reverse
<1> HIDE DEF n, m, a, b
<1>3. Len(a) = n /\ Len(b) = m
  BY <1>1, <1>2
<1>4. ASSUME NEW i \in 1..n PROVE a[i] = b[i]
  <2>1. a[i] = xs[(n - i) + 1]
    BY <1>2
  <2>2. i \in 1..m /\ (n - i) + 1 \in 1..n /\ m - n + ((n - i) + 1) = (m - i) + 1
    BY <1>1
  <2>3. b[i] = ys[(m - i) + 1]
    BY <1>2, <2>2
  <2> QED
    BY <1>1, <2>1, <2>2, <2>3
<1>5. SubSeq(a, 1, n) = SubSeq(b, 1, n)
  BY <1>1, <1>4
<1>6. IsPrefix(a, b)
  BY <1>1, <1>3, <1>5 DEF IsPrefix
<1> QED
  BY <1>6, Zenon DEF IsSuffix, a, b

LEMMA PlotShown == PlotInv => SeriesFed /\ HistoryShown
<1> SUFFICES ASSUME PlotInv PROVE HistoryShown
  BY DEF PlotInv
<1>1. PlotTyped /\ HistoryInv
  BY DEF PlotInv
<1>2. CASE ~TimeAxis
  BY <1>1, <1>2 DEF HistoryInv, HistoryShown
<1>3. CASE TimeAxis
  <2> SUFFICES ASSUME ClockWentOn, taken # <<>>
               PROVE  /\ IsSuffix(points, taken) /\ points # <<>>
                      /\ Visible(Last(points))
                      /\ \A i \in DOMAIN taken :
                           taken[i] >= latest - Narrowest => Len(taken) - i < Len(points)
    BY <1>3, Zenon DEF HistoryShown
  <2>1. Held
    BY <1>1, <1>3 DEF HistoryInv
  <2>2. points \in Seq(Nat) /\ taken \in Seq(Nat) /\ latest \in Nat /\ window \in Nat
        /\ Narrowest \in Nat
    BY <1>1, NarrowestWindow DEF PlotTyped
  <2> DEFINE n == Len(points)
             m == Len(taken)
  <2>3. n \in Nat /\ m \in Nat /\ 0 < n /\ n <= m /\ points # <<>>
    BY <2>1, <2>2 DEF Held, EndsIn
  <2>4. IsSuffix(points, taken)
    BY <2>1, <2>2, EndsInSuffix DEF Held
  <2>5. Last(points) = latest
    <3>1. n \in 1..n /\ m - n + n = m
      BY <2>3
    <3>2. points[n] = taken[m - n + n]
      BY <2>1, <3>1 DEF Held, EndsIn
    <3> QED
      BY <2>1, <3>1, <3>2 DEF Held, Last
  <2>6. Visible(Last(points))
    BY <2>2, <2>5 DEF Visible, RightEdge
  <2>7. ASSUME NEW i \in DOMAIN taken, taken[i] >= latest - Narrowest
        PROVE  Len(taken) - i < Len(points)
    <3>1. i \in 1..m /\ taken[i] \in Nat
      BY <2>2
    <3>2. i \notin 1..(m - n)
      <4>1. \A k \in 1..(m - n) : taken[k] < latest - Narrowest
        BY <2>1 DEF Held
      <4>2. taken[i] \in Int /\ latest - Narrowest \in Int
        BY <2>2, <3>1
      <4> DEFINE bound == latest - Narrowest
      <4> HIDE DEF n, m, bound
      <4>3. ~ (taken[i] < bound)
        BY <2>7, <4>2 DEF bound
      <4> QED
        BY <4>1, <4>3 DEF bound
    <3> HIDE DEF n, m
    <3>3. m - i < n
      BY <2>3, <3>1, <3>2
    <3> QED
      BY <3>3 DEF n, m
  <2> QED
    BY <2>3, <2>4, <2>6, <2>7
<1> QED
  BY <1>2, <1>3

(* However many joints, samples and windows there are: every series has    *)
(* its feed and what is shown is what was sampled.                         *)
THEOREM PlotCorrect == Spec => []PlotFaithful
<1>1. Init => PlotInv
  <2> SUFFICES ASSUME Init PROVE PlotInv
    OBVIOUS
  <2>1. PlotInit
    BY DEF Init
  <2>2. /\ known = 0 /\ checked = {} /\ view = "Focus" /\ points = <<>> /\ latest = 0
        /\ taken = <<>> /\ window \in Windows /\ snapshot.t = 0
    BY <2>1 DEF PlotInit
  <2>3. PlotTyped
    BY <2>2 DEF PlotTyped, Views
  <2>4. SeriesFed
    BY <2>2 DEF SeriesFed
  <2>5. HistoryInv
    BY <2>2 DEF HistoryInv, TimeAxis
  <2> QED
    BY <2>3, <2>4, <2>5 DEF PlotInv
<1>2. PlotInv /\ [Next]_vars => PlotInv'
  <2>1. ASSUME PlotInv, UNCHANGED plotVars PROVE PlotInv'
    <3>1. UNCHANGED <<known, checked, view, items, charts, points, latest, window, snapshot,
                      taken>>
      BY <2>1 DEF plotVars
    <3>2. SeriesFed'
      BY <2>1, <3>1, FeedsKept DEF PlotInv
    <3>3. HistoryInv'
      BY <2>1, <3>1, Zenon DEF PlotInv, HistoryInv, TimeAxis, ClockWentOn, Held, EndsIn, Capped,
                               LastPoints
    <3>4. PlotTyped'
      BY <2>1, <3>1 DEF PlotInv, PlotTyped
    <3> QED
      BY <3>2, <3>3, <3>4 DEF PlotInv
  <2> QED
    BY <2>1, PlotStep DEF Next, Record, Plot, vars
<1>3. PlotInv => PlotFaithful
  BY PlotShown DEF PlotFaithful
<1> QED
  BY <1>1, <1>2, <1>3, PTL DEF Spec
-----------------------------------------------------------------------------
(* The decimation of a trail, for trails of every length and joints of     *)
(* every number.                                                           *)
TrailFrame == [TrailJoints -> Int]

LEMMA DistanceIs ==
  ASSUME NEW a \in Int, NEW b \in Int
  PROVE  /\ Distance(a, b) \in Nat /\ Distance(a, b) = Distance(b, a)
         /\ (Distance(a, b) = 0 <=> a = b)
         /\ a - b <= Distance(a, b) /\ b - a <= Distance(a, b)
BY DEF Distance

Near(route, i, k) ==
  \A j \in TrailJoints : LET d == Distance(route[i][j], route[k][j])
                         IN  d < Decimation \/ d = 0

RisingTo(s, m) ==
  /\ s \in Seq(Nat) /\ \A k \in 1..Len(s) : s[k] \in 1..m
  /\ \A a, b \in 1..Len(s) : a < b => s[a] < s[b]

(* What the loop has kept of the first m frames.                           *)
Sparse(route, m, s) ==
  /\ RisingTo(s, m) /\ Len(s) > 0 /\ s[1] = 1
  /\ \A i \in 1..m : \E k \in 1..Len(s) : Near(route, i, s[k])

LEMMA AppendRises ==
  ASSUME NEW m \in Nat, NEW s, RisingTo(s, m), NEW x \in Nat, m < x
  PROVE  RisingTo(Append(s, x), x)
<1> DEFINE n == Len(s)
           t == Append(s, x)
<1>1. /\ n \in Nat /\ t \in Seq(Nat) /\ Len(t) = n + 1 /\ t[n + 1] = x
      /\ \A k \in 1..n : t[k] = s[k] /\ s[k] \in 1..m
  BY AppendProperties DEF RisingTo
<1>2. \A a, b \in 1..n : a < b => s[a] < s[b]
  BY DEF RisingTo
<1> HIDE DEF n, t
<1>3. ASSUME NEW k \in 1..(n + 1) PROVE t[k] \in 1..x
  <2>1. CASE k \in 1..n
    <3>1. s[k] \in 1..m
      BY <1>1, <2>1
    <3>2. s[k] \in 1..x
      BY <3>1
    <3> QED
      BY <1>1, <2>1, <3>2
  <2>2. CASE k = n + 1
    BY <1>1, <2>2
  <2> QED
    BY <1>1, <2>1, <2>2
<1>4. ASSUME NEW a \in 1..(n + 1), NEW b \in 1..(n + 1), a < b PROVE t[a] < t[b]
  <2>1. a \in 1..n /\ (b \in 1..n \/ b = n + 1)
    BY <1>1, <1>4
  <2>2. CASE b \in 1..n
    BY <1>1, <1>2, <1>4, <2>1, <2>2
  <2>3. CASE b = n + 1
    <3>1. s[a] \in 1..m
      BY <1>1, <2>1
    <3>2. s[a] < x
      BY <3>1
    <3> QED
      BY <1>1, <2>1, <2>3, <3>2
  <2> QED
    BY <2>1, <2>2, <2>3
<1>5. RisingTo(t, x)
  BY <1>1, <1>3, <1>4 DEF RisingTo
<1> QED
  BY <1>5 DEF t

KeptPass(route, m, s) == IF Moved(route, m + 1, Last(s)) THEN Append(s, m + 1) ELSE s

LEMMA KeptOn ==
  ASSUME NEW route \in Seq(TrailFrame), NEW m \in 1..(Len(route) - 1), NEW s, Sparse(route, m, s)
  PROVE  Sparse(route, m + 1, KeptPass(route, m, s))
<1>1. /\ m \in Nat /\ m + 1 \in Nat /\ m < m + 1 /\ m + 1 \in 1..Len(route)
      /\ RisingTo(s, m) /\ s \in Seq(Nat) /\ Len(s) > 0 /\ s[1] = 1
      /\ Len(s) \in 1..Len(s) /\ 1 \in 1..Len(s) /\ Len(s) \in Nat
  BY DEF Sparse, RisingTo
<1>2. /\ \A k \in 1..Len(s) : s[k] \in 1..m
      /\ \A i \in 1..m : \E k \in 1..Len(s) : Near(route, i, s[k])
      /\ \A i \in 1..(m + 1) : i \in 1..m \/ i = m + 1
  BY <1>1 DEF Sparse, RisingTo
<1>3. CASE Moved(route, m + 1, Last(s))
  <2> DEFINE t == Append(s, m + 1)
  <2>1. /\ Len(t) = Len(s) + 1 /\ t[Len(s) + 1] = m + 1
        /\ \A k \in 1..Len(s) : t[k] = s[k]
        /\ RisingTo(t, m + 1)
    <3>1. RisingTo(t, m + 1)
      BY <1>1, AppendRises
    <3>2. m + 1 \in Nat /\ s \in Seq(Nat)
      BY <1>1
    <3> QED
      BY <3>1, <3>2, AppendProperties
  <2> HIDE DEF t
  <2>2. Near(route, m + 1, m + 1)
    <3>1. \A j \in TrailJoints : route[m + 1][j] \in Int
      BY <1>1 DEF TrailFrame
    <3> QED
      BY <3>1, DistanceIs DEF Near
  <2>3. ASSUME NEW i \in 1..(m + 1)
        PROVE  \E k \in 1..Len(t) : Near(route, i, t[k])
    <3>1. CASE i \in 1..m
      <4>1. PICK k \in 1..Len(s) : Near(route, i, s[k])
        BY <1>2, <3>1
      <4>2. k \in 1..Len(t) /\ t[k] = s[k]
        BY <1>1, <2>1
      <4> QED
        BY <4>1, <4>2
    <3>2. CASE i = m + 1
      <4>1. Len(s) + 1 \in 1..Len(t)
        BY <1>1, <2>1
      <4> QED
        BY <2>1, <2>2, <3>2, <4>1
    <3> QED
      BY <1>2, <3>1, <3>2
  <2>4. t[1] = 1 /\ Len(t) > 0
    BY <1>1, <2>1
  <2>5. Sparse(route, m + 1, t)
    BY <2>1, <2>3, <2>4 DEF Sparse
  <2> QED
    BY <1>3, <2>5 DEF KeptPass, t
<1>4. CASE ~Moved(route, m + 1, Last(s))
  <2> DEFINE x == s[Len(s)]
  <2>1. x \in 1..m /\ x \in 1..Len(route) /\ Last(s) = x
    <3>1. x \in 1..m
      BY <1>1, <1>2
    <3> HIDE DEF x
    <3>2. x \in 1..Len(route)
      BY <1>1, <3>1
    <3> QED
      BY <3>1, <3>2 DEF Last, x
  <2>2. Near(route, m + 1, x)
    <3> HIDE DEF x
    <3>1. ASSUME NEW j \in TrailJoints
          PROVE  Distance(route[m + 1][j], route[x][j]) < Decimation
      <4>1. route[m + 1][j] \in Int /\ route[x][j] \in Int
        BY <1>1, <2>1 DEF TrailFrame
      <4> DEFINE d == Distance(route[m + 1][j], route[x][j])
      <4>2. d \in Nat /\ Decimation \in Nat
        BY <4>1, DistanceIs, ProfileAssumption
      <4>3. ~ (d >= Decimation)
        BY <1>4, <2>1, Zenon DEF Moved
      <4> HIDE DEF d
      <4>4. d < Decimation
        BY <4>2, <4>3
      <4> QED
        BY <4>4 DEF d
    <3> QED
      BY <3>1 DEF Near
  <2>3. \A k \in 1..Len(s) : s[k] \in 1..(m + 1)
    BY <1>1, <1>2
  <2>4. \A i \in 1..(m + 1) : \E k \in 1..Len(s) : Near(route, i, s[k])
    BY <1>1, <1>2, <2>2
  <2>5. RisingTo(s, m + 1)
    BY <1>1, <2>3 DEF RisingTo
  <2>6. Sparse(route, m + 1, s)
    BY <1>1, <2>4, <2>5 DEF Sparse
  <2> QED
    BY <1>4, <2>6 DEF KeptPass
<1> QED
  BY <1>3, <1>4

(* The loop of Kept, pass by pass.                                         *)
KeptBy(route, N, g) ==
  /\ g \in [0..N -> Seq(Nat)] /\ g[0] = <<1>>
  /\ \A n \in 1..N : g[n] = KeptPass(route, n, g[n - 1])

LEMMA KeptPasses ==
  ASSUME NEW route, NEW N \in Nat
  PROVE  \E g : KeptBy(route, N, g)
<1> DEFINE Q == Seq(Nat)
           b == <<1>>
           pass == [n \in 1..N |-> [s \in Q |-> KeptPass(route, n, s)]]
<1>1. b \in Q
  OBVIOUS
<1>2. ASSUME NEW n \in 1..N, NEW s \in Q PROVE KeptPass(route, n, s) \in Q
  <2>1. Append(s, n + 1) \in Seq(Nat)
    OBVIOUS
  <2> QED
    BY <2>1 DEF KeptPass
<1> HIDE DEF Q, b
<1>3. pass \in [1..N -> [Q -> Q]]
  BY <1>2
<1> HIDE DEF pass
<1>4. PICK g : LoopBy(Q, b, N, pass, g)
  BY <1>1, <1>3, LoopHasHistory
<1>5. ASSUME NEW n \in 1..N PROVE g[n] = KeptPass(route, n, g[n - 1])
  <2>1. g[n] = pass[n][g[n - 1]] /\ g[n - 1] \in Q
    BY <1>4 DEF LoopBy
  <2>2. pass[n] = [s \in Q |-> KeptPass(route, n, s)]
    BY DEF pass
  <2> QED
    BY <2>1, <2>2
<1> QED
  BY <1>4, <1>5 DEF Q, b, LoopBy, KeptBy

KeptIs(route, N, g) == KeptBy(route, N, g) /\ Kept(route) = g[N]

LEMMA KeptHistory ==
  ASSUME NEW route, NEW N \in Nat, N = Len(route) - 2
  PROVE  \E g : KeptIs(route, N, g)
<1> DEFINE upto == CHOOSE f : f = [n \in 0..N |->
                     IF n = 0 THEN <<1>>
                     ELSE LET kept == f[n - 1]
                          IN  IF Moved(route, n + 1, Last(kept)) THEN Append(kept, n + 1) ELSE kept]
<1>1. PICK g : KeptBy(route, N, g)
  BY KeptPasses
<1>2. /\ g \in [0..N -> Seq(Nat)] /\ g[0] = <<1>>
      /\ \A n \in 1..N : g[n] = KeptPass(route, n, g[n - 1])
  BY <1>1 DEF KeptBy
<1>3. g = [n \in 0..N |-> IF n = 0 THEN <<1>> ELSE KeptPass(route, n, g[n - 1])]
  <2>1. \A n \in 0..N : n = 0 \/ n \in 1..N
    OBVIOUS
  <2>2. ASSUME NEW n \in 0..N
        PROVE  g[n] = IF n = 0 THEN <<1>> ELSE KeptPass(route, n, g[n - 1])
    BY <1>2, <2>1, Zenon
  <2>3. g = [n \in 0..N |-> g[n]]
    BY <1>2, Zenon
  <2> QED
    BY <2>2, <2>3, Zenon
<1>4. upto = [n \in 0..N |-> IF n = 0 THEN <<1>> ELSE KeptPass(route, n, upto[n - 1])]
  BY <1>3, Zenon DEF KeptPass
<1>5. Kept(route) = upto[N]
  BY Zenon DEF Kept
<1> HIDE DEF upto
<1>6. upto[0] = <<1>> /\ \A n \in 1..N : upto[n] = KeptPass(route, n, upto[n - 1])
  <2>1. 0 \in 0..N /\ \A n \in 1..N : n \in 0..N /\ n # 0
    OBVIOUS
  <2> QED
    BY <1>4, <2>1, Zenon
<1>7. \A n \in 0..N : upto[n] = g[n]
  <2> DEFINE T == {n \in 0..N : upto[n] = g[n]}
  <2>1. 0 \in T
    <3>1. upto[0] = g[0]
      BY <1>2, <1>6, Zenon
    <3> QED
      BY <3>1
  <2>2. ASSUME NEW n \in 1..N, n - 1 \in T PROVE n \in T
    <3>1. upto[n - 1] = g[n - 1] /\ n \in 0..N
      BY <2>2
    <3>2. upto[n] = g[n]
      BY <1>2, <1>6, <3>1, Zenon
    <3> QED
      BY <3>1, <3>2
  <2> HIDE DEF T
  <2>3. 0..N \subseteq T
    BY <2>1, <2>2, InductionUpTo
  <2> QED
    BY <2>3 DEF T
<1>8. g[N] = Kept(route)
  BY <1>5, <1>7
<1> QED
  BY <1>1, <1>8 DEF KeptIs

LEMMA KeptSparse ==
  ASSUME NEW route \in Seq(TrailFrame), Len(route) >= 2
  PROVE  Sparse(route, Len(route) - 1, Kept(route))
<1> DEFINE N == Len(route) - 2
<1>1. N \in Nat /\ N + 1 = Len(route) - 1
  OBVIOUS
<1>2. PICK g : KeptIs(route, N, g)
  BY <1>1, KeptHistory
<1>3. /\ g[0] = <<1>> /\ Kept(route) = g[N]
      /\ \A n \in 1..N : g[n] = KeptPass(route, n, g[n - 1])
  BY <1>2 DEF KeptIs, KeptBy
<1> DEFINE T == {n \in 0..N : Sparse(route, n + 1, g[n])}
<1> HIDE DEF N
<1>4. 0 \in T
  <2> DEFINE s == <<1>>
  <2>1. s \in Seq(Nat) /\ Len(s) = 1 /\ s[1] = 1 /\ 1..1 = {1}
    OBVIOUS
  <2>2. \A j \in TrailJoints : route[1][j] \in Int
    BY DEF TrailFrame
  <2>3. Near(route, 1, 1)
    BY <2>2, DistanceIs DEF Near
  <2> HIDE DEF s
  <2>4. Sparse(route, 1, s)
    BY <2>1, <2>3 DEF Sparse, RisingTo
  <2> SUFFICES ASSUME NEW n \in 0..N, n = 0 PROVE Sparse(route, n + 1, g[n])
    BY <1>1
  <2>5. g[n] = s /\ n + 1 = 1
    BY <1>3 DEF s
  <2> QED
    BY <2>4, <2>5, Zenon
<1>5. ASSUME NEW n \in 1..N, n - 1 \in T PROVE n \in T
  <2>1. n \in 0..N /\ (n - 1) + 1 = n /\ n \in 1..(Len(route) - 1)
    BY <1>1
  <2>2. Sparse(route, n, g[n - 1])
    BY <1>5, <2>1
  <2>3. Sparse(route, n + 1, g[n])
    BY <1>3, <2>1, <2>2, KeptOn
  <2> QED
    BY <2>1, <2>3
<1> HIDE DEF T
<1>6. 0..N \subseteq T
  BY <1>1, <1>4, <1>5, InductionUpTo
<1>7. Sparse(route, N + 1, g[N])
  BY <1>1, <1>6 DEF T
<1> QED
  BY <1>1, <1>3, <1>7

(* The final frame terminates the waypoints, also where it replaces one:   *)
(* no frame is farther from a waypoint than twice the threshold.           *)
FromEndToEnd(route, s) ==
  LET L == Len(route)
  IN  RisingTo(s, L) /\ Len(s) >= 2 /\ s[1] = 1 /\ s[Len(s)] = L

Close(route, i, k) ==
  \A j \in TrailJoints : LET d == Distance(route[i][j], route[k][j])
                         IN  d < 2 * Decimation \/ d = 0

LEMMA NearIsClose ==
  ASSUME NEW route \in Seq(TrailFrame), NEW i \in 1..Len(route), NEW k \in 1..Len(route),
         Near(route, i, k)
  PROVE  Close(route, i, k)
<1> SUFFICES ASSUME NEW j \in TrailJoints
             PROVE  LET d == Distance(route[i][j], route[k][j])
                    IN  d < 2 * Decimation \/ d = 0
  BY DEF Close
<1> DEFINE d == Distance(route[i][j], route[k][j])
<1>1. d < Decimation \/ d = 0
  BY DEF Near
<1>2. route[i][j] \in Int /\ route[k][j] \in Int
  BY DEF TrailFrame
<1>3. d \in Nat /\ Decimation \in Nat
  BY <1>2, DistanceIs, ProfileAssumption
<1> HIDE DEF d
<1>4. d < 2 * Decimation \/ d = 0
  BY <1>1, <1>3
<1> QED
  BY <1>4 DEF d

LEMMA NearThenClose ==
  ASSUME NEW route \in Seq(TrailFrame), NEW i \in 1..Len(route), NEW k \in 1..Len(route),
         NEW l \in 1..Len(route), Near(route, i, k), ~Moved(route, l, k)
  PROVE  Close(route, i, l)
<1> SUFFICES ASSUME NEW j \in TrailJoints
             PROVE  Distance(route[i][j], route[l][j]) < 2 * Decimation
  BY DEF Close
<1> DEFINE a == route[i][j]
           b == route[k][j]
           c == route[l][j]
           D == Decimation
<1>1. a \in Int /\ b \in Int /\ c \in Int /\ D \in Nat
  BY ProfileAssumption DEF TrailFrame
<1>2. Distance(a, b) < D \/ Distance(a, b) = 0
  BY DEF Near
<1>3. ~ (Distance(c, b) >= D)
  BY Zenon DEF Moved
<1> HIDE DEF a, b, c, D
<1>4. Distance(a, c) < 2 * D
  BY <1>1, <1>2, <1>3 DEF Distance
<1> QED
  BY <1>4 DEF a, c, D

LEMMA TerminatedRight ==
  ASSUME NEW route \in Seq(TrailFrame), Len(route) >= 2
  PROVE  /\ Terminated(route) \in Seq(Nat)
         /\ Len(Terminated(route)) = 1 \/ FromEndToEnd(route, Terminated(route))
         /\ \A i \in 1..Len(route) : \E k \in 1..Len(Terminated(route)) :
              Close(route, i, Terminated(route)[k])
<1> DEFINE L == Len(route)
           s == Kept(route)
           n == Len(s)
           x == s[n]
           t == Terminated(route)
           m == L - 1
<1>1. L \in Nat /\ m \in Nat /\ m < L /\ 1 <= m /\ L = m + 1 /\ Sparse(route, m, s)
  BY KeptSparse
<1> HIDE DEF s, t, m
<1>2. /\ RisingTo(s, m) /\ s \in Seq(Nat) /\ n \in Nat /\ n > 0 /\ s[1] = 1
      /\ \A k \in 1..n : s[k] \in 1..m
      /\ \A a, b \in 1..n : a < b => s[a] < s[b]
      /\ \A i \in 1..m : \E k \in 1..n : Near(route, i, s[k])
  BY <1>1 DEF Sparse, RisingTo
<1>3. n \in 1..n /\ x \in 1..m /\ Last(s) = x /\ 1 \in 1..n
  BY <1>2 DEF Last
<1>4. \A k \in 1..n : s[k] \in 1..L
  BY <1>1, <1>2
<1>5. \A i \in 1..L : i \in 1..m \/ i = L
  BY <1>1
<1>6. L \in 1..L /\ Close(route, L, L)
  <2>1. L \in 1..Len(route)
    BY <1>1
  <2>2. \A j \in TrailJoints : route[L][j] \in Int
    BY <2>1 DEF TrailFrame
  <2> HIDE DEF L
  <2>3. \A j \in TrailJoints : Distance(route[L][j], route[L][j]) = 0
    BY <2>2, DistanceIs
  <2>4. Close(route, L, L)
    BY <2>3, Zenon DEF Close
  <2> QED
    BY <2>1, <2>4 DEF L
<1>7. t = IF Moved(route, L, x) THEN Append(s, L) ELSE [s EXCEPT ![n] = L]
  BY <1>3, Zenon DEF Terminated, s, t
<1>8. CASE Moved(route, L, x)
  <2>1. t = Append(s, L)
    BY <1>7, <1>8
  <2>2. /\ t \in Seq(Nat) /\ Len(t) = n + 1 /\ t[n + 1] = L
        /\ \A k \in 1..n : t[k] = s[k]
    BY <1>1, <1>2, <2>1, AppendProperties
  <2>3. RisingTo(t, L)
    BY <1>1, <1>2, <2>1, AppendRises
  <2>4. FromEndToEnd(route, t)
    BY <1>2, <1>3, <2>2, <2>3 DEF FromEndToEnd
  <2>5. ASSUME NEW i \in 1..L PROVE \E k \in 1..Len(t) : Close(route, i, t[k])
    <3>1. CASE i \in 1..m
      <4>1. PICK k \in 1..n : Near(route, i, s[k])
        BY <1>2, <3>1
      <4>2. Close(route, i, s[k])
        BY <1>4, <4>1, NearIsClose
      <4>3. k \in 1..Len(t) /\ t[k] = s[k]
        BY <1>2, <2>2
      <4> QED
        BY <4>2, <4>3
    <3>2. CASE i = L
      <4>1. n + 1 \in 1..Len(t) /\ t[n + 1] = L
        BY <1>2, <2>2
      <4> QED
        BY <1>6, <3>2, <4>1
    <3> QED
      BY <1>5, <3>1, <3>2
  <2> QED
    BY <2>2, <2>4, <2>5 DEF t
<1>9. CASE ~Moved(route, L, x)
  <2>1. t = [s EXCEPT ![n] = L]
    BY <1>7, <1>9
  <2>2. /\ t \in Seq(Nat) /\ Len(t) = n /\ t[n] = L
        /\ \A k \in 1..n : k # n => t[k] = s[k]
    BY <1>1, <1>2, <1>3, <2>1
  <2>3. RisingTo(t, L)
    <3>1. \A k \in 1..n : t[k] \in 1..L
      BY <1>4, <1>6, <2>2
    <3>2. ASSUME NEW a \in 1..n, NEW b \in 1..n, a < b PROVE t[a] < t[b]
      <4>1. a # n /\ s[a] \in 1..m /\ t[a] = s[a]
        BY <1>2, <2>2, <3>2
      <4>2. CASE b = n
        BY <1>1, <2>2, <4>1, <4>2
      <4>3. CASE b # n
        BY <1>2, <2>2, <3>2, <4>1, <4>3
      <4> QED
        BY <4>2, <4>3
    <3> QED
      BY <2>2, <3>1, <3>2 DEF RisingTo
  <2>4. ASSUME n # 1 PROVE FromEndToEnd(route, t)
    <3>1. Len(t) >= 2 /\ t[1] = 1 /\ t[Len(t)] = L
      <4>1. n >= 2 /\ 1 # n
        <5>1. n \in Nat /\ n > 0 /\ n # 1
          BY <1>2, <2>4
        <5> HIDE DEF n
        <5> QED
          BY <5>1
      <4>2. t[1] = s[1]
        BY <1>3, <2>2, <4>1
      <4> QED
        BY <1>2, <2>2, <4>1, <4>2, Zenon
    <3> QED
      BY <2>3, <3>1 DEF FromEndToEnd
  <2>5. ASSUME NEW i \in 1..L PROVE \E k \in 1..Len(t) : Close(route, i, t[k])
    <3>1. CASE i \in 1..m
      <4>1. PICK k \in 1..n : Near(route, i, s[k])
        BY <1>2, <3>1
      <4>2. CASE k # n
        <5>1. Close(route, i, s[k])
          BY <1>4, <4>1, NearIsClose
        <5> QED
          BY <2>2, <4>2, <5>1
      <4>3. CASE k = n
        <5>1. Near(route, i, x) /\ x \in 1..L
          BY <1>4, <4>1, <4>3
        <5> HIDE DEF x
        <5>2. Close(route, i, L)
          BY <1>6, <1>9, <5>1, NearThenClose
        <5> QED
          BY <1>3, <2>2, <5>2
      <4> QED
        BY <4>2, <4>3
    <3>2. CASE i = L
      BY <1>3, <1>6, <2>2, <3>2
    <3> QED
      BY <1>5, <3>1, <3>2
  <2> QED
    BY <2>2, <2>4, <2>5 DEF t
<1> QED
  BY <1>8, <1>9

(* Uniform thinning: its indices rise by at least one from waypoint to     *)
(* waypoint, from the first to the last.                                   *)
LEMMA RoundedSteps ==
  ASSUME NEW d \in Nat \ {0}, NEW e \in Nat, d <= e
  PROVE  /\ Rounded(0, d) = 0 /\ Rounded(d * e, d) = e
         /\ \A n \in Nat : Rounded(n, d) \in Nat /\ Rounded(n, d) + 1 <= Rounded(n + e, d)
<1>1. Rounded(0, d) = 0
  BY DEF Rounded
<1>2. Rounded(d * e, d) = e
  <2>1. 2 * (d * e) + d = (2 * d) * e + d
    OBVIOUS
  <2> QED
    BY <2>1 DEF Rounded
<1>3. ASSUME NEW n \in Nat
      PROVE  Rounded(n, d) \in Nat /\ Rounded(n, d) + 1 <= Rounded(n + e, d)
  <2> DEFINE p == 2 * d
             a == 2 * n + d
             b == 2 * (n + e) + d
             q == a \div p
             r == b \div p
  <2>1. p \in Nat \ {0} /\ a \in Nat /\ b \in Nat /\ b >= a + p
    OBVIOUS
  <2> HIDE DEF p, a, b
  <2>2. q \in Nat /\ r \in Nat /\ p * q <= a /\ a < p * (q + 1) /\ b < p * (r + 1)
    BY <2>1
  <2> HIDE DEF q, r
  <2>3. p * (q + 1) < p * (r + 1)
    BY <2>1, <2>2
  <2>4. q + 1 < r + 1
    BY <2>1, <2>2, <2>3
  <2>5. Rounded(n, d) = q /\ Rounded(n + e, d) = r
    BY DEF Rounded, q, r, a, b, p
  <2> QED
    BY <2>2, <2>4, <2>5
<1> QED
  BY <1>1, <1>2, <1>3

(* The indices of a sequence that rises in steps of at least one.          *)
LEMMA StepsRise ==
  ASSUME NEW M \in Nat, NEW f \in [1..M -> Int], \A k \in 1..M : k + 1 \in 1..M => f[k] + 1 <= f[k + 1]
  PROVE  \A a, b \in 1..M : a < b => f[a] < f[b]
<1> SUFFICES ASSUME NEW a \in 1..M
             PROVE  \A b \in 1..M : a < b => f[a] < f[b]
  OBVIOUS
<1> DEFINE T == {b \in 0..M : a < b => f[a] < f[b]}
<1>1. 0 \in T
  OBVIOUS
<1>2. ASSUME NEW b \in 1..M, b - 1 \in T PROVE b \in T
  <2>1. CASE a < b - 1
    <3>1. f[a] < f[b - 1] /\ b - 1 \in 1..M /\ (b - 1) + 1 = b
      BY <1>2, <2>1
    <3>2. f[b - 1] + 1 <= f[b]
      BY <3>1
    <3> QED
      BY <3>1, <3>2
  <2>2. CASE a = b - 1
    <3>1. f[a] + 1 <= f[b]
      BY <2>2
    <3> QED
      BY <3>1
  <2>3. CASE ~ (a < b)
    BY <2>3
  <2> QED
    BY <2>1, <2>2, <2>3
<1> HIDE DEF T
<1>3. 0..M \subseteq T
  BY <1>1, <1>2, InductionUpTo
<1> QED
  BY <1>3 DEF T

LEMMA ThinnedRight ==
  ASSUME NEW route, Len(route) \in Nat, NEW s, FromEndToEnd(route, s)
  PROVE  /\ FromEndToEnd(route, Thinned(s)) /\ Len(Thinned(s)) <= MaxWaypoints
         /\ Len(s) <= MaxWaypoints => Thinned(s) = s
<1> DEFINE L == Len(route)
           n == Len(s)
           M == MaxWaypoints
           d == M - 1
           e == n - 1
           t == Thinned(s)
<1>1. /\ L \in Nat /\ n \in Nat /\ n >= 2 /\ s[1] = 1 /\ s[n] = L /\ s \in Seq(Nat)
      /\ \A k \in 1..n : s[k] \in 1..L
      /\ \A a, b \in 1..n : a < b => s[a] < s[b]
  BY DEF FromEndToEnd, RisingTo
<1>2. M \in Nat /\ M >= 2
  BY ProfileAssumption
<1>3. CASE n <= M
  BY <1>3 DEF Thinned
<1>4. CASE ~ (n <= M)
  <2> DEFINE f == [k \in 1..M |-> Rounded((k - 1) * e, d) + 1]
  <2>1. d \in Nat \ {0} /\ e \in Nat /\ d <= e /\ e + 1 = n /\ d + 1 = M
    BY <1>1, <1>2, <1>4
  <2>2. t = [k \in 1..M |-> s[Rounded((k - 1) * e, d) + 1]]
    BY <1>4, Zenon DEF Thinned
  <2> HIDE DEF L, n, M, d, e, t
  <2>3. ASSUME NEW k \in 1..M
        PROVE  /\ f[k] = Rounded((k - 1) * e, d) + 1 /\ Rounded((k - 1) * e, d) \in Nat
               /\ k + 1 \in 1..M => f[k] + 1 <= f[k + 1]
    <3> DEFINE i == (k - 1) * e
    <3>1. i \in Nat /\ k * e = i + e /\ (k + 1) - 1 = k
      BY <2>1
    <3>2. f[k] = Rounded((k - 1) * e, d) + 1
      OBVIOUS
    <3>3. k + 1 \in 1..M => f[k + 1] = Rounded(((k + 1) - 1) * e, d) + 1
      OBVIOUS
    <3> HIDE DEF i, f
    <3>4. Rounded(i, d) \in Nat /\ Rounded(i, d) + 1 <= Rounded(i + e, d)
      BY <2>1, <3>1, RoundedSteps
    <3>5. Rounded(((k + 1) - 1) * e, d) = Rounded(i + e, d)
      BY <3>1, Zenon
    <3> DEFINE now == Rounded(i, d)
               next == Rounded(i + e, d)
    <3>6. now \in Nat /\ now + 1 <= next
      BY <3>4
    <3>7. f[k] = now + 1 /\ (k + 1 \in 1..M => f[k + 1] = next + 1)
      BY <3>2, <3>3, <3>5, Zenon DEF i
    <3>8. now = Rounded((k - 1) * e, d)
      BY Zenon DEF i
    <3> HIDE DEF now, next
    <3>9. next \in Int => (k + 1 \in 1..M => f[k] + 1 <= f[k + 1])
      BY <3>6, <3>7
    <3>10. next \in Int
      <4>1. i + e \in Nat
        BY <2>1, <3>1
      <4> QED
        BY <2>1, <4>1, RoundedSteps DEF next
    <3> QED
      BY <3>2, <3>6, <3>8, <3>9, <3>10
  <2>4. f \in [1..M -> Int]
    <3>1. ASSUME NEW k \in 1..M PROVE f[k] \in Int
      <4> DEFINE step == Rounded((k - 1) * e, d)
      <4>1. f[k] = step + 1 /\ step \in Nat
        BY <2>3
      <4> HIDE DEF step, f
      <4> QED
        BY <4>1
    <3>2. f = [k \in 1..M |-> f[k]]
      OBVIOUS
    <3> HIDE DEF f
    <3> QED
      BY <3>1, <3>2
  <2>5. f[1] = 1 /\ f[M] = n
    <3>1. 1 \in 1..M /\ M \in 1..M /\ (1 - 1) * e = 0 /\ (M - 1) * e = d * e
      BY <1>2, <2>1
    <3>2. Rounded(0, d) = 0 /\ Rounded(d * e, d) = e
      BY <2>1, RoundedSteps
    <3>3. f[1] = Rounded((1 - 1) * e, d) + 1 /\ f[M] = Rounded((M - 1) * e, d) + 1
      BY <2>3, <3>1
    <3> HIDE DEF f
    <3>4. f[1] = 0 + 1 /\ f[M] = e + 1
      BY <3>1, <3>2, <3>3, Zenon
    <3> QED
      BY <2>1, <3>4
  <2>6. \A k \in 1..M : t[k] = s[f[k]]
    BY <2>2
  <2>7. DOMAIN t = 1..M
    BY <2>2
  <2> HIDE DEF f
  <2>8. \A a, b \in 1..M : a < b => f[a] < f[b]
    BY <1>2, <2>3, <2>4, StepsRise
  <2>9. ASSUME NEW k \in 1..M PROVE f[k] \in 1..n
    <3>1. 1 <= f[k]
      BY <2>3, <2>4
    <3>2. k = M \/ f[k] < f[M]
      BY <1>2, <2>8
    <3> QED
      BY <1>1, <2>4, <2>5, <3>1, <3>2
  <2>10. t \in Seq(Nat) /\ Len(t) = M
    <3>1. t = [k \in 1..M |-> s[f[k]]]
      BY <2>2, <2>6, <2>7, Zenon
    <3>2. \A k \in 1..M : s[f[k]] \in Nat
      BY <1>1, <2>9
    <3> QED
      BY <1>2, <3>1, <3>2
  <2>11. RisingTo(t, L)
    <3>1. \A k \in 1..M : t[k] \in 1..L
      BY <1>1, <2>6, <2>9
    <3>2. \A a, b \in 1..M : a < b => t[a] < t[b]
      BY <1>1, <2>6, <2>8, <2>9
    <3> QED
      BY <2>10, <3>1, <3>2 DEF RisingTo
  <2>12. t[1] = 1 /\ t[M] = L
    BY <1>1, <1>2, <2>5, <2>6
  <2>13. FromEndToEnd(route, t)
    BY <1>2, <2>10, <2>11, <2>12 DEF FromEndToEnd, L
  <2> QED
    BY <1>2, <1>4, <2>10, <2>13 DEF t, M, n
<1> QED
  BY <1>3, <1>4

(* What a decimated trail is, whatever was recorded.                       *)
LEMMA DecimatedRight ==
  ASSUME NEW route \in Seq(TrailFrame), Decimated(route) # <<>>
  PROVE  /\ FromEndToEnd(route, Decimated(route))
         /\ Len(Decimated(route)) \in MinWaypoints..MaxWaypoints
         /\ Len(Terminated(route)) <= MaxWaypoints => Decimated(route) = Terminated(route)
         /\ Len(route) >= 2
<1> DEFINE s == Terminated(route)
           t == Thinned(s)
<1>1. /\ Len(route) \in Nat /\ Len(route) >= 2 /\ ~ (Len(t) < MinWaypoints)
      /\ Decimated(route) = t
  BY DEF Decimated
<1>2. /\ MinWaypoints \in Nat /\ MaxWaypoints \in Nat /\ MinWaypoints >= 2
      /\ MinWaypoints <= MaxWaypoints
  BY ProfileAssumption
<1>3. s \in Seq(Nat) /\ (Len(s) = 1 \/ FromEndToEnd(route, s))
  BY <1>1, TerminatedRight
<1> HIDE DEF s
<1>4. Len(s) # 1
  <2> SUFFICES ASSUME Len(s) = 1 PROVE FALSE
    OBVIOUS
  <2>1. t = s
    BY <1>2 DEF Thinned
  <2>2. Len(t) = 1
    BY <2>1, Zenon
  <2> HIDE DEF t
  <2> QED
    BY <1>1, <1>2, <2>2
<1>5. /\ FromEndToEnd(route, t) /\ Len(t) <= MaxWaypoints
      /\ Len(s) <= MaxWaypoints => t = s
  BY <1>1, <1>3, <1>4, ThinnedRight
<1> HIDE DEF t
<1>6. Len(t) \in Nat
  BY <1>5 DEF FromEndToEnd, RisingTo
<1>7. Len(t) \in MinWaypoints..MaxWaypoints
  BY <1>1, <1>2, <1>5, <1>6
<1> QED
  BY <1>1, <1>5, <1>7 DEF s

(* Every trail, of any length and number of joints: the waypoints keep     *)
(* both ends, rise and are as many as allowed, and without thinning no     *)
(* frame is farther from one than twice the threshold.                     *)
THEOREM TrailFollowed ==
  ASSUME NEW route \in Seq(TrailFrame)
  PROVE  EndsKept(route, Decimated(route)) /\ PathFollowed(route, Decimated(route))
<1> DEFINE kept == Decimated(route)
<1>1. CASE kept = <<>>
  BY <1>1 DEF EndsKept, PathFollowed
<1>2. CASE kept # <<>>
  <2>1. /\ FromEndToEnd(route, kept) /\ Len(kept) \in MinWaypoints..MaxWaypoints
        /\ Len(Terminated(route)) <= MaxWaypoints => kept = Terminated(route)
        /\ Len(route) >= 2
    BY <1>2, DecimatedRight
  <2> HIDE DEF kept
  <2>2. EndsKept(route, kept)
    BY <2>1, SMTT(60) DEF EndsKept, FromEndToEnd, RisingTo, Last
  <2>3. PathFollowed(route, kept)
    BY <2>1, TerminatedRight, Zenon DEF PathFollowed, Close
  <2> QED
    BY <2>2, <2>3 DEF kept
<1> QED
  BY <1>1, <1>2
-----------------------------------------------------------------------------
(* The knots: between two waypoints passes the time of the slowest joint.  *)
LEMMA SegmentTimeIs ==
  ASSUME NEW route \in Seq(TrailFrame), NEW i \in 1..Len(route), NEW k \in 1..Len(route)
  PROVE  /\ SegmentTime(route, i, k) \in Nat /\ SegmentTime(route, i, k) >= MinSegment
         /\ \A j \in TrailJoints : SegmentTime(route, i, k) >= Distance(route[i][j], route[k][j])
<1> DEFINE d == [j \in TrailJoints |-> Distance(route[i][j], route[k][j])]
           X == {MinSegment} \cup {Distance(route[i][j], route[k][j]) : j \in TrailJoints}
<1>1. MinSegment \in Nat /\ MinSegment \in X
  BY ProfileAssumption
<1>2. ASSUME NEW j \in TrailJoints
      PROVE  d[j] = Distance(route[i][j], route[k][j]) /\ d[j] \in Nat /\ d[j] \in X
  <2>1. route[i][j] \in Int /\ route[k][j] \in Int
    BY DEF TrailFrame
  <2> QED
    BY <2>1, DistanceIs
<1>3. \A s \in X : s \in Nat
  <2>1. \A s \in X : s = MinSegment \/ \E j \in TrailJoints : s = d[j]
    BY <1>2
  <2> QED
    BY <1>1, <1>2, <2>1
<1>4. PICK n \in Nat : ExistsBijection(1..n, TrailJoints)
  BY ProfileAssumption, FS_NatBijection
<1>5. PICK b \in [1..n -> TrailJoints] : \A j \in TrailJoints : \E l \in 1..n : b[l] = j
  BY <1>4, Zenon DEF ExistsBijection, Bijection, Surjection
<1> HIDE DEF d, X
<1> DEFINE Above(s, m) == s >= MinSegment /\ \A l \in 1..m : s >= d[b[l]]
           T == {m \in 0..n : \E s \in X : Above(s, m)}
<1>6. 0 \in T
  BY <1>1
<1>7. ASSUME NEW m \in 1..n, m - 1 \in T PROVE m \in T
  <2>1. PICK s \in X : Above(s, m - 1)
    BY <1>7
  <2> DEFINE x == d[b[m]]
  <2>2. /\ s \in Nat /\ x \in Nat /\ x \in X /\ m \in 0..n
        /\ \A l \in 1..m : l \in 1..(m - 1) \/ l = m
        /\ \A l \in 1..m : d[b[l]] \in Nat
    BY <1>2, <1>3
  <2>3. CASE s >= x
    <3>1. Above(s, m)
      BY <2>1, <2>2, <2>3
    <3> QED
      BY <2>2, <3>1
  <2>4. CASE ~ (s >= x)
    <3> HIDE DEF x
    <3>1. x >= s
      BY <2>2, <2>4
    <3>2. \A l \in 1..m : x >= d[b[l]]
      BY <2>1, <2>2, <3>1 DEF x
    <3>3. x >= MinSegment
      BY <1>1, <2>1, <2>2, <3>1
    <3>4. Above(x, m)
      BY <3>2, <3>3
    <3> QED
      BY <2>2, <3>4
  <2> QED
    BY <2>3, <2>4
<1> HIDE DEF T
<1>8. 0..n \subseteq T
  BY <1>6, <1>7, InductionUpTo
<1>9. \E s \in X : Above(s, n)
  <2>1. n \in T
    BY <1>8
  <2> QED
    BY <2>1 DEF T
<1>10. PICK s \in X : s >= MinSegment /\ \A l \in 1..n : s >= d[b[l]]
  BY <1>9
<1>11. \A j \in TrailJoints : s >= d[j]
  BY <1>5, <1>10
<1>12. \A j \in TrailJoints : s >= Distance(route[i][j], route[k][j])
  BY <1>2, <1>11, Zenon
<1> DEFINE r == SegmentTime(route, i, k)
<1>13. /\ r \in X /\ r >= MinSegment
       /\ \A j \in TrailJoints : r >= Distance(route[i][j], route[k][j])
  BY <1>10, <1>12, Zenon DEF SegmentTime, X
<1> QED
  BY <1>3, <1>13

(* The times of the knots rise, by the time of each segment.               *)
KnotsBy(n, seg, times) ==
  /\ times \in [1..n -> Nat] /\ times[1] = 0
  /\ \A k \in 1..(n - 1) : times[k + 1] = times[k] + seg[k]

LEMMA KnotTimesBy ==
  ASSUME NEW n \in Nat \ {0}, NEW seg \in [1..(n - 1) -> Nat],
         NEW route, NEW kept, Len(kept) = n,
         \A k \in 1..(n - 1) : seg[k] = SegmentTime(route, kept[k], kept[k + 1])
  PROVE  KnotsBy(n, seg, KnotTimes(route, kept))
<1> DEFINE S == Nat
           b == 0
           N == n - 1
           pass == [m \in 1..N |-> [x \in S |-> x + seg[m]]]
           Time(f) == [k \in 1..n |-> IF k = 1 THEN 0
                         ELSE f[k - 1] + SegmentTime(route, kept[k - 1], kept[k])]
           time == CHOOSE f : f = Time(f)
<1>1. b \in S /\ N \in Nat /\ pass \in [1..N -> [S -> S]]
  OBVIOUS
<1>2. \A k \in 1..n : k # 1 => k - 1 \in 1..(n - 1) /\ (k - 1) + 1 = k /\ k - 1 \in 1..N
  OBVIOUS
<1>3. \A k \in 1..n : k # 1 => seg[k - 1] = SegmentTime(route, kept[k - 1], kept[k])
  BY <1>2, Zenon
<1>4. PICK g : LoopBy(S, b, N, pass, g)
  <2> HIDE DEF S, b, N, pass
  <2> QED
    BY <1>1, LoopHasHistory
<1>5. g \in [0..N -> Nat] /\ g[0] = 0 /\ \A m \in 1..N : g[m] = g[m - 1] + seg[m]
  <2>1. g \in [0..N -> S] /\ g[0] = b /\ \A m \in 1..N : g[m] = pass[m][g[m - 1]]
    BY <1>4, Zenon DEF LoopBy
  <2>2. \A m \in 1..N : m - 1 \in 0..N
    OBVIOUS
  <2> QED
    BY <2>1, <2>2
<1> DEFINE h == [k \in 1..n |-> g[k - 1]]
<1>6. h = Time(h)
  <2>1. ASSUME NEW k \in 1..n, k # 1 PROVE h[k] = h[k - 1] + seg[k - 1]
    <3>1. k - 1 \in 1..N /\ k - 1 \in 1..n
      BY <1>2, <2>1
    <3>2. h[k] = g[k - 1] /\ h[k - 1] = g[(k - 1) - 1]
      BY <3>1
    <3> QED
      BY <1>5, <3>1, <3>2, Zenon
  <2>2. 1 \in 1..n => h[1] = 0
    BY <1>5
  <2>3. h = [k \in 1..n |-> h[k]]
    OBVIOUS
  <2> HIDE DEF h
  <2>4. \A k \in 1..n : h[k] = IF k = 1 THEN 0
                                ELSE h[k - 1] + SegmentTime(route, kept[k - 1], kept[k])
    BY <1>3, <2>1, <2>2, Zenon
  <2> QED
    BY <2>3, <2>4, Zenon
<1>7. time = Time(time)
  <2> HIDE DEF h, Time
  <2> QED
    BY <1>6, Zenon
<1> HIDE DEF time
<1>8. /\ DOMAIN time = 1..n /\ time[1] = 0
      /\ \A k \in 1..n : k # 1 => time[k] = time[k - 1] + seg[k - 1]
  <2>1. 1 \in 1..n
    OBVIOUS
  <2>2. /\ DOMAIN time = 1..n
        /\ \A k \in 1..n : time[k] = IF k = 1 THEN 0
                             ELSE time[k - 1] + SegmentTime(route, kept[k - 1], kept[k])
    BY <1>7, Zenon
  <2> QED
    BY <1>3, <2>1, <2>2, ZenonT(60)
<1> DEFINE T == {m \in 0..N : time[m + 1] \in Nat}
<1>9. 0 \in T
  BY <1>1, <1>8
<1>10. ASSUME NEW m \in 1..N, m - 1 \in T PROVE m \in T
  <2>1. m \in 0..N /\ (m - 1) + 1 = m /\ (m + 1) - 1 = m /\ m + 1 \in 1..n /\ m + 1 # 1
    BY <1>1
  <2>2. time[m] \in Nat
    BY <1>10, <2>1
  <2>3. time[m + 1] = time[m] + seg[m]
    BY <1>8, <2>1, Zenon
  <2> QED
    BY <2>1, <2>2, <2>3
<1> HIDE DEF T
<1>11. 0..N \subseteq T
  <2> HIDE DEF N
  <2> QED
    BY <1>1, <1>9, <1>10, InductionUpTo
<1>12. \A k \in 1..n : time[k] \in Nat
  <2> SUFFICES ASSUME NEW k \in 1..n PROVE time[k] \in Nat
    OBVIOUS
  <2>1. k - 1 \in 0..N /\ (k - 1) + 1 = k
    OBVIOUS
  <2> QED
    BY <1>11, <2>1 DEF T
<1> DEFINE times == [k \in 1..n |-> time[k]]
<1>13. times \in [1..n -> Nat] /\ times[1] = 0 /\ \A k \in 1..n : times[k] = time[k]
  BY <1>8, <1>12
<1>14. KnotTimes(route, kept) = times
  <2> DEFINE m == Len(kept)
             other == CHOOSE f : f = [k \in 1..m |-> IF k = 1 THEN 0
                                   ELSE f[k - 1] + SegmentTime(route, kept[k - 1], kept[k])]
  <2>1. KnotTimes(route, kept) = [k \in 1..m |-> other[k]]
    BY Zenon DEF KnotTimes
  <2> HIDE DEF m
  <2>2. m = n
    BY DEF m
  <2>3. other = time
    BY <2>2, Zenon DEF time
  <2> HIDE DEF other
  <2> QED
    BY <2>1, <2>2, <2>3, Zenon
<1> HIDE DEF times
<1>15. ASSUME NEW k \in 1..(n - 1) PROVE times[k + 1] = times[k] + seg[k]
  <2>1. k + 1 \in 1..n /\ k \in 1..n /\ k + 1 # 1 /\ (k + 1) - 1 = k
    OBVIOUS
  <2> QED
    BY <1>8, <1>13, <2>1, ZenonT(60)
<1> QED
  BY <1>13, <1>14, <1>15 DEF KnotsBy

KnotsRise(n, times) ==
  /\ n \in Nat /\ n >= 2 /\ times \in [1..n -> Nat] /\ times[1] = 0
  /\ \A k \in 1..(n - 1) : times[k] < times[k + 1]

LEMMA KnotsRight ==
  ASSUME NEW route \in Seq(TrailFrame), NEW kept, FromEndToEnd(route, kept)
  PROVE  /\ KnotsRise(Len(kept), KnotTimes(route, kept))
         /\ KnotsPlayable(route, kept, KnotTimes(route, kept))
<1> DEFINE n == Len(kept)
           times == KnotTimes(route, kept)
           seg == [k \in 1..(n - 1) |-> SegmentTime(route, kept[k], kept[k + 1])]
<1>1. n \in Nat /\ n >= 2 /\ n \in Nat \ {0} /\ \A k \in 1..n : kept[k] \in 1..Len(route)
  BY DEF FromEndToEnd, RisingTo
<1>2. MinSegment \in Nat \ {0}
  BY ProfileAssumption
<1>3. ASSUME NEW k \in 1..(n - 1)
      PROVE  /\ seg[k] = SegmentTime(route, kept[k], kept[k + 1])
             /\ seg[k] \in Nat /\ seg[k] > 0
             /\ \A j \in TrailJoints :
                  Distance(route[kept[k]][j], route[kept[k + 1]][j]) <= seg[k]
  <2> DEFINE a == kept[k]
             b == kept[k + 1]
             r == SegmentTime(route, a, b)
  <2>1. k \in 1..n /\ k + 1 \in 1..n /\ seg[k] = r
    BY <1>1
  <2>2. a \in 1..Len(route) /\ b \in 1..Len(route)
    BY <1>1, <2>1
  <2> HIDE DEF a, b
  <2>3. /\ r \in Nat /\ r >= MinSegment
        /\ \A j \in TrailJoints : r >= Distance(route[a][j], route[b][j])
    BY <2>2, SegmentTimeIs
  <2> HIDE DEF r
  <2>4. r > 0
    BY <1>2, <2>3
  <2>5. ASSUME NEW j \in TrailJoints PROVE Distance(route[a][j], route[b][j]) <= r
    <3> DEFINE d == Distance(route[a][j], route[b][j])
    <3>1. route[a][j] \in Int /\ route[b][j] \in Int
      BY <2>2 DEF TrailFrame
    <3>2. d \in Nat /\ r >= d
      BY <2>3, <3>1, DistanceIs
    <3> HIDE DEF d
    <3>3. d <= r
      BY <2>3, <3>2
    <3> QED
      BY <3>3 DEF d
  <2> HIDE DEF seg
  <2>6. seg[k] \in Nat /\ seg[k] > 0 /\ seg[k] = SegmentTime(route, kept[k], kept[k + 1])
    BY <2>1, <2>3, <2>4 DEF r, a, b
  <2>7. \A j \in TrailJoints : Distance(route[a][j], route[b][j]) <= seg[k]
    BY <2>1, <2>5
  <2> QED
    BY <2>6, <2>7 DEF a, b
<1>4. seg \in [1..(n - 1) -> Nat]
  <2>1. seg = [k \in 1..(n - 1) |-> seg[k]]
    OBVIOUS
  <2> HIDE DEF seg
  <2> QED
    BY <1>3, <2>1
<1> HIDE DEF seg
<1>5. KnotsBy(n, seg, times)
  <2> SUFFICES ASSUME NEW m, m = n PROVE KnotsBy(m, seg, times)
    BY Zenon
  <2>1. /\ m \in Nat \ {0} /\ seg \in [1..(m - 1) -> Nat] /\ Len(kept) = m
        /\ \A k \in 1..(m - 1) : seg[k] = SegmentTime(route, kept[k], kept[k + 1])
    BY <1>1, <1>3, <1>4
  <2> HIDE DEF n
  <2> QED
    BY <2>1, KnotTimesBy
<1> HIDE DEF n, times
<1>6. /\ times \in [1..n -> Nat] /\ times[1] = 0
      /\ \A k \in 1..(n - 1) : times[k + 1] = times[k] + seg[k]
  BY <1>5 DEF KnotsBy
<1>7. ASSUME NEW k \in 1..(n - 1)
      PROVE  /\ times[k] < times[k + 1] /\ times[k + 1] - times[k] = seg[k]
  <2>1. k \in 1..n /\ k + 1 \in 1..n
    BY <1>1
  <2>2. times[k] \in Nat /\ times[k + 1] = times[k] + seg[k]
    BY <1>6, <2>1
  <2> QED
    BY <1>3, <2>2
<1>8. KnotsRise(n, times)
  BY <1>1, <1>6, <1>7 DEF KnotsRise
<1>9. KnotsPlayable(route, kept, times)
  <2>1. Len(times) = n
    BY <1>1, <1>6
  <2>2. ASSUME NEW k \in 1..(n - 1)
        PROVE  \A j \in TrailJoints :
                 Distance(route[kept[k]][j], route[kept[k + 1]][j]) <= times[k + 1] - times[k]
    BY <1>3, <1>7, Zenon
  <2> QED
    BY <1>7, <2>1, <2>2, Zenon DEF KnotsPlayable, n
<1> QED
  BY <1>8, <1>9 DEF n, times

(* sample() finds the segment of every time.                               *)
LEMMA TurnsOn ==
  ASSUME NEW p \in Nat \ {0}, NEW t \in Int
  PROVE  /\ t % p \in 0..(p - 1)
         /\ t % p < p - 1 => (t + 1) % p = (t % p) + 1
         /\ t % p = p - 1 => (t + 1) % p = 0
<1> DEFINE q == t \div p
           r == t % p
<1>1. q \in Int /\ r \in 0..(p - 1) /\ t = p * q + r
  OBVIOUS
<1> HIDE DEF q, r
<1>2. ASSUME r < p - 1 PROVE (t + 1) % p = r + 1
  BY <1>1, <1>2
<1>3. ASSUME r = p - 1 PROVE (t + 1) % p = 0
  <2>1. t + 1 = p * (q + 1)
    BY <1>1, <1>3
  <2> QED
    BY <1>1, <2>1
<1> QED
  BY <1>1, <1>2, <1>3 DEF r

LEMMA LookupRight ==
  ASSUME NEW n, NEW times, KnotsRise(n, times)
  PROVE  LookupInside(times)
<1>1. /\ n \in Nat /\ n >= 2 /\ times \in [1..n -> Nat] /\ times[1] = 0
      /\ \A k \in 1..(n - 1) : times[k] < times[k + 1]
      /\ Len(times) = n
  BY DEF KnotsRise
<1> DEFINE total == times[n]
<1>2. Last(times) = total /\ total \in Nat
  BY <1>1 DEF Last
<1>3. total > 0
  <2>1. /\ times \in [1..n -> Int]
        /\ \A k \in 1..n : k + 1 \in 1..n => times[k] + 1 <= times[k + 1]
    BY <1>1
  <2>2. \A a, b \in 1..n : a < b => times[a] < times[b]
    BY <1>1, <2>1, StepsRise
  <2> QED
    BY <1>1, <2>2
<1> SUFFICES ASSUME NEW t \in Int
             PROVE  LET s == Folded(times, t)
                        i == Segment(times, s)
                    IN  /\ i \in 1..(Len(times) - 1)
                        /\ times[i] <= s /\ s <= times[i + 1]
                        /\ Distance(s, Folded(times, t + 1)) = 1
  <2>1. \A t \in (-2 * Last(times))..(2 * Last(times)) : t \in Int
    BY <1>2
  <2> QED
    BY <2>1, Zenon DEF LookupInside
<1> DEFINE p == 2 * total
           u == t % p
           v == (t + 1) % p
           s == Folded(times, t)
           i == Segment(times, s)
<1>4. p \in Nat \ {0}
  BY <1>2, <1>3
<1> HIDE DEF total, p
<1>5. /\ u \in 0..(p - 1)
      /\ u < p - 1 => v = u + 1
      /\ u = p - 1 => v = 0
  BY <1>4, TurnsOn
<1>6. /\ s = IF u <= total THEN u ELSE p - u
      /\ Folded(times, t + 1) = IF v <= total THEN v ELSE p - v
  BY <1>2, Zenon DEF Folded, p
<1> HIDE DEF u, v
<1>7. s \in 0..total /\ Distance(s, Folded(times, t + 1)) = 1
  <2> DEFINE next == Folded(times, t + 1)
  <2> HIDE DEF s, next
  <2>1. /\ s = IF u <= total THEN u ELSE p - u
        /\ next = IF v <= total THEN v ELSE p - v
        /\ p = 2 * total
    BY <1>6 DEF next, p
  <2>2. s \in 0..total /\ Distance(s, next) = 1
    BY <1>2, <1>3, <1>5, <2>1 DEF Distance
  <2> QED
    BY <2>2 DEF next
<1> HIDE DEF s
<1>8. i \in 1..(n - 1) /\ times[i] <= s /\ s <= times[i + 1]
  <2>1. CASE s >= total
    <3>1. i = n - 1 /\ s = total
      BY <1>1, <1>2, <1>7, <2>1 DEF Segment
    <3>2. n - 1 \in 1..(n - 1) /\ (n - 1) + 1 = n
      BY <1>1
    <3>3. times[n - 1] < times[(n - 1) + 1] /\ times[n - 1] \in Nat
      BY <1>1, <3>2
    <3> QED
      BY <1>1, <1>2, <3>1, <3>2, <3>3 DEF total
  <2>2. CASE ~ (s >= total)
    <3> DEFINE Ends == {k \in 1..(n - 1) : s < times[k + 1]}
               Right(k) == s < times[k + 1] /\ \A l \in 2..k : s >= times[l]
    <3>1. n - 1 \in Ends /\ Ends \in SUBSET Nat
      BY <1>1, <1>2, <1>7, <2>2 DEF total
    <3>2. PICK k \in Ends : \A l \in Ends : k <= l
      <4> HIDE DEF Ends
      <4> QED
        BY <3>1, LeastMember
    <3>3. k \in 1..(n - 1) /\ Right(k)
      <4>1. k \in 1..(n - 1) /\ s < times[k + 1]
        BY <3>2
      <4>2. ASSUME NEW l \in 2..k PROVE s >= times[l]
        <5>1. l - 1 \in 1..(n - 1) /\ ~ (k <= l - 1) /\ (l - 1) + 1 = l /\ l \in 1..n
          BY <1>1, <4>1
        <5>2. ~ (s < times[l])
          BY <3>2, <5>1
        <5> QED
          BY <1>1, <1>2, <1>7, <5>1, <5>2
      <4> QED
        BY <4>1, <4>2
    <3>4. i = CHOOSE m \in 1..(n - 1) : Right(m)
      BY <1>1, <1>2, <2>2, Zenon DEF Segment
    <3> HIDE DEF i
    <3>5. i \in 1..(n - 1) /\ Right(i)
      <4> HIDE DEF Right
      <4> QED
        BY <3>3, <3>4, Zenon
    <3>6. times[i] <= s
      <4>1. CASE i = 1
        BY <1>1, <1>2, <1>7, <4>1
      <4>2. CASE i # 1
        <5>1. i \in 2..i /\ i \in 1..n
          BY <1>1, <3>5, <4>2
        <5> QED
          BY <1>1, <1>2, <1>7, <3>5, <5>1
      <4> QED
        BY <4>1, <4>2
    <3>7. s <= times[i + 1]
      <4>1. i + 1 \in 1..n
        BY <1>1, <3>5
      <4> QED
        BY <1>1, <1>2, <1>7, <3>5, <4>1
    <3> QED
      BY <3>5, <3>6, <3>7 DEF i
  <2> QED
    BY <2>1, <2>2
<1> QED
  BY <1>1, <1>7, <1>8 DEF s
-----------------------------------------------------------------------------
(* The cubic of a segment, at x into it and z before its end.              *)
LEMMA Order ==
  ASSUME NEW a \in Int, NEW b \in Int, NEW c \in Int, a <= b, c >= 0
  PROVE  a * c \in Int /\ b * c \in Int /\ a * c <= b * c
<1>1. (b - a) * c >= 0
  OBVIOUS
<1> QED
  BY <1>1

LEMMA Products ==
  ASSUME NEW a \in Nat, NEW b \in Nat PROVE a * b \in Nat
OBVIOUS

(* A slope of at most one over each of two intervals.                      *)
LEMMA SlopeWithin ==
  ASSUME NEW a \in Int, NEW p \in Nat, -p <= a, a <= p, NEW h \in Nat
  PROVE  a * h \in Int /\ -(p * h) <= a * h /\ a * h <= p * h
<1>1. a * h <= p * h /\ a * h \in Int /\ p * h \in Int
  BY Order
<1>2. (-p) * h <= a * h
  BY Order
<1>3. (-p) * h = -(p * h)
  OBVIOUS
<1> QED
  BY <1>1, <1>2, <1>3

LEMMA Mixed ==
  ASSUME NEW g \in Nat, NEW h \in Nat, NEW u \in Int, NEW v \in Int,
         NEW low \in Int, NEW high \in Int,
         low <= u, low <= v, u <= high, v <= high
  PROVE  /\ g * u + h * v \in Int /\ (g + h) * low \in Int /\ (g + h) * high \in Int
         /\ (g + h) * low <= g * u + h * v
         /\ g * u + h * v <= (g + h) * high
<1>1. low * g <= u * g /\ u * g <= high * g /\ low * g \in Int /\ u * g \in Int /\ high * g \in Int
  BY Order
<1>2. low * h <= v * h /\ v * h <= high * h /\ low * h \in Int /\ v * h \in Int /\ high * h \in Int
  BY Order
<1>3. /\ g * u = u * g /\ h * v = v * h
      /\ (g + h) * low = low * g + low * h
      /\ (g + h) * high = high * g + high * h
  OBVIOUS
<1> QED
  BY <1>1, <1>2, <1>3

LEMMA Bases ==
  ASSUME NEW x \in Nat, NEW z \in Nat, NEW dt, dt = x + z
  PROVE  /\ 2 * x * x * x - 3 * x * x * dt + dt * dt * dt = z * z * (z + 3 * x)
         /\ x * x * x - 2 * x * x * dt + x * dt * dt = x * z * z
         /\ 3 * x * x * dt - 2 * x * x * x = x * x * (x + 3 * z)
         /\ x * x * x - x * x * dt = -(x * x * z)
         /\ z * z * (z + 3 * x) + x * x * (x + 3 * z) = dt * dt * dt
         /\ x * z * z + x * x * z = x * z * dt
         /\ x * x * (x + 3 * z) + x * z * z - x * x * z = x * dt * dt
<1>1. 2 * x * x * x - 3 * x * x * dt + dt * dt * dt = z * z * (z + 3 * x)
  OBVIOUS
<1>2. x * x * x - 2 * x * x * dt + x * dt * dt = x * z * z
  OBVIOUS
<1>3. 3 * x * x * dt - 2 * x * x * x = x * x * (x + 3 * z)
  OBVIOUS
<1>4. x * x * x - x * x * dt = -(x * x * z)
  OBVIOUS
<1>5. z * z * (z + 3 * x) + x * x * (x + 3 * z) = dt * dt * dt
  OBVIOUS
<1>6. x * z * z + x * x * z = x * z * dt
  OBVIOUS
<1>7. x * x * (x + 3 * z) + x * z * z - x * x * z = x * dt * dt
  OBVIOUS
<1> QED
  BY <1>1, <1>2, <1>3, <1>4, <1>5, <1>6, <1>7

LEMMA Quarter ==
  ASSUME NEW x \in Nat, NEW z \in Nat
  PROVE  4 * (x * z) <= (x + z) * (x + z)
<1>1. (x + z) * (x + z) - 4 * (x * z) = (x - z) * (x - z)
  OBVIOUS
<1>2. (x - z) * (x - z) >= 0
  OBVIOUS
<1> QED
  BY <1>1, <1>2

(* A cubic with its bases, tangents a / p and b / q and ends u and v.      *)
CubicOf(p, q, a, b, u, v, dt, x) ==
  LET h00 == 2 * x * x * x - 3 * x * x * dt + dt * dt * dt
      h10 == x * x * x - 2 * x * x * dt + x * dt * dt
      h01 == 3 * x * x * dt - 2 * x * x * x
      h11 == x * x * x - x * x * dt
  IN  p * q * (h00 * u + h01 * v) + dt * (h10 * a * q + h11 * b * p)

SplitBy(g, h, k, l, y, p, q, a, b, u, v, dt, x, z) ==
  /\ y = p * q * (g * u + h * v) + dt * ((a * k) * q - (b * l) * p)
  /\ g + h = dt * dt * dt
  /\ k + l = x * z * dt
  /\ h + k - l = x * dt * dt

LEMMA CubicParts ==
  ASSUME NEW p \in Nat, NEW q \in Nat, NEW a \in Int, NEW b \in Int, NEW u \in Int,
         NEW v \in Int, NEW x \in Nat, NEW z \in Nat, NEW dt, dt = x + z
  PROVE  \E g, h, k, l \in Nat :
           SplitBy(g, h, k, l, CubicOf(p, q, a, b, u, v, dt, x), p, q, a, b, u, v, dt, x, z)
<1> DEFINE g == 2 * x * x * x - 3 * x * x * dt + dt * dt * dt
           k == x * x * x - 2 * x * x * dt + x * dt * dt
           h == 3 * x * x * dt - 2 * x * x * x
           l == x * x * z
           e == x * x * x - x * x * dt
<1>1. /\ g = z * z * (z + 3 * x) /\ k = x * z * z
      /\ h = x * x * (x + 3 * z) /\ e = -l
      /\ z * z * (z + 3 * x) + x * x * (x + 3 * z) = dt * dt * dt
      /\ x * z * z + x * x * z = x * z * dt
      /\ x * x * (x + 3 * z) + x * z * z - x * x * z = x * dt * dt
  BY Bases
<1>2. dt \in Nat /\ g \in Nat /\ h \in Nat /\ k \in Nat /\ l \in Nat
  <2>1. x * x \in Nat /\ z * z \in Nat /\ x + 3 * z \in Nat /\ z + 3 * x \in Nat
    BY Products
  <2>2. z * z * (z + 3 * x) \in Nat /\ x * x * (x + 3 * z) \in Nat /\ x * x * z \in Nat
    BY <2>1, Products
  <2>3. x * z \in Nat
    BY Products
  <2>4. x * z * z \in Nat
    BY <2>3, Products
  <2> QED
    BY <1>1, <2>2, <2>4
<1>3. /\ g + h = dt * dt * dt /\ k + l = x * z * dt /\ h + k - l = x * dt * dt
  BY <1>1, Zenon DEF l
<1>4. CubicOf(p, q, a, b, u, v, dt, x) = p * q * (g * u + h * v) + dt * (k * a * q + e * b * p)
  BY Zenon DEF CubicOf
<1> DEFINE y == CubicOf(p, q, a, b, u, v, dt, x)
<1>5. e = -l
  BY <1>1
<1> HIDE DEF g, h, k, l, e, y
<1>6. k * a * q + e * b * p = (a * k) * q - (b * l) * p
  BY <1>2, <1>5
<1>7. y = p * q * (g * u + h * v) + dt * ((a * k) * q - (b * l) * p)
  BY <1>4, <1>6 DEF y
<1>8. SplitBy(g, h, k, l, y, p, q, a, b, u, v, dt, x, z)
  BY <1>3, <1>7, Zenon DEF SplitBy
<1> QED
  BY <1>2, <1>8, Zenon DEF y

LEMMA CubicWithin ==
  ASSUME NEW p \in Nat, NEW q \in Nat, NEW a \in Int, NEW b \in Int, NEW u \in Int,
         NEW v \in Int, NEW x \in Nat, NEW z \in Nat, NEW dt, dt = x + z,
         NEW low \in Int, NEW high \in Int,
         -p <= a, a <= p, -q <= b, b <= q,
         low <= u, low <= v, u <= high, v <= high
  PROVE  4 * CubicOf(p, q, a, b, u, v, dt, x)
           \in (p * q * dt * dt * dt * (4 * low - dt))..(p * q * dt * dt * dt * (4 * high + dt))
<1> DEFINE y == CubicOf(p, q, a, b, u, v, dt, x)
           R == p * q
           T == dt * dt * dt
           C == x * z * dt
<1>a. PICK g, h, k, l \in Nat : SplitBy(g, h, k, l, y, p, q, a, b, u, v, dt, x, z)
  BY CubicParts
<1>1. /\ y = R * (g * u + h * v) + dt * ((a * k) * q - (b * l) * p)
      /\ g + h = T /\ k + l = C
  BY <1>a, Zenon DEF SplitBy
<1> HIDE DEF y
<1> DEFINE M == g * u + h * v
           E == (a * k) * q - (b * l) * p
<1>2. M \in Int /\ T * low <= M /\ M <= T * high /\ T * low \in Int /\ T * high \in Int
  BY <1>1, Mixed
<1>3. dt \in Nat /\ R \in Nat /\ C \in Nat /\ T \in Nat
  BY Products
<1>4. E \in Int /\ -(R * C) <= E /\ E <= R * C
  <2> DEFINE c == a * k
             d == b * l
             P == p * k
             Q == q * l
  <2>1. c \in Int /\ -P <= c /\ c <= P /\ P \in Nat
    BY SlopeWithin, Products
  <2>2. d \in Int /\ -Q <= d /\ d <= Q /\ Q \in Nat
    BY SlopeWithin, Products
  <2>3. P * q + Q * p = R * (k + l)
    OBVIOUS
  <2> HIDE DEF c, d, P, Q
  <2>4. c * q \in Int /\ -(P * q) <= c * q /\ c * q <= P * q
    BY <2>1, SlopeWithin
  <2>5. d * p \in Int /\ -(Q * p) <= d * p /\ d * p <= Q * p
    BY <2>2, SlopeWithin
  <2>6. c * q - d * p <= R * C /\ -(R * C) <= c * q - d * p /\ c * q - d * p \in Int
    BY <1>1, <2>1, <2>2, <2>3, <2>4, <2>5
  <2> QED
    BY <2>6 DEF c, d
<1>5. 4 * C <= T
  <2>1. 4 * (x * z) <= dt * dt /\ 4 * (x * z) \in Int /\ dt * dt \in Int
    BY Quarter
  <2>2. 4 * (x * z) * dt <= dt * dt * dt
    BY <1>3, <2>1, Order
  <2>3. 4 * (x * z) * dt = 4 * C
    BY <1>3
  <2> QED
    BY <2>2, <2>3
<1>6. p * q * dt * dt * dt = R * T
  BY <1>3
<1> HIDE DEF M, E, R, T, C
<1>7. 4 * C * (R * dt) <= T * (R * dt)
  BY <1>3, <1>5, Order, Products
<1>8. dt * E <= dt * (R * C) /\ -(dt * (R * C)) <= dt * E
  <2> DEFINE D == R * C
  <2>1. D \in Nat
    BY <1>3, Products
  <2>2. E \in Int /\ -D <= E /\ E <= D
    BY <1>4
  <2> HIDE DEF D
  <2>3. E * dt <= D * dt /\ -(D * dt) <= E * dt
    BY <1>3, <2>1, <2>2, Order, SlopeWithin
  <2>4. dt * E <= dt * D /\ -(dt * D) <= dt * E
    BY <1>3, <2>1, <2>2, <2>3
  <2> QED
    BY <2>4 DEF D
<1>9. R * (T * low) <= R * M /\ R * M <= R * (T * high)
  <2> DEFINE A == T * low
             B == T * high
  <2>1. A \in Int /\ B \in Int /\ A <= M /\ M <= B
    BY <1>2
  <2> HIDE DEF A, B
  <2>2. A * R <= M * R /\ M * R <= B * R
    BY <1>2, <1>3, <2>1, Order
  <2>3. R * A <= R * M /\ R * M <= R * B
    BY <1>2, <1>3, <2>1, <2>2
  <2> QED
    BY <2>3 DEF A, B
<1>10. y = R * M + dt * E
  BY <1>1 DEF M, E
<1>11. 4 * (dt * (R * C)) <= dt * (R * T)
  <2>1. 4 * (dt * (R * C)) = 4 * C * (R * dt) /\ dt * (R * T) = T * (R * dt)
    BY <1>3
  <2> QED
    BY <1>7, <2>1
<1>12. /\ R * T * (4 * low - dt) = 4 * (R * (T * low)) - dt * (R * T)
       /\ R * T * (4 * high + dt) = 4 * (R * (T * high)) + dt * (R * T)
  BY <1>3
<1> DEFINE rm == R * M
           de == dt * E
           rl == R * (T * low)
           rh == R * (T * high)
           rt == dt * (R * T)
           rc == dt * (R * C)
<1>13. /\ rm \in Int /\ de \in Int /\ rl \in Int /\ rh \in Int /\ rt \in Int /\ rc \in Int
       /\ y = rm + de /\ rl <= rm /\ rm <= rh /\ de <= rc /\ -rc <= de /\ 4 * rc <= rt
       /\ R * T * (4 * low - dt) = 4 * rl - rt /\ R * T * (4 * high + dt) = 4 * rh + rt
  BY <1>2, <1>3, <1>4, <1>8, <1>9, <1>10, <1>11, <1>12
<1> HIDE DEF rm, de, rl, rh, rt, rc
<1>14. 4 * y \in (R * T * (4 * low - dt))..(R * T * (4 * high + dt))
  BY <1>13
<1> QED
  BY <1>6, <1>14 DEF y

(* At constant speed rise / dt.                                            *)
OnTheLine(p, q, a, b, u, v, dt, x, rise) ==
  dt * CubicOf(p, q, a, b, u, v, dt, x) = p * q * dt * dt * dt * (dt * u + rise * x)

LEMMA CubicSteady ==
  ASSUME NEW p \in Nat, NEW q \in Nat, NEW a \in Int, NEW b \in Int, NEW u \in Int,
         NEW v \in Int, NEW x \in Nat, NEW z \in Nat, NEW dt, dt = x + z,
         NEW rise, rise = v - u, a * dt = rise * p, b * dt = rise * q
  PROVE  OnTheLine(p, q, a, b, u, v, dt, x, rise)
<1> DEFINE y == CubicOf(p, q, a, b, u, v, dt, x)
           R == p * q
<1>a. PICK g, h, k, l \in Nat : SplitBy(g, h, k, l, y, p, q, a, b, u, v, dt, x, z)
  BY CubicParts
<1>1. /\ y = R * (g * u + h * v) + dt * ((a * k) * q - (b * l) * p)
      /\ g + h = dt * dt * dt /\ h + k - l = x * dt * dt
  BY <1>a, Zenon DEF SplitBy
<1> HIDE DEF y
<1>2. dt \in Nat /\ R \in Nat /\ rise \in Int /\ v = u + rise
  BY Products
<1>3. dt * ((a * k) * q - (b * l) * p) = R * (rise * (k - l))
  <2>1. dt * ((a * k) * q - (b * l) * p) = (a * dt) * k * q - (b * dt) * l * p
    BY <1>2
  <2>2. (rise * p) * k * q - (rise * q) * l * p = R * (rise * (k - l))
    BY <1>2
  <2> QED
    BY <2>1, <2>2
<1>4. g * u + h * v = (g + h) * u + h * rise
  BY <1>2
<1>5. y = R * ((g + h) * u + (h + k - l) * rise)
  <2> HIDE DEF R
  <2>1. R * ((g + h) * u + (h + k - l) * rise)
          = R * ((g + h) * u + h * rise) + R * (rise * (k - l))
    BY <1>2
  <2> QED
    BY <1>1, <1>3, <1>4, <2>1
<1>6. y = R * (dt * dt * dt * u + x * dt * dt * rise)
  BY <1>1, <1>5
<1>7. dt * (R * (dt * dt * dt * u + x * dt * dt * rise)) = R * dt * dt * dt * (dt * u + rise * x)
  <2> HIDE DEF R
  <2> QED
    BY <1>2
<1>8. dt * y = p * q * dt * dt * dt * (dt * u + rise * x)
  BY <1>6, <1>7
<1> QED
  BY <1>8, Zenon DEF OnTheLine, y

JoinsEnds(p, q, a, b, u, v, dt) ==
  /\ CubicOf(p, q, a, b, u, v, dt, 0) = p * q * dt * dt * dt * u
  /\ CubicOf(p, q, a, b, u, v, dt, dt) = p * q * dt * dt * dt * v

LEMMA CubicEnds ==
  ASSUME NEW p \in Nat, NEW q \in Nat, NEW a \in Int, NEW b \in Int, NEW u \in Int,
         NEW v \in Int, NEW dt \in Nat
  PROVE  JoinsEnds(p, q, a, b, u, v, dt)
<1>1. CubicOf(p, q, a, b, u, v, dt, 0) = p * q * dt * dt * dt * u
  BY DEF CubicOf
<1>2. CubicOf(p, q, a, b, u, v, dt, dt) = p * q * dt * dt * dt * v
  BY DEF CubicOf
<1> QED
  BY <1>1, <1>2, Zenon DEF JoinsEnds

(* A joint's waypoints with their times: as fast as its slopes say.        *)
PacedBy(n, w, times) ==
  /\ KnotsRise(n, times) /\ w \in [1..n -> Int]
  /\ \A k \in 1..(n - 1) : Distance(w[k], w[k + 1]) <= times[k + 1] - times[k]

Steady(n, w, times, dt, rise) ==
  \A k \in 1..(n - 1) : (w[k + 1] - w[k]) * dt = rise * (times[k + 1] - times[k])

FlatAt(n, w, times, i, dt, rise) ==
  LET m == Tangents(w, times)
  IN  /\ m[i].run \in Nat /\ m[i].rise \in Int
      /\ -m[i].run <= m[i].rise /\ m[i].rise <= m[i].run
      /\ Steady(n, w, times, dt, rise) => m[i].rise * dt = rise * m[i].run

LEMMA TangentsFlat ==
  ASSUME NEW n, NEW w, NEW times, PacedBy(n, w, times), NEW i \in 1..n,
         NEW dt \in Int, NEW rise \in Int
  PROVE  FlatAt(n, w, times, i, dt, rise)
<1> DEFINE a == IF i = 1 THEN 1 ELSE i - 1
           b == IF i = n THEN i ELSE i + 1
           m == Tangents(w, times)
<1> SUFFICES /\ m[i].run \in Nat /\ m[i].rise \in Int
             /\ -m[i].run <= m[i].rise /\ m[i].rise <= m[i].run
             /\ Steady(n, w, times, dt, rise) => m[i].rise * dt = rise * m[i].run
  BY Zenon DEF FlatAt
<1>1. /\ n \in Nat /\ n >= 2 /\ times \in [1..n -> Nat] /\ w \in [1..n -> Int]
      /\ Len(w) = n /\ DOMAIN w = 1..n
  BY DEF PacedBy, KnotsRise
<1>2. m[i] = [rise |-> w[b] - w[a], run |-> times[b] - times[a]]
  BY <1>1, Zenon DEF Tangents
<1>3. m[i].rise = w[b] - w[a] /\ m[i].run = times[b] - times[a]
  BY <1>2
<1>4. ASSUME NEW k \in 1..(n - 1)
      PROVE  /\ k \in 1..n /\ k + 1 \in 1..n
             /\ w[k] \in Int /\ w[k + 1] \in Int /\ times[k] \in Nat /\ times[k + 1] \in Nat
             /\ times[k] < times[k + 1]
             /\ w[k + 1] - w[k] <= times[k + 1] - times[k]
             /\ w[k] - w[k + 1] <= times[k + 1] - times[k]
             /\ Steady(n, w, times, dt, rise) =>
                  (w[k + 1] - w[k]) * dt = rise * (times[k + 1] - times[k])
  <2> DEFINE d == Distance(w[k], w[k + 1])
  <2>1. k \in 1..n /\ k + 1 \in 1..n
    BY <1>1
  <2>2. w[k] \in Int /\ w[k + 1] \in Int /\ times[k] \in Nat /\ times[k + 1] \in Nat
    BY <1>1, <2>1
  <2>3. times[k] < times[k + 1] /\ d <= times[k + 1] - times[k]
    BY Zenon DEF PacedBy, KnotsRise
  <2>4. d \in Nat /\ w[k] - w[k + 1] <= d /\ w[k + 1] - w[k] <= d
    BY <2>2, DistanceIs
  <2> HIDE DEF d
  <2>5. /\ w[k + 1] - w[k] <= times[k + 1] - times[k]
        /\ w[k] - w[k + 1] <= times[k + 1] - times[k]
    BY <2>2, <2>3, <2>4
  <2>6. Steady(n, w, times, dt, rise) =>
          (w[k + 1] - w[k]) * dt = rise * (times[k + 1] - times[k])
    BY Zenon DEF Steady
  <2> QED
    BY <2>1, <2>2, <2>3, <2>5, <2>6
<1> HIDE DEF m
<1>5. CASE i = 1
  <2>1. a = 1 /\ b = 2 /\ 1 \in 1..(n - 1) /\ 1 + 1 = 2
    BY <1>1, <1>5
  <2> QED
    BY <1>3, <1>4, <2>1
<1>6. CASE i = n
  <2>1. a = i - 1 /\ b = i /\ i - 1 \in 1..(n - 1) /\ (i - 1) + 1 = i
    BY <1>1, <1>6
  <2> QED
    BY <1>3, <1>4, <2>1
<1>7. CASE i # 1 /\ i # n
  <2>1. /\ a = i - 1 /\ b = i + 1 /\ i - 1 \in 1..(n - 1) /\ (i - 1) + 1 = i
        /\ i \in 1..(n - 1)
    BY <1>1, <1>7
  <2> DEFINE w0 == w[a]
             w1 == w[i]
             w2 == w[b]
             t0 == times[a]
             t1 == times[i]
             t2 == times[b]
  <2>2. /\ w0 \in Int /\ w1 \in Int /\ t0 \in Nat /\ t1 \in Nat /\ t0 < t1
        /\ w1 - w0 <= t1 - t0 /\ w0 - w1 <= t1 - t0
        /\ Steady(n, w, times, dt, rise) => (w1 - w0) * dt = rise * (t1 - t0)
    BY <1>4, <2>1
  <2>3. /\ w2 \in Int /\ t2 \in Nat /\ t1 < t2
        /\ w2 - w1 <= t2 - t1 /\ w1 - w2 <= t2 - t1
        /\ Steady(n, w, times, dt, rise) => (w2 - w1) * dt = rise * (t2 - t1)
    BY <1>4, <2>1
  <2>4. m[i].rise = w2 - w0 /\ m[i].run = t2 - t0
    BY <1>3
  <2> HIDE DEF w0, w1, w2, t0, t1, t2
  <2>5. Steady(n, w, times, dt, rise) => (w2 - w0) * dt = rise * (t2 - t0)
    <3>1. (w2 - w0) * dt = (w1 - w0) * dt + (w2 - w1) * dt
      BY <2>2, <2>3
    <3>2. rise * (t2 - t0) = rise * (t1 - t0) + rise * (t2 - t1)
      BY <2>2, <2>3
    <3> QED
      BY <2>2, <2>3, <3>1, <3>2
  <2> QED
    BY <2>2, <2>3, <2>4, <2>5
<1> QED
  BY <1>5, <1>6, <1>7

LEMMA CubicRight ==
  ASSUME NEW route \in Seq(TrailFrame), NEW kept, NEW times, FromEndToEnd(route, kept),
         KnotsRise(Len(kept), times), KnotsPlayable(route, kept, times)
  PROVE  CubicNear(route, kept, times)
<1> SUFFICES
      ASSUME NEW j \in TrailJoints, NEW i \in 1..(Len(kept) - 1)
      PROVE  LET w == [k \in 1..Len(kept) |-> route[kept[k]][j]]
                 m == Tangents(w, times)
                 dt == times[i + 1] - times[i]
                 rise == w[i + 1] - w[i]
                 one == Weight(m, dt, i)
                 low == IF rise > 0 THEN w[i] ELSE w[i + 1]
                 high == IF rise > 0 THEN w[i + 1] ELSE w[i]
                 steady == \A k \in 1..(Len(kept) - 1) :
                             (w[k + 1] - w[k]) * dt = rise * (times[k + 1] - times[k])
             IN  /\ Cubic(w, m, dt, i, 0) = one * w[i]
                 /\ Cubic(w, m, dt, i, dt) = one * w[i + 1]
                 /\ \A x \in 1..(dt - 1) :
                      LET y == Cubic(w, m, dt, i, x)
                      IN  /\ 4 * y \in (one * (4 * low - dt))..(one * (4 * high + dt))
                          /\ steady => dt * y = one * (dt * w[i] + rise * x)
  BY Zenon DEF CubicNear
<1> DEFINE n == Len(kept)
           w == [k \in 1..n |-> route[kept[k]][j]]
           m == Tangents(w, times)
           dt == times[i + 1] - times[i]
           rise == w[i + 1] - w[i]
           one == Weight(m, dt, i)
           low == IF rise > 0 THEN w[i] ELSE w[i + 1]
           high == IF rise > 0 THEN w[i + 1] ELSE w[i]
           p == m[i].run
           q == m[i + 1].run
           a == m[i].rise
           b == m[i + 1].rise
           u == w[i]
           v == w[i + 1]
<1>1. /\ n \in Nat /\ n >= 2 /\ times \in [1..n -> Nat]
      /\ \A k \in 1..(n - 1) : times[k] < times[k + 1]
      /\ \A k \in 1..n : kept[k] \in 1..Len(route)
  BY DEF KnotsRise, FromEndToEnd, RisingTo
<1>2. w \in [1..n -> Int]
  BY <1>1 DEF TrailFrame
<1>3. i \in 1..n /\ i + 1 \in 1..n
  BY <1>1
<1>4. dt \in Nat /\ dt > 0
  <2>1. times[i] \in Nat /\ times[i + 1] \in Nat /\ times[i] < times[i + 1]
    BY <1>1, <1>3
  <2> QED
    BY <2>1
<1>5. u \in Int /\ v \in Int /\ rise \in Int
  BY <1>2, <1>3
<1>6. PacedBy(n, w, times)
  <2>1. ASSUME NEW k \in 1..(n - 1)
        PROVE  Distance(w[k], w[k + 1]) <= times[k + 1] - times[k]
    <3>1. k \in 1..n /\ k + 1 \in 1..n
      BY <1>1
    <3>2. w[k] = route[kept[k]][j] /\ w[k + 1] = route[kept[k + 1]][j]
      BY <3>1
    <3>3. Distance(route[kept[k]][j], route[kept[k + 1]][j]) <= times[k + 1] - times[k]
      BY Zenon DEF KnotsPlayable
    <3> HIDE DEF w
    <3> QED
      BY <3>2, <3>3, Zenon
  <2> HIDE DEF w
  <2> QED
    BY <1>2, <2>1, Zenon DEF PacedBy
<1>7. /\ p \in Nat /\ a \in Int /\ -p <= a /\ a <= p
      /\ q \in Nat /\ b \in Int /\ -q <= b /\ b <= q
      /\ Steady(n, w, times, dt, rise) => a * dt = rise * p /\ b * dt = rise * q
  <2>1. FlatAt(n, w, times, i, dt, rise) /\ FlatAt(n, w, times, i + 1, dt, rise)
    <3> HIDE DEF n, w
    <3>1. dt \in Int /\ rise \in Int
      BY <1>4, <1>5
    <3> HIDE DEF dt, rise
    <3> QED
      BY <1>3, <1>6, <3>1, TangentsFlat
  <2> QED
    BY <2>1, Zenon DEF FlatAt
<1>8. \A x : Cubic(w, m, dt, i, x) = CubicOf(p, q, a, b, u, v, dt, x)
  BY Zenon DEF Cubic, CubicOf
<1>9. one = p * q * dt * dt * dt
  BY Zenon DEF Weight
<1>10. low \in Int /\ high \in Int /\ low <= u /\ low <= v /\ u <= high /\ v <= high
  BY <1>5
<1>11. Steady(n, w, times, dt, rise)
         <=> \A k \in 1..(Len(kept) - 1) :
               (w[k + 1] - w[k]) * dt = rise * (times[k + 1] - times[k])
  BY Zenon DEF Steady
<1>12. rise = v - u
  OBVIOUS
<1> HIDE DEF n, w, m, dt, rise, one, low, high, p, q, a, b, u, v
<1>13. /\ Cubic(w, m, dt, i, 0) = one * u
       /\ Cubic(w, m, dt, i, dt) = one * v
  <2>1. JoinsEnds(p, q, a, b, u, v, dt)
    BY <1>4, <1>5, <1>7, CubicEnds
  <2> QED
    BY <1>8, <1>9, <2>1, Zenon DEF JoinsEnds
<1>14. ASSUME NEW x \in 1..(dt - 1)
       PROVE  /\ 4 * Cubic(w, m, dt, i, x) \in (one * (4 * low - dt))..(one * (4 * high + dt))
              /\ Steady(n, w, times, dt, rise) =>
                   dt * Cubic(w, m, dt, i, x) = one * (dt * u + rise * x)
  <2> DEFINE z == dt - x
  <2>1. x \in Nat /\ z \in Nat /\ dt = x + z
    BY <1>4
  <2> HIDE DEF z
  <2>2. 4 * CubicOf(p, q, a, b, u, v, dt, x)
          \in (p * q * dt * dt * dt * (4 * low - dt))..(p * q * dt * dt * dt * (4 * high + dt))
    BY <1>5, <1>7, <1>10, <2>1, CubicWithin
  <2>3. ASSUME Steady(n, w, times, dt, rise)
        PROVE  OnTheLine(p, q, a, b, u, v, dt, x, rise)
    <3>1. a * dt = rise * p /\ b * dt = rise * q
      BY <1>7, <2>3, Zenon
    <3> QED
      BY <1>5, <1>7, <1>12, <2>1, <3>1, CubicSteady
  <2> QED
    BY <1>8, <1>9, <2>2, <2>3, Zenon DEF OnTheLine
<1> QED
  BY <1>11, <1>13, <1>14, Zenon DEF n, w, m, dt, rise, one, low, high, u, v

(* The spline through the waypoints of any trail can be played: time       *)
(* passes between its knots, sample() finds a segment for every time and   *)
(* turns without a jump, and each joint's cubic joins its waypoints,       *)
(* overshoots them by at most a quarter of the segment's time, and keeps a *)
(* constant speed.                                                         *)
THEOREM SplineThrough ==
  ASSUME NEW route \in Seq(TrailFrame), Decimated(route) # <<>>
  PROVE  LET kept == Decimated(route)
             times == KnotTimes(route, kept)
         IN  /\ KnotsPlayable(route, kept, times)
             /\ LookupInside(times)
             /\ CubicNear(route, kept, times)
<1> DEFINE kept == Decimated(route)
           times == KnotTimes(route, kept)
<1>1. FromEndToEnd(route, kept)
  BY DecimatedRight
<1> HIDE DEF kept
<1>2. KnotsRise(Len(kept), times) /\ KnotsPlayable(route, kept, times)
  BY <1>1, KnotsRight
<1> HIDE DEF times
<1>3. LookupInside(times)
  BY <1>2, LookupRight
<1>4. CubicNear(route, kept, times)
  BY <1>1, <1>2, CubicRight
<1>5. /\ KnotsPlayable(route, kept, times)
      /\ LookupInside(times)
      /\ CubicNear(route, kept, times)
  BY <1>2, <1>3, <1>4
<1> QED
  BY <1>5, Zenon DEF kept, times
-----------------------------------------------------------------------------
(* The trail that is recorded.                                             *)
LEMMA TrailRecorded == Spec => [](trail \in Seq(TrailFrame))
<1> DEFINE TrailOK == trail \in Seq(TrailFrame)
<1>1. Init => TrailOK
  BY DEF Init
<1>2. TrailOK /\ [Next]_vars => TrailOK'
  <2> SUFFICES ASSUME TrailOK, [Next]_vars PROVE TrailOK'
    OBVIOUS
  <2>1. CASE Record
    <3>1. PICK frame \in Frames : trail' = Append(trail, frame)
      BY <2>1 DEF Record
    <3>2. frame \in TrailFrame
      BY BoundsAssumption DEF TrailFrame
    <3> QED
      BY <3>1, <3>2
  <2>2. CASE Plot
    BY <2>2, Zenon DEF Plot
  <2>3. CASE UNCHANGED vars
    BY <2>3, Zenon DEF vars
  <2> QED
    BY <2>1, <2>2, <2>3, Zenon DEF Next
<1> QED
  BY <1>1, <1>2, PTL DEF Spec

(* The waypoints of whatever is recorded follow it, under any settings     *)
(* that load_runtime_profile lets through.                                 *)
THEOREM DecimationCorrect == Spec => []DecimationFaithful
<1>1. trail \in Seq(TrailFrame) => DecimationFaithful
  BY TrailFollowed, Zenon DEF DecimationFaithful
<1> QED
  BY <1>1, TrailRecorded, PTL

(* And the spline through them can be played.                              *)
THEOREM SplineCorrect == Spec => []SplinePlays
<1>1. trail \in Seq(TrailFrame) => SplinePlays
  BY SplineThrough, Zenon DEF SplinePlays
<1> QED
  BY <1>1, TrailRecorded, PTL
=============================================================================
