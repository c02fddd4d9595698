----------------------------- MODULE SweepSteps -----------------------------
(***************************************************************************)
(* The list of currents of a locked-rotor sweep (buildSteps of             *)
(* gui/widgets/locked_rotor_test_panel.cpp), in units of the least step,   *)
(* 0.05 A: the tolerances of the code on doubles become equality.          *)
(***************************************************************************)
EXTENDS Integers, Sequences, SequencesExt

SweepForm(f) ==
  /\ f.start \in Int /\ f.end \in Int /\ f.step \in Nat \ {0}
  /\ f.ret \in BOOLEAN /\ f.opp \in BOOLEAN

Abs(x) == IF x < 0 THEN -x ELSE x

(* Mutant of Ramp: only the whole steps.                                   *)
RampWholeSteps(f) ==
  LET dir == IF f.end > f.start THEN f.step ELSE -f.step
  IN  [i \in 1..(Abs(f.end - f.start) \div f.step + 1) |->
         f.start + dir * (i - 1)]

(* The ramp from start to end: whole steps, then the end point itself.     *)
Ramp(f) ==
  LET dir == IF f.end > f.start THEN f.step ELSE -f.step
      whole == [i \in 1..(Abs(f.end - f.start) \div f.step + 1) |->
                  f.start + dir * (i - 1)]
  IN  IF f.start = f.end THEN <<f.start>>
      ELSE IF Last(whole) = f.end THEN whole ELSE Append(whole, f.end)

(* The ramp, then the way back, then both with the opposite sign.          *)
BuildSteps(f) ==
  LET up == Ramp(f)
      there == IF f.ret /\ Len(up) > 1 THEN up \o Tail(Reverse(up)) ELSE up
  IN  IF f.opp /\ Len(there) > 1
      THEN there \o [i \in 1..Len(there) |-> -there[i]]
      ELSE there
-----------------------------------------------------------------------------
(* The steps s are the sweep the form f asks for: they begin at the start, *)
(* go through the end point also when it is no whole number of steps away, *)
(* change by at most one step within a sign, never exceed the larger of    *)
(* the two ends, with a return leg finish at the start, and are repeated   *)
(* with the opposite sign when that is asked for.                          *)
SweepOf(f, s) ==
  LET n == Len(s)
      mirrored == f.opp /\ f.start # f.end
      half == IF mirrored THEN n \div 2 ELSE n
  IN  /\ s[1] = f.start
      /\ \E i \in 1..half : s[i] = f.end
      /\ \A i \in 1..(n - 1) : i # half => Abs(s[i + 1] - s[i]) <= f.step
      /\ \A i \in 1..n : Abs(s[i]) <= Abs(f.start) \/ Abs(s[i]) <= Abs(f.end)
      /\ f.ret => s[half] = f.start
      /\ ~f.ret => s[half] = f.end
      /\ mirrored => n = 2 * half /\ \A i \in 1..half : s[half + i] = -s[i]
=============================================================================
