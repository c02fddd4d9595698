-------------------------- MODULE SweepStepsProofs --------------------------
(***************************************************************************)
(* Proofs about the list of currents of a locked-rotor sweep, for every    *)
(* form the operator can enter: the ramp goes from start to end in steps   *)
(* no larger than the one asked for, and the list is the sweep requested.  *)
(***************************************************************************)
EXTENDS SweepSteps, SequenceTheorems, TLAPS

Between(x, a, b) == (a <= x /\ x <= b) \/ (b <= x /\ x <= a)

(* What a ramp from a to b in steps of at most d looks like.               *)
RampOf(s, a, b, d) ==
  /\ s \in Seq(Int) /\ Len(s) \in Nat /\ Len(s) >= 1
  /\ s[1] = a /\ s[Len(s)] = b
  /\ \A i \in 1..(Len(s) - 1) : Abs(s[i + 1] - s[i]) <= d
  /\ \A i \in 1..Len(s) : Between(s[i], a, b)
  /\ Len(s) = 1 <=> a = b

(* The whole steps stop at the end point or less than a step before it.    *)
LEMMA WholeSteps ==
  ASSUME NEW n \in Nat, NEW d \in Nat \ {0}
  PROVE  /\ n \div d \in Nat
         /\ d * (n \div d) <= n /\ n < d * (n \div d) + d
         /\ d * (n \div d) = n => (n > 0 => n \div d > 0)
<1>1. n = d * (n \div d) + (n % d) /\ n % d \in 0..(d - 1) /\ n \div d \in Int
  OBVIOUS
<1> DEFINE q == n \div d
<1> HIDE DEF q
<1>2. q >= 0
  <2> SUFFICES ASSUME q <= -1 PROVE FALSE
    BY <1>1 DEF q
  <2>1. d * q <= -d
    BY <1>1 DEF q
  <2> QED
    BY <1>1, <2>1 DEF q
<1> QED
  BY <1>1, <1>2 DEF q

LEMMA StepsWithin ==
  ASSUME NEW d \in Nat, NEW k \in Nat, NEW i \in 0..k
  PROVE  d * i \in 0..(d * k)
<1>1. i \in Nat /\ k - i \in Nat
  OBVIOUS
<1>2. d * k = d * i + d * (k - i)
  BY <1>1
<1>3. d * i \in Nat /\ d * (k - i) \in Nat
  BY <1>1
<1> QED
  BY <1>2, <1>3

(* buildSteps' loops: whole steps and then the end point.                  *)
LEMMA RampCorrect ==
  ASSUME NEW f, SweepForm(f)
  PROVE  RampOf(Ramp(f), f.start, f.end, f.step)
<1> DEFINE a == f.start
           b == f.end
           d == f.step
           n == Abs(b - a)
           k == n \div d
           dir == IF b > a THEN d ELSE -d
           whole == [i \in 1..(k + 1) |-> a + dir * (i - 1)]
<1>1. a \in Int /\ b \in Int /\ d \in Nat \ {0}
  BY DEF SweepForm
<1>2. n \in Nat /\ (b > a => n = b - a) /\ (~(b > a) => n = a - b)
  BY <1>1 DEF Abs
<1>3. k \in Nat /\ d * k <= n /\ n < d * k + d /\ (d * k = n /\ n > 0 => k > 0)
  BY <1>1, <1>2, WholeSteps
<1>4. Ramp(f) = IF a = b THEN <<a>>
                ELSE IF Last(whole) = b THEN whole ELSE Append(whole, b)
  BY DEF Ramp
<1>5. CASE a = b
  <2>1. Ramp(f) = <<a>>
    BY <1>4, <1>5
  <2> QED
    BY <1>1, <1>5, <2>1 DEF RampOf, Between
<1>6. CASE a # b
  <2> HIDE DEF k, n
  <2>1. whole \in Seq(Int) /\ Len(whole) = k + 1
    BY <1>1, <1>3
  <2>2. ASSUME NEW i \in 1..(k + 1)
        PROVE  whole[i] = IF b > a THEN a + d * (i - 1) ELSE a - d * (i - 1)
    BY <1>1, <1>3
  <2>3. ASSUME NEW i \in 1..(k + 1)
        PROVE  d * (i - 1) \in 0..(d * k)
    BY <1>1, <1>3, StepsWithin
  <2>4. Last(whole) = whole[k + 1]
    BY <2>1 DEF Last
  <2>5. whole[1] = a
    BY <1>1, <1>3, <2>2
  <2>6. whole[k + 1] = IF b > a THEN a + d * k ELSE a - d * k
    <3>1. k + 1 \in 1..(k + 1) /\ (k + 1) - 1 = k
      BY <1>3
    <3> HIDE DEF whole
    <3> QED
      BY <2>2, <3>1
  <2>7. ASSUME NEW i \in 1..k
        PROVE  Abs(whole[i + 1] - whole[i]) <= d
    <3>1. i \in 1..(k + 1) /\ i + 1 \in 1..(k + 1) /\ (i + 1) - 1 = i /\ i - 1 \in Int
      BY <1>3
    <3>2. d * i = d * (i - 1) + d /\ d * (i - 1) \in Int
      BY <1>1, <3>1
    <3> DEFINE x == d * (i - 1)
    <3>3. /\ whole[i] = IF b > a THEN a + x ELSE a - x
          /\ whole[i + 1] = IF b > a THEN a + (x + d) ELSE a - (x + d)
      <4> HIDE DEF whole
      <4> QED
        BY <2>2, <3>1, <3>2
    <3> HIDE DEF x, whole
    <3>4. whole[i + 1] - whole[i] = IF b > a THEN d ELSE -d
      BY <1>1, <3>2, <3>3 DEF x
    <3> QED
      BY <1>1, <3>4 DEF Abs
  <2>8. ASSUME NEW i \in 1..(k + 1)
        PROVE  Between(whole[i], a, b)
    <3> DEFINE x == d * (i - 1)
               y == d * k
    <3>1. x \in Int /\ 0 <= x /\ x <= n
      <4>1. x \in 0..y /\ y \in Int /\ y <= n
        BY <1>1, <1>3, <2>3
      <4> HIDE DEF x, y
      <4> QED
        BY <1>2, <4>1
    <3>2. whole[i] = IF b > a THEN a + x ELSE a - x
      BY <2>2
    <3> HIDE DEF x
    <3> QED
      BY <1>1, <1>2, <3>1, <3>2 DEF Between
  <2>9. d * k \in Nat
    BY <1>1, <1>3
  <2> DEFINE y == d * k
  <2>10. CASE Last(whole) = b
    <3>1. Ramp(f) = whole
      BY <1>4, <1>6, <2>10
    <3>2. y = n
      <4>1. b = IF b > a THEN a + y ELSE a - y
        BY <2>4, <2>6, <2>10, Zenon
      <4>2. y \in Nat
        BY <2>9
      <4> HIDE DEF a, b, y
      <4> QED
        BY <1>1, <1>2, <4>1, <4>2
    <3>3. k > 0
      <4>1. n > 0
        BY <1>1, <1>2, <1>6
      <4> QED
        BY <1>3, <3>2, <4>1
    <3>4. Len(whole) - 1 = k
      BY <1>3, <2>1
    <3> HIDE DEF whole, a, b, d
    <3>5. Len(whole) \in Nat /\ Len(whole) >= 1 /\ (Len(whole) = 1 <=> a = b)
      BY <1>3, <1>6, <2>1, <3>3
    <3>6. whole \in Seq(Int) /\ whole[1] = a /\ whole[Len(whole)] = b
      BY <2>1, <2>4, <2>5, <2>10
    <3>7. RampOf(whole, a, b, d)
      BY <2>1, <2>7, <2>8, <3>4, <3>5, <3>6 DEF RampOf
    <3> QED
      BY <3>1, <3>7 DEF a, b, d
  <2>11. CASE Last(whole) # b
    <3> DEFINE s == Append(whole, b)
    <3>1. Ramp(f) = s
      BY <1>4, <1>6, <2>11
    <3>2. /\ s \in Seq(Int) /\ Len(s) = k + 2
          /\ \A i \in 1..(k + 1) : s[i] = whole[i]
          /\ s[k + 2] = b
      <4> HIDE DEF whole
      <4> QED
        BY <1>1, <1>3, <2>1, AppendProperties
    <3>3. Abs(b - whole[k + 1]) <= d
      <4> HIDE DEF whole, y
      <4>1. y \in Int /\ y <= n /\ n < y + d
        BY <1>3, <2>9 DEF y
      <4>2. whole[k + 1] = IF b > a THEN a + y ELSE a - y
        BY <2>6 DEF y
      <4>3. b - whole[k + 1] = IF b > a THEN n - y ELSE y - n
        BY <1>1, <1>2, <4>1, <4>2
      <4> QED
        BY <1>1, <1>2, <4>1, <4>3 DEF Abs
    <3> HIDE DEF whole, s
    <3>4. ASSUME NEW i \in 1..(Len(s) - 1)
          PROVE  Abs(s[i + 1] - s[i]) <= d
      BY <1>3, <2>7, <3>2, <3>3, SMTT(60)
    <3>5. ASSUME NEW i \in 1..Len(s)
          PROVE  Between(s[i], a, b)
      <4>1. CASE i = k + 2
        BY <1>1, <3>2, <4>1 DEF Between
      <4>2. CASE i # k + 2
        BY <1>3, <2>8, <3>2, <4>2
      <4> QED
        BY <4>1, <4>2
    <3> QED
      BY <1>3, <1>6, <2>5, <3>1, <3>2, <3>4, <3>5 DEF RampOf
  <2> QED
    BY <2>10, <2>11
<1> QED
  BY <1>5, <1>6
-----------------------------------------------------------------------------
(* The sweep of one sign: a way from the start through the end point, in   *)
(* steps of at most one, to the last current.                              *)
Larger(x, a, b) == Abs(x) <= Abs(a) \/ Abs(x) <= Abs(b)

LegOf(s, a, b, d, last) ==
  /\ s \in Seq(Int) /\ Len(s) \in Nat /\ Len(s) >= 1
  /\ s[1] = a /\ s[Len(s)] = last
  /\ \E i \in 1..Len(s) : s[i] = b
  /\ \A i \in 1..(Len(s) - 1) : Abs(s[i + 1] - s[i]) <= d
  /\ \A i \in 1..Len(s) : Larger(s[i], a, b)
  /\ Len(s) = 1 <=> a = b

LEMMA BetweenLarger ==
  ASSUME NEW a \in Int, NEW b \in Int, NEW x \in Int, Between(x, a, b)
  PROVE  Larger(x, a, b)
BY DEF Between, Larger, Abs

LEMMA RampLeg ==
  ASSUME NEW s, NEW a \in Int, NEW b \in Int, NEW d \in Int, RampOf(s, a, b, d)
  PROVE  LegOf(s, a, b, d, b)
<1>1. /\ s \in Seq(Int) /\ Len(s) \in Nat /\ Len(s) >= 1
      /\ s[1] = a /\ s[Len(s)] = b
      /\ \A i \in 1..(Len(s) - 1) : Abs(s[i + 1] - s[i]) <= d
      /\ Len(s) = 1 <=> a = b
  BY DEF RampOf
<1>2. ASSUME NEW i \in 1..Len(s)
      PROVE  Larger(s[i], a, b)
  BY <1>1, BetweenLarger DEF RampOf
<1> QED
  BY <1>1, <1>2 DEF LegOf

(* A sequence and its way back.                                            *)
LEMMA ThereAndBack ==
  ASSUME NEW s \in Seq(Int), Len(s) > 1
  PROVE  LET t == s \o Tail(Reverse(s))
         IN  /\ t \in Seq(Int) /\ Len(t) = 2 * Len(s) - 1
             /\ \A i \in 1..Len(s) : t[i] = s[i]
             /\ \A i \in Len(s)..(2 * Len(s) - 1) : t[i] = s[2 * Len(s) - i]
<1> DEFINE n == Len(s)
           r == Reverse(s)
<1>1. n \in Nat /\ n > 1
  BY LenProperties
<1>2. r \in Seq(Int) /\ Len(r) = n /\ \A i \in 1..n : r[i] = s[n - i + 1]
  <2>1. ASSUME NEW i \in 1..n
        PROVE  s[(n - i) + 1] \in Int
    BY <1>1, ElementOfSeq
  <2> QED
    BY <1>1, <2>1 DEF Reverse
<1> HIDE DEF r
<1>3. r # <<>>
  BY <1>1, <1>2
<1>4. /\ Tail(r) \in Seq(Int) /\ Len(Tail(r)) = n - 1
      /\ \A i \in 1..(n - 1) : Tail(r)[i] = r[i + 1]
  BY <1>2, <1>3, HeadTailProperties
<1> DEFINE t == s \o Tail(r)
<1> DEFINE back == Tail(r)
<1>5. /\ t \in Seq(Int) /\ Len(t) = n + (n - 1)
      /\ \A i \in 1..(n + (n - 1)) : t[i] = IF i <= n THEN s[i] ELSE back[i - n]
  <2>1. back \in Seq(Int) /\ Len(back) = n - 1
    BY <1>4
  <2> HIDE DEF back
  <2>2. t = s \o back
    BY DEF back
  <2> HIDE DEF t
  <2>3. /\ s \o back \in Seq(Int) /\ Len(s \o back) = Len(s) + Len(back)
        /\ \A i \in 1..(Len(s) + Len(back)) :
             (s \o back)[i] = IF i <= Len(s) THEN s[i] ELSE back[i - Len(s)]
    BY <2>1, ConcatProperties, Zenon
  <2> QED
    BY <2>1, <2>2, <2>3, Zenon
<1> HIDE DEF t, n
<1>6. ASSUME NEW i \in n..(2 * n - 1)
      PROVE  t[i] = s[2 * n - i]
  <2>1. CASE i = n
    BY <1>1, <1>5, <2>1
  <2>2. CASE i # n
    <3>1. i - n \in 1..(n - 1) /\ (i - n) + 1 \in 1..n
      BY <1>1, <2>2
    <3>2. t[i] = Tail(r)[i - n] /\ Tail(r)[i - n] = r[(i - n) + 1]
      BY <1>1, <1>4, <1>5, <2>2, <3>1, SMTT(60)
    <3>3. n - ((i - n) + 1) + 1 = 2 * n - i
      BY <1>1
    <3> QED
      BY <1>2, <3>1, <3>2, <3>3
  <2> QED
    BY <2>1, <2>2
<1>7. ASSUME NEW i \in 1..n
      PROVE  t[i] = s[i]
  <2>1. i \in 1..(n + (n - 1)) /\ i <= n
    BY <1>1
  <2> QED
    BY <1>5, <2>1
<1> QED
  BY <1>1, <1>5, <1>6, <1>7 DEF t, r, n

LEMMA AbsOpposite ==
  ASSUME NEW x \in Int, NEW y \in Int
  PROVE  /\ Abs(x - y) = Abs(y - x) /\ Abs(-x) = Abs(x)
         /\ Abs((-x) - (-y)) = Abs(x - y)
BY DEF Abs

(* With the return leg a sweep ends where it began.                        *)
LEMMA ReturnLeg ==
  ASSUME NEW s, NEW a \in Int, NEW b \in Int, NEW d \in Int,
         RampOf(s, a, b, d), Len(s) > 1
  PROVE  LegOf(s \o Tail(Reverse(s)), a, b, d, a)
<1> DEFINE t == s \o Tail(Reverse(s))
           n == Len(s)
<1>1. n \in Nat /\ n > 1 /\ a # b
  BY DEF RampOf
<1>2. s \in Seq(Int) /\ s[1] = a /\ s[n] = b
  BY DEF RampOf
<1>3. \A i \in 1..(n - 1) : Abs(s[i + 1] - s[i]) <= d
  BY DEF RampOf
<1>4. ASSUME NEW i \in 1..n
      PROVE  s[i] \in Int /\ Larger(s[i], a, b)
  <2>1. s[i] \in Int
    BY <1>2, ElementOfSeq
  <2> QED
    BY <2>1, BetweenLarger DEF RampOf
<1>5. t \in Seq(Int) /\ Len(t) = 2 * n - 1
  BY <1>1, <1>2, ThereAndBack
<1>6. \A i \in 1..n : t[i] = s[i]
  BY <1>1, <1>2, ThereAndBack
<1>7. \A i \in n..(2 * n - 1) : t[i] = s[2 * n - i]
  BY <1>1, <1>2, ThereAndBack
<1> HIDE DEF t, n
<1>8. n \in 1..n /\ 1 \in 1..n /\ 2 * n - 1 \in n..(2 * n - 1) /\ 2 * n - (2 * n - 1) = 1
  BY <1>1
<1>9. t[1] = a /\ t[n] = b /\ t[2 * n - 1] = a
  BY <1>2, <1>6, <1>7, <1>8
<1>10. ASSUME NEW i \in 1..(2 * n - 2)
       PROVE  Abs(t[i + 1] - t[i]) <= d
  <2>1. CASE i < n
    <3>1. i \in 1..n /\ i + 1 \in 1..n /\ i \in 1..(n - 1)
      BY <1>1, <2>1
    <3> QED
      BY <1>3, <1>6, <3>1
  <2>2. CASE i >= n
    <3> DEFINE k == 2 * n - (i + 1)
    <3>1. k \in 1..(n - 1) /\ 2 * n - i = k + 1 /\ i \in n..(2 * n - 1) /\ i + 1 \in n..(2 * n - 1)
      BY <1>1, <2>2
    <3>2. t[i] = s[k + 1] /\ t[i + 1] = s[k]
      BY <1>7, <3>1
    <3> HIDE DEF k
    <3>3. k \in 1..n /\ k + 1 \in 1..n
      BY <1>1, <3>1
    <3>4. s[k] \in Int /\ s[k + 1] \in Int
      BY <1>4, <3>3
    <3>5. Abs(s[k] - s[k + 1]) = Abs(s[k + 1] - s[k])
      BY <3>4, AbsOpposite
    <3> QED
      BY <1>3, <3>1, <3>2, <3>5
  <2> QED
    BY <1>1, <2>1, <2>2
<1>11. ASSUME NEW i \in 1..(2 * n - 1)
       PROVE  Larger(t[i], a, b)
  <2>1. CASE i <= n
    BY <1>4, <1>6, <2>1
  <2>2. CASE i > n
    <3>1. i \in n..(2 * n - 1) /\ 2 * n - i \in 1..n
      BY <1>1, <2>2
    <3> QED
      BY <1>4, <1>7, <3>1
  <2> QED
    BY <1>1, <2>1, <2>2
<1>12. n \in 1..(2 * n - 1) /\ 2 * n - 1 \in Nat /\ 2 * n - 1 > 1 /\ (2 * n - 1) - 1 = 2 * n - 2
  BY <1>1
<1>13. /\ Len(t) \in Nat /\ Len(t) >= 1 /\ (Len(t) = 1 <=> a = b)
       /\ \E i \in 1..Len(t) : t[i] = b
       /\ t[Len(t)] = a
  BY <1>1, <1>5, <1>9, <1>12
<1>14. /\ \A i \in 1..(Len(t) - 1) : Abs(t[i + 1] - t[i]) <= d
       /\ \A i \in 1..Len(t) : Larger(t[i], a, b)
  BY <1>5, <1>10, <1>11, <1>12
<1>15. LegOf(t, a, b, d, a)
  BY <1>5, <1>9, <1>13, <1>14 DEF LegOf
<1> QED
  BY <1>15 DEF t

(* A sequence followed by its opposite.                                    *)
Opposite(s) == [i \in 1..Len(s) |-> -s[i]]

LEMMA BothSigns ==
  ASSUME NEW s \in Seq(Int)
  PROVE  LET t == s \o Opposite(s)
         IN  /\ t \in Seq(Int) /\ Len(t) = 2 * Len(s)
             /\ \A i \in 1..Len(s) : t[i] = s[i]
             /\ \A i \in 1..Len(s) : t[Len(s) + i] = -s[i]
<1> DEFINE n == Len(s)
           o == Opposite(s)
           t == s \o o
<1>1. n \in Nat
  BY LenProperties
<1>2. ASSUME NEW i \in 1..n
      PROVE  -s[i] \in Int
  <2>1. s[i] \in Int
    BY ElementOfSeq
  <2> QED
    BY <2>1
<1>3. o \in Seq(Int) /\ Len(o) = n /\ \A i \in 1..n : o[i] = -s[i]
  BY <1>1, <1>2 DEF Opposite
<1> HIDE DEF o
<1>4. /\ t \in Seq(Int) /\ Len(t) = Len(s) + Len(o)
      /\ \A i \in 1..(Len(s) + Len(o)) : t[i] = IF i <= Len(s) THEN s[i] ELSE o[i - Len(s)]
  BY <1>3, ConcatProperties, Zenon
<1> HIDE DEF t, n
<1>5. Len(t) = 2 * n /\ \A i \in 1..(2 * n) : t[i] = IF i <= n THEN s[i] ELSE o[i - n]
  <2>1. Len(s) + Len(o) = 2 * n
    BY <1>1, <1>3 DEF n
  <2> QED
    BY <1>4, <2>1, Zenon DEF n
<1>6. ASSUME NEW i \in 1..n
      PROVE  t[i] = s[i] /\ t[n + i] = -s[i]
  <2>1. i \in 1..(2 * n) /\ n + i \in 1..(2 * n) /\ i <= n /\ ~(n + i <= n) /\ (n + i) - n = i
    BY <1>1
  <2> QED
    BY <1>3, <1>5, <2>1
<1>7. t \in Seq(Int)
  BY <1>4
<1> QED
  BY <1>5, <1>6, <1>7 DEF t, o, n
-----------------------------------------------------------------------------
(* The sweep is never empty and every current of it is a number, in units  *)
(* of the least step: what the dialog indexes while it runs.               *)
StepsUsable(s) == s \in Seq(Int) /\ Len(s) \in Nat /\ Len(s) >= 1

(* The leg of one sign that the form asks for.                             *)
LEMMA LegCorrect ==
  ASSUME NEW f, SweepForm(f)
  PROVE  LET up == Ramp(f)
             there == IF f.ret /\ Len(up) > 1 THEN up \o Tail(Reverse(up)) ELSE up
         IN  LegOf(there, f.start, f.end, f.step, IF f.ret THEN f.start ELSE f.end)
<1>1. f.start \in Int /\ f.end \in Int /\ f.step \in Int
  BY DEF SweepForm
<1>2. RampOf(Ramp(f), f.start, f.end, f.step)
  BY RampCorrect
<1>3. LegOf(Ramp(f), f.start, f.end, f.step, f.end)
  BY <1>1, <1>2, RampLeg
<1>4. CASE f.ret /\ Len(Ramp(f)) > 1
  BY <1>1, <1>2, <1>4, ReturnLeg
<1>5. CASE f.ret /\ ~(Len(Ramp(f)) > 1)
  <2>1. Len(Ramp(f)) \in Nat /\ Len(Ramp(f)) >= 1 /\ (Len(Ramp(f)) = 1 <=> f.start = f.end)
    BY <1>2 DEF RampOf
  <2> DEFINE m == Len(Ramp(f))
  <2> HIDE DEF m
  <2>2. m = 1
    BY <1>5, <2>1 DEF m
  <2>3. f.start = f.end
    BY <2>1, <2>2 DEF m
  <2> QED
    BY <1>3, <1>5, <2>3
<1>6. CASE ~f.ret
  BY <1>3, <1>6
<1> QED
  BY <1>4, <1>5, <1>6

(* buildSteps gives the sweep the form asks for: it starts at the start,   *)
(* goes through the end point, changes by no more than a step within a     *)
(* sign, never exceeds the larger end, comes back when that is asked for   *)
(* and is repeated with the opposite sign when that is.                    *)
THEOREM BuildStepsCorrect ==
  ASSUME NEW f, SweepForm(f)
  PROVE  SweepOf(f, BuildSteps(f)) /\ StepsUsable(BuildSteps(f))
<1> DEFINE up == Ramp(f)
           there == IF f.ret /\ Len(up) > 1 THEN up \o Tail(Reverse(up)) ELSE up
           last == IF f.ret THEN f.start ELSE f.end
           n == Len(there)
           s == BuildSteps(f)
<1>0. f.start \in Int /\ f.end \in Int /\ f.step \in Nat /\ f.ret \in BOOLEAN /\ f.opp \in BOOLEAN
  BY DEF SweepForm
<1>1. LegOf(there, f.start, f.end, f.step, last)
  BY LegCorrect
<1>2. s = IF f.opp /\ Len(there) > 1 THEN there \o Opposite(there) ELSE there
  BY DEF BuildSteps, Opposite
<1> HIDE DEF there, s
<1>3. /\ there \in Seq(Int) /\ n \in Nat /\ n >= 1 /\ (n = 1 <=> f.start = f.end)
      /\ there[1] = f.start /\ there[n] = last
      /\ \E i \in 1..n : there[i] = f.end
  BY <1>1 DEF LegOf
<1>4. \A i \in 1..(n - 1) : Abs(there[i + 1] - there[i]) <= f.step
  BY <1>1 DEF LegOf
<1>5. \A i \in 1..n : Larger(there[i], f.start, f.end)
  BY <1>1 DEF LegOf
<1>6. \A i \in 1..n : there[i] \in Int
  BY <1>3, ElementOfSeq
<1>7. Len(there) > 1 <=> f.start # f.end
  BY <1>3
<1> HIDE DEF n
<1>8. CASE f.opp /\ f.start # f.end
  <2>1. s = there \o Opposite(there)
    BY <1>2, <1>7, <1>8
  <2>2. /\ s \in Seq(Int) /\ Len(s) = 2 * n
        /\ \A i \in 1..n : s[i] = there[i]
        /\ \A i \in 1..n : s[n + i] = -there[i]
    BY <1>3, <2>1, BothSigns DEF n
  <2>3. Len(s) \div 2 = n
    BY <1>3, <2>2
  <2>4. s[1] = f.start /\ s[n] = last /\ \E i \in 1..n : s[i] = f.end
    <3>1. 1 \in 1..n /\ n \in 1..n
      BY <1>3
    <3>2. s[1] = there[1] /\ s[n] = there[n]
      BY <2>2, <3>1
    <3>3. PICK i \in 1..n : there[i] = f.end
      BY <1>3
    <3>4. s[i] = f.end
      BY <2>2, <3>3
    <3> QED
      BY <1>3, <3>2, <3>4
  <2>5. ASSUME NEW i \in 1..(2 * n - 1), i # n
        PROVE  Abs(s[i + 1] - s[i]) <= f.step
    <3>1. CASE i < n
      <4>1. i \in 1..n /\ i + 1 \in 1..n /\ i \in 1..(n - 1)
        BY <1>3, <3>1
      <4> QED
        BY <1>4, <2>2, <4>1
    <3>2. CASE i > n
      <4> DEFINE k == i - n
      <4>1. k \in 1..(n - 1) /\ k \in 1..n /\ k + 1 \in 1..n /\ n + k = i /\ n + (k + 1) = i + 1
        BY <1>3, <3>2
      <4> HIDE DEF k
      <4>2. s[i] = -there[k] /\ s[i + 1] = -there[k + 1]
        BY <2>2, <4>1
      <4>3. there[k] \in Int /\ there[k + 1] \in Int
        BY <1>6, <4>1
      <4>4. Abs((-there[k + 1]) - (-there[k])) = Abs(there[k + 1] - there[k])
        BY <4>3, AbsOpposite
      <4> QED
        BY <1>4, <4>1, <4>2, <4>4
    <3> QED
      BY <1>3, <2>5, <3>1, <3>2
  <2>6. ASSUME NEW i \in 1..(2 * n)
        PROVE  Larger(s[i], f.start, f.end)
    <3>1. CASE i <= n
      BY <1>5, <2>2, <3>1
    <3>2. CASE i > n
      <4> DEFINE k == i - n
      <4>1. k \in 1..n /\ n + k = i
        BY <1>3, <3>2
      <4> HIDE DEF k
      <4>2. s[i] = -there[k] /\ there[k] \in Int
        BY <1>6, <2>2, <4>1
      <4>3. Abs(-there[k]) = Abs(there[k])
        BY <4>2, AbsOpposite
      <4> QED
        BY <1>5, <4>1, <4>2, <4>3 DEF Larger
    <3> QED
      BY <1>3, <3>1, <3>2
  <2>7. 2 * n \in Nat /\ 2 * n >= 1
    BY <1>3
  <2>8. StepsUsable(s)
    BY <2>2, <2>7 DEF StepsUsable
  <2>9. SweepOf(f, s)
    <3> HIDE DEF last
    <3>1. \A i \in 1..n : s[n + i] = -s[i]
      BY <2>2
    <3>2. (f.ret => s[n] = f.start) /\ (~f.ret => s[n] = f.end)
      BY <2>4 DEF last
    <3> QED
      BY <1>8, <2>2, <2>3, <2>4, <2>5, <2>6, <3>1, <3>2 DEF SweepOf, Larger
  <2> QED
    BY <2>8, <2>9 DEF s
<1>9. CASE ~(f.opp /\ f.start # f.end)
  <2>1. s = there /\ Len(s) = n
    BY <1>2, <1>7, <1>9 DEF n
  <2>2. (f.ret => s[n] = f.start) /\ (~f.ret => s[n] = f.end)
    BY <1>3, <2>1
  <2> HIDE DEF last
  <2>3. SweepOf(f, s)
    BY <1>3, <1>4, <1>5, <1>9, <2>1, <2>2 DEF SweepOf, Larger
  <2>4. StepsUsable(s)
    BY <1>3, <2>1 DEF StepsUsable
  <2> QED
    BY <2>3, <2>4 DEF s
<1> QED
  BY <1>0, <1>8, <1>9
=============================================================================
