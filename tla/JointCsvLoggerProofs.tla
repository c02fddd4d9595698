------------------------ MODULE JointCsvLoggerProofs ------------------------
(***************************************************************************)
(* Proofs about JointCsvLogger, for every batch size: the invariants TLC   *)
(* checks, and that every step of the two threads is a step of SampleLog.  *)
(***************************************************************************)
EXTENDS JointCsvLogger, SequenceTheorems, TLAPS

(* What each position of the control thread says about the buffers.        *)
CallerInv ==
  /\ caller # "idle" => open
  /\ caller = "idle" => Len(active) < BatchSize /\ ~closing
  /\ caller = "flush" => active # <<>>
  /\ caller \in {"flushed", "drain", "stopping", "join"} => active = <<>>
  /\ caller \in {"stopping", "join"} => ~ready
  /\ caller = "drain" => closing
  /\ caller \in {"stopping", "join"} => stop
  /\ "caller" \in asleep => caller \in {"flush", "drain"}
  /\ ~open => active = <<>>

(* The flag tells whether the hand-over buffer is full, and the writer has *)
(* a batch of its own only between taking it and having written it.        *)
WriterInv ==
  /\ ready <=> pending # <<>>
  /\ writer \notin {"took", "writing"} => batch = <<>>
  /\ stop => ~ready /\ (caller \in {"stopping", "join"} \/ ~open)
  /\ writer = "exited" => stop \/ ~open
  /\ ~open => writer = "exited" /\ ~ready
  /\ "writer" \in asleep => writer = "loop"

IInv == TypeOK /\ CallerInv /\ WriterInv /\ NoLostWakeup /\ InOrder

USE LoggerAssumption
-----------------------------------------------------------------------------
(* One more sample at the end of a sequence of numbered ones.              *)
LEMMA NumberedAppend ==
  ASSUME NEW n \in Nat
  PROVE  Append([i \in 1 .. n |-> i], n + 1) = [i \in 1 .. n + 1 |-> i]
  OBVIOUS

(* A sequence with a sample appended is the sequence before, followed by   *)
(* the old one with the sample appended.                                   *)
LEMMA ConcatAppend ==
  ASSUME NEW s \in Seq(Nat), NEW t \in Seq(Nat), NEW x \in Nat
  PROVE  s \o Append(t, x) = Append(s \o t, x)
  OBVIOUS

(* The first part of a concatenation keeps its places.                     *)
LEMMA ConcatAt ==
  ASSUME NEW s \in Seq(Nat), NEW t \in Seq(Nat),
         NEW i \in 1 .. Len(s) + Len(t), i <= Len(s)
  PROVE  (s \o t)[i] = s[i]
  OBVIOUS

(* What precedes the end of a sequence of numbered samples is numbered.    *)
LEMMA NumberedPrefix ==
  ASSUME NEW s \in Seq(Nat), NEW t \in Seq(Nat), NEW n \in Nat,
         s \o t = [i \in 1 .. n |-> i]
  PROVE  Len(s) \in 0 .. n /\ s = [i \in 1 .. Len(s) |-> i]
<1>1. Len(s \o t) = n
  OBVIOUS
<1>2. Len(s) + Len(t) = n /\ Len(s) \in Nat /\ Len(t) \in Nat
  BY <1>1, ConcatProperties
<1>3. \A i \in 1 .. Len(s) : s[i] = i
  <2>1. TAKE i \in 1 .. Len(s)
  <2>2. i \in 1 .. Len(s) + Len(t) /\ i <= Len(s)
    BY <1>2
  <2>3. (s \o t)[i] = s[i]
    BY <2>2, ConcatAt
  <2> QED
    BY <1>2, <2>2, <2>3
<1> QED
  BY <1>2, <1>3
-----------------------------------------------------------------------------
(* Concatenations of which one part is empty, as the buffer moves need.    *)
LEMMA Regroup ==
  ASSUME NEW s \in Seq(Nat), NEW t \in Seq(Nat), NEW u \in Seq(Nat)
  PROVE  /\ s \o <<>> \o t \o u = s \o t \o <<>> \o u
         /\ s \o t \o <<>> \o u = s \o t \o u \o <<>>
         /\ s \o t \in Seq(Nat)
         /\ (s \o t) \o <<>> \o u \o <<>> = s \o t \o u
<1>1. s \o t \in Seq(Nat) /\ s \o t \o u \in Seq(Nat)
  BY ConcatProperties
<1> QED
  BY <1>1, ConcatEmptySeq
-----------------------------------------------------------------------------
(* The invariant holds of a logger that was never opened.                  *)
LEMMA InitHolds == Init => IInv
<1> SUFFICES ASSUME Init PROVE IInv
  OBVIOUS
<1>1. TypeOK
  <2>1. <<>> \in Seq(Nat) /\ Len(<<>>) = 0
    BY EmptySeq
  <2>2. open \in BOOLEAN /\ closing \in BOOLEAN /\ ready \in BOOLEAN /\ stop \in BOOLEAN
    BY DEF Init
  <2> QED
    BY <2>1, <2>2 DEF Init, TypeOK, Threads
<1>2. CallerInv /\ WriterInv /\ NoLostWakeup
  BY DEF Init, CallerInv, WriterInv, NoLostWakeup, Threads
<1>3. InOrder
  BY DEF Init, InOrder
<1> QED
  BY <1>1, <1>2, <1>3 DEF IInv

(* Every step but those on the samples keeps the flags, the positions and  *)
(* the sleeping threads consistent.                                        *)
LEMMA StepHolds == IInv /\ [Next]_vars => IInv'
<1> SUFFICES ASSUME IInv, [Next]_vars PROVE IInv'
  OBVIOUS
<1> USE DEF IInv
<1>1. CASE Open
  <2>1. (TypeOK /\ CallerInv /\ WriterInv /\ NoLostWakeup)'
    BY <1>1 DEF Open, TypeOK, CallerInv, WriterInv, NoLostWakeup, Threads
  <2>2. InOrder'
    BY <1>1 DEF Open, InOrder
  <2> QED
    BY <2>1, <2>2
<1>2. CASE Write
  <2> DEFINE longer == Append(active, accepted + 1)
  <2>1. /\ longer \in Seq(Nat) /\ Len(longer) = Len(active) + 1 /\ longer # <<>>
        /\ Len(active) \in Nat /\ Len(active) < BatchSize /\ open
    BY <1>2 DEF Write, TypeOK, CallerInv
  <2>2. active' = longer /\ caller' = IF Len(longer) >= BatchSize THEN "flush" ELSE "idle"
    BY <1>2 DEF Write
  <2> HIDE DEF longer
  <2>3. (TypeOK /\ CallerInv /\ WriterInv /\ NoLostWakeup)'
    BY <1>2, <2>1, <2>2, SMTT(40) DEF Write, TypeOK, CallerInv, WriterInv, NoLostWakeup, Threads
  <2>4. stored \o batch \o pending \in Seq(Nat) /\ accepted + 1 \in Nat
    BY ConcatProperties DEF TypeOK
  <2>5. stored \o batch \o pending \o Append(active, accepted + 1)
          = Append(stored \o batch \o pending \o active, accepted + 1)
    BY <2>4, ConcatAppend, SMTT(40) DEF TypeOK
  <2>6. InOrder'
    BY <1>2, <2>5, NumberedAppend DEF Write, TypeOK, InOrder
  <2> QED
    BY <2>3, <2>6
<1>3. CASE FlushSwap
  <2>1. (TypeOK /\ CallerInv /\ WriterInv /\ NoLostWakeup)'
    BY <1>3 DEF FlushSwap, TypeOK, CallerInv, WriterInv, NoLostWakeup, Threads
  <2>2. /\ pending = <<>> /\ active' = pending /\ pending' = active
        /\ UNCHANGED <<stored, batch, accepted>>
    BY <1>3 DEF FlushSwap, TypeOK, WriterInv
  <2>3. stored \o batch \o <<>> \o active = stored \o batch \o active \o <<>>
    BY Regroup DEF TypeOK
  <2>4. InOrder'
    BY <2>2, <2>3 DEF InOrder
  <2> QED
    BY <2>1, <2>4
<1>4. CASE WriterTake
  <2>1. (TypeOK /\ CallerInv /\ WriterInv /\ NoLostWakeup)'
    BY <1>4 DEF WriterTake, TypeOK, CallerInv, WriterInv, NoLostWakeup, Threads
  <2>2. InOrder'
    BY <1>4, Regroup DEF WriterTake, TypeOK, WriterInv, InOrder
  <2> QED
    BY <2>1, <2>2
<1>5. CASE WriteBatch
  <2>1. stored \o batch \in Seq(Nat)
    BY ConcatProperties DEF TypeOK
  <2>2. (TypeOK /\ CallerInv /\ WriterInv /\ NoLostWakeup)'
    BY <1>5, <2>1 DEF WriteBatch, TypeOK, CallerInv, WriterInv, NoLostWakeup, Threads
  <2>3. InOrder'
    BY <1>5, <2>1, ConcatEmptySeq DEF WriteBatch, InOrder
  <2> QED
    BY <2>2, <2>3
<1>6. CASE Close \/ FlushNotify \/ DrainStop \/ StopNotify \/ Join \/ CallerSleeps
             \/ WriterExit \/ WriterSleeps \/ WriterNotify \/ SpuriousWakeup
             \/ UNCHANGED vars
  <2>1. UNCHANGED <<stored, batch, pending, active, accepted>>
    BY <1>6 DEF Close, FlushNotify, DrainStop, StopNotify, Join, CallerSleeps,
                WriterExit, WriterSleeps, WriterNotify, SpuriousWakeup, vars
  <2>2. InOrder'
    BY <2>1 DEF InOrder
  <2>3. CASE Close
    BY <2>2, <2>3 DEF Close, TypeOK, CallerInv, WriterInv, NoLostWakeup, Threads
  <2>4. CASE DrainStop
    BY <2>2, <2>4 DEF DrainStop, TypeOK, CallerInv, WriterInv, NoLostWakeup, Threads
  <2>5. Len(<<>>) = 0
    BY EmptySeq
  <2>6. CASE Join
    <3>1. TypeOK' /\ WriterInv'
      BY <2>6 DEF Join, TypeOK, CallerInv, WriterInv
    <3>2. CallerInv'
      BY <2>6, <2>5 DEF Join, CallerInv
    <3>3. NoLostWakeup'
      BY <2>6 DEF Join, NoLostWakeup, CallerInv, WriterInv
    <3> QED
      BY <2>2, <3>1, <3>2, <3>3
  <2>7. CASE FlushNotify
    <3>1. TypeOK' /\ CallerInv' /\ WriterInv'
      BY <2>7 DEF FlushNotify, NotifyOne, TypeOK, CallerInv, WriterInv
    <3>2. NoLostWakeup'
      BY <2>7 DEF FlushNotify, NotifyOne, TypeOK, CallerInv, WriterInv, NoLostWakeup, Threads
    <3> QED
      BY <2>2, <3>1, <3>2
  <2>8. CASE StopNotify
    BY <2>2, <2>8 DEF StopNotify, NotifyOne,
                      TypeOK, CallerInv, WriterInv, NoLostWakeup, Threads
  <2>9. CASE CallerSleeps
    BY <2>2, <2>9 DEF CallerSleeps, Sleep,
                      TypeOK, CallerInv, WriterInv, NoLostWakeup, Threads
  <2>10. CASE WriterExit
    BY <2>2, <2>10 DEF WriterExit, TypeOK, CallerInv, WriterInv, NoLostWakeup, Threads
  <2>11. CASE UNCHANGED vars
    BY <2>2, <2>11 DEF vars, TypeOK, CallerInv, WriterInv, NoLostWakeup, Threads
  <2>12. CASE WriterSleeps
    BY <2>2, <2>12 DEF WriterSleeps, Sleep,
                      TypeOK, CallerInv, WriterInv, NoLostWakeup, Threads
  <2>13. CASE WriterNotify
    BY <2>2, <2>13 DEF WriterNotify, NotifyOne,
                      TypeOK, CallerInv, WriterInv, NoLostWakeup, Threads
  <2>14. CASE SpuriousWakeup
    BY <2>2, <2>14 DEF SpuriousWakeup,
                       TypeOK, CallerInv, WriterInv, NoLostWakeup, Threads
  <2> QED
    BY <1>6, <2>3, <2>7, <2>8, <2>9, <2>10, <2>12, <2>13, <2>14, <2>4, <2>6, <2>11
<1> QED
  BY <1>1, <1>2, <1>3, <1>4, <1>5, <1>6 DEF Next, CallerStep, WriterStep

(* The invariant of every run.                                             *)
THEOREM InvariantHolds == Spec => []IInv
  BY InitHolds, StepHolds, PTL DEF Spec

(* Neither thread's buffer ever holds more than one batch.                 *)
THEOREM TypeCorrect == Spec => []TypeOK
<1>1. IInv => TypeOK
  BY DEF IInv
<1> QED
  BY <1>1, InvariantHolds, PTL

(* No sample is lost, repeated or reordered between write() and the file.  *)
THEOREM OrderCorrect == Spec => []InOrder
<1>1. IInv => InOrder
  BY DEF IInv
<1> QED
  BY <1>1, InvariantHolds, PTL

(* One notify_one per change is enough for the two threads.                *)
THEOREM WakeupCorrect == Spec => []NoLostWakeup
<1>1. IInv => NoLostWakeup
  BY DEF IInv
<1> QED
  BY <1>1, InvariantHolds, PTL
-----------------------------------------------------------------------------
(* Every step of the logger is a step of the abstract log, or none of it.  *)
LEMMA StepRefines == IInv /\ [Next]_vars => [Log!Next]_(Log!logVars)
<1> SUFFICES ASSUME IInv, [Next]_vars PROVE [Log!Next]_(Log!logVars)
  OBVIOUS
<1> USE DEF IInv, Log!logVars, Log!Next
<1>1. CASE Open
  BY <1>1 DEF Open, Log!Open
<1>2. CASE Write
  BY <1>2 DEF Write, Log!Write
<1>3. CASE Join
  <2>1. batch = <<>> /\ pending = <<>> /\ active = <<>> /\ open
    BY <1>3 DEF Join, CallerInv, WriterInv
  <2>2. stored = [i \in 1 .. accepted |-> i]
    BY <2>1, ConcatEmptySeq DEF InOrder, TypeOK
  <2> QED
    BY <1>3, <2>1, <2>2 DEF Join, Log!Close, Log!Numbered
<1>4. CASE WriteBatch
  <2>1. open
    BY <1>4 DEF WriteBatch, WriterInv
  <2>2. pending \o active \in Seq(Nat) /\ stored \o batch \in Seq(Nat)
    BY ConcatProperties DEF TypeOK
  <2>3. (stored \o batch) \o (pending \o active) = stored \o batch \o pending \o active
    <3>1. ASSUME NEW s \in Seq(Nat), NEW t \in Seq(Nat), NEW u \in Seq(Nat)
          PROVE  (s \o t) \o u = s \o (t \o u)
      BY ConcatAssociative, SMTT(60)
    <3>2. pending \in Seq(Nat) /\ active \in Seq(Nat)
      BY DEF TypeOK
    <3> QED
      BY <2>2, <3>1, <3>2, Zenon
  <2>4. (stored \o batch) \o (pending \o active) = [i \in 1 .. accepted |-> i]
    BY <2>3 DEF InOrder
  <2>5. /\ Len(stored \o batch) \in 0 .. accepted
        /\ stored \o batch = [i \in 1 .. Len(stored \o batch) |-> i]
    BY <2>2, <2>4, NumberedPrefix DEF TypeOK
  <2>6. Len(stored) <= Len(stored \o batch)
    BY ConcatProperties DEF TypeOK
  <2>7. Len(stored \o batch) \in Len(stored) .. accepted
    BY <2>5, <2>6 DEF TypeOK
  <2> QED
    BY <1>4, <2>1, <2>5, <2>7 DEF WriteBatch, Log!Store, Log!Numbered
<1>5. CASE Close \/ FlushSwap \/ FlushNotify \/ DrainStop \/ StopNotify \/ CallerSleeps
             \/ WriterTake \/ WriterExit \/ WriterSleeps \/ WriterNotify
             \/ SpuriousWakeup \/ UNCHANGED vars
  BY <1>5 DEF Close, FlushSwap, FlushNotify, DrainStop, StopNotify, CallerSleeps,
              WriterTake, WriterExit, WriterSleeps, WriterNotify, SpuriousWakeup, vars
<1> QED
  BY <1>1, <1>2, <1>3, <1>4, <1>5 DEF Next, CallerStep, WriterStep

(* The double buffer implements the log of SampleLog: samples are stored   *)
(* in the order they were written, and all of them when close() returns.   *)
THEOREM LogRefined == Spec => ImplementsLog
<1>1. Init => Log!Init
  BY DEF Init, Log!Init
<1> QED
  BY <1>1, StepRefines, InvariantHolds, PTL DEF Spec, ImplementsLog, Log!Spec
=============================================================================
