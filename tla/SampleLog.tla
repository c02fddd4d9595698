----------------------------- MODULE SampleLog ------------------------------
(***************************************************************************)
(* What a JointCsvLogger promises its caller: samples go to the file in    *)
(* the order they were written, none twice, and all of them by the time    *)
(* close() returns.  Samples are numbered in the order they are taken.     *)
(***************************************************************************)
EXTENDS Naturals, Sequences

VARIABLES
  open,      \* is_open()
  accepted,  \* how many samples write() has taken since open()
  stored     \* what the file holds

logVars == <<open, accepted, stored>>

Numbered(n) == [i \in 1 .. n |-> i]

Init == open = FALSE /\ accepted = 0 /\ stored = <<>>

Open == ~open /\ open' = TRUE /\ accepted' = 0 /\ stored' = <<>>

Write == open /\ accepted' = accepted + 1 /\ UNCHANGED <<open, stored>>

Store ==
  /\ open /\ UNCHANGED <<open, accepted>>
  /\ \E n \in Len(stored) .. accepted : stored' = Numbered(n)

Close ==
  /\ open /\ stored = Numbered(accepted)
  /\ open' = FALSE /\ UNCHANGED <<accepted, stored>>

Next == Open \/ Write \/ Store \/ Close

Spec == Init /\ [][Next]_logVars
=============================================================================
