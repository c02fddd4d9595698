------------------------------ MODULE Selecting -------------------------------
(***************************************************************************)
(* The loop that goes through a sequence and appends what qualifies to a   *)
(* result: the devices of a configuration that have a handle, the joints   *)
(* of the plot panel whose box is checked.                                 *)
(***************************************************************************)
EXTENDS Integers, Sequences

(* The elements of the sequence s that are in S, in their order.           *)
Chosen(s, S) ==
  LET upto[i \in 0..Len(s)] ==
        IF i = 0 THEN <<>>
        ELSE IF s[i] \in S THEN Append(upto[i - 1], s[i]) ELSE upto[i - 1]
  IN  upto[Len(s)]
=============================================================================
