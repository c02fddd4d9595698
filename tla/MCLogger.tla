------------------------------ MODULE MCLogger ------------------------------
(***************************************************************************)
(* Batches of two and up to nine samples: both buffers and the writer's   *)
(* batch full at once, a last batch that is not full, and reopening.       *)
(***************************************************************************)
EXTENDS JointCsvLogger
=============================================================================
