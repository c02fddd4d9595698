-------------------------------- MODULE MCDaq --------------------------------
(***************************************************************************)
(* The reader without bounds: any sequence of start() and stop(), any call *)
(* of the driver failing, any number of reads.                             *)
(***************************************************************************)
EXTENDS ExternalDaqReader
=============================================================================
