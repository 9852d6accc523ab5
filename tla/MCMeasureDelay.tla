--------------------------- MODULE MCMeasureDelay ---------------------------
(***************************************************************************)
(* Instances of MeasureDelay for TLC.                                      *)
(***************************************************************************)
EXTENDS MeasureDelay

=============================================================================
