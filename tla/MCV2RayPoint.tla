---------------------------- MODULE MCV2RayPoint ----------------------------
(***************************************************************************)
(* Instances of V2RayPoint for TLC: one application thread, whose stops    *)
(* race those of the watchers; one core thread that dials, or none.        *)
(***************************************************************************)
EXTENDS V2RayPoint

=============================================================================
