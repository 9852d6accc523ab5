-------------------------- MODULE MCWireGuardProbe --------------------------
(***************************************************************************)
(* Instances of WireGuardProbe for TLC.                                    *)
(***************************************************************************)
EXTENDS WireGuardProbe

=============================================================================
