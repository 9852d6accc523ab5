---------------------------- MODULE MCCertProbe -----------------------------
(***************************************************************************)
(* Instances of CertProbe for TLC: the ladder v2, v1 and one more rung.    *)
(***************************************************************************)
EXTENDS CertProbe

=============================================================================
