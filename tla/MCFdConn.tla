------------------------------ MODULE MCFdConn ------------------------------
(***************************************************************************)
(* Instances of FdConn for TLC.                                            *)
(***************************************************************************)
EXTENDS FdConn

=============================================================================
