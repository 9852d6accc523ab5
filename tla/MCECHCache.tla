----------------------------- MODULE MCECHCache -----------------------------
(***************************************************************************)
(* Instances of ECHCache for TLC.  Two requests: one inside the            *)
(* acquisition and one that waits for it or comes late.                    *)
(***************************************************************************)
EXTENDS ECHCache

=============================================================================
