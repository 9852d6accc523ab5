-------------------------- MODULE MCFetchTransport --------------------------
(***************************************************************************)
(* FetchTransport for TLC: under every alpn, every option record that      *)
(* differs from the defaults in at most two options, so that every         *)
(* conflict between two of them is there.                                  *)
(***************************************************************************)
EXTENDS FetchTransport, FiniteSets

\* Nothing, too much, both orders, one part too many.
SomeRanges == {<<>>, <<3>>, <<1, 3>>, <<3, 1>>, <<1, 2, 3>>}

Changed(o) == {f \in DOMAIN o \ {"alpn"} : o[f] # Defaults[f]}
UpToTwo == {o \in transportOptions : Cardinality(Changed(o)) <= 2}

=============================================================================
