---------------------------- MODULE MCLookupAddr ----------------------------
(***************************************************************************)
(* LookupAddr for TLC: every answer of up to three addresses, and lists    *)
(* whose length is at or beyond the edge of a uint8.                       *)
(***************************************************************************)
EXTENDS LookupAddr

AroundTheWrap == {255, 256, 257, 258}

ShortAnswers == UNION {[1..n -> {"IPv4", "IPv6"}] : n \in 0..3}

\* The lengths of the results; a short one may have lost or doubled its IPv6
\* addresses.
TheirLengths == 0..6 \cup AroundTheWrap

=============================================================================
