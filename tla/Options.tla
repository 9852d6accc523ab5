------------------------------ MODULE Options ------------------------------
(***************************************************************************)
(* The transport options of a FetchWeb or ResolveDoH call                  *)
(* (libv2ray_fetch.go): validate, the parsing of the noise ranges, and the *)
(* branch of roundTripper an option record leads to.                       *)
(*                                                                         *)
(* A value is what its parser makes of it: the spellings of a mode are one *)
(* value, everything the parser refuses is "bad".  A noise range is the    *)
(* sequence of the numbers between its dashes, <<>> if it is empty; one    *)
(* that is no number is refused like one with three parts.  Of the three   *)
(* ranges, which are parsed alike, the model keeps the count.  The scheme  *)
(* is the url's.                                                           *)
(***************************************************************************)
EXTENDS Naturals, Sequences

CONSTANTS
    Ranges,         \* values of the wnoisecount option
    defaultCount,   \* the count of an empty range (5)
    noiseMaxCount   \* the ceiling (50)

ASSUME RangesAssumption ==
    /\ Ranges \subseteq Seq(Nat)
    /\ noiseMaxCount \in Nat
    /\ defaultCount \in 0..noiseMaxCount

transportOptions ==
    [scheme : {"http", "https", "bad"},
     alpn : {"auto", "h1", "h2", "h3", "bad"},
     proxy : {"none", "http", "socks5", "bad"},
     ip : {"none", "pinned", "bad"},
     serverName : BOOLEAN,
     fragment : BOOLEAN,
     fingerprint : {"none", "modern", "other", "bad"},
     ech : {"none", "enabled", "bad"},
     wnoise : {"none", "preset", "bad"},
     wnoisecount : Ranges,
     quicVersion : {"auto", "pinned", "bad"}]

Defaults ==
    [scheme |-> "https", alpn |-> "auto", proxy |-> "none", ip |-> "none",
     serverName |-> FALSE, fragment |-> FALSE, fingerprint |-> "none",
     ech |-> "none", wnoise |-> "none", wnoisecount |-> <<>>,
     quicVersion |-> "auto"]

-----------------------------------------------------------------------------
Clamp(n) == IF n > noiseMaxCount THEN noiseMaxCount ELSE n

\* A parseNoiseRange that clamps the upper bound and not the lower one.
parseNoiseRangeUpper(v) ==
    CASE Len(v) = 0 -> <<defaultCount, defaultCount>>
      [] Len(v) = 1 -> <<v[1], Clamp(v[1])>>
      [] OTHER      -> IF v[1] > v[2] THEN <<v[2], Clamp(v[1])>>
                                      ELSE <<v[1], Clamp(v[2])>>

\* parseNoiseRange: the bounds in order, neither above the ceiling.
parseNoiseRange(v) ==
    CASE Len(v) = 0 -> <<defaultCount, defaultCount>>
      [] Len(v) = 1 -> <<Clamp(v[1]), Clamp(v[1])>>
      [] OTHER      -> IF v[1] > v[2] THEN <<Clamp(v[2]), Clamp(v[1])>>
                                      ELSE <<Clamp(v[1]), Clamp(v[2])>>

\* noiseRand: any number between the bounds, in whichever order they come.
noiseRand(b) == IF b[1] > b[2] THEN b[2]..b[1] ELSE b[1]..b[2]

\* noiseConfig parses the range even if there is to be no noise.
noiseConfigFails(o) == o.wnoise = "bad" \/ Len(o.wnoisecount) > 2

\* How many datagrams a burst may have.
Burst(o) ==
    IF o.wnoise = "none" THEN {0} ELSE noiseRand(parseNoiseRange(o.wnoisecount))

-----------------------------------------------------------------------------
\* What validate refuses with alpn "h3", with the other modes, and always.
\* A fingerprint that cannot carry ECH is refused with it.
RefusedWithH3(o) ==
    \/ o.quicVersion = "bad"
    \/ o.fragment
    \/ o.proxy # "none"
    \/ o.fingerprint # "none"

RefusedOnTCP(o) ==
    \/ o.wnoise # "none"
    \/ o.quicVersion # "auto"
    \/ o.fingerprint = "bad"
    \/ o.fingerprint = "other" /\ o.ech # "none"

\* A validate that leaves it to the dialers to reconcile fragment and proxy.
validateWithoutFragment(o) ==
    /\ o.ip # "bad"
    /\ o.alpn # "bad"
    /\ o.ech # "bad"
    /\ ~noiseConfigFails(o)
    /\ IF o.alpn = "h3" THEN ~RefusedWithH3(o) ELSE ~RefusedOnTCP(o)

validate(o) ==
    /\ o.ip # "bad"
    /\ ~(o.fragment /\ o.proxy # "none")
    /\ o.alpn # "bad"
    /\ o.ech # "bad"
    /\ ~noiseConfigFails(o)
    /\ IF o.alpn = "h3" THEN ~RefusedWithH3(o) ELSE ~RefusedOnTCP(o)

\* The branch of roundTripper.  A cleartext url has none for h2 and h3.
Branch(o) ==
    IF o.scheme = "http" THEN IF o.alpn \in {"h2", "h3"} THEN "none" ELSE "plain"
    ELSE IF o.alpn = "h3" THEN "h3"
    ELSE IF o.fingerprint # "none" THEN "utls"
    ELSE IF o.alpn = "h2" THEN "stdH2" ELSE "std"

-----------------------------------------------------------------------------
\* The options that ask for something beyond the defaults.
Asked(o) ==
    {f \in {"proxy", "ip", "serverName", "fragment", "fingerprint", "ech",
            "wnoise", "wnoisecount", "quicVersion"} : o[f] # Defaults[f]}

=============================================================================
