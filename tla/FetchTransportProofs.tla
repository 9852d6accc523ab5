------------------------ MODULE FetchTransportProofs ------------------------
(***************************************************************************)
(* Proofs about FetchTransport: for every set of option records, hosts and *)
(* noise ranges, and for every number of redirects and dials.              *)
(*                                                                         *)
(* The argument is one of ownership.  A connection that is open belongs to *)
(* the request on it, to the handoffDialer, to the dial under way or to    *)
(* the pool of the transport; a connection changes hands, or is closed,    *)
(* in every step in which its owner gives it up.                           *)
(***************************************************************************)
EXTENDS FetchTransport, SequenceTheorems, TLAPS

Conns == [host : Hosts, noise : Nat, how : SUBSET DOMAIN Defaults,
          proto : Protos, ech : BOOLEAN, open : BOOLEAN]

Early == {"call", "build", "probe"}
Tls(c) == c.proto \notin {"none", "clear"}

\* Whatever is dialed is dialed for options that FetchWeb accepted.
Begun == Len(conn) > 0 \/ dialer.at # "none"

ValidInv ==
    /\ at \notin {"call", "returned"} \/ Begun =>
         opts.scheme # "bad" /\ validate(opts)
    /\ at \notin {"call", "build", "returned"} \/ Begun => path # "none"

\* The transport is the one of the branch; on the uTLS path, the one of the
\* protocol that was recorded.
ChoiceInv ==
    transport # "none" =>
        /\ path = "stdH2" => transport = "http2"
        /\ path = "h3" <=> transport = "http3"
        /\ path \in {"std", "plain"} => transport = "http"
        /\ path = "utls" =>
             state.set /\ (transport = "http2" <=> state.proto = "h2")

\* Where the caller is, and what there is by then.
PhaseInv ==
    /\ at \in Early => /\ transport = "none" /\ ~state.set
                       /\ hop.host = Origin
                       /\ hop.tls <=> opts.scheme = "https"
    /\ at \in {"call", "build"} => Len(conn) = 0 /\ dialer = NoDial
    /\ at = "probe" => path = "utls" /\ dialer.conn # 0 /\ Len(conn) = 1
    /\ at = "read" => cur # 0
    /\ cur # 0 => at \in {"do", "read"} /\ dialer = NoDial
    /\ pending # 0 => at \in {"do", "cleanup"}
    /\ dialer # NoDial /\ at \in {"cleanup", "returned"} => result.err = "failed"

\* The dial under way is for the hop of the request, and its connection is the
\* last one.
DialInv ==
    /\ dialer.conn # 0 <=> dialer.at \in {"connect", "handshake"}
    /\ dialer.conn # 0 => dialer.conn = Len(conn)
    /\ dialer.at # "none" => /\ at = "probe" \/ transport # "none"
                             /\ hop.tls \/ transport = "http"
    /\ dialer.conn # 0 =>
         /\ pending = 0
         /\ conn[dialer.conn].host = hop.host
         /\ hop.tls => conn[dialer.conn].proto = "none"
         /\ ~hop.tls => conn[dialer.conn].proto = "clear"
         /\ at # "returned" => conn[dialer.conn].open

\* The connection of roundTripper's probe is the only one until it is taken.
PendingInv ==
    pending # 0 =>
        /\ path = "utls" /\ hop.tls /\ cur = 0
        /\ conn[pending].open /\ conn[pending].host = hop.host
        /\ Tls(conn[pending])
        /\ \A i \in DOMAIN conn : i = pending

\* Every open connection has an owner.
OwnerInv ==
    \A i \in DOMAIN conn : conn[i].open =>
        \/ i \in {cur, pending, dialer.conn}
        \/ transport = "http2"
        \/ transport = "http3" /\ at # "returned"
        \/ GivenUp(i) /\ dialer = NoDial /\ at \in {"cleanup", "returned"}

\* What is known of an open connection once its handshake is over.
OpenInv ==
    \A i \in DOMAIN conn : conn[i].open =>
        /\ i # dialer.conn => conn[i].proto # "none"
        /\ conn[i].proto = "clear" => transport = "http"
        /\ Tls(conn[i]) =>
             /\ path = "utls" => state.set /\ conn[i].proto = state.proto
             /\ path = "h3" => conn[i].proto = "h3" /\ conn[i].ech = EchOffered

\* Only some dialers record; on the h3 path what they record of ECH is known.
StateInv ==
    state.set => Recording /\ (path = "h3" => state.ech = EchOffered)

\* Where connections may differ, the recording is that of the last handshake.
LastInv ==
    path \in {"utls", "stdH2"} /\ state.set =>
        \A i \in DOMAIN conn :
            conn[i].open /\ Tls(conn[i]) /\ LastHandshake(i)
              => state.ech = conn[i].ech

\* A response is the end of dialing.
ResultInv ==
    /\ result.via # 0 => dialer = NoDial /\ at \in {"cleanup", "returned"}
    /\ EchAcceptedIsGroundTruth

IInv ==
    /\ TypeOK
    /\ ValidInv /\ ChoiceInv /\ PhaseInv
    /\ DialInv /\ PendingInv /\ RequestOnItsConnection
    /\ OwnerInv /\ OpenInv
    /\ StateInv /\ LastInv /\ ResultInv
    /\ OptionsTakeEffect /\ NoiseIsBounded

-----------------------------------------------------------------------------
(* The operators *)

\* Both bounds of a parsed range are at or below the ceiling.
LEMMA RangeBounded ==
    ASSUME NEW v \in Seq(Nat)
    PROVE  /\ parseNoiseRange(v)[1] \in 0..noiseMaxCount
           /\ parseNoiseRange(v)[2] \in 0..noiseMaxCount
<1>1. \A k \in Nat : Clamp(k) \in 0..noiseMaxCount
  BY RangesAssumption DEF Clamp
<1>2. Len(v) \in Nat /\ v \in [1..Len(v) -> Nat]
  BY LenProperties
<1>3. CASE Len(v) = 0
  BY <1>3, RangesAssumption DEF parseNoiseRange
<1>4. CASE Len(v) = 1
  <2>1. Clamp(v[1]) \in 0..noiseMaxCount
    BY <1>1, <1>2, <1>4
  <2>2. parseNoiseRange(v) = <<Clamp(v[1]), Clamp(v[1])>>
    BY <1>4 DEF parseNoiseRange
  <2> QED
    BY <2>1, <2>2
<1>5. CASE Len(v) # 0 /\ Len(v) # 1
  <2>1. 1 \in 1..Len(v) /\ 2 \in 1..Len(v)
    BY <1>2, <1>5
  <2>2. /\ Clamp(v[1]) \in 0..noiseMaxCount
        /\ Clamp(v[2]) \in 0..noiseMaxCount
    BY <1>1, <1>2, <2>1
  <2>3. \/ parseNoiseRange(v) = <<Clamp(v[2]), Clamp(v[1])>>
        \/ parseNoiseRange(v) = <<Clamp(v[1]), Clamp(v[2])>>
    BY <1>5 DEF parseNoiseRange
  <2> QED
    BY <2>2, <2>3
<1> QED
  BY <1>3, <1>4, <1>5

\* The numbers a range may give are not above the ceiling, whatever its
\* bounds are and in whichever order they come.
LEMMA BurstBounded ==
    ASSUME NEW o \in transportOptions, NEW n \in Burst(o)
    PROVE  n \in Nat /\ n <= noiseMaxCount
<1>1. o.wnoisecount \in Seq(Nat)
  BY RangesAssumption DEF transportOptions
<1>2. PICK b : /\ b[1] \in 0..noiseMaxCount /\ b[2] \in 0..noiseMaxCount
               /\ n = 0 \/ n \in noiseRand(b)
  BY <1>1, RangeBounded DEF Burst
<1> QED
  BY <1>2, RangesAssumption DEF noiseRand

\* validate and the branch together: what is asked for is honoured, but for a
\* count of no noise.
LEMMA AskedIsHonoured ==
    ASSUME opts \in transportOptions, validate(opts),
           path \notin {"plain", "none"}, opts.scheme # "bad"
    PROVE  Asked(opts) \ Moot \subseteq Honoured(TRUE)
<1>1. opts.scheme = "https"
  BY DEF transportOptions, path, Branch
<1>2. CASE opts.alpn = "h3"
  <2>1. path = "h3"
    BY <1>1, <1>2 DEF path, Branch
  <2>2. opts.proxy = "none" /\ opts.fragment = FALSE
        /\ opts.fingerprint = "none"
    BY <1>2 DEF validate, RefusedWithH3, transportOptions
  <2>3. Asked(opts) \subseteq {"ip", "serverName", "ech", "wnoise",
                               "wnoisecount", "quicVersion"}
    <3>1. "fragment" \notin Asked(opts)
      BY <2>2 DEF Asked, Defaults
    <3>2. "proxy" \notin Asked(opts) /\ "fingerprint" \notin Asked(opts)
      BY <2>2 DEF Asked, Defaults
    <3> QED
      BY <3>1, <3>2 DEF Asked
  <2>4. "wnoisecount" \in Asked(opts) \ Moot => opts.wnoise # "none"
    BY DEF Moot
  <2> QED
    BY <2>1, <2>3, <2>4 DEF Honoured
<1>3. CASE opts.alpn # "h3"
  <2>1. path # "h3" /\ RawDialed(TRUE)
    BY <1>1, <1>3 DEF path, Branch, RawDialed
  <2>2. opts.wnoise = "none" /\ opts.quicVersion = "auto"
        /\ ~(opts.fragment /\ opts.proxy # "none")
    BY <1>3 DEF validate, RefusedOnTCP
  <2>3. opts.fingerprint # "none" => path = "utls"
    BY <1>1, <1>3 DEF path, Branch
  <2>4. Asked(opts) \ Moot \subseteq {"proxy", "ip", "serverName", "fragment",
                                      "fingerprint", "ech"}
    BY <2>2 DEF Asked, Defaults, Moot
  <2>5. /\ "fragment" \in Asked(opts) => opts.proxy = "none"
        /\ "fingerprint" \in Asked(opts) => path = "utls"
    BY <2>2, <2>3 DEF Asked, Defaults, transportOptions
  <2> QED
    BY <2>1, <2>4, <2>5 DEF Honoured
<1> QED
  BY <1>2, <1>3

-----------------------------------------------------------------------------
(* The connections *)

SameRoute(c, d) == c.host = d.host /\ c.noise = d.noise /\ c.how = d.how

\* A step that dials nothing.
NoneNew ==
    /\ conn' \in Seq(Conns) /\ Len(conn') = Len(conn)
    /\ \A i \in 1..Len(conn) :
         /\ SameRoute(conn'[i], conn[i])
         /\ conn[i].proto = "clear" => conn'[i].proto = "clear"

\* A step that at most closes connections.
Closing ==
    /\ NoneNew
    /\ \A i \in 1..Len(conn) :
         /\ conn'[i].proto = conn[i].proto /\ conn'[i].ech = conn[i].ech
         /\ conn'[i].open => conn[i].open

LEMMA ConnTypes ==
    ASSUME TypeOK
    PROVE  /\ conn \in Seq(Conns) /\ Len(conn) \in Nat
           /\ DOMAIN conn = 1..Len(conn)
           /\ \A i \in 1..Len(conn) : conn[i] \in Conns
<1>1. conn \in Seq(Conns)
  BY DEF TypeOK, Conns
<1> QED
  BY <1>1, LenProperties

LEMMA DomainNext ==
    ASSUME conn' \in Seq(Conns)
    PROVE  DOMAIN conn' = 1..Len(conn') /\ Len(conn') \in Nat
<1> DEFINE s == conn'
<1>1. s \in Seq(Conns)
  OBVIOUS
<1> HIDE DEF s
<1>2. DOMAIN s = 1..Len(s) /\ Len(s) \in Nat
  BY <1>1, LenProperties
<1> QED
  BY <1>2 DEF s

LEMMA SetConn ==
    ASSUME TypeOK, NEW c \in 1..Len(conn), NEW v \in Conns,
           conn' = [conn EXCEPT ![c] = v]
    PROVE  /\ conn' \in Seq(Conns) /\ Len(conn') = Len(conn)
           /\ conn'[c] = v
           /\ \A i \in 1..Len(conn) : i # c => conn'[i] = conn[i]
BY ConnTypes, ExceptSeq

LEMMA ConnUnchanged ==
    ASSUME TypeOK, UNCHANGED conn
    PROVE  Closing
BY ConnTypes DEF Closing, NoneNew, SameRoute

LEMMA CloseConn ==
    ASSUME TypeOK, NEW c \in 1..Len(conn), conn' = Close(c)
    PROVE  /\ Closing
           /\ ~conn'[c].open
           /\ \A i \in 1..Len(conn) : i # c => conn'[i] = conn[i]
<1> DEFINE v == [conn[c] EXCEPT !.open = FALSE]
<1>1. conn[c] \in Conns
  BY ConnTypes
<1>2. v \in Conns
  BY <1>1 DEF Conns
<1>3. /\ SameRoute(v, conn[c]) /\ v.proto = conn[c].proto
      /\ v.ech = conn[c].ech /\ v.open = FALSE
  BY <1>1 DEF Conns, SameRoute
<1>4. conn' = [conn EXCEPT ![c] = v]
  BY DEF Close
<1> HIDE DEF v
<1>5. /\ conn' \in Seq(Conns) /\ Len(conn') = Len(conn)
      /\ conn'[c] = v
      /\ \A i \in 1..Len(conn) : i # c => conn'[i] = conn[i]
  BY <1>2, <1>4, SetConn
<1>6. NoneNew
  BY <1>3, <1>5 DEF NoneNew, SameRoute
<1> QED
  BY <1>3, <1>5, <1>6 DEF Closing

LEMMA NegotiableProtos ==
    ASSUME NEW p \in Negotiable
    PROVE  p \in Protos /\ p \notin {"none", "clear"}
BY DEF Negotiable, Protos

\* One connection changes, on the same route.
LEMMA SetRecord ==
    ASSUME TypeOK, NEW c \in 1..Len(conn), NEW v \in Conns,
           SameRoute(v, conn[c]), conn[c].proto = "clear" => v.proto = "clear",
           conn' = [conn EXCEPT ![c] = v]
    PROVE  /\ NoneNew
           /\ conn'[c] = v
           /\ \A i \in 1..Len(conn) : i # c => conn'[i] = conn[i]
<1>1. /\ conn' \in Seq(Conns) /\ Len(conn') = Len(conn)
      /\ conn'[c] = v
      /\ \A i \in 1..Len(conn) : i # c => conn'[i] = conn[i]
  BY SetConn
<1> QED
  BY <1>1 DEF NoneNew, SameRoute

LEMMA RefusedConn ==
    ASSUME TypeOK, NEW c \in 1..Len(conn), conn[c].proto # "clear",
           NEW p \in Negotiable, Refused(c, p)
    PROVE  /\ NoneNew
           /\ ~conn'[c].open
           /\ \A i \in 1..Len(conn) : i # c => conn'[i] = conn[i]
<1> DEFINE v == [conn[c] EXCEPT !.proto = p, !.open = FALSE]
<1>1. conn[c] \in Conns
  BY ConnTypes
<1>2. v \in Conns
  BY <1>1, NegotiableProtos DEF Conns
<1>3. SameRoute(v, conn[c]) /\ v.open = FALSE
  BY <1>1 DEF Conns, SameRoute
<1>4. conn' = [conn EXCEPT ![c] = v]
  BY <1>1, ConnTypes DEF Refused, Conns
<1> HIDE DEF v
<1> QED
  BY <1>2, <1>3, <1>4, SetRecord

\* No connection, and any connection, is an index of conn.
LEMMA Indices ==
    ASSUME TypeOK
    PROVE  0 \in 0..Len(conn) /\ \A c \in 1..Len(conn) : c \in 0..Len(conn)
<1>1. Len(conn) \in Nat
  BY ConnTypes
<1> QED
  BY <1>1

\* What a handshake that negotiated p makes of a connection, and what the
\* transport makes of that when nobody waits for it any more.
LEMMA ShakenConn ==
    ASSUME TypeOK, NEW c \in 1..Len(conn), conn[c].proto # "clear",
           NEW p \in Negotiable, NEW a \in BOOLEAN, NEW open \in BOOLEAN,
           \/ /\ open = conn[c].open
              /\ conn' = [conn EXCEPT ![c].proto = p, ![c].ech = a]
           \/ /\ open = FALSE
              /\ conn' = [[conn EXCEPT ![c].proto = p, ![c].ech = a]
                            EXCEPT ![c].open = FALSE]
    PROVE  /\ NoneNew
           /\ conn'[c].host = conn[c].host /\ conn'[c].proto = p
           /\ conn'[c].ech = a /\ conn'[c].open = open
           /\ \A i \in 1..Len(conn) : i # c => conn'[i] = conn[i]
<1> DEFINE v == [conn[c] EXCEPT !.proto = p, !.ech = a, !.open = open]
<1>1. conn[c] \in Conns /\ a \in BOOLEAN
  BY ConnTypes
<1>2. v \in Conns
  BY <1>1, NegotiableProtos DEF Conns
<1>3. /\ SameRoute(v, conn[c]) /\ v.host = conn[c].host /\ v.open = open
      /\ v.proto = p /\ v.ech = a
  BY <1>1 DEF Conns, SameRoute
<1>4. conn' = [conn EXCEPT ![c] = v]
  <2>1. CASE open = FALSE /\ conn' = [[conn EXCEPT ![c].proto = p,
                                      ![c].ech = a]
                                      EXCEPT ![c].open = FALSE]
    BY <1>1, <2>1, ConnTypes DEF Conns
  <2>2. CASE open = conn[c].open /\ conn' = [conn EXCEPT ![c].proto = p,
                                             ![c].ech = a]
    <3>1. v = [conn[c] EXCEPT !.proto = p, !.ech = a]
      BY <1>1, <2>2 DEF Conns
    <3> QED
      BY <2>2, <3>1, ConnTypes
  <2> QED
    BY <2>1, <2>2
<1> HIDE DEF v
<1> QED
  BY <1>2, <1>3, <1>4, SetRecord

LEMMA CloseAll ==
    ASSUME TypeOK,
           conn' = [i \in DOMAIN conn |-> [conn[i] EXCEPT !.open = FALSE]]
    PROVE  Closing /\ \A i \in 1..Len(conn) : ~conn'[i].open
<1> DEFINE cl(i) == [conn[i] EXCEPT !.open = FALSE]
<1>1. ASSUME NEW i \in 1..Len(conn)
      PROVE  /\ cl(i) \in Conns /\ SameRoute(cl(i), conn[i])
             /\ cl(i).proto = conn[i].proto /\ cl(i).ech = conn[i].ech
             /\ cl(i).open = FALSE
  <2>1. conn[i] \in Conns
    BY <1>1, ConnTypes
  <2> QED
    BY <2>1 DEF Conns, SameRoute
<1>2. conn' = [i \in 1..Len(conn) |-> cl(i)]
  BY ConnTypes
<1> HIDE DEF cl
<1>3. conn' \in [1..Len(conn) -> Conns]
  BY <1>1, <1>2
<1>4. conn' \in Seq(Conns) /\ Len(conn') = Len(conn)
  <2> DEFINE s == conn'
             n == Len(conn)
  <2>1. s \in [1..n -> Conns] /\ n \in Nat
    BY <1>3, ConnTypes
  <2> HIDE DEF s, n
  <2>2. s \in Seq(Conns)
    BY <2>1
  <2>3. Len(s) \in Nat /\ DOMAIN s = 1..Len(s)
    BY <2>2, LenProperties
  <2>4. Len(s) = n
    BY <2>1, <2>3
  <2> QED
    BY <2>2, <2>4 DEF s, n
<1>5. \A i \in 1..Len(conn) : conn'[i] = cl(i)
  BY <1>2
<1>6. NoneNew
  BY <1>1, <1>4, <1>5 DEF NoneNew
<1> QED
  BY <1>1, <1>5, <1>6 DEF Closing

\* A new connection is the last one, and what Opened says of it.
LEMMA OpenedConn ==
    ASSUME TypeOK, NEW h \in Hosts, NEW tls \in BOOLEAN, Opened(h, tls)
    PROVE  LET n == Len(conn) + 1 IN
           /\ conn' \in Seq(Conns) /\ Len(conn') = n
           /\ \A i \in 1..Len(conn) : conn'[i] = conn[i]
           /\ conn'[n].host = h
           /\ conn'[n].noise <= noiseMaxCount
           /\ conn'[n].how = Asked(opts) \cap Honoured(tls)
           /\ tls => conn'[n].proto = "none"
           /\ ~tls => conn'[n].proto = "clear"
           /\ conn'[n].open
           /\ dialer'.conn = n /\ dialer'.at \in {"connect", "handshake"}
           /\ dialer' = [at |-> dialer'.at, conn |-> n]
<1>1. opts \in transportOptions
  BY ConstantsAssumption DEF TypeOK
<1>2. PICK k \in IF path = "h3" THEN Burst(opts) ELSE {0} :
        conn' = Append(conn, [host |-> h, noise |-> k,
                              how |-> Asked(opts) \cap Honoured(tls),
                              proto |-> IF tls THEN "none" ELSE "clear",
                              ech |-> FALSE, open |-> TRUE])
  BY DEF Opened
<1>3. k \in Nat /\ k <= noiseMaxCount
  <2>1. CASE path = "h3"
    BY <1>1, <1>2, <2>1, BurstBounded
  <2>2. CASE path # "h3"
    BY <1>2, <2>2, RangesAssumption
  <2> QED
    BY <2>1, <2>2
<1> DEFINE v == [host |-> h, noise |-> k,
                 how |-> Asked(opts) \cap Honoured(tls),
                 proto |-> IF tls THEN "none" ELSE "clear",
                 ech |-> FALSE, open |-> TRUE]
<1>4. v \in Conns
  <2>2. Asked(opts) \cap Honoured(tls) \in SUBSET DOMAIN Defaults
    BY DEF Asked, Defaults
  <2>3. (IF tls THEN "none" ELSE "clear") \in Protos
    BY DEF Protos
  <2> QED
    BY <1>3, <2>2, <2>3 DEF Conns
<1>5. /\ v.host = h /\ v.noise = k
      /\ v.how = Asked(opts) \cap Honoured(tls)
      /\ tls => v.proto = "none"
      /\ ~tls => v.proto = "clear"
      /\ v.open = TRUE
  OBVIOUS
<1>6. conn' = Append(conn, v)
  BY <1>2
<1> HIDE DEF v
<1>7. /\ conn' \in Seq(Conns) /\ Len(conn') = Len(conn) + 1
      /\ \A i \in 1..Len(conn) : conn'[i] = conn[i]
      /\ conn'[Len(conn) + 1] = v
  BY <1>4, <1>6, ConnTypes, AppendProperties
<1>8. /\ dialer'.conn = Len(conn) + 1
      /\ dialer'.at \in {"connect", "handshake"}
      /\ dialer' = [at |-> dialer'.at, conn |-> Len(conn) + 1]
  BY DEF Opened
<1> QED
  BY <1>3, <1>5, <1>7, <1>8

-----------------------------------------------------------------------------
(* The steps *)

RouteInv == OptionsTakeEffect /\ NoiseIsBounded

LEMMA RoutesKept ==
    ASSUME IInv, NoneNew, UNCHANGED opts
    PROVE  RouteInv'
<1>1. DOMAIN conn = 1..Len(conn) /\ DOMAIN conn' = 1..Len(conn)
  BY ConnTypes, DomainNext DEF IInv, NoneNew
<1>2. OptionsTakeEffect'
  BY <1>1 DEF IInv, OptionsTakeEffect, Moot, NoneNew, SameRoute, path
<1>3. NoiseIsBounded'
  BY <1>1 DEF IInv, NoiseIsBounded, NoneNew, SameRoute
<1> QED
  BY <1>2, <1>3 DEF RouteInv

\* A dial for valid options honours them, within the ceiling.
LEMMA RoutesDialed ==
    ASSUME IInv, NEW h \in Hosts, NEW tls \in BOOLEAN, Opened(h, tls),
           UNCHANGED opts, opts.scheme # "bad", validate(opts), path # "none"
    PROVE  RouteInv'
<1> DEFINE n == Len(conn) + 1
<1>1. TypeOK /\ opts \in transportOptions
  BY ConstantsAssumption DEF IInv, TypeOK
<1>2. /\ Len(conn) \in Nat /\ DOMAIN conn = 1..Len(conn)
      /\ \A i \in 1..Len(conn) : conn'[i] = conn[i]
      /\ conn'[n].host = h
      /\ conn'[n].noise <= noiseMaxCount
      /\ conn'[n].how = Asked(opts) \cap Honoured(tls)
      /\ ~tls => conn'[n].proto = "clear"
      /\ conn' \in Seq(Conns) /\ Len(conn') = n
  BY <1>1, OpenedConn, ConnTypes
<1>3. DOMAIN conn' = 1..n
  BY <1>2, DomainNext
<1> HIDE DEF n
<1>4. \A i \in 1..n : i \in 1..Len(conn) \/ i = n
  BY <1>2 DEF n
<1>5. OptionsTakeEffect'
  <2> SUFFICES ASSUME path # "plain", NEW i \in 1..n, conn'[i].proto # "clear"
               PROVE  Asked(opts) \ Moot \subseteq conn'[i].how
    BY <1>3 DEF OptionsTakeEffect, Moot, path
  <2>1. CASE i \in 1..Len(conn)
    BY <1>2, <2>1 DEF IInv, OptionsTakeEffect
  <2>2. CASE i = n
    <3>1. tls = TRUE
      BY <1>2, <2>2
    <3>2. Asked(opts) \ Moot \subseteq Honoured(TRUE)
      BY <1>1, AskedIsHonoured
    <3> QED
      BY <1>2, <2>2, <3>1, <3>2
  <2> QED
    BY <1>4, <2>1, <2>2
<1>6. NoiseIsBounded'
  BY <1>2, <1>3, <1>4 DEF IInv, NoiseIsBounded
<1> QED
  BY <1>5, <1>6 DEF RouteInv

\* Before the transport is there nothing has been dialed but the probe.
LEMMA CallSteps ==
    ASSUME IInv, Refuse \/ Accept \/ BuildFails
    PROVE  IInv'
<1>1. UNCHANGED <<opts, transport, hop, conn, cur, dialer, pending, state>>
  BY DEF Refuse, Accept, BuildFails
<1>2. at \in {"call", "build"} /\ at' \in {"build", "returned"}
      /\ (at' = "build" => opts.scheme # "bad" /\ validate(opts))
      /\ (result' = result \/ result' = [result EXCEPT !.err = "options"]
            \/ result' = [result EXCEPT !.err = "build"])
  BY DEF Refuse, Accept, BuildFails
<1>3. /\ Len(conn) = 0 /\ dialer = NoDial /\ cur = 0 /\ pending = 0
      /\ transport = "none" /\ ~state.set /\ DOMAIN conn = {}
  BY <1>2, ConnTypes DEF IInv, PhaseInv, Early
<1>4. result'.via = result.via
  BY <1>2 DEF IInv, TypeOK
<1>5. TypeOK'
  BY <1>1, <1>2, <1>3 DEF IInv, TypeOK
<1>6. RouteInv'
  BY <1>1, ConnUnchanged, RoutesKept DEF IInv, Closing
<1>7. ValidInv' /\ ChoiceInv' /\ PhaseInv' /\ DialInv'
  BY <1>1, <1>2, <1>3
  DEF IInv, ValidInv, ChoiceInv, PhaseInv, DialInv, Begun, Early, NoDial, path
<1>8. PendingInv' /\ RequestOnItsConnection' /\ OwnerInv' /\ OpenInv'
      /\ StateInv' /\ LastInv'
  BY <1>1, <1>3
  DEF PendingInv, RequestOnItsConnection, OwnerInv, OpenInv, StateInv, LastInv
<1>9. ResultInv'
  BY <1>1, <1>2, <1>3, <1>4
  DEF IInv, ResultInv, EchAcceptedIsGroundTruth, TypeOK, path
<1> QED
  BY <1>5, <1>6, <1>7, <1>8, <1>9 DEF IInv, RouteInv

LEMMA BuildStep ==
    ASSUME IInv, Build PROVE IInv'
<1>1. /\ UNCHANGED <<opts, hop, conn, cur, dialer, pending, state, result>>
      /\ at = "build" /\ at' = "do" /\ path \notin {"none", "utls"}
      /\ path = "stdH2" => transport' = "http2"
      /\ path = "h3" => transport' = "http3"
      /\ path \notin {"stdH2", "h3"} => transport' = "http"
  BY DEF Build
<1>2. /\ Len(conn) = 0 /\ dialer = NoDial /\ cur = 0 /\ pending = 0
      /\ transport = "none" /\ ~state.set /\ DOMAIN conn = {}
  BY <1>1, ConnTypes DEF IInv, PhaseInv, Early
<1>3. TypeOK'
  BY <1>1 DEF IInv, TypeOK
<1>4. RouteInv'
  BY <1>1, ConnUnchanged, RoutesKept DEF IInv, Closing
<1>5. ValidInv' /\ PhaseInv' /\ DialInv'
  BY <1>1, <1>2
  DEF IInv, ValidInv, PhaseInv, DialInv, Begun, Early, NoDial, path
<1>6. ChoiceInv'
  BY <1>1 DEF ChoiceInv, path
<1>7. PendingInv' /\ RequestOnItsConnection' /\ OwnerInv' /\ OpenInv'
      /\ StateInv' /\ LastInv'
  BY <1>1, <1>2
  DEF PendingInv, RequestOnItsConnection, OwnerInv, OpenInv, StateInv, LastInv
<1>8. ResultInv'
  BY <1>1, <1>2
  DEF IInv, ResultInv, EchAcceptedIsGroundTruth, TypeOK, path
<1> QED
  BY <1>3, <1>4, <1>5, <1>6, <1>7, <1>8 DEF IInv, RouteInv

LEMMA BuildProbeStep ==
    ASSUME IInv, BuildProbe PROVE IInv'
<1>1. /\ UNCHANGED <<opts, transport, hop, cur, pending, state, result>>
      /\ at = "build" /\ at' = "probe" /\ path = "utls"
      /\ Opened(Origin, TRUE)
  BY DEF BuildProbe
<1>2. /\ Len(conn) = 0 /\ cur = 0 /\ pending = 0 /\ result.via = 0
      /\ transport = "none" /\ ~state.set
      /\ hop.host = Origin /\ (hop.tls <=> opts.scheme = "https")
  BY <1>1 DEF IInv, PhaseInv, Early, ResultInv, TypeOK
<1>3. opts.scheme = "https" /\ opts.scheme # "bad" /\ validate(opts)
  BY <1>1, ConstantsAssumption
  DEF IInv, ValidInv, TypeOK, transportOptions, path, Branch
<1>4. /\ conn' \in Seq(Conns) /\ Len(conn') = 1
      /\ conn'[1].host = Origin /\ conn'[1].proto = "none" /\ conn'[1].open
      /\ dialer'.conn = 1 /\ dialer'.at \in {"connect", "handshake"}
      /\ dialer' = [at |-> dialer'.at, conn |-> 1]
  <2>1. Origin \in Hosts /\ TypeOK /\ Len(conn) + 1 = 1
    BY <1>2 DEF Hosts, IInv
  <2> QED
    BY <1>1, <2>1, OpenedConn
<1>5. DOMAIN conn' = {1}
  BY <1>4, DomainNext
<1>6. TypeOK'
  BY <1>1, <1>2, <1>4 DEF IInv, TypeOK, Conns
<1>7. RouteInv'
  BY <1>1, <1>3, RoutesDialed DEF Hosts
<1>8. ValidInv' /\ ChoiceInv' /\ PhaseInv' /\ StateInv'
  BY <1>1, <1>2, <1>3, <1>4
  DEF IInv, ValidInv, ChoiceInv, PhaseInv, StateInv, Early, NoDial, path
<1>9. DialInv'
  BY <1>1, <1>2, <1>3, <1>4 DEF DialInv
<1>10. PendingInv' /\ RequestOnItsConnection' /\ OwnerInv' /\ OpenInv'
       /\ LastInv'
  BY <1>1, <1>2, <1>4, <1>5
  DEF PendingInv, RequestOnItsConnection, OwnerInv, OpenInv, LastInv, Tls
<1>11. ResultInv'
  BY <1>1, <1>2 DEF ResultInv, EchAcceptedIsGroundTruth
<1> QED
  BY <1>6, <1>7, <1>8, <1>9, <1>10, <1>11 DEF IInv, RouteInv

\* While roundTripper probes there is one connection, the probe's.
LEMMA ProbeConn ==
    ASSUME IInv, at = "probe"
    PROVE  Len(conn) = 1 /\ dialer.conn = 1
<1>1. Len(conn) = 1 /\ dialer.conn # 0
  BY DEF IInv, PhaseInv
<1>2. dialer.conn \in 0..Len(conn)
  BY DEF IInv, TypeOK
<1> QED
  BY <1>1, <1>2

\* The probe's connection becomes the pending one, and its protocol the one
\* the transport is chosen for.
LEMMA ProbeNegotiatedStep ==
    ASSUME IInv, NEW p \in Negotiable, NEW a \in EchAnswers,
           ProbeNegotiated(p, a)
    PROVE  IInv'
<1>0. at = "probe" /\ Len(conn) = 1 /\ dialer.conn = 1
  BY ProbeConn DEF ProbeNegotiated
<1>0a. a \in BOOLEAN
  BY DEF EchAnswers
<1>1. /\ UNCHANGED <<opts, hop, cur, result>>
      /\ at = "probe" /\ at' = "do"
      /\ conn' = [conn EXCEPT ![1].proto = p, ![1].ech = a]
      /\ pending' = 1 /\ dialer' = NoDial
      /\ Negotiated(p, a)
      /\ transport' = IF state'.proto = "h2" THEN "http2" ELSE "http"
  BY <1>0 DEF ProbeNegotiated
<1>2. /\ Len(conn) = 1 /\ dialer.conn = 1 /\ cur = 0 /\ pending = 0 /\ result.via = 0
      /\ transport = "none" /\ ~state.set /\ path = "utls"
      /\ opts.scheme # "bad" /\ validate(opts)
  BY <1>0, <1>1 DEF IInv, PhaseInv, Early, ResultInv, TypeOK, ValidInv
<1>3. hop.tls
  BY <1>2, ConstantsAssumption, <1>1
  DEF IInv, PhaseInv, TypeOK, Early, transportOptions, path, Branch
<1>4. conn[1].open /\ conn[1].host = hop.host /\ conn[1].proto = "none"
  BY <1>1, <1>2, <1>3 DEF IInv, DialInv
<1>5. state' = [set |-> TRUE, proto |-> p, ech |-> a]
  BY <1>1, <1>2 DEF Negotiated, Recording
<1>6. /\ NoneNew /\ conn'[1].host = hop.host /\ conn'[1].proto = p
      /\ conn'[1].ech = a /\ conn'[1].open
  <2>1. TypeOK /\ 1 \in 1..Len(conn) /\ conn[1].proto # "clear"
        /\ conn[1].open = TRUE
    BY <1>2, <1>4, ConnTypes DEF IInv, Conns
  <2> QED
    BY <1>0a, <1>1, <1>4, <2>1, ShakenConn
<1>7. DOMAIN conn' = {1} /\ Len(conn') = 1 /\ conn' \in Seq(Conns)
  BY <1>2, <1>6, DomainNext DEF NoneNew
<1>8. p \in Protos /\ p \notin {"none", "clear"}
  BY NegotiableProtos
<1>9. TypeOK'
  BY <1>0a, <1>1, <1>2, <1>5, <1>7, <1>8 DEF IInv, TypeOK, Conns, NoDial
<1>10. RouteInv'
  BY <1>1, <1>6, RoutesKept
<1>11. ValidInv' /\ ChoiceInv' /\ PhaseInv' /\ DialInv'
  BY <1>1, <1>2, <1>5
  DEF ValidInv, ChoiceInv, PhaseInv, DialInv, Early, NoDial, path
<1>12. PendingInv' /\ RequestOnItsConnection' /\ OwnerInv'
  BY <1>1, <1>2, <1>3, <1>6, <1>7, <1>8
  DEF PendingInv, RequestOnItsConnection, OwnerInv, Tls, path
<1>13. OpenInv' /\ StateInv' /\ LastInv'
  BY <1>1, <1>2, <1>5, <1>6, <1>7, <1>8
  DEF OpenInv, StateInv, LastInv, Tls, Recording, path
<1>14. ResultInv'
  BY <1>1, <1>2 DEF ResultInv, EchAcceptedIsGroundTruth
<1> QED
  BY <1>9, <1>10, <1>11, <1>12, <1>13, <1>14 DEF IInv, RouteInv

LEMMA ProbeFailsStep ==
    ASSUME IInv, ProbeFails PROVE IInv'
<1>0. at = "probe" /\ Len(conn) = 1 /\ dialer.conn = 1
  BY ProbeConn DEF ProbeFails
<1>1. /\ UNCHANGED <<opts, transport, hop, cur, pending, state>>
      /\ at = "probe" /\ at' = "returned" /\ dialer' = NoDial
      /\ result' = [result EXCEPT !.err = "build"]
  BY DEF ProbeFails
<1>2. /\ Len(conn) = 1 /\ dialer.conn = 1 /\ cur = 0 /\ pending = 0
      /\ result.via = 0 /\ transport = "none" /\ ~state.set
      /\ opts.scheme # "bad" /\ validate(opts) /\ path = "utls"
  BY <1>0, <1>1 DEF IInv, PhaseInv, Early, ResultInv, TypeOK, ValidInv
<1>3. conn[1].proto # "clear"
  BY <1>1, <1>2, ConstantsAssumption
  DEF IInv, PhaseInv, DialInv, TypeOK, Early, transportOptions, path, Branch
<1>4. NoneNew /\ ~conn'[1].open
  <2>1. CASE conn' = Close(1)
    BY <1>2, <2>1, CloseConn DEF IInv, Closing
  <2>2. CASE \E p \in Negotiable : Refused(1, p)
    BY <1>2, <1>3, <2>2, RefusedConn DEF IInv
  <2> QED
    BY <1>2, <2>1, <2>2 DEF ProbeFails
<1>5. DOMAIN conn' = {1} /\ Len(conn') = 1 /\ conn' \in Seq(Conns)
  BY <1>2, <1>4, DomainNext DEF NoneNew
<1>6. result'.via = 0 /\ TypeOK'
  BY <1>1, <1>2, <1>5 DEF IInv, TypeOK, Conns, NoDial
<1>7. RouteInv'
  BY <1>1, <1>4, RoutesKept
<1>8. ValidInv' /\ ChoiceInv' /\ PhaseInv' /\ DialInv' /\ StateInv'
  BY <1>1, <1>2
  DEF ValidInv, ChoiceInv, PhaseInv, DialInv, StateInv, Early, NoDial, path
<1>9. PendingInv' /\ RequestOnItsConnection' /\ OwnerInv' /\ OpenInv'
      /\ LastInv'
  BY <1>1, <1>2, <1>4, <1>5
  DEF PendingInv, RequestOnItsConnection, OwnerInv, OpenInv, LastInv
<1>10. ResultInv'
  BY <1>6 DEF ResultInv, EchAcceptedIsGroundTruth
<1> QED
  BY <1>6, <1>7, <1>8, <1>9, <1>10 DEF IInv, RouteInv

\* Steps of the caller and of a dial that move no connection.
LEMMA ReuseStep ==
    ASSUME IInv, Reuse PROVE IInv'
<1>1. /\ UNCHANGED <<at, opts, transport, hop, conn, dialer, pending, state,
                      result>>
      /\ at = "do" /\ cur = 0 /\ dialer = NoDial /\ hop.tls
      /\ transport \in {"http2", "http3"}
      /\ cur' \in DOMAIN conn /\ cur' # pending /\ conn[cur'].open
      /\ conn[cur'].host = hop.host
  BY DEF Reuse, Waiting, Pooling, Reusable
<1>2. cur' \in 1..Len(conn) /\ Len(conn) \in Nat
  BY <1>1, ConnTypes DEF IInv
<1>3. pending = 0
  BY <1>1 DEF IInv, PendingInv
<1>4. conn[cur'].proto # "clear"
  BY <1>1 DEF IInv, OpenInv
<1>5. TypeOK'
  BY <1>1, <1>2 DEF IInv, TypeOK
<1>6. RouteInv'
  BY <1>1, ConnUnchanged, RoutesKept DEF IInv, Closing
<1>7. ValidInv' /\ ChoiceInv' /\ PhaseInv' /\ DialInv' /\ StateInv'
  BY <1>1, <1>3
  DEF IInv, ValidInv, ChoiceInv, PhaseInv, DialInv, StateInv, Begun, Early,
      NoDial, path, EchOffered, Recording
<1>8. PendingInv' /\ RequestOnItsConnection'
  BY <1>1, <1>3, <1>4 DEF PendingInv, RequestOnItsConnection
<1>9. OwnerInv' /\ OpenInv' /\ LastInv'
  BY <1>1 DEF IInv, OwnerInv, OpenInv, LastInv, LastHandshake,
         EchOffered, path
<1>10. ResultInv'
  BY <1>1 DEF IInv, ResultInv, EchAcceptedIsGroundTruth, path
<1> QED
  BY <1>5, <1>6, <1>7, <1>8, <1>9, <1>10 DEF IInv, RouteInv

LEMMA WantStep ==
    ASSUME IInv, Want PROVE IInv'
<1>1. /\ UNCHANGED <<at, opts, transport, hop, conn, cur, pending, state,
                      result>>
      /\ at = "do" /\ cur = 0 /\ dialer = NoDial
      /\ hop.tls \/ transport = "http"
      /\ dialer' = [at |-> "want", conn |-> 0]
  BY DEF Want, Waiting, NoDial
<1>2. dialer'.at = "want" /\ dialer'.conn = 0 /\ dialer.conn = 0
      /\ transport # "none" /\ result.via = 0
  BY <1>1 DEF NoDial, IInv, TypeOK, ResultInv
<1>3. TypeOK'
  BY <1>1 DEF IInv, TypeOK
<1>4. RouteInv'
  BY <1>1, ConnUnchanged, RoutesKept DEF IInv, Closing
<1>5. ValidInv' /\ ChoiceInv' /\ PhaseInv' /\ DialInv' /\ StateInv'
  BY <1>1, <1>2
  DEF IInv, ValidInv, ChoiceInv, PhaseInv, DialInv, StateInv, Begun, Early,
      path, EchOffered, Recording
<1>6. PendingInv' /\ RequestOnItsConnection'
  BY <1>1 DEF IInv, PendingInv, RequestOnItsConnection, path
<1>7. OwnerInv' /\ OpenInv' /\ LastInv'
  BY <1>1, <1>2 DEF IInv, OwnerInv, OpenInv, LastInv, LastHandshake,
         EchOffered, path
<1>8. ResultInv'
  BY <1>1, <1>2 DEF ResultInv, EchAcceptedIsGroundTruth
<1> QED
  BY <1>3, <1>4, <1>5, <1>6, <1>7, <1>8 DEF IInv, RouteInv

LEMMA ConnectedStep ==
    ASSUME IInv, Connected PROVE IInv'
<1>1. /\ UNCHANGED <<at, opts, transport, hop, conn, cur, pending, state,
                      result>>
      /\ dialer.at = "connect"
      /\ dialer' = [dialer EXCEPT !.at = "handshake"]
  BY DEF Connected
<1>2. /\ dialer'.at = "handshake" /\ dialer'.conn = dialer.conn
      /\ dialer.conn # 0 /\ dialer # NoDial /\ result.via = 0 /\ cur = 0
  BY <1>1 DEF NoDial, IInv, TypeOK, ResultInv, DialInv, PhaseInv
<1>3. TypeOK'
  BY <1>1 DEF IInv, TypeOK
<1>4. RouteInv'
  BY <1>1, ConnUnchanged, RoutesKept DEF IInv, Closing
<1>5. at \notin {"call", "build"}
  BY <1>2 DEF IInv, PhaseInv
<1>6. ValidInv' /\ ChoiceInv' /\ PhaseInv' /\ DialInv' /\ StateInv'
  BY <1>1, <1>2, <1>5
  DEF IInv, ValidInv, ChoiceInv, PhaseInv, DialInv, StateInv, Begun, Early,
      path, EchOffered, Recording
<1>7. PendingInv' /\ RequestOnItsConnection'
  BY <1>1 DEF IInv, PendingInv, RequestOnItsConnection, path
<1>8. OwnerInv' /\ OpenInv' /\ LastInv'
  BY <1>1, <1>2 DEF IInv, OwnerInv, OpenInv, LastInv, LastHandshake,
         EchOffered, path
<1>9. ResultInv'
  BY <1>1, <1>2 DEF ResultInv, EchAcceptedIsGroundTruth
<1> QED
  BY <1>3, <1>4, <1>6, <1>7, <1>8, <1>9 DEF IInv, RouteInv

LEMMA ResponseStep ==
    ASSUME IInv, Response PROVE IInv'
<1>1. /\ UNCHANGED <<opts, transport, hop, conn, cur, dialer, pending, state,
                      result>>
      /\ at = "do" /\ at' = "read" /\ cur # 0
  BY DEF Response
<1>2. result.via = 0 /\ pending = 0 /\ dialer = NoDial
  BY <1>1 DEF IInv, TypeOK, ResultInv, PendingInv, PhaseInv
<1>3. TypeOK'
  BY <1>1 DEF IInv, TypeOK
<1>4. RouteInv'
  BY <1>1, ConnUnchanged, RoutesKept DEF IInv, Closing
<1>5. ValidInv' /\ ChoiceInv' /\ PhaseInv' /\ DialInv' /\ StateInv'
  BY <1>1, <1>2
  DEF IInv, ValidInv, ChoiceInv, PhaseInv, DialInv, StateInv, Begun, Early,
      NoDial, path, EchOffered, Recording
<1>6. PendingInv' /\ RequestOnItsConnection'
  BY <1>1 DEF IInv, PendingInv, RequestOnItsConnection, path
<1>7. OwnerInv' /\ OpenInv' /\ LastInv'
  BY <1>1 DEF IInv, OwnerInv, OpenInv, LastInv, LastHandshake,
         EchOffered, path
<1>8. ResultInv'
  BY <1>1, <1>2 DEF ResultInv, EchAcceptedIsGroundTruth
<1> QED
  BY <1>3, <1>4, <1>5, <1>6, <1>7, <1>8 DEF IInv, RouteInv

\* Open connections stay as they were while others are closed.
LEMMA ClosingOpen ==
    ASSUME IInv, Closing, UNCHANGED <<opts, transport, state>>,
           \/ dialer'.conn = dialer.conn
           \/ ~conn'[dialer.conn].open
           \/ conn[dialer.conn].proto # "none"
    PROVE  OpenInv'
<1>1. DOMAIN conn = 1..Len(conn) /\ DOMAIN conn' = 1..Len(conn)
  BY ConnTypes, DomainNext DEF IInv, Closing, NoneNew
<1>2. SUFFICES ASSUME NEW i \in 1..Len(conn), conn'[i].open
               PROVE  /\ i # dialer'.conn => conn'[i].proto # "none"
                      /\ conn'[i].proto = "clear" => transport = "http"
                      /\ Tls(conn'[i]) =>
                           /\ path = "utls" => /\ state.set
                                              /\ conn'[i].proto = state.proto
                           /\ path = "h3" => /\ conn'[i].proto = "h3"
                                            /\ conn'[i].ech = EchOffered
  BY <1>1 DEF OpenInv, EchOffered, path
<1>3. /\ conn[i].open /\ conn'[i].proto = conn[i].proto
      /\ conn'[i].ech = conn[i].ech
  BY <1>2 DEF Closing
<1> QED
  BY <1>1, <1>2, <1>3 DEF IInv, OpenInv, Tls

\* Closing makes no handshake the last one.
LEMMA HandshakesKept ==
    ASSUME IInv, Closing, NEW i \in 1..Len(conn), LastHandshake(i)'
    PROVE  LastHandshake(i)
<1>1. DOMAIN conn = 1..Len(conn) /\ DOMAIN conn' = 1..Len(conn)
  BY ConnTypes, DomainNext DEF IInv, Closing, NoneNew
<1>2. \A j \in 1..Len(conn) : conn'[j].proto = conn[j].proto
  BY DEF Closing
<1> QED
  BY <1>1, <1>2 DEF LastHandshake

\* So does what is known of the last handshake.
LEMMA ClosingLast ==
    ASSUME IInv, Closing, UNCHANGED <<opts, state>>
    PROVE  LastInv'
<1>1. DOMAIN conn = 1..Len(conn) /\ DOMAIN conn' = 1..Len(conn)
  BY ConnTypes, DomainNext DEF IInv, Closing, NoneNew
<1>2. SUFFICES ASSUME path \in {"utls", "stdH2"}, state.set,
                      NEW i \in 1..Len(conn), conn'[i].open, Tls(conn'[i]),
                      LastHandshake(i)'
               PROVE  state.ech = conn'[i].ech
  BY <1>1 DEF LastInv, path
<1>3. \A j \in 1..Len(conn) :
        /\ conn'[j].proto = conn[j].proto /\ conn'[j].ech = conn[j].ech
        /\ conn'[j].open => conn[j].open
  BY DEF Closing
<1>4. LastHandshake(i)
  BY <1>1, <1>2, <1>3 DEF LastHandshake
<1>5. conn[i].open /\ Tls(conn[i])
  BY <1>2, <1>3 DEF Tls
<1> QED
  BY <1>1, <1>2, <1>3, <1>4, <1>5 DEF IInv, LastInv

\* The connection of a request is given back: to the pool, or closed.
LEMMA ReleaseConn ==
    ASSUME IInv, conn' = Release(cur), cur' = 0, at' # "returned",
           at \in {"do", "read"},
           UNCHANGED <<opts, transport, dialer, pending, state>>
    PROVE  /\ Closing /\ OwnerInv' /\ OpenInv' /\ StateInv' /\ LastInv'
           /\ cur = 0 => conn' = conn
<1>1. TypeOK /\ cur \in 0..Len(conn) /\ Len(conn) \in Nat
      /\ DOMAIN conn = 1..Len(conn)
  BY ConnTypes DEF IInv, TypeOK
<1>2. /\ Closing
      /\ cur = 0 => conn' = conn
      /\ cur # 0 /\ ~Pooling => ~conn'[cur].open
  <2>1. CASE cur = 0 \/ Pooling
    BY <1>1, <2>1, ConnUnchanged DEF Release
  <2>2. CASE cur # 0 /\ ~Pooling
    BY <1>1, <2>2, CloseConn DEF Release
  <2> QED
    BY <2>1, <2>2
<1>3. DOMAIN conn' = 1..Len(conn)
  BY <1>2, DomainNext DEF Closing, NoneNew
<1>4. OwnerInv'
  BY <1>1, <1>2, <1>3 DEF IInv, OwnerInv, Closing, Pooling
<1>5. OpenInv'
  BY <1>2, ClosingOpen
<1>6. StateInv'
  BY DEF IInv, StateInv, Recording, EchOffered, path
<1>7. LastInv'
  BY <1>2, ClosingLast
<1> QED
  BY <1>2, <1>4, <1>5, <1>6, <1>7

LEMMA RedirectStep ==
    ASSUME IInv, NEW h \in Hosts, NEW tls \in BOOLEAN, Redirect(h, tls)
    PROVE  IInv'
<1>1. /\ UNCHANGED <<at, opts, transport, dialer, pending, state, result>>
      /\ at = "do" /\ cur # 0 /\ cur' = 0 /\ conn' = Release(cur)
      /\ hop.redirects < MaxRedirects
      /\ hop' = [host |-> h, tls |-> tls, redirects |-> hop.redirects + 1]
  BY DEF Redirect
<1>2. /\ Closing /\ OwnerInv' /\ OpenInv' /\ StateInv' /\ LastInv'
  BY <1>1, ReleaseConn
<1>3. result.via = 0 /\ pending = 0 /\ dialer = NoDial
  BY <1>1 DEF IInv, TypeOK, ResultInv, PendingInv, PhaseInv
<1>4. Len(conn') = Len(conn) /\ conn' \in Seq(Conns)
  BY <1>2 DEF Closing, NoneNew
<1>5. TypeOK'
  <2>1. hop' \in [host : Hosts, tls : BOOLEAN, redirects : 0..MaxRedirects]
    BY <1>1, ConstantsAssumption DEF IInv, TypeOK
  <2> QED
    BY <1>1, <1>4, <2>1 DEF IInv, TypeOK, Conns
<1>6. RouteInv'
  BY <1>1, <1>2, RoutesKept DEF Closing
<1>7. ValidInv' /\ ChoiceInv' /\ PhaseInv' /\ DialInv'
  BY <1>1, <1>3, <1>4
  DEF IInv, ValidInv, ChoiceInv, PhaseInv, DialInv, Begun, Early, NoDial, path
<1>8. PendingInv' /\ RequestOnItsConnection' /\ ResultInv'
  BY <1>1, <1>3
  DEF PendingInv, RequestOnItsConnection, ResultInv, EchAcceptedIsGroundTruth
<1> QED
  BY <1>2, <1>5, <1>6, <1>7, <1>8 DEF IInv, RouteInv

LEMMA DoFailsStep ==
    ASSUME IInv, DoFails PROVE IInv'
<1>1. /\ UNCHANGED <<opts, transport, hop, dialer, pending, state>>
      /\ at = "do" /\ at' = "cleanup" /\ cur' = 0 /\ conn' = Release(cur)
      /\ result' = [result EXCEPT !.err = "failed"]
  BY DEF DoFails
<1>2. /\ Closing /\ OwnerInv' /\ OpenInv' /\ StateInv' /\ LastInv'
      /\ cur = 0 => conn' = conn
  BY <1>1, ReleaseConn
<1>3. /\ cur # 0 => pending = 0 /\ dialer = NoDial
      /\ result'.via = 0
  BY <1>1 DEF IInv, TypeOK, ResultInv, PendingInv, PhaseInv
<1>4. Len(conn') = Len(conn) /\ conn' \in Seq(Conns)
  BY <1>2 DEF Closing, NoneNew
<1>5. TypeOK'
  <2>1. result' \in [err : {"none", "options", "build", "refused", "failed"},
                     ech : BOOLEAN, via : 0..Len(conn)]
    BY <1>1 DEF IInv, TypeOK
  <2> QED
    BY <1>1, <1>4, <2>1 DEF IInv, TypeOK, Conns
<1>6. RouteInv'
  BY <1>1, <1>2, RoutesKept DEF Closing
<1>7. ValidInv' /\ ChoiceInv' /\ PhaseInv'
  BY <1>1, <1>4
  DEF IInv, ValidInv, ChoiceInv, PhaseInv, Begun, Early, NoDial, path
<1>8. DialInv' /\ PendingInv'
  BY <1>1, <1>2, <1>3 DEF IInv, DialInv, PendingInv, NoDial, path
<1>9. RequestOnItsConnection' /\ ResultInv'
  BY <1>1, <1>3
  DEF RequestOnItsConnection, ResultInv, EchAcceptedIsGroundTruth
<1> QED
  BY <1>2, <1>5, <1>6, <1>7, <1>8, <1>9 DEF IInv, RouteInv

\* What echAcceptedFrom reports is what the connection of the response had: on
\* the h3 path every connection has what is recorded, on the others that record
\* the last one has.
LEMMA EchOfResponse ==
    ASSUME IInv, cur # 0, path \in {"utls", "stdH2"} => LastHandshake(cur)
    PROVE  echAcceptedFrom(cur) = conn[cur].ech
<1>1. CASE ~state.set
  BY <1>1 DEF echAcceptedFrom
<1>2. CASE state.set
  <2>1. path \in {"utls", "stdH2", "h3"} /\ (path = "h3" => state.ech = EchOffered)
    BY <1>2 DEF IInv, StateInv, Recording
  <2>2. at \in {"do", "read"} /\ dialer = NoDial /\ cur \in DOMAIN conn
        /\ conn[cur].open
    BY ConnTypes DEF IInv, PhaseInv, TypeOK, RequestOnItsConnection
  <2>3. path = "h3" => transport # "http"
    BY <2>2 DEF IInv, ChoiceInv, TypeOK
  <2>4. Tls(conn[cur])
    BY <2>1, <2>2, <2>3 DEF IInv, OpenInv, NoDial, Tls, LastHandshake
  <2>5. CASE path = "h3"
    BY <1>2, <2>1, <2>2, <2>4, <2>5 DEF IInv, OpenInv, echAcceptedFrom
  <2>6. CASE path # "h3"
    BY <1>2, <2>1, <2>2, <2>4, <2>6 DEF IInv, LastInv, echAcceptedFrom
  <2> QED
    BY <2>5, <2>6
<1> QED
  BY <1>1, <1>2

LEMMA ReadBodyStep ==
    ASSUME IInv, ReadBody PROVE IInv'
<1>1. /\ UNCHANGED <<opts, transport, hop, dialer, pending, state>>
      /\ at = "read" /\ at' = "cleanup" /\ cur' = 0 /\ conn' = Release(cur)
      /\ \/ result' = [result EXCEPT !.err = "failed"]
         \/ result' = [result EXCEPT !.ech = echAcceptedFrom(cur), !.via = cur]
  BY DEF ReadBody
<1>2. /\ Closing /\ OwnerInv' /\ OpenInv' /\ StateInv' /\ LastInv'
  BY <1>1, ReleaseConn
<1>3. /\ cur # 0 /\ pending = 0 /\ dialer = NoDial /\ result.via = 0
      /\ cur \in 1..Len(conn)
  BY <1>1 DEF IInv, TypeOK, ResultInv, PendingInv, PhaseInv
<1>4. Len(conn') = Len(conn) /\ conn' \in Seq(Conns)
  BY <1>2 DEF Closing, NoneNew
<1>5. result' \in [err : {"none", "options", "build", "refused", "failed"},
                   ech : BOOLEAN, via : 0..Len(conn)]
  <2>1. conn[cur] \in Conns
    BY <1>3, ConnTypes DEF IInv
  <2>2. echAcceptedFrom(cur) \in BOOLEAN
    BY <2>1 DEF IInv, TypeOK, echAcceptedFrom, Conns
  <2> QED
    BY <1>1, <2>2 DEF IInv, TypeOK
<1>6. TypeOK'
  BY <1>1, <1>4, <1>5 DEF IInv, TypeOK, Conns
<1>7. RouteInv'
  BY <1>1, <1>2, RoutesKept DEF Closing
<1>8. ValidInv' /\ ChoiceInv' /\ PhaseInv' /\ DialInv'
  BY <1>1, <1>3, <1>4
  DEF IInv, ValidInv, ChoiceInv, PhaseInv, DialInv, Begun, Early, NoDial, path
<1>9. PendingInv' /\ RequestOnItsConnection'
  BY <1>1, <1>3 DEF PendingInv, RequestOnItsConnection
<1>10. EchAcceptedIsGroundTruth'
  <2>1. CASE result' = [result EXCEPT !.err = "failed"]
    BY <1>3, <2>1 DEF EchAcceptedIsGroundTruth, IInv, TypeOK
  <2>2. CASE result' = [result EXCEPT !.ech = echAcceptedFrom(cur), !.via = cur]
    <3>1. result'.via = cur /\ result'.ech = echAcceptedFrom(cur)
      BY <2>2 DEF IInv, TypeOK
    <3>2. conn'[cur].ech = conn[cur].ech
      BY <1>2, <1>3 DEF Closing
    <3>3. PICK i \in 1..Len(conn) : i = cur
      BY <1>3
    <3>4. LastHandshake(i)' => LastHandshake(i)
      BY <1>2, HandshakesKept
    <3>5. SUFFICES ASSUME path \in {"utls", "stdH2"} => LastHandshake(i)'
                   PROVE  result'.ech = conn'[i].ech
      BY <1>1, <3>1, <3>3 DEF EchAcceptedIsGroundTruth, LastHandshake, path
    <3> QED
      BY <1>3, <3>1, <3>2, <3>3, <3>4, <3>5, EchOfResponse
  <2> QED
    BY <1>1, <2>1, <2>2
<1>11. ResultInv'
  BY <1>1, <1>3, <1>10 DEF ResultInv
<1> QED
  BY <1>2, <1>6, <1>7, <1>8, <1>9, <1>11 DEF IInv, RouteInv

\* The cleanup closes what is pending and, on the h3 path, the pool.
LEMMA CleanupStep ==
    ASSUME IInv, Cleanup PROVE IInv'
<1>1. /\ UNCHANGED <<opts, transport, hop, cur, dialer, state, result>>
      /\ at = "cleanup" /\ at' = "returned" /\ pending' = 0
  BY DEF Cleanup
<1>2. /\ cur = 0 /\ transport # "none" /\ (path = "h3" <=> transport = "http3")
      /\ pending \in 0..Len(conn)
  BY <1>1 DEF IInv, PhaseInv, TypeOK, ChoiceInv
<1>3. /\ Closing
      /\ path = "h3" => \A i \in 1..Len(conn) : ~conn'[i].open
      /\ pending # 0 => ~conn'[pending].open
  <2>1. CASE path = "h3"
    BY <1>2, <2>1, CloseAll DEF Cleanup, IInv
  <2>2. CASE path # "h3" /\ pending # 0
    BY <1>2, <2>2, CloseConn DEF Cleanup, IInv
  <2>3. CASE path # "h3" /\ pending = 0
    BY <2>3, ConnUnchanged DEF Cleanup, IInv
  <2> QED
    BY <2>1, <2>2, <2>3
<1>4. /\ Len(conn') = Len(conn) /\ conn' \in Seq(Conns)
      /\ DOMAIN conn = 1..Len(conn) /\ DOMAIN conn' = 1..Len(conn)
  BY <1>3, ConnTypes, DomainNext DEF Closing, NoneNew, IInv
<1>5. TypeOK'
  BY <1>1, <1>4 DEF IInv, TypeOK, Conns
<1>6. RouteInv'
  BY <1>1, <1>3, RoutesKept DEF Closing
<1>7. ValidInv' /\ ChoiceInv' /\ PhaseInv' /\ StateInv'
  BY <1>1, <1>2, <1>4
  DEF IInv, ValidInv, ChoiceInv, PhaseInv, StateInv, Begun, Early, path,
      Recording, EchOffered
<1>8. DialInv'
  <2>1. dialer.conn # 0 => /\ conn'[dialer.conn].host = conn[dialer.conn].host
                           /\ conn'[dialer.conn].proto = conn[dialer.conn].proto
    BY <1>3 DEF Closing, NoneNew, SameRoute, IInv, TypeOK
  <2> QED
    BY <1>1, <1>4, <2>1 DEF IInv, DialInv
<1>9. PendingInv' /\ RequestOnItsConnection'
  BY <1>1, <1>2 DEF PendingInv, RequestOnItsConnection
<1>10. OwnerInv'
  <2> SUFFICES ASSUME NEW i \in 1..Len(conn), conn'[i].open
               PROVE  \/ i = dialer.conn \/ transport = "http2"
                      \/ /\ MayStay(conn'[i]) /\ i = Len(conn)
                         /\ result.err = "failed" /\ dialer = NoDial
    BY <1>1, <1>4 DEF OwnerInv, GivenUp, MayStay, path
  <2>1. /\ conn[i].open /\ conn'[i].proto = conn[i].proto
        /\ i # pending /\ path # "h3" /\ i # cur /\ i \in DOMAIN conn
    BY <1>2, <1>3, <1>4 DEF Closing, NoneNew, SameRoute
  <2>2. \/ i = dialer.conn \/ transport = "http2"
        \/ GivenUp(i) /\ dialer = NoDial
    BY <1>2, <2>1 DEF IInv, OwnerInv
  <2> QED
    BY <2>1, <2>2 DEF GivenUp, MayStay
<1>11. OpenInv'
  BY <1>1, <1>3, ClosingOpen
<1>12. ResultInv'
  <2>1. CASE result.via = 0
    BY <1>1, <2>1 DEF ResultInv, EchAcceptedIsGroundTruth
  <2>2. CASE result.via # 0
    <3>1. PICK i \in 1..Len(conn) : i = result.via
      BY <2>2 DEF IInv, TypeOK
    <3>2. conn'[i].ech = conn[i].ech
      BY <1>3 DEF Closing
    <3>3. LastHandshake(i)' => LastHandshake(i)
      BY <1>3, HandshakesKept
    <3>4. EchAcceptedIsGroundTruth /\ dialer = NoDial
      BY <2>2 DEF IInv, ResultInv
    <3>5. EchAcceptedIsGroundTruth'
      BY <1>1, <3>1, <3>2, <3>3, <3>4
      DEF EchAcceptedIsGroundTruth, LastHandshake, path
    <3> QED
      BY <1>1, <3>4, <3>5 DEF ResultInv
  <2> QED
    BY <2>1, <2>2
<1>13. LastInv'
  BY <1>1, <1>3, ClosingLast
<1> QED
  BY <1>5, <1>6, <1>7, <1>8, <1>9, <1>10, <1>11, <1>12, <1>13 DEF IInv, RouteInv

\* While a dial is under way no request has a connection and no response is
\* there.
LEMMA Dialing ==
    ASSUME IInv, dialer.at # "none"
    PROVE  /\ cur = 0 /\ result.via = 0
           /\ at \in {"probe", "do", "cleanup", "returned"}
           /\ at = "probe" => dialer.conn # 0 /\ hop.tls
           /\ at # "probe" => transport # "none"
           /\ opts.scheme # "bad" /\ validate(opts) /\ path # "none"
           /\ dialer.conn \in 0..Len(conn)
           /\ hop.host \in Hosts /\ hop.tls \in BOOLEAN
<1>1. dialer # NoDial
  BY DEF NoDial
<1>2. cur = 0 /\ result.via = 0 /\ at \in {"probe", "do", "cleanup", "returned"}
  BY <1>1 DEF IInv, PhaseInv, ResultInv, TypeOK
<1>3. opts.scheme # "bad" /\ validate(opts) /\ path # "none"
  BY DEF IInv, ValidInv, Begun
<1>4. at = "probe" => dialer.conn # 0 /\ hop.tls
  <2>1. at = "probe" => /\ path = "utls" /\ dialer.conn # 0
                        /\ hop.tls <=> opts.scheme = "https"
    BY DEF IInv, PhaseInv, Early
  <2>2. path = "utls" => opts.scheme = "https"
    BY <1>3, ConstantsAssumption
    DEF IInv, TypeOK, transportOptions, path, Branch
  <2> QED
    BY <2>1, <2>2
<1>5. at # "probe" => transport # "none"
  BY DEF IInv, DialInv
<1>6. dialer.conn \in 0..Len(conn) /\ hop.host \in Hosts /\ hop.tls \in BOOLEAN
  BY DEF IInv, TypeOK
<1> QED
  BY <1>2, <1>3, <1>4, <1>5, <1>6

LEMMA DialStep ==
    ASSUME IInv, Dial PROVE IInv'
<1> DEFINE n == Len(conn) + 1
<1>1. /\ UNCHANGED <<at, opts, transport, hop, cur, pending, state, result>>
      /\ dialer.at = "want" /\ pending = 0
      /\ Opened(hop.host, hop.tls)
  BY DEF Dial
<1>2. /\ dialer.conn = 0 /\ cur = 0 /\ result.via = 0 /\ transport # "none"
      /\ at \in {"do", "cleanup", "returned"}
      /\ opts.scheme # "bad" /\ validate(opts) /\ path # "none"
      /\ hop.host \in Hosts /\ hop.tls \in BOOLEAN
      /\ hop.tls \/ transport = "http"
  BY <1>1, Dialing DEF IInv, DialInv
<1>3. /\ conn' \in Seq(Conns) /\ Len(conn') = n
      /\ \A i \in 1..Len(conn) : conn'[i] = conn[i]
      /\ conn'[n].host = hop.host
      /\ hop.tls => conn'[n].proto = "none"
      /\ ~hop.tls => conn'[n].proto = "clear"
      /\ conn'[n].open
      /\ dialer'.conn = n /\ dialer'.at \in {"connect", "handshake"}
      /\ dialer' = [at |-> dialer'.at, conn |-> n]
  BY <1>1, <1>2, OpenedConn DEF IInv
<1>4. /\ Len(conn) \in Nat /\ n \in Nat /\ n > 0
      /\ DOMAIN conn = 1..Len(conn)
      /\ DOMAIN conn' = 1..n
  BY <1>3, ConnTypes, DomainNext DEF IInv
<1>5. /\ \A i \in 1..n : i \in 1..Len(conn) \/ i = n
      /\ n \in 0..n /\ 0 \in 0..n /\ n \notin 1..Len(conn)
  BY <1>4
<1> HIDE DEF n
<1>6. TypeOK'
  BY <1>1, <1>2, <1>3, <1>5 DEF IInv, TypeOK, Conns
<1>7. RouteInv'
  BY <1>1, <1>2, RoutesDialed
<1>0. dialer # NoDial /\ (at # "do" => result.err = "failed")
  BY <1>1, <1>2 DEF IInv, PhaseInv, NoDial
<1>8. ValidInv' /\ ChoiceInv' /\ PhaseInv' /\ StateInv'
  BY <1>0, <1>1, <1>2
  DEF IInv, ValidInv, ChoiceInv, PhaseInv, StateInv, Early, path, Recording,
      EchOffered
<1>9. DialInv' /\ PendingInv' /\ RequestOnItsConnection'
  BY <1>1, <1>2, <1>3, <1>4 DEF DialInv, PendingInv, RequestOnItsConnection
<1>10. OwnerInv'
  <2> SUFFICES ASSUME NEW i \in 1..Len(conn), conn'[i].open
               PROVE  \/ transport = "http2"
                      \/ transport = "http3" /\ at # "returned"
    BY <1>1, <1>3, <1>4, <1>5 DEF OwnerInv
  <2> QED
    BY <1>0, <1>1, <1>2, <1>3, <1>4 DEF IInv, OwnerInv
<1>11. OpenInv'
  <2> SUFFICES ASSUME NEW i \in 1..n, conn'[i].open
               PROVE  /\ i # n => conn'[i].proto # "none"
                      /\ conn'[i].proto = "clear" => transport = "http"
                      /\ Tls(conn'[i]) =>
                           /\ path = "utls" => /\ state.set
                                              /\ conn'[i].proto = state.proto
                           /\ path = "h3" => /\ conn'[i].proto = "h3"
                                            /\ conn'[i].ech = EchOffered
    BY <1>1, <1>3, <1>4 DEF OpenInv, EchOffered, path
  <2>1. CASE i = n
    BY <1>2, <1>3, <2>1 DEF Tls
  <2>2. CASE i \in 1..Len(conn)
    BY <1>2, <1>3, <1>4, <2>2 DEF IInv, OpenInv
  <2> QED
    BY <1>5, <2>1, <2>2
<1>12. ResultInv'
  BY <1>1, <1>2 DEF ResultInv, EchAcceptedIsGroundTruth
<1>13. LastInv'
  <2> SUFFICES ASSUME path \in {"utls", "stdH2"}, state.set, NEW i \in 1..n,
                      conn'[i].open, Tls(conn'[i]), LastHandshake(i)'
               PROVE  state.ech = conn'[i].ech
    BY <1>1, <1>4 DEF LastInv, path
  <2>1. i # n
    BY <1>2, <1>3 DEF Tls
  <2>2. i \in 1..Len(conn) /\ conn'[i] = conn[i]
    BY <1>3, <1>5, <2>1
  <2>3. LastHandshake(i)
    BY <1>3, <1>4, <1>5, <2>2 DEF LastHandshake, n
  <2> QED
    BY <1>4, <2>2, <2>3 DEF IInv, LastInv
<1> QED
  BY <1>6, <1>7, <1>8, <1>9, <1>10, <1>11, <1>12, <1>13 DEF IInv, RouteInv

\* A dial that fails has closed what it opened.
LEMMA DialErrorStep ==
    ASSUME IInv, NEW e \in {"failed", "refused"}, DialError(e), NoneNew,
           dialer.at # "none", at # "probe", pending = 0,
           \A i \in 1..Len(conn) : i # dialer.conn => conn'[i] = conn[i],
           dialer.conn # 0 => ~conn'[dialer.conn].open
    PROVE  IInv'
<1>1. /\ UNCHANGED <<opts, transport, hop, cur, pending, state>>
      /\ dialer' = NoDial /\ dialer'.conn = 0 /\ dialer'.at = "none"
      /\ \/ at = "do" /\ at' = "cleanup" /\ result' = [result EXCEPT !.err = e]
         \/ at # "do" /\ UNCHANGED <<at, result>>
  BY DEF DialError, NoDial
<1>2. /\ cur = 0 /\ result.via = 0 /\ transport # "none"
      /\ at \in {"do", "cleanup", "returned"}
      /\ opts.scheme # "bad" /\ validate(opts) /\ path # "none"
  BY Dialing
<1>3. /\ Len(conn') = Len(conn) /\ conn' \in Seq(Conns)
      /\ DOMAIN conn = 1..Len(conn) /\ DOMAIN conn' = 1..Len(conn)
  BY ConnTypes, DomainNext DEF NoneNew, IInv
<1>4. result'.via = 0 /\
      result' \in [err : {"none", "options", "build", "refused", "failed"},
                   ech : BOOLEAN, via : 0..Len(conn)]
  BY <1>1, <1>2 DEF IInv, TypeOK
<1>5. TypeOK'
  <2>1. dialer' \in [at : {"none", "want", "connect", "handshake"},
                     conn : 0..Len(conn)]
    BY <1>1, <1>3, ConnTypes DEF NoDial, IInv, TypeOK
  <2>2. at' \in {"cleanup", "returned"}
    BY <1>1, <1>2
  <2> QED
    BY <1>1, <1>2, <1>3, <1>4, <2>1, <2>2 DEF IInv, TypeOK, Conns
<1>6. RouteInv'
  BY <1>1, RoutesKept
<1>7. ValidInv' /\ ChoiceInv' /\ PhaseInv' /\ StateInv' /\ DialInv'
  BY <1>1, <1>2
  DEF IInv, ValidInv, ChoiceInv, PhaseInv, StateInv, DialInv, Early, path,
      Recording, EchOffered
<1>8. PendingInv' /\ RequestOnItsConnection' /\ ResultInv'
  BY <1>1, <1>2, <1>4
  DEF PendingInv, RequestOnItsConnection, ResultInv, EchAcceptedIsGroundTruth
<1>9. ASSUME NEW i \in 1..Len(conn), conn'[i].open
      PROVE  conn'[i] = conn[i] /\ i # dialer.conn
  BY <1>9
<1>10. OwnerInv'
  BY <1>1, <1>2, <1>3, <1>9 DEF IInv, OwnerInv
<1>11. OpenInv'
  BY <1>1, <1>3, <1>9 DEF IInv, OpenInv, EchOffered, path
<1>12. LastInv'
  <2> SUFFICES ASSUME path \in {"utls", "stdH2"}, state.set,
                      NEW i \in 1..Len(conn), conn'[i].open, Tls(conn'[i]),
                      LastHandshake(i)'
               PROVE  state.ech = conn'[i].ech
    BY <1>1, <1>3 DEF LastInv, path
  <2>1. conn'[i] = conn[i]
    BY <1>9
  <2>2. dialer.conn # 0 => conn[dialer.conn].proto \in {"none", "clear"}
    BY DEF IInv, DialInv, TypeOK
  <2>3. LastHandshake(i)
    <3> SUFFICES ASSUME NEW j \in 1..Len(conn), j > i
                 PROVE  conn[j].proto \in {"none", "clear"}
      BY <1>3, <2>1 DEF LastHandshake
    <3>1. conn'[j].proto \in {"none", "clear"}
      BY <1>3 DEF LastHandshake
    <3>2. j = dialer.conn \/ conn'[j] = conn[j]
      OBVIOUS
    <3> QED
      BY <2>2, <3>1, <3>2
  <2> QED
    BY <1>3, <2>1, <2>3 DEF IInv, LastInv
<1> QED
  BY <1>5, <1>6, <1>7, <1>8, <1>10, <1>11, <1>12 DEF IInv, RouteInv

LEMMA DialFailsStep ==
    ASSUME IInv, DialFails PROVE IInv'
<1>1. CASE dialer.at = "want" /\ pending = 0 /\ UNCHANGED conn
  <2>1. NoneNew
    BY <1>1, ConnUnchanged DEF IInv, Closing
  <2>2. dialer.conn = 0 /\ at # "probe"
    BY <1>1, Dialing DEF IInv, DialInv
  <2> QED
    BY <1>1, <2>1, <2>2, DialErrorStep DEF DialFails
<1>2. CASE /\ dialer.at \in {"connect", "handshake"} /\ at # "probe"
           /\ conn' = Close(dialer.conn)
  <2>1. dialer.conn # 0 /\ pending = 0 /\ dialer.conn \in 0..Len(conn)
    BY <1>2, Dialing DEF IInv, DialInv
  <2>2. dialer.conn \in 1..Len(conn)
    BY <2>1
  <2>3. /\ NoneNew /\ ~conn'[dialer.conn].open
        /\ \A i \in 1..Len(conn) : i # dialer.conn => conn'[i] = conn[i]
    BY <1>2, <2>2, CloseConn DEF IInv, Closing
  <2> QED
    BY <1>2, <2>1, <2>3, DialErrorStep DEF DialFails
<1> QED
  BY <1>1, <1>2 DEF DialFails

LEMMA HandshakeRefusedStep ==
    ASSUME IInv, NEW p \in Negotiable, HandshakeRefused(p) PROVE IInv'
<1>1. dialer.at = "handshake" /\ at # "probe" /\ hop.tls
      /\ Refused(dialer.conn, p) /\ DialError("refused")
  BY DEF HandshakeRefused
<1>2. dialer.conn # 0 /\ pending = 0 /\ dialer.conn \in 0..Len(conn)
      /\ conn[dialer.conn].proto = "none"
  BY <1>1, Dialing DEF IInv, DialInv
<1>3. dialer.conn \in 1..Len(conn)
  BY <1>2
<1>4. /\ NoneNew /\ ~conn'[dialer.conn].open
      /\ \A i \in 1..Len(conn) : i # dialer.conn => conn'[i] = conn[i]
  BY <1>1, <1>2, <1>3, RefusedConn DEF IInv
<1> QED
  BY <1>1, <1>2, <1>4, DialErrorStep

StateTypes == [set : BOOLEAN, proto : Protos, ech : BOOLEAN]

LEMMA RecordedTypes ==
    ASSUME NEW p \in Protos, NEW e \in BOOLEAN
    PROVE  [set |-> TRUE, proto |-> p, ech |-> e] \in StateTypes
BY DEF StateTypes

\* A connection is handed to the caller that waits, or given up when it has
\* gone.
LEMMA DeliveredStep ==
    ASSUME IInv, NEW c \in 1..Len(conn),
           dialer.at # "none", at # "probe",
           \/ c = dialer.conn /\ pending = 0
           \/ c = pending /\ dialer.conn = 0,
           NoneNew, \A i \in 1..Len(conn) : i # c => conn'[i] = conn[i],
           dialer' = NoDial, pending' = 0,
           UNCHANGED <<at, opts, transport, hop, result>>,
           conn'[c].host = hop.host, conn'[c].proto # "none",
           conn'[c].proto = "clear" <=> ~hop.tls,
           at = "do" => cur' = c /\ conn'[c].open,
           at # "do" => UNCHANGED cur,
           at # "do" => \/ transport = "http2" \/ ~conn'[c].open
                        \/ MayStay(conn'[c]) /\ c = Len(conn),
           state' \in StateTypes, StateInv', LastInv',
           state.set => state'.set /\ state'.proto = state.proto,
           hop.tls => /\ path = "utls" => state'.set
                                          /\ conn'[c].proto = state'.proto
                      /\ path = "h3" => /\ conn'[c].proto = "h3"
                                        /\ conn'[c].ech = EchOffered
    PROVE  IInv'
<1>1. /\ cur = 0 /\ result.via = 0 /\ transport # "none"
      /\ at \in {"do", "cleanup", "returned"}
      /\ opts.scheme # "bad" /\ validate(opts) /\ path # "none"
  BY Dialing
<1>2. /\ Len(conn') = Len(conn) /\ conn' \in Seq(Conns) /\ Len(conn) \in Nat
      /\ DOMAIN conn = 1..Len(conn) /\ DOMAIN conn' = 1..Len(conn)
  BY ConnTypes, DomainNext DEF NoneNew, IInv
<1>3. dialer'.conn = 0 /\ dialer'.at = "none" /\ c # 0
      /\ cur' \in {0, c} /\ (cur' # 0 => at = "do")
  BY <1>1, <1>2 DEF NoDial
<1>4. TypeOK'
  <2>1. dialer' \in [at : {"none", "want", "connect", "handshake"},
                     conn : 0..Len(conn)]
    <3>1. 0 \in 0..Len(conn)
      BY Indices DEF IInv
    <3> QED
      BY <3>1 DEF NoDial
  <2>2. cur' \in 0..Len(conn) /\ pending' \in 0..Len(conn)
    <3>1. 0 \in 0..Len(conn) /\ c \in 0..Len(conn)
      BY Indices DEF IInv
    <3> QED
      BY <1>3, <3>1
  <2> QED
    BY <1>2, <2>1, <2>2 DEF IInv, TypeOK, Conns, StateTypes
<1>5. RouteInv'
  BY RoutesKept
<1>6. ValidInv' /\ PhaseInv' /\ DialInv'
  BY <1>1, <1>3 DEF ValidInv, PhaseInv, DialInv, Early, path
<1>7. ChoiceInv'
  BY DEF IInv, ChoiceInv, path
<1>8. PendingInv' /\ RequestOnItsConnection'
  BY <1>1, <1>3 DEF PendingInv, RequestOnItsConnection
<1>9. ResultInv'
  BY <1>1 DEF ResultInv, EchAcceptedIsGroundTruth
<1>10. OwnerInv'
  <2> SUFFICES ASSUME NEW i \in 1..Len(conn), conn'[i].open
               PROVE  \/ i = cur' \/ transport = "http2"
                      \/ transport = "http3" /\ at # "returned"
                      \/ /\ MayStay(conn'[i]) /\ i = Len(conn)
                         /\ result.err = "failed"
                         /\ at \in {"cleanup", "returned"}
    BY <1>2, <1>3 DEF OwnerInv, GivenUp, MayStay, path
  <2>1. CASE i = c
    <3>1. dialer # NoDial
      BY DEF NoDial
    <3>2. at # "do" => result.err = "failed"
      BY <1>1, <3>1 DEF IInv, PhaseInv
    <3> QED
      BY <1>1, <2>1, <3>2
  <2>2. CASE i # c
    <3>1. dialer # NoDial
      BY DEF NoDial
    <3>2. i \in DOMAIN conn /\ conn[i].open /\ i # 0
      BY <1>2, <2>2
    <3>3. i \notin {cur, pending, dialer.conn}
      BY <1>1, <2>2, <3>2
    <3> QED
      BY <3>1, <3>2, <3>3 DEF IInv, OwnerInv
  <2> QED
    BY <2>1, <2>2
<1>11. OpenInv'
  <2> SUFFICES ASSUME NEW i \in 1..Len(conn), conn'[i].open
               PROVE  /\ conn'[i].proto # "none"
                      /\ conn'[i].proto = "clear" => transport = "http"
                      /\ Tls(conn'[i]) =>
                           /\ path = "utls" => /\ state'.set
                                              /\ conn'[i].proto = state'.proto
                           /\ path = "h3" => /\ conn'[i].proto = "h3"
                                            /\ conn'[i].ech = EchOffered
    BY <1>2, <1>3 DEF OpenInv, EchOffered, path
  <2>1. CASE i = c
    BY <2>1 DEF IInv, DialInv, Tls
  <2>2. CASE i # c
    <3>1. conn'[i] = conn[i] /\ i # dialer.conn
      BY <1>2, <2>2
    <3> QED
      BY <1>2, <3>1 DEF IInv, OpenInv
  <2> QED
    BY <2>1, <2>2
<1> QED
  BY <1>4, <1>5, <1>6, <1>7, <1>8, <1>9, <1>10, <1>11 DEF IInv, RouteInv

\* A connection is delivered as it is, but closed if nobody keeps it.
LEMMA DeliveredAsIs ==
    ASSUME IInv, NEW c \in 1..Len(conn), Delivered(c, conn), ~MayStay(conn[c])
    PROVE  /\ Closing /\ \A i \in 1..Len(conn) : i # c => conn'[i] = conn[i]
           /\ conn'[c].host = conn[c].host /\ conn'[c].proto = conn[c].proto
           /\ at = "do" => cur' = c /\ conn' = conn
           /\ at # "do" => UNCHANGED cur
                          /\ (transport = "http2" \/ ~conn'[c].open)
<1>1. CASE at = "do" \/ transport = "http2"
  <2>1. conn' = conn
    BY <1>1 DEF Delivered
  <2> QED
    BY <1>1, <2>1, ConnUnchanged DEF Delivered, IInv
<1>2. CASE at # "do" /\ transport # "http2"
  <2>1. conn' = Close(c) /\ UNCHANGED cur
    BY <1>2 DEF Delivered, Close
  <2> QED
    BY <1>2, <2>1, CloseConn DEF IInv, Closing, NoneNew, SameRoute
<1> QED
  BY <1>1, <1>2

LEMMA GetPendingStep ==
    ASSUME IInv, GetPending PROVE IInv'
<1> DEFINE c == pending
<1>1. /\ UNCHANGED <<at, opts, transport, hop, state, result>>
      /\ dialer.at = "want" /\ pending # 0 /\ pending' = 0 /\ dialer' = NoDial
      /\ Delivered(c, conn)
  BY DEF GetPending
<1>2. c \in 1..Len(conn) /\ dialer.conn = 0 /\ at # "probe"
  BY <1>1, Dialing DEF IInv, TypeOK, DialInv
<1>3. /\ path = "utls" /\ hop.tls /\ conn[c].open /\ conn[c].host = hop.host
      /\ conn[c].proto \notin {"none", "clear"}
      /\ state.set /\ conn[c].proto = state.proto
  BY <1>1, <1>2, ConnTypes DEF IInv, PendingInv, OpenInv, Tls
<1>4. /\ Closing /\ \A i \in 1..Len(conn) : i # c => conn'[i] = conn[i]
      /\ conn'[c].host = conn[c].host /\ conn'[c].proto = conn[c].proto
      /\ at = "do" => cur' = c /\ conn' = conn
      /\ at # "do" => UNCHANGED cur /\ (transport = "http2" \/ ~conn'[c].open)
  BY <1>1, <1>2, <1>3, DeliveredAsIs DEF MayStay
<1>5. state' \in StateTypes /\ StateInv' /\ LastInv' /\ NoneNew
  BY <1>1, <1>4, ClosingLast
  DEF IInv, TypeOK, StateTypes, StateInv, Recording, EchOffered, path, Closing
<1> HIDE DEF c
<1>6. dialer.at # "none" /\ c = pending
  BY <1>1 DEF c
<1> QED
  BY <1>1, <1>2, <1>3, <1>4, <1>5, <1>6, DeliveredStep

LEMMA DialedCleartextStep ==
    ASSUME IInv, DialedCleartext PROVE IInv'
<1> DEFINE c == dialer.conn
<1>1. /\ UNCHANGED <<at, opts, transport, hop, pending, state, result>>
      /\ dialer.at = "handshake" /\ ~hop.tls /\ dialer' = NoDial
      /\ Delivered(c, conn)
  BY DEF DialedCleartext
<1>2. /\ c # 0 /\ c \in 0..Len(conn) /\ pending = 0 /\ at # "probe"
      /\ conn[c].host = hop.host /\ conn[c].proto = "clear"
      /\ at = "do" => conn[c].open
  BY <1>1, Dialing DEF IInv, DialInv
<1>3. c \in 1..Len(conn)
  BY <1>2
<1>4. /\ Closing /\ \A i \in 1..Len(conn) : i # c => conn'[i] = conn[i]
      /\ conn'[c].host = conn[c].host /\ conn'[c].proto = conn[c].proto
      /\ at = "do" => cur' = c /\ conn' = conn
      /\ at # "do" => UNCHANGED cur /\ (transport = "http2" \/ ~conn'[c].open)
  BY <1>1, <1>2, <1>3, DeliveredAsIs DEF MayStay
<1>5. state' \in StateTypes /\ StateInv' /\ LastInv' /\ NoneNew
  BY <1>1, <1>4, ClosingLast
  DEF IInv, TypeOK, StateTypes, StateInv, Recording, EchOffered, path, Closing
<1> HIDE DEF c
<1>6. dialer.at # "none" /\ c = dialer.conn
  BY <1>1 DEF c
<1> QED
  BY <1>1, <1>2, <1>3, <1>4, <1>5, <1>6, DeliveredStep

\* record took the protocol: it is the one recorded before, if any was.
LEMMA HandshakeStep ==
    ASSUME IInv, NEW p \in Negotiable, NEW a \in EchAnswers, Handshake(p, a)
    PROVE  IInv'
<1> DEFINE c == dialer.conn
           conns == [conn EXCEPT ![c].proto = p, ![c].ech = a]
<1>0. a \in BOOLEAN /\ (path = "h3" => a = EchOffered)
  <2>1. EchOffered \in BOOLEAN
    BY DEF EchOffered
  <2> QED
    BY <2>1 DEF EchAnswers
<1>1. /\ UNCHANGED <<at, opts, transport, hop, pending, result>>
      /\ dialer.at = "handshake" /\ at # "probe" /\ hop.tls
      /\ dialer' = NoDial /\ Negotiated(p, a) /\ Delivered(c, conns)
  BY DEF Handshake
<1>2. /\ c # 0 /\ c \in 0..Len(conn) /\ pending = 0 /\ c = Len(conn)
      /\ conn[c].host = hop.host /\ conn[c].proto = "none"
      /\ at = "do" => conn[c].open
  BY <1>1, Dialing DEF IInv, DialInv
<1>3. c \in 1..Len(conn) /\ conn[c].open \in BOOLEAN
  BY <1>2, ConnTypes DEF IInv, Conns
<1>4. /\ at = "do" => cur' = c /\ conn' = conns
      /\ at # "do" => UNCHANGED cur
      /\ \/ conn' = conns
         \/ conn' = [conns EXCEPT ![c].open = FALSE]
      /\ at # "do" => \/ transport = "http2" \/ MayStay(conns[c])
                      \/ conn' = [conns EXCEPT ![c].open = FALSE]
  BY <1>1 DEF Delivered
<1>5. /\ NoneNew
      /\ conn'[c].host = conn[c].host /\ conn'[c].proto = p
      /\ conn'[c].ech = a
      /\ conn' = conns => conn'[c].open = conn[c].open
      /\ conn' = [conns EXCEPT ![c].open = FALSE] => conn'[c].open = FALSE
      /\ \A i \in 1..Len(conn) : i # c => conn'[i] = conn[i]
  <2>1. TypeOK /\ conn[c].proto # "clear"
    BY <1>2 DEF IInv
  <2>2. ASSUME conn' = conns
        PROVE  /\ NoneNew
               /\ conn'[c].host = conn[c].host /\ conn'[c].proto = p
               /\ conn'[c].ech = a /\ conn'[c].open = conn[c].open
               /\ \A i \in 1..Len(conn) : i # c => conn'[i] = conn[i]
    BY <1>0, <1>3, <2>1, <2>2, ShakenConn
  <2>3. ASSUME conn' = [conns EXCEPT ![c].open = FALSE]
        PROVE  /\ NoneNew
               /\ conn'[c].host = conn[c].host /\ conn'[c].proto = p
               /\ conn'[c].ech = a /\ conn'[c].open = FALSE
               /\ \A i \in 1..Len(conn) : i # c => conn'[i] = conn[i]
    BY <1>0, <1>3, <2>1, <2>3, ShakenConn
  <2> HIDE DEF c, conns
  <2> QED
    BY <1>4, <2>2, <2>3
<1>6. p \in Protos /\ p \notin {"none", "clear"}
  BY NegotiableProtos
<1>7. /\ Recording => state' = [set |-> TRUE, proto |-> p, ech |-> a]
      /\ ~Recording => state' = state
      /\ Recording /\ state.set => state.proto = p
  BY <1>1 DEF Negotiated, RecordRefused
<1>8. state' \in StateTypes
  <2>1. CASE Recording
    BY <1>0, <1>6, <1>7, <2>1, RecordedTypes
  <2>2. CASE ~Recording
    BY <1>7, <2>2 DEF IInv, TypeOK, StateTypes
  <2> QED
    BY <2>1, <2>2
<1>9. StateInv'
  <2>1. state'.set => Recording /\ (path = "h3" => state'.ech = EchOffered)
    BY <1>0, <1>7 DEF IInv, StateInv
  <2> QED
    BY <1>1, <2>1 DEF StateInv, Recording, EchOffered, path
<1>10. state.set => state'.set /\ state'.proto = state.proto
  BY <1>7
<1>11. path = "utls" => state'.set /\ conn'[c].proto = state'.proto
  BY <1>5, <1>7 DEF Recording
<1>12. path = "h3" => conn'[c].proto = "h3" /\ conn'[c].ech = EchOffered
  BY <1>0, <1>5 DEF Negotiable
<1>13. at # "do" => \/ transport = "http2" \/ ~conn'[c].open
                    \/ MayStay(conn'[c]) /\ c = Len(conn)
  <2>1. conns[c].proto = p
    BY <1>3, ConnTypes DEF IInv, Conns
  <2> QED
    BY <1>2, <1>4, <1>5, <2>1 DEF MayStay
<1> HIDE DEF conns
<1>14. PICK k \in 1..Len(conn) : k = c
  BY <1>3
<1>15. LastInv'
  <2>1. DOMAIN conn' = 1..Len(conn) /\ Len(conn) \in Nat
    BY <1>5, ConnTypes, DomainNext DEF IInv, NoneNew
  <2>2. SUFFICES ASSUME path \in {"utls", "stdH2"},
                        NEW i \in 1..Len(conn), LastHandshake(i)'
                 PROVE  state'.ech = conn'[i].ech
    BY <1>1, <2>1 DEF LastInv, path
  <2>3. i = k
    <3> SUFFICES ASSUME i # k PROVE FALSE
      OBVIOUS
    <3>1. k > i
      BY <1>2, <1>14, <2>1
    <3>2. conn'[k].proto \in {"none", "clear"}
      BY <2>1, <2>2, <3>1 DEF LastHandshake
    <3> QED
      BY <1>5, <1>6, <1>14, <3>2
  <2> QED
    BY <1>5, <1>7, <1>14, <2>2, <2>3 DEF Recording
<1>16. at = "do" => cur' = c /\ conn'[c].open
  BY <1>2, <1>4, <1>5
<1>17. at # "do" => UNCHANGED cur
  BY <1>4
<1> HIDE DEF c
<1>18. dialer.at # "none" /\ c = dialer.conn
  BY <1>1 DEF c
<1> QED
  BY <1>1, <1>2, <1>3, <1>5, <1>6, <1>8, <1>9, <1>10, <1>11, <1>12, <1>13,
     <1>15, <1>16, <1>17, <1>18, DeliveredStep

-----------------------------------------------------------------------------
(* The theorems *)

LEMMA InitIInv == Init => IInv
<1> SUFFICES ASSUME Init PROVE IInv
  OBVIOUS
<1>1. /\ at = "call" /\ opts \in Calls /\ transport = "none"
      /\ hop = [host |-> Origin, tls |-> opts.scheme = "https", redirects |-> 0]
      /\ cur = 0 /\ dialer = NoDial /\ pending = 0
      /\ state = [set |-> FALSE, proto |-> "", ech |-> FALSE]
      /\ result = [err |-> "none", ech |-> FALSE, via |-> 0]
  BY DEF Init
<1>2. conn \in Seq(Conns) /\ Len(conn) = 0 /\ 0 \in 0..Len(conn)
  <2>1. conn = <<>>
    BY DEF Init
  <2>2. conn \in Seq(Conns) /\ Len(conn) = 0
    BY <2>1, EmptySeq
  <2> QED
    BY <2>2
<1>3. DOMAIN conn = {}
  BY <1>2, LenProperties
<1>4. TypeOK
  <2>1. hop \in [host : Hosts, tls : BOOLEAN, redirects : 0..MaxRedirects]
    <3>1. Origin \in Hosts /\ 0 \in 0..MaxRedirects
          /\ (opts.scheme = "https") \in BOOLEAN
      BY ConstantsAssumption DEF Hosts
    <3> QED
      BY <1>1, <3>1
  <2>2. /\ dialer \in [at : {"none", "want", "connect", "handshake"},
                       conn : 0..Len(conn)]
        /\ cur \in 0..Len(conn) /\ pending \in 0..Len(conn)
    BY <1>1, <1>2 DEF NoDial
  <2>3. state \in [set : BOOLEAN, proto : Protos, ech : BOOLEAN]
    BY <1>1 DEF Protos
  <2>4. result \in [err : {"none", "options", "build", "refused", "failed"},
                    ech : BOOLEAN, via : 0..Len(conn)]
    BY <1>1, <1>2
  <2> QED
    BY <1>1, <1>2, <2>1, <2>2, <2>3, <2>4 DEF TypeOK, Conns
<1>5. /\ hop.host = Origin /\ (hop.tls <=> opts.scheme = "https")
      /\ ~state.set /\ dialer.at = "none" /\ dialer.conn = 0 /\ result.via = 0
  BY <1>1 DEF NoDial
<1>6. ValidInv /\ ChoiceInv /\ PhaseInv /\ DialInv
  <2>1. ValidInv /\ ChoiceInv
    <3>1. ~Begun
      BY <1>2, <1>5 DEF Begun
    <3> QED
      BY <1>1, <3>1 DEF ValidInv, ChoiceInv
  <2>2. PhaseInv /\ DialInv
    BY <1>1, <1>2, <1>5 DEF PhaseInv, DialInv, Early
  <2> QED
    BY <2>1, <2>2
<1>7. PendingInv /\ RequestOnItsConnection /\ OwnerInv /\ OpenInv /\ StateInv
      /\ LastInv /\ ResultInv
  BY <1>1, <1>3, <1>5
  DEF PendingInv, RequestOnItsConnection, OwnerInv, OpenInv, StateInv, LastInv,
      ResultInv, EchAcceptedIsGroundTruth
<1>8. OptionsTakeEffect /\ NoiseIsBounded
  BY <1>3 DEF OptionsTakeEffect, NoiseIsBounded
<1> QED
  BY <1>4, <1>6, <1>7, <1>8 DEF IInv

LEMMA StutterStep ==
    ASSUME IInv, UNCHANGED vars PROVE IInv'
<1>1. UNCHANGED <<at, opts, transport, hop, conn, cur, dialer, pending, state,
                  result>>
  BY DEF vars
<1>2. TypeOK'
  BY <1>1 DEF IInv, TypeOK
<1>3. RouteInv'
  BY <1>1, ConnUnchanged, RoutesKept DEF IInv, Closing
<1>4. ValidInv' /\ ChoiceInv' /\ PhaseInv' /\ DialInv' /\ StateInv'
  BY <1>1
  DEF IInv, ValidInv, ChoiceInv, PhaseInv, DialInv, StateInv, Begun, path,
      EchOffered, Recording
<1>5. PendingInv' /\ RequestOnItsConnection' /\ OwnerInv' /\ OpenInv'
      /\ LastInv'
  BY <1>1
  DEF IInv, PendingInv, RequestOnItsConnection, OwnerInv, OpenInv, LastInv,
      LastHandshake, GivenUp, MayStay, path, EchOffered
<1>6. ResultInv'
  BY <1>1
  DEF IInv, ResultInv, EchAcceptedIsGroundTruth, LastHandshake, path
<1> QED
  BY <1>2, <1>3, <1>4, <1>5, <1>6 DEF IInv, RouteInv

LEMMA NextIInv ==
    ASSUME IInv, [Next]_vars PROVE IInv'
BY CallSteps, BuildStep, BuildProbeStep, ProbeNegotiatedStep, ProbeFailsStep,
   ReuseStep, WantStep, ConnectedStep, ResponseStep, RedirectStep,
   DoFailsStep, ReadBodyStep, CleanupStep, DialStep, DialFailsStep,
   HandshakeRefusedStep, GetPendingStep, DialedCleartextStep, HandshakeStep,
   StutterStep
DEF Next, Finished

\* The inductive invariant holds of every call.
THEOREM Invariant == Spec => []IInv
<1>1. Init => IInv
  BY InitIInv
<1>2. IInv /\ [Next]_vars => IInv'
  BY NextIInv
<1> QED
  BY <1>1, <1>2, PTL DEF Spec

\* Every variable has its type in every state of every call.
THEOREM TypeCorrect == Spec => []TypeOK
<1>1. IInv => TypeOK
  BY DEF IInv
<1> QED
  BY <1>1, Invariant, PTL

\* A request is only written to an open connection of its own host and
\* scheme that nobody else holds, however the dial, the cleanup and the
\* redirects interleave (handoffDialer, fetch.go:731-749).
THEOREM RequestAlwaysOnItsConnection == Spec => []RequestOnItsConnection
<1>1. IInv => RequestOnItsConnection
  BY DEF IInv
<1> QED
  BY <1>1, Invariant, PTL

\* A call that has returned, and whose last dial has ended, leaves no
\* connection open but in the pools of HTTP/2: of x/net/http2, or of net/http
\* when the caller gave up on the dial.
THEOREM CallLeavesNothingOpen == Spec => []NothingLeftOpen
<1>1. IInv => NothingLeftOpen
  <2> SUFFICES ASSUME IInv, at = "returned", dialer = NoDial
               PROVE  /\ pending = 0
                      /\ \A i \in DOMAIN conn :
                           conn[i].open => transport = "http2" \/ GivenUp(i)
    BY DEF NothingLeftOpen
  <2>1. pending = 0 /\ cur = 0 /\ dialer.conn = 0
    BY DEF IInv, PhaseInv, NoDial
  <2>2. \A i \in DOMAIN conn : i # 0
    BY ConnTypes DEF IInv
  <2> QED
    BY <2>1, <2>2 DEF IInv, OwnerInv
<1> QED
  BY <1>1, Invariant, PTL

\* On the uTLS and the h3 path a response is read by the transport of the
\* HTTP version its connection negotiated, also after redirects.
THEOREM VersionAlwaysTheTransports == Spec => []VersionIsTheTransports
<1>1. IInv => VersionIsTheTransports
  <2> SUFFICES ASSUME IInv, cur # 0, path \in {"utls", "h3"}, hop.tls
               PROVE  transport = "http2" <=> conn[cur].proto = "h2"
    BY DEF VersionIsTheTransports
  <2>1. /\ at \in {"do", "read"} /\ dialer.conn = 0 /\ cur \in DOMAIN conn
        /\ conn[cur].open /\ conn[cur].proto # "clear"
    BY ConnTypes DEF IInv, PhaseInv, NoDial, TypeOK, RequestOnItsConnection
  <2>2. Tls(conn[cur])
    BY <2>1 DEF IInv, OpenInv, Tls
  <2>3. transport # "none"
    BY <2>1 DEF IInv, TypeOK
  <2>4. CASE path = "utls"
    BY <2>1, <2>2, <2>3, <2>4 DEF IInv, OpenInv, ChoiceInv
  <2>5. CASE path = "h3"
    BY <2>1, <2>2, <2>3, <2>5 DEF IInv, OpenInv, ChoiceInv
  <2> QED
    BY <2>4, <2>5
<1> QED
  BY <1>1, Invariant, PTL

\* What a call reports of ECH is what the server did with the offer on the
\* connection of the response it returns (echAcceptedFrom); on the paths whose
\* recording is one for the whole chain, if that was the last handshake.
THEOREM EchAcceptedAlwaysTrue == Spec => []EchAcceptedIsGroundTruth
<1>1. IInv => EchAcceptedIsGroundTruth
  BY DEF IInv, ResultInv
<1> QED
  BY <1>1, Invariant, PTL

\* Options that validate accepted for an https url, a wnoisecount without wnoise
\* excepted, take effect on every TLS connection of the call.
THEOREM OptionsAlwaysTakeEffect == Spec => []OptionsTakeEffect
<1>1. IInv => OptionsTakeEffect
  BY DEF IInv
<1> QED
  BY <1>1, Invariant, PTL

\* No burst exceeds noiseMaxCount, whatever range the option names.
THEOREM NoiseAlwaysBounded == Spec => []NoiseIsBounded
<1>1. IInv => NoiseIsBounded
  BY DEF IInv
<1> QED
  BY <1>1, Invariant, PTL

=============================================================================
