--------------------------- MODULE FetchTransport ---------------------------
(***************************************************************************)
(* One call of FetchWeb or ResolveDoH (libv2ray_fetch.go), from validate   *)
(* to the return: the transport that the options choose (Options), the     *)
(* connections that are dialed for the request and its redirects, directly *)
(* or through a proxy, the connState they record, the handoffDialer of the *)
(* uTLS path, and the cleanup.                                             *)
(*                                                                         *)
(* Two goroutines take part: the caller, which waits in http.Client.Do     *)
(* until a response or its deadline comes, and the transport's dial, which *)
(* goes on when the caller has given up.  At most one dial is under way.   *)
(*                                                                         *)
(* http.Client, http.Transport, http2.Transport and http3.Transport are    *)
(* external.  http.Transport runs with DisableKeepAlives and closes a      *)
(* connection after its response; the other two keep theirs in a pool.     *)
(***************************************************************************)
EXTENDS Options

CONSTANTS
    Calls,          \* the option records of the calls
    Origin,         \* the host of the request's url
    Others,         \* hosts a redirect may lead to besides
    MaxRedirects,   \* redirects http.Client follows (10)
    MaxDials        \* bound: connections dialed

ASSUME ConstantsAssumption ==
    /\ Calls \subseteq transportOptions
    /\ Origin \notin Others
    /\ MaxRedirects \in Nat /\ MaxDials \in Nat

VARIABLES
    at,         \* the caller: "call", "build", "probe", "do", "read",
                \* "cleanup" or "returned"
    opts,       \* the options of the call
    transport,  \* which transport reads the connections
    hop,        \* host and scheme of the request under way, redirects so far
    conn,       \* the connections, in the order they were dialed
    cur,        \* the connection that carries the request; 0 while waiting
    dialer,     \* the dial under way
    pending,    \* handoffDialer.pending; 0 is nil
    state,      \* connState
    result      \* RespError, EchAccepted and the connection of the response

vars == <<at, opts, transport, hop, conn, cur, dialer, pending, state, result>>

path == Branch(opts)
mode == opts.alpn
EchOffered == path # "plain" /\ opts.ech = "enabled"

Hosts == Others \cup {Origin}
NoDial == [at |-> "none", conn |-> 0]

\* An empty NegotiatedProtocol is HTTP/1.1.
negotiatedName(p) == IF p = "" THEN "http/1.1" ELSE p

\* What a peer may select from the offer of each path.
Negotiable ==
    CASE path = "stdH2" -> {"", "h2"}
      [] path = "h3"    -> {"h3"}
      [] path = "std" /\ mode = "h1" -> {"", "http/1.1"}
      [] path = "plain" -> {""}
      [] OTHER          -> {"", "http/1.1", "h2"}

\* On the uTLS path the alpn option is checked after the handshake.
AlpnRefused(p) ==
    /\ path = "utls" /\ mode # "auto"
    /\ negotiatedName(p) # IF mode = "h2" THEN "h2" ELSE "http/1.1"

\* The dialers that call connState.record, and the connections it refuses.
Recording == path \in {"utls", "stdH2", "h3"}

\* A record that accepts whatever was negotiated.
RecordRefusedNever(p) == FALSE

RecordRefused(p) == Recording /\ state.set /\ state.proto # p

\* Who keeps a connection when the request on it is over.
Pooling == transport \in {"http2", "http3"}
Close(c) == [conn EXCEPT ![c].open = FALSE]
Release(c) == IF c = 0 \/ Pooling THEN conn ELSE Close(c)

Init ==
    /\ at = "call"
    /\ opts \in Calls
    /\ transport = "none"
    /\ hop = [host |-> Origin, tls |-> opts.scheme = "https", redirects |-> 0]
    /\ conn = <<>>
    /\ cur = 0
    /\ dialer = NoDial
    /\ pending = 0
    /\ state = [set |-> FALSE, proto |-> "", ech |-> FALSE]
    /\ result = [err |-> "none", ech |-> FALSE, via |-> 0]

-----------------------------------------------------------------------------
(* Dialing and the handshake: rawDial, dialTLS, stdTLSDial, the Dial of h3 *)

\* Connections that rawDial makes.  The transport of the uTLS path has a dialer
\* of its own for TLS only, and net/http dials for an http:// redirect.
RawDialed(tls) == path # "h3" /\ (tls \/ path # "utls")

\* The options such a dialer and the handshake after it honour.  A proxy puts
\* fragments together again.
Honoured(tls) ==
    (IF RawDialed(tls) THEN {"proxy", "ip"} ELSE {})
      \cup (IF RawDialed(tls) /\ opts.proxy = "none" THEN {"fragment"} ELSE {})
      \cup (IF tls /\ path # "plain" THEN {"serverName", "ech"} ELSE {})
      \cup (IF tls /\ path = "utls" THEN {"fingerprint"} ELSE {})
      \cup (IF path = "h3" THEN {"ip", "wnoise", "quicVersion"} ELSE {})
      \cup (IF path = "h3" /\ opts.wnoise # "none" THEN {"wnoisecount"} ELSE {})

\* A dial has a connection to host h, or to the http proxy on the way there.
\* On the h3 path the noise has gone out before the first packet.
Opened(h, tls) ==
    /\ Len(conn) < MaxDials
    /\ RawDialed(tls) => opts.proxy # "bad"
    /\ \E n \in IF path = "h3" THEN Burst(opts) ELSE {0} :
         conn' = Append(conn, [host |-> h, noise |-> n,
                               how |-> Asked(opts) \cap Honoured(tls),
                               proto |-> IF tls THEN "none" ELSE "clear",
                               ech |-> FALSE, open |-> TRUE])
    /\ dialer' = [at |-> IF RawDialed(tls) /\ opts.proxy = "http"
                           THEN "connect" ELSE "handshake",
                  conn |-> Len(conn) + 1]

\* proxyConnect: the proxy has answered 200 and nothing after it.
Connected ==
    /\ dialer.at = "connect"
    /\ dialer' = [dialer EXCEPT !.at = "handshake"]
    /\ UNCHANGED <<at, opts, transport, hop, conn, cur, pending, state, result>>

\* What may become of the offer of ECH in a handshake that completes: on TCP the
\* server may have declined it; h3 takes a completed handshake for an accepted
\* offer, since both TLS stacks fail on a refusal.
EchAnswers ==
    IF ~EchOffered THEN {FALSE} ELSE IF path = "h3" THEN {TRUE} ELSE BOOLEAN

\* A handshake negotiated p, and a for ECH, and record took it.
Negotiated(p, a) ==
    /\ p \in Negotiable /\ a \in EchAnswers
    /\ ~AlpnRefused(p) /\ ~RecordRefused(p)
    /\ state' = IF Recording THEN [set |-> TRUE, proto |-> p, ech |-> a]
                             ELSE state

\* A dialTLS that does not close what record refuses.
RefusedKept(c, p) ==
    /\ p \in Negotiable
    /\ AlpnRefused(p) \/ RecordRefused(p)
    /\ conn' = [conn EXCEPT ![c].proto = p]

\* The handshake negotiated p, but the connection is refused and closed.
Refused(c, p) ==
    /\ p \in Negotiable
    /\ AlpnRefused(p) \/ RecordRefused(p)
    /\ conn' = [conn EXCEPT ![c].proto = p, ![c].open = FALSE]

-----------------------------------------------------------------------------
(* FetchWeb up to roundTripper, and roundTripper *)

Refuse ==
    /\ at = "call"
    /\ opts.scheme = "bad" \/ ~validate(opts)
    /\ at' = "returned"
    /\ result' = [result EXCEPT !.err = "options"]
    /\ UNCHANGED <<opts, transport, hop, conn, cur, dialer, pending, state>>

Accept ==
    /\ at = "call"
    /\ opts.scheme # "bad" /\ validate(opts)
    /\ at' = "build"
    /\ UNCHANGED <<opts, transport, hop, conn, cur, dialer, pending, state,
                   result>>

\* There is no branch, its fragment, ECH or fingerprint part fails, or the first
\* dial of the uTLS path: there is no transport, and no cleanup.
BuildFails ==
    /\ at = "build"
    /\ at' = "returned"
    /\ result' = [result EXCEPT !.err = "build"]
    /\ UNCHANGED <<opts, transport, hop, conn, cur, dialer, pending, state>>

Build ==
    /\ at = "build"
    /\ path \notin {"none", "utls"}
    /\ transport' = CASE path = "stdH2" -> "http2"
                      [] path = "h3"    -> "http3"
                      [] OTHER          -> "http"
    /\ at' = "do"
    /\ UNCHANGED <<opts, hop, conn, cur, dialer, pending, state, result>>

\* "Probe once so ALPN is known before the protocol is chosen".
BuildProbe ==
    /\ at = "build"
    /\ path = "utls"
    /\ Opened(Origin, TRUE)
    /\ at' = "probe"
    /\ UNCHANGED <<opts, transport, hop, cur, pending, state, result>>

ProbeNegotiated(p, a) ==
    LET c == dialer.conn IN
    /\ at = "probe" /\ dialer.at = "handshake"
    /\ Negotiated(p, a)
    /\ conn' = [conn EXCEPT ![c].proto = p, ![c].ech = a]
    /\ pending' = c
    /\ dialer' = NoDial
    /\ transport' = IF state'.proto = "h2" THEN "http2" ELSE "http"
    /\ at' = "do"
    /\ UNCHANGED <<opts, hop, cur, result>>

\* A roundTripper that loses the error of the probe and returns no transport.
ProbeFailsUnreported ==
    /\ at = "probe"
    /\ \/ conn' = Close(dialer.conn)
       \/ dialer.at = "handshake" /\ \E p \in Negotiable : Refused(dialer.conn, p)
    /\ dialer' = NoDial
    /\ at' = "do"
    /\ UNCHANGED <<opts, transport, hop, cur, pending, state, result>>

ProbeFails ==
    /\ at = "probe"
    /\ \/ conn' = Close(dialer.conn)
       \/ dialer.at = "handshake" /\ \E p \in Negotiable : Refused(dialer.conn, p)
    /\ dialer' = NoDial
    /\ at' = "returned"
    /\ result' = [result EXCEPT !.err = "build"]
    /\ UNCHANGED <<opts, transport, hop, cur, pending, state>>

-----------------------------------------------------------------------------
(* http.Client.Do: connections *)

Reusable(i) == i # pending /\ conn[i].open /\ conn[i].host = hop.host

Waiting == at = "do" /\ cur = 0 /\ dialer = NoDial

\* http2.Transport and http3.Transport have a connection to the host.
Reuse ==
    /\ Waiting
    /\ hop.tls
    /\ Pooling
    /\ \E i \in DOMAIN conn : Reusable(i) /\ cur' = i
    /\ UNCHANGED <<at, opts, transport, hop, conn, dialer, pending, state,
                   result>>

\* The transport starts a goroutine that will call its dial function.  Only
\* net/http does so for an http:// request.
Want ==
    /\ Waiting
    /\ hop.tls \/ transport = "http"
    /\ ~(Pooling /\ \E i \in DOMAIN conn : Reusable(i))
    /\ dialer' = [NoDial EXCEPT !.at = "want"]
    /\ UNCHANGED <<at, opts, transport, hop, conn, cur, pending, state,
                   result>>

\* A connection for a caller that waits, or for one that has gone: then
\* http2.Transport keeps it, http3.Transport is closed already, and
\* http.Transport closes it, unless it negotiated h2 by itself: such a connection
\* is in a pool that DisableKeepAlives empties only after a request.
MayStay(c) == path = "std" /\ c.proto = "h2"

Delivered(c, conns) ==
    IF at = "do" THEN cur' = c /\ conn' = conns
    ELSE /\ \/ conn' = conns /\ (transport = "http2" \/ MayStay(conns[c]))
            \/ conn' = [conns EXCEPT ![c].open = FALSE] /\ transport # "http2"
         /\ UNCHANGED cur

\* A get that leaves the connection pending.
GetPendingKept ==
    /\ dialer.at = "want"
    /\ pending # 0
    /\ Delivered(pending, conn)
    /\ dialer' = NoDial
    /\ UNCHANGED <<at, opts, transport, hop, pending, state, result>>

\* handoffDialer.get hands out the connection made by roundTripper...
GetPending ==
    /\ dialer.at = "want"
    /\ pending # 0
    /\ Delivered(pending, conn)
    /\ pending' = 0
    /\ dialer' = NoDial
    /\ UNCHANGED <<at, opts, transport, hop, state, result>>

\* ...and dials anew for anything after it.  The UDP socket of h3 is gone once
\* the cleanup has run.
Dial ==
    /\ dialer.at = "want"
    /\ pending = 0
    /\ path = "h3" => at = "do"
    /\ Opened(hop.host, hop.tls)
    /\ UNCHANGED <<at, opts, transport, hop, cur, pending, state, result>>

\* An http:// request needs no handshake.
DialedCleartext ==
    /\ dialer.at = "handshake" /\ ~hop.tls
    /\ Delivered(dialer.conn, conn)
    /\ dialer' = NoDial
    /\ UNCHANGED <<at, opts, transport, hop, pending, state, result>>

Handshake(p, a) ==
    LET c == dialer.conn IN
    /\ dialer.at = "handshake" /\ at # "probe" /\ hop.tls
    /\ path = "h3" => at # "returned"
    /\ Negotiated(p, a)
    /\ Delivered(c, [conn EXCEPT ![c].proto = p, ![c].ech = a])
    /\ dialer' = NoDial
    /\ UNCHANGED <<at, opts, transport, hop, pending, result>>

\* The dial fails; a caller that still waits gets the error.
DialError(e) ==
    /\ dialer' = NoDial
    /\ IF at = "do" THEN at' = "cleanup" /\ result' = [result EXCEPT !.err = e]
                    ELSE UNCHANGED <<at, result>>
    /\ UNCHANGED <<opts, transport, hop, cur, pending, state>>

DialFails ==
    /\ \/ dialer.at = "want" /\ pending = 0 /\ UNCHANGED conn
       \/ /\ dialer.at \in {"connect", "handshake"} /\ at # "probe"
          /\ conn' = Close(dialer.conn)
    /\ DialError("failed")

HandshakeRefused(p) ==
    /\ dialer.at = "handshake" /\ at # "probe" /\ hop.tls
    /\ Refused(dialer.conn, p)
    /\ DialError("refused")

-----------------------------------------------------------------------------
(* http.Client.Do: requests, and what FetchWeb does with the response *)

\* The next hop of a redirect; the connection is released.
Redirect(h, tls) ==
    /\ at = "do"
    /\ cur # 0
    /\ hop.redirects < MaxRedirects
    /\ hop' = [host |-> h, tls |-> tls, redirects |-> hop.redirects + 1]
    /\ conn' = Release(cur)
    /\ cur' = 0
    /\ UNCHANGED <<at, opts, transport, dialer, pending, state, result>>

\* Do returns an error: the deadline, a broken connection, a scheme the
\* transport does not speak, too many redirects.
DoFails ==
    /\ at = "do"
    /\ at' = "cleanup"
    /\ conn' = Release(cur)
    /\ cur' = 0
    /\ result' = [result EXCEPT !.err = "failed"]
    /\ UNCHANGED <<opts, transport, hop, dialer, pending, state>>

Response ==
    /\ at = "do"
    /\ cur # 0
    /\ at' = "read"
    /\ UNCHANGED <<opts, transport, hop, conn, cur, dialer, pending, state,
                   result>>

\* An echAcceptedFrom that takes the offer for the answer.
echAcceptedFromOffer(c) == EchOffered

\* echAcceptedFrom: the recording, or else Response.TLS.
echAcceptedFrom(c) == IF state.set THEN state.ech ELSE conn[c].ech

\* The body is read, or reading it fails; it is closed either way.
ReadBody ==
    /\ at = "read"
    /\ at' = "cleanup"
    /\ \/ result' = [result EXCEPT !.err = "failed"]
       \/ result' = [result EXCEPT !.ech = echAcceptedFrom(cur), !.via = cur]
    /\ conn' = Release(cur)
    /\ cur' = 0
    /\ UNCHANGED <<opts, transport, hop, dialer, pending, state>>

\* The deferred cleanup: handoff.discard, the three closes of h3, or nothing.
Cleanup ==
    /\ at = "cleanup"
    /\ at' = "returned"
    /\ conn' = IF path = "h3"
                 THEN [i \in DOMAIN conn |-> [conn[i] EXCEPT !.open = FALSE]]
                 ELSE IF pending # 0 THEN Close(pending) ELSE conn
    /\ pending' = 0
    /\ UNCHANGED <<opts, transport, hop, cur, dialer, state, result>>

Finished == at = "returned" /\ dialer = NoDial /\ UNCHANGED vars

Next ==
    \/ Refuse \/ Accept \/ BuildFails \/ Build \/ BuildProbe \/ ProbeFails
    \/ \E p \in Negotiable, a \in EchAnswers :
         ProbeNegotiated(p, a) \/ Handshake(p, a)
    \/ \E p \in Negotiable : HandshakeRefused(p)
    \/ Reuse \/ Want \/ GetPending \/ Dial \/ DialFails
    \/ Connected \/ DialedCleartext
    \/ \E h \in Hosts, tls \in BOOLEAN : Redirect(h, tls)
    \/ DoFails \/ Response \/ ReadBody \/ Cleanup
    \/ Finished

Spec == Init /\ [][Next]_vars

-----------------------------------------------------------------------------
(* Properties *)

Protos == {"none", "clear", "", "http/1.1", "h2", "h3"}

\* The type of every variable; a transport is there while it is used.
TypeOK ==
    /\ at \in {"call", "build", "probe", "do", "read", "cleanup", "returned"}
    /\ opts \in Calls
    /\ transport \in {"none", "http", "http2", "http3"}
    /\ at \in {"do", "read", "cleanup"} => transport # "none"
    /\ hop \in [host : Hosts, tls : BOOLEAN, redirects : 0..MaxRedirects]
    /\ conn \in Seq([host : Hosts, noise : Nat, how : SUBSET DOMAIN Defaults,
                     proto : Protos, ech : BOOLEAN, open : BOOLEAN])
    /\ cur \in 0..Len(conn)
    /\ dialer \in [at : {"none", "want", "connect", "handshake"},
                   conn : 0..Len(conn)]
    /\ pending \in 0..Len(conn)
    /\ state \in [set : BOOLEAN, proto : Protos, ech : BOOLEAN]
    /\ result \in [err : {"none", "options", "build", "refused", "failed"},
                   ech : BOOLEAN, via : 0..Len(conn)]

\* A request is only ever written to a connection that is open, was dialed for
\* the host of the hop, and is nobody else's: the connection roundTripper made
\* is handed out once (fetch.go:731-740), although the dial that takes it and
\* the cleanup that discards it (742-749) may run at the same time.
RequestOnItsConnection ==
    cur # 0 => /\ conn[cur].open
               /\ conn[cur].host = hop.host
               /\ conn[cur].proto = "clear" <=> ~hop.tls
               /\ cur # pending

\* When the call has returned and its last dial has ended, no connection is
\* open but those in the pools of HTTP/2, which have no cleanup: those of
\* x/net/http2 (fetch.go:805-809, 870-875), and one the caller gave up on while
\* net/http dialed it and which then negotiated h2.  Every error path of dialTLS
\* closes what it opened, and no other dial that outlives its caller leaves
\* anything.
GivenUp(i) == MayStay(conn[i]) /\ i = Len(conn) /\ result.err = "failed"
NothingLeftOpen ==
    at = "returned" /\ dialer = NoDial =>
        /\ pending = 0
        /\ \A i \in DOMAIN conn :
             conn[i].open => transport = "http2" \/ GivenUp(i)

\* "the negotiated protocol selects between net/http and x/net/http2
\* explicitly" (fetch.go:757-758) and "Redirects that cross an HTTP-version
\* boundary fail with an explicit error rather than corrupt output"
\* (README_fetch.md:854): no connection of a redirect chain is read by a
\* transport of another HTTP version.  On the stdH2 path the transport is
\* chosen without looking at what was negotiated (fetch.go:801-809), and on
\* the std path net/http chooses.
VersionIsTheTransports ==
    cur # 0 /\ path \in {"utls", "h3"} /\ hop.tls =>
        (transport = "http2" <=> conn[cur].proto = "h2")

\* "EchAccepted is the ground truth, not 'a config was found'" (README_fetch.
\* md:843-845; echAcceptedFrom, fetch.go:701-721): what a call reports of ECH is
\* what the server did with the offer on the connection that carried the
\* response.  Where the recording is one for the whole chain and connections
\* differ (utls and stdH2), it is that of the last handshake: for a response in
\* cleartext, or on a connection taken from the pool after another was dialed,
\* the report is not about the connection of the response.
LastHandshake(i) ==
    /\ conn[i].proto # "clear"
    /\ \A j \in DOMAIN conn : j > i => conn[j].proto \in {"none", "clear"}
EchAcceptedIsGroundTruth ==
    result.via # 0 /\ (path \in {"utls", "stdH2"} => LastHandshake(result.via))
      => result.ech = conn[result.via].ech

\* "Some combinations are refused rather than silently ignored" (README_fetch.
\* md:21-22; fetch.go:277-303): once validate has accepted the options of an
\* https url, each of them takes effect on every TLS connection of the redirect
\* chain, but for a wnoisecount without wnoise.  (That one is accepted and
\* ignored on every path, although README_fetch.md:495 has it refused on TCP;
\* and with an http:// url validate accepts fingerprint and ech, which
\* roundTripper then ignores.)
Moot == IF opts.wnoise = "none" THEN {"wnoisecount"} ELSE {}
OptionsTakeEffect ==
    path # "plain" =>
        \A i \in DOMAIN conn :
            conn[i].proto # "clear" => Asked(opts) \ Moot \subseteq conn[i].how

\* "To go through xray instead, set proxy" (README_fetch.md:91): no connection
\* of a call with a proxy is made without it.
ProxyIsUsed ==
    opts.proxy # "none" => \A i \in DOMAIN conn : "proxy" \in conn[i].how

\* The ceilings "exist so a typo cannot turn into a long stall or a flood"
\* (noise.go:53-54): no burst is longer than noiseMaxCount, whatever the range
\* says and in whichever order its bounds come.
NoiseIsBounded == \A i \in DOMAIN conn : conn[i].noise <= noiseMaxCount

=============================================================================
