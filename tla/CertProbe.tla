----------------------------- MODULE CertProbe ------------------------------
(***************************************************************************)
(* ProbeCert (libv2ray_fetch_cert.go): one TCP handshake, or a QUIC        *)
(* handshake per rung of the version ladder after an optional noise burst  *)
(* (libv2ray_fetch_noise.go) on the same UDP socket, and the certificate   *)
(* chain that certSink collects from the verify callback.                  *)
(*                                                                         *)
(* A chain is the number of the attempt it was presented in.  The callback *)
(* runs on a goroutine of quic-go, so a chain may arrive after its attempt *)
(* was given up, while a later attempt is under way or the result is being *)
(* put together.  quicdial.Dial and quic-go are external.                  *)
(***************************************************************************)
EXTENDS Naturals, Sequences

CONSTANTS
    Rungs,      \* attempts of the version ladder (1 if quicVersion is pinned)
    MaxNoise    \* bound: datagrams of a noise burst

ASSUME ConstantsAssumption == Rungs \in Nat \ {0} /\ MaxNoise \in Nat

VARIABLES
    at,         \* where ProbeCert is
    proto,      \* the carrier: "tcp" or "h3"
    open,       \* what the probe has open
    deferred,   \* the closes a handshake function has deferred, last one first
    burst,      \* noise datagrams still to be sent
    flow,       \* the datagrams of the 4-tuple, in order
    attempt,    \* the handshake attempt under way; 0 before the first
    presented,  \* the attempts whose chain has reached the callback
    sink,       \* certSink.der
    handshakeErr,
    result      \* the CertResult

vars == <<at, proto, open, deferred, burst, flow, attempt, presented, sink,
          handshakeErr, result>>

NoResult == [Leaf |-> 0, HandshakeOK |-> FALSE, AlpnKnown |-> FALSE,
             RespError |-> ""]

Init ==
    /\ at = "parse"
    /\ proto \in {"tcp", "h3"}
    /\ open = {} /\ deferred = <<>> /\ burst = 0 /\ flow = <<>>
    /\ attempt = 0 /\ presented = {} /\ sink = 0
    /\ handshakeErr = "" /\ result = NoResult

-----------------------------------------------------------------------------
\* The options, the address or the alpn mode are refused.
Refuse ==
    /\ at = "parse"
    /\ at' = "returned"
    /\ result' = [NoResult EXCEPT !.RespError = "options"]
    /\ UNCHANGED <<proto, open, deferred, burst, flow, attempt, presented, sink,
                   handshakeErr>>

\* A handshake function comes to a return, having closed some things itself.
Return(err, closed) ==
    /\ at' = "returning"
    /\ handshakeErr' = err
    /\ open' = open \ closed
    /\ UNCHANGED <<proto, deferred, burst, flow, attempt, presented, sink,
                   result>>

\* The deferred calls run one by one.  A quic.Transport ends the connections
\* that are still on it.
Closes(x) == IF x = "transport" THEN {"transport", "quic"} ELSE {x}

RunDeferred ==
    /\ at = "returning" /\ deferred # <<>>
    /\ open' = open \ Closes(Head(deferred))
    /\ deferred' = Tail(deferred)
    /\ UNCHANGED <<at, proto, burst, flow, attempt, presented, sink,
                   handshakeErr, result>>

Returned ==
    /\ at = "returning" /\ deferred = <<>>
    /\ at' = "collect"
    /\ UNCHANGED <<proto, open, deferred, burst, flow, attempt, presented, sink,
                   handshakeErr, result>>

\* The fragment option, the ladder, the noise options, the name, rawDial or
\* the socket fail before anything is open.
OpenFails == at = "parse" /\ Return("open", {})

DialTCP ==
    /\ at = "parse" /\ proto = "tcp"
    /\ at' = "handshake" /\ attempt' = 1
    /\ open' = {"conn"} /\ deferred' = <<"conn">>
    /\ UNCHANGED <<proto, burst, flow, presented, sink, handshakeErr, result>>

\* A handshakeQUIC that may return between a socket and its deferred close.
OpenUDPReturnsEarly ==
    /\ at = "parse" /\ proto = "h3"
    /\ \/ /\ at' = "noise" /\ burst' \in 0..MaxNoise
          /\ open' = {"socket", "transport"}
          /\ deferred' = <<"transport", "socket">>
          /\ UNCHANGED handshakeErr
       \/ /\ at' = "returning" /\ handshakeErr' = "open"
          /\ open' = {"socket"}
          /\ UNCHANGED <<deferred, burst>>
    /\ UNCHANGED <<proto, flow, attempt, presented, sink, result>>

\* A handshakeQUIC that defers the close of the socket after the transport's.
OpenUDPSwapped ==
    /\ at = "parse" /\ proto = "h3"
    /\ at' = "noise" /\ burst' \in 0..MaxNoise
    /\ open' = {"socket", "transport"}
    /\ deferred' = <<"socket", "transport">>
    /\ UNCHANGED <<proto, flow, attempt, presented, sink, handshakeErr, result>>

\* handshakeQUIC has its socket and transport; a nil noise is an empty burst.
OpenUDP ==
    /\ at = "parse" /\ proto = "h3"
    /\ at' = "noise" /\ burst' \in 0..MaxNoise
    /\ open' = {"socket", "transport"}
    /\ deferred' = <<"transport", "socket">>
    /\ UNCHANGED <<proto, flow, attempt, presented, sink, handshakeErr, result>>

\* noiseConfig.send: one datagram and the pause after it.
NoiseSend ==
    /\ at = "noise" /\ burst > 0
    /\ burst' = burst - 1
    /\ flow' = Append(flow, "noise")
    /\ UNCHANGED <<at, proto, open, deferred, attempt, presented, sink,
                   handshakeErr, result>>

\* No random bytes, no route, or the deadline during a pause.
NoiseFails == at = "noise" /\ burst > 0 /\ Return("noise", {})

\* A ladder that primes the flow again for every rung.
AttemptReprimed ==
    /\ \/ at = "noise" /\ burst = 0
       \/ at = "handshake" /\ proto = "h3" /\ attempt < Rungs
    /\ at' = "handshake"
    /\ attempt' = attempt + 1
    /\ flow' = flow \o <<"noise", "initial">>
    /\ open' = open \cup {"quic"}
    /\ UNCHANGED <<proto, deferred, burst, presented, sink, handshakeErr,
                   result>>

\* quicdial.Dial makes its first attempt, or the next one after a failure;
\* DialEarly has closed the connection of an attempt that failed.
Attempt ==
    /\ \/ at = "noise" /\ burst = 0
       \/ at = "handshake" /\ proto = "h3" /\ attempt < Rungs
    /\ at' = "handshake"
    /\ attempt' = attempt + 1
    /\ flow' = Append(flow, "initial")
    /\ open' = open \cup {"quic"}
    /\ UNCHANGED <<proto, deferred, burst, presented, sink, handshakeErr,
                   result>>

\* A callback that keeps nothing once the attempt is over.
CaptureCurrent(i) ==
    /\ at \in {"handshake", "returning", "collect"}
    /\ i \in 1..attempt /\ i \notin presented
    /\ presented' = presented \cup {i}
    /\ sink' = IF i = attempt /\ handshakeErr = "" THEN i ELSE sink
    /\ UNCHANGED <<at, proto, open, deferred, burst, flow, attempt, handshakeErr,
                   result>>

\* certSink.capture, called for attempt i: the first chain is kept.
Capture(i) ==
    /\ at \in {"handshake", "returning", "collect"}
    /\ i \in 1..attempt /\ i \notin presented
    /\ presented' = presented \cup {i}
    /\ sink' = IF sink = 0 THEN i ELSE sink
    /\ UNCHANGED <<at, proto, open, deferred, burst, flow, attempt, handshakeErr,
                   result>>

\* A handshake completes only after the peer's chain was verified;
\* CloseWithError closes a QUIC connection.
HandshakeCompletes ==
    /\ at = "handshake" /\ attempt \in presented
    /\ Return("", {"quic"})

HandshakeFails == at = "handshake" /\ Return("handshake", {"quic"})

-----------------------------------------------------------------------------
\* A result that takes the certificate for a completed handshake.
CertResultOptimistic ==
    IF sink = 0
      THEN [NoResult EXCEPT !.RespError = handshakeErr]
      ELSE [Leaf |-> sink, HandshakeOK |-> TRUE, AlpnKnown |-> TRUE,
            RespError |-> handshakeErr]

\* What ProbeCert makes of the chain and the error.
CertResult ==
    IF sink = 0
      THEN [NoResult EXCEPT !.RespError =
              IF handshakeErr = "" THEN "no certificate" ELSE handshakeErr]
      ELSE [Leaf |-> sink, HandshakeOK |-> handshakeErr = "",
            AlpnKnown |-> handshakeErr = "", RespError |-> handshakeErr]

\* The leaf parses, or its error replaces the handshake's.
Collect ==
    /\ at = "collect"
    /\ at' = "returned"
    /\ \/ result' = CertResult
       \/ sink # 0 /\ result' = [CertResult EXCEPT !.RespError = "leaf"]
    /\ UNCHANGED <<proto, open, deferred, burst, flow, attempt, presented, sink,
                   handshakeErr>>

Next ==
    \/ Refuse \/ OpenFails \/ DialTCP \/ OpenUDP
    \/ NoiseSend \/ NoiseFails
    \/ Attempt \/ HandshakeCompletes \/ HandshakeFails
    \/ RunDeferred \/ Returned
    \/ \E i \in 1..Rungs : Capture(i)
    \/ Collect
    \/ at = "returned" /\ UNCHANGED vars

Spec == Init /\ [][Next]_vars

-----------------------------------------------------------------------------
(* Properties *)

\* "Everything it opens is closed before it returns" (cert.go:274) and "The
\* connection is closed before returning either way" (cert.go:252): whichever
\* step of the noise burst or the ladder fails, the closes deferred by then
\* (cert.go:264, 293, 300) and the connection's own (328) are all it takes.
EverythingIsClosed == at \in {"collect", "returned"} => open = {}

\* Nothing is closed before what stands on it: the CONNECTION_CLOSE of 328, and
\* whatever the close of the transport (300) still has to send, find the socket
\* open, on every way out of handshakeQUIC.
ClosedInOrder ==
    /\ "transport" \in open => "socket" \in open
    /\ "quic" \in open => "transport" \in open

\* "A result is useful whenever Leaf is non-empty, error or not: the fields
\* below are filled from whatever the peer sent before it stopped talking"
\* (cert.go:45-46): a chain that reached the callback of any attempt before the
\* result was put together is not lost, however the handshakes ended.
CertificateSurvivesFailure ==
    at = "returned" /\ presented # {} => result.Leaf \in presented

\* HandshakeOK, AlpnKnown and RespError (cert.go:57-60, 73-85) tell one story:
\* a handshake that completed brought a certificate, and one that did not is
\* always reported as an error, with or without a certificate.
ResultIsCoherent ==
    at = "returned" =>
        /\ result.HandshakeOK <=> attempt # 0 /\ handshakeErr = ""
        /\ result.AlpnKnown <=> result.HandshakeOK
        /\ result.HandshakeOK => result.Leaf # 0
        /\ ~result.HandshakeOK => result.RespError # ""
        /\ result.RespError # "" =>
             ~result.HandshakeOK \/ result.RespError = "leaf"

\* "Before the first handshake packet and never after" (cert.go:310): on the
\* 4-tuple of the probe no noise follows an Initial, although all the rungs of
\* the ladder share the socket.
NoiseOnlyFirst ==
    \A i, j \in DOMAIN flow :
        flow[i] = "initial" /\ flow[j] = "noise" => j < i

=============================================================================
