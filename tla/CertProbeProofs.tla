--------------------------- MODULE CertProbeProofs --------------------------
(***************************************************************************)
(* Proofs about CertProbe, for ladders and noise bursts of any length.     *)
(*                                                                         *)
(* The invariant says what each control point has opened, deferred and     *)
(* sent, that the sink holds a presented chain as soon as there is one,    *)
(* and that a handshake function returns without an error only when the    *)
(* chain of its last attempt was presented.                                *)
(***************************************************************************)
EXTENDS CertProbe, SequenceTheorems, TLAPS

Errors == {"", "open", "noise", "handshake"}

Results ==
    [Leaf : Nat, HandshakeOK : BOOLEAN, AlpnKnown : BOOLEAN,
     RespError : Errors \cup {"options", "no certificate", "leaf"}]

Types ==
    /\ at \in {"parse", "noise", "handshake", "returning", "collect",
               "returned"}
    /\ burst \in Nat
    /\ flow \in Seq({"noise", "initial"})
    /\ attempt \in Nat
    /\ presented \in SUBSET (1..attempt)
    /\ handshakeErr \in Errors
    /\ result \in Results

\* certSink keeps a chain that was presented, if there is one.
SinkInv ==
    /\ presented = {} => sink = 0
    /\ presented # {} => sink \in presented

\* No attempt is made before the burst is over, and only then is an Initial
\* sent.
FlowInv ==
    /\ at \in {"parse", "noise"} =>
         attempt = 0 /\ \A i \in DOMAIN flow : flow[i] = "noise"
    /\ NoiseOnlyFirst

\* A completed handshake of an attempt has presented its chain.
OutcomeInv ==
    /\ at \in {"parse", "noise", "handshake"} => handshakeErr = ""
    /\ at = "handshake" => attempt # 0
    /\ at \in {"returning", "collect"} =>
         handshakeErr # "" \/ attempt \in presented

\* What is open and what is deferred, at each point of the two functions: but
\* for the QUIC connection, what is open has a close in the right place.
Nothing == open = {} /\ deferred = <<>>
Conn == open = {"conn"} /\ deferred = <<"conn">>
Socket == open = {"socket"} /\ deferred = <<"socket">>
Both == open = {"socket", "transport"} /\ deferred = <<"transport", "socket">>
All == /\ open = {"socket", "transport", "quic"}
       /\ deferred = <<"transport", "socket">>

OpenInv ==
    /\ at \in {"parse", "collect", "returned"} => Nothing
    /\ at = "noise" => proto = "h3" /\ Both
    /\ at = "handshake" => (proto = "tcp" /\ Conn) \/ (proto = "h3" /\ All)
    /\ at = "returning" => Nothing \/ Conn \/ Socket \/ Both

IInv ==
    /\ Types /\ SinkInv /\ FlowInv /\ OutcomeInv /\ OpenInv
    /\ CertificateSurvivesFailure /\ ResultIsCoherent

-----------------------------------------------------------------------------
\* A result without a certificate has its type and says what went wrong.
LEMMA NoResultTypes ==
    ASSUME NEW e \in Errors \cup {"options", "no certificate", "leaf"}
    PROVE  LET r == [NoResult EXCEPT !.RespError = e]
           IN  /\ r \in Results
               /\ r.Leaf = 0 /\ ~r.HandshakeOK /\ ~r.AlpnKnown
               /\ r.RespError = e
BY DEF NoResult, Results

\* The invariant holds before ProbeCert has looked at its options.
LEMMA InitIInv == Init => IInv
<1> SUFFICES ASSUME Init PROVE IInv
  OBVIOUS
<1>1. Types
  <2>1. flow \in Seq({"noise", "initial"})
    BY EmptySeq DEF Init
  <2>2. NoResult \in Results
    BY DEF NoResult, Results, Errors
  <2> QED
    BY <2>1, <2>2 DEF Init, Types, Errors
<1>2. SinkInv /\ FlowInv /\ OutcomeInv
  <2>1. DOMAIN flow = {}
    <3>1. Len(flow) = 0
      BY DEF Init
    <3> QED
      BY <1>1, <3>1 DEF Types
  <2> QED
    BY <2>1 DEF Init, SinkInv, FlowInv, OutcomeInv, NoiseOnlyFirst
<1>3. OpenInv /\ CertificateSurvivesFailure /\ ResultIsCoherent
  BY DEF Init, OpenInv, Nothing, CertificateSurvivesFailure, ResultIsCoherent
<1> QED
  BY <1>1, <1>2, <1>3 DEF IInv

\* A step that leaves what was sent, presented and kept alone, and does not
\* return to the caller.
LEMMA QuietStep ==
    ASSUME IInv, UNCHANGED <<flow, presented, sink>>,
           at' # "returned",
           at' \in {"parse", "noise"} => at \in {"parse", "noise"}
                                         /\ UNCHANGED attempt
    PROVE  SinkInv' /\ FlowInv' /\ CertificateSurvivesFailure'
           /\ ResultIsCoherent'
BY DEF IInv, SinkInv, FlowInv, NoiseOnlyFirst, CertificateSurvivesFailure,
       ResultIsCoherent

\* A handshake function comes to a return: what it has not closed has been
\* deferred, and it reports success only for a chain that was presented.
LEMMA ReturnStep ==
    ASSUME IInv, NEW err \in Errors, NEW closed, Return(err, closed),
           err = "" => attempt # 0 /\ attempt \in presented,
           at \in {"parse", "noise", "handshake"},
           IF at = "handshake" THEN closed = {"quic"} ELSE closed = {}
    PROVE  IInv'
<1>1. Types' /\ OutcomeInv'
  BY DEF Return, IInv, Types, OutcomeInv
<1>2. SinkInv' /\ FlowInv' /\ CertificateSurvivesFailure' /\ ResultIsCoherent'
  BY QuietStep DEF Return
<1>3. OpenInv'
  <2>1. at' = "returning" /\ open' = open \ closed /\ deferred' = deferred
    BY DEF Return
  <2>2. Nothing' \/ Conn' \/ Socket' \/ Both'
    <3>1. CASE at = "parse"
      BY <2>1, <3>1 DEF IInv, OpenInv, Nothing
    <3>2. CASE at = "noise"
      BY <2>1, <3>2 DEF IInv, OpenInv, Both
    <3>3. CASE at = "handshake"
      BY <2>1, <3>3 DEF IInv, OpenInv, Conn, All, Both
    <3> QED
      BY <3>1, <3>2, <3>3
  <2> QED
    BY <2>1, <2>2 DEF OpenInv
<1> QED
  BY <1>1, <1>2, <1>3 DEF IInv

\* A deferred close: the last one deferred goes first.
LEMMA RunDeferredStep == ASSUME IInv, RunDeferred PROVE IInv'
<1>1. /\ at = "returning" /\ at' = "returning" /\ deferred # <<>>
      /\ open' = open \ Closes(Head(deferred)) /\ deferred' = Tail(deferred)
      /\ UNCHANGED <<proto, burst, flow, attempt, presented, sink, handshakeErr,
                     result>>
  BY DEF RunDeferred
<1>2. Nothing' \/ Socket'
  <2>1. Conn \/ Socket \/ Both
    BY <1>1 DEF IInv, OpenInv, Nothing
  <2>2. CASE Conn
    BY <1>1, <2>2 DEF Conn, Nothing, Closes
  <2>3. CASE Socket
    BY <1>1, <2>3 DEF Socket, Nothing, Closes
  <2>4. CASE Both
    BY <1>1, <2>4 DEF Both, Socket, Closes
  <2> QED
    BY <2>1, <2>2, <2>3, <2>4
<1>3. OpenInv'
  BY <1>1, <1>2 DEF OpenInv
<1>4. Types' /\ OutcomeInv'
  BY <1>1 DEF IInv, Types, OutcomeInv
<1>5. SinkInv' /\ FlowInv' /\ CertificateSurvivesFailure' /\ ResultIsCoherent'
  BY <1>1, QuietStep
<1> QED
  BY <1>3, <1>4, <1>5 DEF IInv

\* The deferred calls are over.
LEMMA ReturnedStep == ASSUME IInv, Returned PROVE IInv'
<1>1. /\ at = "returning" /\ at' = "collect" /\ deferred = <<>>
      /\ UNCHANGED <<proto, open, deferred, burst, flow, attempt, presented,
                     sink, handshakeErr, result>>
  BY DEF Returned
<1>2. Nothing
  BY <1>1 DEF IInv, OpenInv, Conn, Socket, Both
<1>3. OpenInv'
  BY <1>1, <1>2 DEF OpenInv, Nothing
<1>4. Types' /\ OutcomeInv'
  BY <1>1 DEF IInv, Types, OutcomeInv
<1>5. SinkInv' /\ FlowInv' /\ CertificateSurvivesFailure' /\ ResultIsCoherent'
  BY <1>1, QuietStep
<1> QED
  BY <1>3, <1>4, <1>5 DEF IInv

\* One more datagram of the noise burst, before any Initial.
LEMMA NoiseSendStep == ASSUME IInv, NoiseSend PROVE IInv'
<1>1. flow \in Seq({"noise", "initial"}) /\ burst \in Nat
  BY DEF IInv, Types
<1>2. flow' = Append(flow, "noise") /\ at = "noise" /\ burst' \in Nat
  BY <1>1 DEF NoiseSend
<1>3. /\ flow' \in Seq({"noise", "initial"})
      /\ DOMAIN flow' = 1..(Len(flow) + 1) /\ Len(flow) \in Nat
      /\ \A i \in 1..Len(flow) : flow'[i] = flow[i]
      /\ flow'[Len(flow) + 1] = "noise"
      /\ DOMAIN flow = 1..Len(flow)
  BY <1>1, <1>2
<1>4. \A i \in DOMAIN flow' : flow'[i] = "noise"
  BY <1>2, <1>3 DEF IInv, FlowInv
<1>5. Types'
  BY <1>2, <1>3 DEF NoiseSend, IInv, Types
<1>6. FlowInv'
  BY <1>4 DEF NoiseSend, IInv, FlowInv, NoiseOnlyFirst
<1> QED
  BY <1>5, <1>6
  DEF NoiseSend, IInv, SinkInv, OutcomeInv, OpenInv, Both,
      CertificateSurvivesFailure, ResultIsCoherent

\* The first Initial, or that of the next rung: it comes after everything.
LEMMA AttemptStep == ASSUME IInv, Attempt PROVE IInv'
<1>1. flow \in Seq({"noise", "initial"}) /\ attempt \in Nat
  BY DEF IInv, Types
<1>2. flow' = Append(flow, "initial") /\ attempt' = attempt + 1
      /\ at' = "handshake" /\ UNCHANGED <<presented, sink, handshakeErr, result>>
  BY DEF Attempt
<1>3. /\ flow' \in Seq({"noise", "initial"})
      /\ DOMAIN flow' = 1..(Len(flow) + 1) /\ Len(flow) \in Nat
      /\ \A i \in 1..Len(flow) : flow'[i] = flow[i]
      /\ flow'[Len(flow) + 1] = "initial"
      /\ DOMAIN flow = 1..Len(flow)
  BY <1>1, <1>2
<1>4. NoiseOnlyFirst'
  BY <1>3 DEF IInv, FlowInv, NoiseOnlyFirst
<1>5. Types'
  <2>1. presented' \in SUBSET (1..attempt')
    BY <1>1, <1>2 DEF IInv, Types
  <2> QED
    BY <1>1, <1>2, <1>3, <2>1 DEF Attempt, IInv, Types
<1>6. FlowInv' /\ SinkInv'
  BY <1>2, <1>4 DEF IInv, FlowInv, SinkInv
<1>7. OutcomeInv'
  <2>1. at \in {"noise", "handshake"} /\ attempt' # 0
    BY <1>1, <1>2 DEF Attempt
  <2> QED
    BY <1>2, <2>1 DEF IInv, OutcomeInv
<1>8. OpenInv'
  <2>1. /\ proto' = "h3" /\ open' = open \cup {"quic"} /\ deferred' = deferred
        /\ Both \/ All
    BY DEF Attempt, IInv, OpenInv
  <2>2. All'
    BY <2>1 DEF Both, All
  <2> QED
    BY <1>2, <2>1, <2>2 DEF OpenInv
<1> QED
  BY <1>2, <1>5, <1>6, <1>7, <1>8
  DEF IInv, CertificateSurvivesFailure, ResultIsCoherent

\* The callback keeps the first chain, whichever attempt it comes from.
LEMMA CaptureStep ==
    ASSUME IInv, NEW i \in 1..Rungs, Capture(i)
    PROVE  IInv'
<1>1. i \in 1..attempt /\ presented' = presented \cup {i} /\ i # 0
  BY DEF Capture
<1>2. presented' \in SUBSET (1..attempt) /\ UNCHANGED attempt
  BY <1>1 DEF Capture, IInv, Types
<1>3. SinkInv'
  BY <1>1 DEF Capture, IInv, SinkInv, Types
<1>4. Types'
  BY <1>2 DEF Capture, IInv, Types
<1>5. OpenInv'
  BY DEF Capture, IInv, OpenInv, Nothing, Conn, Socket, Both, All
<1> QED
  BY <1>1, <1>3, <1>4, <1>5
  DEF Capture, IInv, FlowInv, OutcomeInv, NoiseOnlyFirst,
      CertificateSurvivesFailure, ResultIsCoherent

\* ProbeCert puts its result together from the sink and the error.
LEMMA CollectStep == ASSUME IInv, Collect PROVE IInv'
<1>1. /\ at = "collect" /\ at' = "returned"
      /\ UNCHANGED <<proto, open, deferred, burst, flow, attempt, presented,
                     sink, handshakeErr>>
  BY DEF Collect
<1>2. sink \in Nat /\ (sink # 0 <=> presented # {})
      /\ (sink # 0 => sink \in presented)
  <2>1. 0 \notin presented /\ \A i \in presented : i \in Nat
    BY DEF IInv, Types
  <2> QED
    BY <2>1 DEF IInv, SinkInv
<1>3. handshakeErr \in Errors
      /\ (handshakeErr = "" => attempt # 0 /\ presented # {})
  <2>1. handshakeErr = "" => attempt \in presented
    BY <1>1 DEF IInv, OutcomeInv
  <2>2. attempt \in presented => attempt # 0
    BY DEF IInv, Types
  <2>3. handshakeErr \in Errors
    BY DEF IInv, Types
  <2> QED
    BY <2>1, <2>2, <2>3
<1>4. /\ result' \in Results
      /\ result'.Leaf = sink
      /\ result'.HandshakeOK <=> handshakeErr = ""
      /\ result'.AlpnKnown <=> handshakeErr = ""
      /\ handshakeErr # "" => result'.RespError # ""
      /\ handshakeErr = "" => result'.RespError \in {"", "leaf"}
  <2>1. CASE sink = 0
    <3>1. handshakeErr # ""
      BY <1>2, <1>3, <2>1
    <3>2. result' = [NoResult EXCEPT !.RespError = handshakeErr]
      BY <2>1, <3>1, Zenon DEF Collect, CertResult
    <3> QED
      BY <1>3, <2>1, <3>1, <3>2, NoResultTypes
  <2>2. CASE sink # 0
    <3>1. PICK e \in {handshakeErr, "leaf"} :
            result' = [Leaf |-> sink, HandshakeOK |-> handshakeErr = "",
                       AlpnKnown |-> handshakeErr = "", RespError |-> e]
      <4>1. CertResult =
              [Leaf |-> sink, HandshakeOK |-> handshakeErr = "",
               AlpnKnown |-> handshakeErr = "", RespError |-> handshakeErr]
        BY <2>2 DEF CertResult
      <4> QED
        BY <4>1 DEF Collect
    <3> QED
      BY <1>2, <1>3, <3>1 DEF Results, Errors
  <2> QED
    BY <2>1, <2>2
<1>5. Types' /\ SinkInv' /\ FlowInv' /\ OutcomeInv' /\ OpenInv'
  BY <1>1, <1>4
  DEF IInv, Types, SinkInv, FlowInv, OutcomeInv, NoiseOnlyFirst, OpenInv,
      Nothing
<1>6. CertificateSurvivesFailure'
  BY <1>1, <1>2, <1>4 DEF CertificateSurvivesFailure
<1>7. ResultIsCoherent'
  BY <1>1, <1>2, <1>3, <1>4 DEF ResultIsCoherent
<1> QED
  BY <1>5, <1>6, <1>7 DEF IInv

LEMMA NextIInv == IInv /\ [Next]_vars => IInv'
<1> SUFFICES ASSUME IInv, [Next]_vars PROVE IInv'
  OBVIOUS
<1>1. CASE Refuse
  <2>1. /\ at = "parse" /\ at' = "returned"
        /\ result' = [NoResult EXCEPT !.RespError = "options"]
        /\ UNCHANGED <<proto, open, deferred, burst, flow, attempt, presented,
                       sink, handshakeErr>>
    BY <1>1 DEF Refuse
  <2>2. result' \in Results /\ ~result'.HandshakeOK /\ ~result'.AlpnKnown
        /\ result'.RespError = "options"
    BY <2>1, NoResultTypes
  <2>3. attempt = 0 /\ presented = {}
    BY <2>1 DEF IInv, Types, FlowInv
  <2>4. OpenInv'
    BY <2>1 DEF IInv, OpenInv, Nothing
  <2>5. Types' /\ SinkInv' /\ FlowInv' /\ OutcomeInv'
    BY <2>1, <2>2, <2>3
    DEF IInv, Types, SinkInv, FlowInv, OutcomeInv, NoiseOnlyFirst
  <2>6. CertificateSurvivesFailure' /\ ResultIsCoherent'
    BY <2>1, <2>2, <2>3 DEF CertificateSurvivesFailure, ResultIsCoherent
  <2> QED
    BY <2>4, <2>5, <2>6 DEF IInv
<1>2. CASE OpenFails
  BY <1>2, ReturnStep DEF OpenFails, Errors
<1>3. CASE DialTCP \/ OpenUDP
  <2>1. Types'
    <3>1. attempt = 0 /\ presented = {}
      BY <1>3 DEF DialTCP, OpenUDP, IInv, Types, FlowInv
    <3>2. burst' \in Nat /\ attempt' \in Nat
      BY <1>3, <3>1, ConstantsAssumption DEF DialTCP, OpenUDP, IInv, Types
    <3> QED
      BY <1>3, <3>1, <3>2 DEF DialTCP, OpenUDP, IInv, Types
  <2>2. SinkInv' /\ FlowInv' /\ CertificateSurvivesFailure'
        /\ ResultIsCoherent'
    BY <1>3, QuietStep DEF DialTCP, OpenUDP
  <2>3. OutcomeInv' /\ OpenInv'
    <3>1. handshakeErr' = "" /\ at' \in {"noise", "handshake"}
      BY <1>3 DEF DialTCP, OpenUDP, IInv, OutcomeInv
    <3>2. at' = "handshake" => attempt' # 0
      BY <1>3 DEF DialTCP, OpenUDP
    <3>3. OutcomeInv'
      BY <3>1, <3>2 DEF OutcomeInv
    <3>4. OpenInv'
      BY <1>3 DEF DialTCP, OpenUDP, OpenInv, Conn, Both
    <3> QED
      BY <3>3, <3>4
  <2> QED
    BY <2>1, <2>2, <2>3 DEF IInv
<1>4. CASE NoiseSend
  BY <1>4, NoiseSendStep
<1>5. CASE NoiseFails
  BY <1>5, ReturnStep DEF NoiseFails, Errors
<1>6. CASE Attempt
  BY <1>6, AttemptStep
<1>7. CASE HandshakeCompletes
  BY <1>7, ReturnStep DEF HandshakeCompletes, Errors, IInv, OutcomeInv
<1>8. CASE HandshakeFails
  BY <1>8, ReturnStep DEF HandshakeFails, Errors
<1>9. ASSUME NEW i \in 1..Rungs, Capture(i) PROVE IInv'
  BY <1>9, CaptureStep
<1>10. CASE Collect
  BY <1>10, CollectStep
<1>11. CASE RunDeferred
  BY <1>11, RunDeferredStep
<1>12. CASE Returned
  BY <1>12, ReturnedStep
<1>13. CASE UNCHANGED vars
  <2>1. OpenInv'
    BY <1>13 DEF vars, IInv, OpenInv, Nothing, Conn, Socket, Both, All
  <2> QED
    BY <1>13, <2>1
    DEF vars, IInv, Types, SinkInv, FlowInv, OutcomeInv, NoiseOnlyFirst,
        CertificateSurvivesFailure, ResultIsCoherent
<1> QED
  BY <1>1, <1>2, <1>3, <1>4, <1>5, <1>6, <1>7, <1>8, <1>9, <1>10, <1>11, <1>12,
     <1>13
  DEF Next

\* What each control point has opened, sent and collected is inductive.
THEOREM Invariant == Spec => []IInv
BY InitIInv, NextIInv, PTL DEF Spec

\* Whichever step fails, the closes deferred by then leave nothing of the probe
\* open once its handshake function has returned.
THEOREM ProbeClosesEverything == Spec => []EverythingIsClosed
<1>1. IInv => EverythingIsClosed
  BY DEF IInv, OpenInv, Nothing, EverythingIsClosed
<1> QED
  BY <1>1, Invariant, PTL

\* The connection is closed before the transport, and the transport before the
\* socket, on every way out.
THEOREM ProbeClosesInOrder == Spec => []ClosedInOrder
<1>1. IInv => ClosedInOrder
  BY DEF IInv, Types, OpenInv, Nothing, Conn, Socket, Both, All, ClosedInOrder
<1> QED
  BY <1>1, Invariant, PTL

\* A chain presented in any attempt before the result is put together is in
\* the result, however the handshakes ended.
THEOREM CertificateIsKept == Spec => []CertificateSurvivesFailure
<1>1. IInv => CertificateSurvivesFailure
  BY DEF IInv
<1> QED
  BY <1>1, Invariant, PTL

\* HandshakeOK, AlpnKnown, Leaf and RespError agree with each other and with
\* what happened.
THEOREM ResultAlwaysCoherent == Spec => []ResultIsCoherent
<1>1. IInv => ResultIsCoherent
  BY DEF IInv
<1> QED
  BY <1>1, Invariant, PTL

\* No noise datagram follows an Initial on the probe's 4-tuple.
THEOREM NoiseAlwaysFirst == Spec => []NoiseOnlyFirst
<1>1. IInv => NoiseOnlyFirst
  BY DEF IInv, FlowInv
<1> QED
  BY <1>1, Invariant, PTL

=============================================================================
