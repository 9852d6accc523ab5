--------------------------- MODULE WireGuardProbe ---------------------------
(***************************************************************************)
(* ProbeWireGuard (libv2ray_wireguard_probe.go): noise, then up to         *)
(* attempts handshake initiations, each followed by a wait for a response  *)
(* that authenticates, over a network that loses, delays, duplicates and   *)
(* reorders datagrams and on which others may send to the probe's socket.  *)
(*                                                                         *)
(* A datagram is what the receive loop tells apart: whether it comes from  *)
(* the probed address, whether it has the size and type of a handshake     *)
(* response, the initiation whose index it carries, and whether the holder *)
(* of the peer's private key made it for that initiation.                  *)
(*                                                                         *)
(* Time passes in ticks, and only while the code waits.                    *)
(***************************************************************************)
EXTENDS Naturals

CONSTANTS
    Timeout,        \* the timeout option, in ticks
    Attempts,       \* the attempts option
    MaxNoise        \* bound: datagrams of a noise burst; 0 is no noise

ASSUME ConstantsAssumption ==
    /\ Timeout \in Nat \ {0}
    /\ Attempts \in Nat \ {0}
    /\ MaxNoise \in Nat

VARIABLES
    at,         \* control point: "options", "noise", "pause", "send", "read"
                \* or "returned"
    clock,      \* ticks since ProbeWireGuard set its context's deadline
    burst,      \* noise datagrams still to be sent
    attempt,    \* result.Attempts
    deadline,   \* clock value of this attempt's read deadline
    network,    \* datagrams that may still reach the socket
    answered,   \* initiations the peer has answered
    result      \* Alive, Responded and RespError of the result

vars == <<at, clock, burst, attempt, deadline, network, answered, result>>

\* The wait of one attempt: total / attempts.
per == Timeout \div Attempts

Datagrams ==
    [peer : BOOLEAN, response : BOOLEAN, index : 1..Attempts, genuine : BOOLEAN]

\* What only the peer can send: the response to initiation i.
Response(i) == [peer |-> TRUE, response |-> TRUE, index |-> i, genuine |-> TRUE]

\* What anybody may send, the probed address included: cookie replies and
\* responses that were not made with the peer's key.
Forgeries == {d \in Datagrams : ~d.genuine}

Init ==
    /\ at = "options"
    /\ clock = 0
    /\ burst = 0
    /\ attempt = 0
    /\ deadline = 0
    /\ network = {}
    /\ answered = {}
    /\ result = [alive |-> FALSE, responded |-> FALSE, err |-> "none"]

-----------------------------------------------------------------------------
(* ProbeWireGuard up to the attempts, and noise.send *)

\* An option is refused, the address does not resolve or there is no socket.
Refuse ==
    /\ at = "options"
    /\ at' = "returned"
    /\ result' = [result EXCEPT !.err = "options"]
    /\ UNCHANGED <<clock, burst, attempt, deadline, network, answered>>

Open ==
    /\ at = "options"
    /\ at' = "noise"
    /\ burst' \in 0..MaxNoise
    /\ UNCHANGED <<clock, attempt, deadline, network, answered, result>>

\* A packet is written; a delay of zero skips the pause.
NoiseSend ==
    /\ at = "noise" /\ burst > 0
    /\ burst' = burst - 1
    /\ at' \in {"noise", "pause"}
    /\ UNCHANGED <<clock, attempt, deadline, network, answered, result>>

\* A packet cannot be made or written.
NoiseFails ==
    /\ at = "noise" /\ burst > 0
    /\ at' = "returned"
    /\ result' = [result EXCEPT !.err = "socket"]
    /\ UNCHANGED <<clock, burst, attempt, deadline, network, answered>>

\* ctx.Done during a pause: ProbeWireGuard returns the context's error.
NoiseDeadline ==
    /\ at = "pause"
    /\ clock >= Timeout
    /\ at' = "returned"
    /\ result' = [result EXCEPT !.err = "deadline"]
    /\ UNCHANGED <<clock, burst, attempt, deadline, network, answered>>

NoiseDone ==
    /\ at = "noise"
    /\ burst = 0
    /\ at' = "send"
    /\ UNCHANGED <<clock, burst, attempt, deadline, network, answered, result>>

-----------------------------------------------------------------------------
(* The attempts *)

\* A loop that makes one attempt too many.
AttemptEndsLate(k, e) ==
    LET err  == IF e # "none" THEN e ELSE result.err
        last == k > Attempts
    IN /\ at' = IF last THEN "returned" ELSE "send"
       /\ result' = [result EXCEPT
                       !.err = IF last /\ err = "none" THEN "silence" ELSE err]

\* What ProbeWireGuard does when probeWireGuardOnce returns without a valid
\* response, e being its error: stop at the context's deadline or after the
\* last attempt, otherwise go on.
AttemptEnds(k, e) ==
    LET err  == IF e # "none" THEN e ELSE result.err
        last == clock >= Timeout \/ k = Attempts
    IN /\ at' = IF last THEN "returned" ELSE "send"
       /\ result' = [result EXCEPT
                       !.err = IF last /\ err = "none" THEN "silence" ELSE err]

\* createInitiation and WriteToUDP; the read deadline is set once.
Send ==
    /\ at = "send"
    /\ attempt' = attempt + 1
    /\ deadline' = clock + per
    /\ at' = "read"
    /\ UNCHANGED <<clock, burst, network, answered, result>>

\* createInitiation or WriteToUDP fails.
SendFails ==
    /\ at = "send"
    /\ attempt' = attempt + 1
    /\ AttemptEnds(attempt + 1, "socket")
    /\ UNCHANGED <<clock, burst, deadline, network, answered>>

\* A receive loop that takes a timeout for a stray datagram and reads on.
ReadDeadlineIgnored ==
    /\ at = "read"
    /\ clock >= deadline
    /\ UNCHANGED vars

\* ReadFromUDP times out: silence is no error.
ReadDeadline ==
    /\ at = "read"
    /\ clock >= deadline
    /\ AttemptEnds(attempt, "none")
    /\ UNCHANGED <<clock, burst, attempt, deadline, network, answered>>

\* ReadFromUDP fails in another way.
ReadFails ==
    /\ at = "read"
    /\ AttemptEnds(attempt, "socket")
    /\ UNCHANGED <<clock, burst, attempt, deadline, network, answered>>

\* consumeResponse without the decryption of the empty payload.
ConsumeUnauthenticated(d) == d.index = attempt

\* consumeResponse: the index is this attempt's, and the payload opens under
\* the keys of this attempt's handshake state.
Consume(d) == d.index = attempt /\ d.genuine

\* A receive that sets the read deadline again for every datagram.
ReceiveExtends(d) ==
    /\ at = "read"
    /\ clock < deadline
    /\ d \in network
    /\ network' \in {network, network \ {d}}
    /\ IF d.peer /\ d.response /\ Consume(d)
         THEN /\ at' = "returned"
              /\ result' = [alive |-> TRUE, responded |-> TRUE, err |-> "none"]
         ELSE /\ result' = [result EXCEPT !.responded = @ \/ d.peer]
              /\ UNCHANGED at
    /\ deadline' = clock + per
    /\ UNCHANGED <<clock, burst, attempt, answered>>

\* A receive that keeps the error of an earlier attempt in a result that is
\* alive.
ReceiveKeepsError(d) ==
    /\ at = "read"
    /\ clock < deadline
    /\ d \in network
    /\ network' \in {network, network \ {d}}
    /\ IF d.peer /\ d.response /\ Consume(d)
         THEN /\ at' = "returned"
              /\ result' = [result EXCEPT !.alive = TRUE, !.responded = TRUE]
         ELSE /\ result' = [result EXCEPT !.responded = @ \/ d.peer]
              /\ UNCHANGED at
    /\ UNCHANGED <<clock, burst, attempt, deadline, answered>>

\* ReadFromUDP returns a datagram, which may arrive again later.  Strays are
\* ignored; what comes from the peer's address is recorded, and only a
\* response that authenticates ends the wait.
Receive(d) ==
    /\ at = "read"
    /\ clock < deadline
    /\ d \in network
    /\ network' \in {network, network \ {d}}
    /\ IF d.peer /\ d.response /\ Consume(d)
         THEN /\ at' = "returned"
              /\ result' = [alive |-> TRUE, responded |-> TRUE, err |-> "none"]
         ELSE /\ result' = [result EXCEPT !.responded = @ \/ d.peer]
              /\ UNCHANGED at
    /\ UNCHANGED <<clock, burst, attempt, deadline, answered>>

-----------------------------------------------------------------------------
(* The environment *)

\* The peer answers an initiation that reached it, sooner or later or never.
PeerAnswers(i) ==
    /\ i \in 1..attempt
    /\ i \notin answered
    /\ answered' = answered \cup {i}
    /\ network' = network \cup {Response(i)}
    /\ UNCHANGED <<at, clock, burst, attempt, deadline, result>>

\* Somebody else's datagram is on its way; one at a time is enough.
OthersSend(d) ==
    /\ at = "read"
    /\ network \cap Forgeries = {}
    /\ network' = network \cup {d}
    /\ UNCHANGED <<at, clock, burst, attempt, deadline, answered, result>>

\* A tick passes in a wait that is not over.
Tick ==
    /\ \/ at = "pause" /\ clock < Timeout /\ at' \in {"pause", "noise"}
       \/ at = "read" /\ clock < deadline /\ UNCHANGED at
    /\ clock' = clock + 1
    /\ UNCHANGED <<burst, attempt, deadline, network, answered, result>>

Returned == at = "returned" /\ UNCHANGED vars

Probing ==
    \/ Refuse \/ Open
    \/ NoiseSend \/ NoiseFails \/ NoiseDeadline \/ NoiseDone
    \/ Send \/ SendFails \/ ReadDeadline \/ ReadFails
    \/ Tick

Next ==
    \/ Probing
    \/ \E d \in network : Receive(d)
    \/ \E i \in 1..Attempts : PeerAnswers(i)
    \/ \E d \in Forgeries : OthersSend(d)
    \/ Returned

Spec == Init /\ [][Next]_vars

\* Fairness: the goroutine runs and timers run out.  The network and the peer
\* promise nothing, and others may send for ever.
FairSpec == Spec /\ WF_vars(Refuse \/ Open)
                 /\ WF_vars(NoiseSend \/ NoiseFails \/ NoiseDone)
                 /\ WF_vars(NoiseDeadline)
                 /\ WF_vars(Send \/ SendFails) /\ WF_vars(ReadDeadline)
                 /\ WF_vars(Tick)

-----------------------------------------------------------------------------
(* Properties *)

\* The type of every variable.
TypeOK ==
    /\ at \in {"options", "noise", "pause", "send", "read", "returned"}
    /\ clock \in Nat
    /\ burst \in 0..MaxNoise
    /\ attempt \in 0..Attempts
    /\ deadline \in Nat
    /\ network \in SUBSET Datagrams
    /\ answered \in SUBSET (1..Attempts)
    /\ result \in [alive : BOOLEAN, responded : BOOLEAN,
                   err : {"none", "options", "deadline", "socket", "silence"}]

\* "reports whether the endpoint answered as the peer it claims to be"
\* (wireguard_probe.go:129-130): Alive is reported only when the peer answered
\* the initiation of the very attempt that is reported, whatever else arrives.
AliveIsGenuine == result.alive => attempt \in answered

\* "RespError is empty when Alive is true" (wireguard_probe.go:61), and a probe
\* that returns without Alive always says why, whatever errors the attempts
\* before ended with.
ErrorIffNotAlive == at = "returned" => (result.err = "none" <=> result.alive)

\* Datagrams cannot keep the probe waiting: the read deadline of an attempt is
\* fixed (wireguard_probe.go:263-266), so the probe overruns its timeout by no
\* more than the wait of one attempt, even while others send without end.
OverrunAtMostOneWait == clock <= Timeout + per

\* The probe returns, although datagrams from others never stop.
ProbeReturns == <>(at = "returned")

=============================================================================
