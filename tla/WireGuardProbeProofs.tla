------------------------ MODULE WireGuardProbeProofs ------------------------
(***************************************************************************)
(* Proofs about WireGuardProbe, for every timeout, number of attempts and  *)
(* amount of noise.                                                        *)
(***************************************************************************)
EXTENDS WireGuardProbe, TLAPS

\* The wait of one attempt is a natural number of ticks.
LEMMA PerIsNat == per \in Nat
BY ConstantsAssumption DEF per

\* Where the control point is, the clock and the attempts are bounded: a new
\* attempt starts only at a clock within Timeout, and a read never outlasts its
\* deadline.
ClockInv ==
    /\ at \in {"options", "noise", "pause"} => clock <= Timeout /\ attempt = 0
    /\ at = "send" => clock <= Timeout /\ attempt < Attempts
    /\ at = "read" => clock <= deadline /\ deadline <= Timeout + per
                      /\ attempt > 0
    /\ clock <= Timeout + per

\* Every genuine datagram on the network is an answer the peer gave.
NetworkInv == \A d \in network : d.genuine => d.index \in answered

IInv == TypeOK /\ ClockInv /\ NetworkInv /\ AliveIsGenuine
        /\ (result.alive => at = "returned") /\ ErrorIffNotAlive

\* AttemptEnds leaves the verdict alone, goes back to "send" only when the
\* timeout is not over and attempts are left, and returns only with an error.
LEMMA AttemptEndsEffect ==
    ASSUME NEW k, NEW e, AttemptEnds(k, e), TypeOK,
           k \in 0..Attempts, e \in {"none", "socket"}
    PROVE  /\ at' \in {"send", "returned"}
           /\ at' = "send" => clock < Timeout /\ k < Attempts
           /\ at' = "returned" => result'.err # "none"
           /\ result'.alive = result.alive
           /\ result' \in [alive : BOOLEAN, responded : BOOLEAN,
                           err : {"none", "options", "deadline", "socket",
                                 "silence"}]
BY ConstantsAssumption DEF AttemptEnds, TypeOK

\* Type correctness, the clock bounds and the origin of datagrams are
\* inductive: no step of the probe, the peer or the network breaks them.
THEOREM Invariant == Spec => []IInv
<1>1. Init => IInv
  BY PerIsNat, ConstantsAssumption
  DEF Init, IInv, TypeOK, ClockInv, NetworkInv, AliveIsGenuine,
      ErrorIffNotAlive
<1>2. IInv /\ [Next]_vars => IInv'
  <2> SUFFICES ASSUME IInv, [Next]_vars PROVE IInv'
    OBVIOUS
  <2> USE PerIsNat, ConstantsAssumption
  <2>1. CASE NoiseDeadline
    BY <2>1 DEF NoiseDeadline, IInv, TypeOK, ClockInv, NetworkInv,
                AliveIsGenuine, ErrorIffNotAlive
  <2>2. CASE NoiseFails \/ Refuse
    BY <2>2 DEF NoiseFails, Refuse, IInv, TypeOK, ClockInv, NetworkInv,
                AliveIsGenuine, ErrorIffNotAlive
  <2>0. CASE NoiseSend \/ Open
    <3>1. /\ burst' \in 0..MaxNoise /\ at' \in {"noise", "pause"}
          /\ at \in {"options", "noise"}
          /\ UNCHANGED <<clock, attempt, deadline, network, answered, result>>
      BY <2>0 DEF NoiseSend, Open, IInv, TypeOK
    <3> QED
      BY <3>1 DEF IInv, TypeOK, ClockInv, NetworkInv, AliveIsGenuine,
                  ErrorIffNotAlive
  <2>3. CASE NoiseDone
    BY <2>3 DEF NoiseDone, IInv, TypeOK, ClockInv, NetworkInv, AliveIsGenuine,
      ErrorIffNotAlive
  <2>4. CASE Send
    BY <2>4 DEF Send, IInv, TypeOK, ClockInv, NetworkInv, AliveIsGenuine,
      ErrorIffNotAlive
  <2>5. CASE SendFails
    <3>1. attempt + 1 \in 0..Attempts /\ AttemptEnds(attempt + 1, "socket")
      BY <2>5 DEF SendFails, IInv, TypeOK, ClockInv
    <3>2. /\ at' \in {"send", "returned"}
          /\ at' = "send" => clock < Timeout /\ attempt + 1 < Attempts
          /\ at' = "returned" => result'.err # "none"
          /\ result'.alive = result.alive
          /\ result' \in [alive : BOOLEAN, responded : BOOLEAN,
                          err : {"none", "options", "deadline", "socket",
                                 "silence"}]
      BY <3>1, AttemptEndsEffect DEF IInv
    <3> QED
      BY <2>5, <3>1, <3>2
      DEF SendFails, IInv, TypeOK, ClockInv, NetworkInv, AliveIsGenuine,
      ErrorIffNotAlive
  <2>6. CASE ReadDeadline \/ ReadFails
    <3>1. PICK e \in {"none", "socket"} : AttemptEnds(attempt, e)
      BY <2>6 DEF ReadDeadline, ReadFails
    <3>2. /\ at' \in {"send", "returned"}
          /\ at' = "send" => clock < Timeout /\ attempt < Attempts
          /\ at' = "returned" => result'.err # "none"
          /\ result'.alive = result.alive
          /\ result' \in [alive : BOOLEAN, responded : BOOLEAN,
                          err : {"none", "options", "deadline", "socket",
                                 "silence"}]
      BY <3>1, AttemptEndsEffect DEF IInv, TypeOK
    <3>3. at = "read" /\ UNCHANGED <<clock, burst, attempt, deadline, network,
                                     answered>>
      BY <2>6 DEF ReadDeadline, ReadFails
    <3> QED
      BY <3>2, <3>3 DEF IInv, TypeOK, ClockInv, NetworkInv, AliveIsGenuine,
          ErrorIffNotAlive
  <2>7. CASE Tick
    BY <2>7 DEF Tick, IInv, TypeOK, ClockInv, NetworkInv, AliveIsGenuine,
      ErrorIffNotAlive
  <2>8. ASSUME NEW d \in network, Receive(d) PROVE IInv'
    <3> d \in Datagrams /\ d.peer \in BOOLEAN
      BY DEF IInv, TypeOK, Datagrams
    <3>a. network' \subseteq network /\ UNCHANGED answered
      BY <2>8 DEF Receive
    <3>b. result' \in [alive : BOOLEAN, responded : BOOLEAN,
                       err : {"none", "options", "deadline", "socket",
                                 "silence"}]
      <4>1. CASE d.peer /\ d.response /\ Consume(d)
        <5>1. result' = [alive |-> TRUE, responded |-> TRUE, err |-> "none"]
          BY <2>8, <4>1 DEF Receive
        <5> QED
          BY <5>1
      <4>2. CASE ~(d.peer /\ d.response /\ Consume(d))
        <5>1. result' = [result EXCEPT !.responded = @ \/ d.peer]
          BY <2>8, <4>2 DEF Receive
        <5>2. (result.responded \/ d.peer) \in BOOLEAN
          OBVIOUS
        <5> QED
          BY <5>1, <5>2, Zenon DEF IInv, TypeOK
      <4> QED
        BY <4>1, <4>2
    <3>c. at' \in {at, "returned"}
          /\ UNCHANGED <<clock, burst, attempt, deadline>>
      BY <2>8 DEF Receive
    <3>1. TypeOK' /\ NetworkInv'
      BY <3>a, <3>b, <3>c DEF IInv, TypeOK, NetworkInv
    <3>2. ClockInv'
      BY <2>8 DEF Receive, IInv, TypeOK, ClockInv
    <3>3. result'.alive => attempt' \in answered' /\ at' = "returned"
      BY <2>8 DEF Receive, Consume, IInv, TypeOK, NetworkInv
    <3>4. ErrorIffNotAlive'
      BY <2>8 DEF Receive, IInv, TypeOK, ErrorIffNotAlive
    <3> QED
      BY <3>1, <3>2, <3>3, <3>4 DEF IInv, AliveIsGenuine
  <2>9. ASSUME NEW i \in 1..Attempts, PeerAnswers(i) PROVE IInv'
    <3>1. Response(i) \in Datagrams
      BY DEF Response, Datagrams
    <3>2. network' \in SUBSET Datagrams /\ answered' \in SUBSET (1..Attempts)
      BY <2>9, <3>1 DEF PeerAnswers, IInv, TypeOK
    <3>3. NetworkInv'
      BY <2>9 DEF PeerAnswers, Response, IInv, NetworkInv
    <3> QED
      BY <2>9, <3>2, <3>3
      DEF PeerAnswers, IInv, TypeOK, ClockInv, AliveIsGenuine, ErrorIffNotAlive
  <2>10. ASSUME NEW d \in Forgeries, OthersSend(d) PROVE IInv'
    BY <2>10 DEF OthersSend, Forgeries, Datagrams, IInv, TypeOK, ClockInv,
                 NetworkInv, AliveIsGenuine, ErrorIffNotAlive
  <2>11. CASE UNCHANGED vars
    BY <2>11 DEF vars, IInv, TypeOK, ClockInv, NetworkInv, AliveIsGenuine,
      ErrorIffNotAlive
  <2> QED
    BY <2>0, <2>1, <2>2, <2>3, <2>4, <2>5, <2>6, <2>7, <2>8, <2>9, <2>10, <2>11
    DEF Next, Probing, Returned
<1> QED
  BY <1>1, <1>2, PTL DEF Spec

\* Every variable of the probe has its type; in particular no attempt beyond
\* the attempts option is ever made.
THEOREM TypeCorrect == Spec => []TypeOK
<1>1. IInv => TypeOK
  BY DEF IInv
<1> QED
  BY <1>1, Invariant, PTL

\* A probe that has returned has an error exactly if it is not Alive, whatever
\* happened in the attempts before the last.
THEOREM ErrorExactlyIfNotAlive == Spec => []ErrorIffNotAlive
<1>1. IInv => ErrorIffNotAlive
  BY DEF IInv
<1> QED
  BY <1>1, Invariant, PTL

\* ProbeWireGuard reports Alive only if the peer answered the initiation of
\* the attempt it reports.
THEOREM AliveOnlyIfAnswered == Spec => []AliveIsGenuine
<1>1. IInv => AliveIsGenuine
  BY DEF IInv
<1> QED
  BY <1>1, Invariant, PTL

\* ProbeWireGuard overruns its timeout by at most the wait of one attempt.
THEOREM BoundedOverrun == Spec => []OverrunAtMostOneWait
<1>1. IInv => OverrunAtMostOneWait
  BY DEF IInv, ClockInv, OverrunAtMostOneWait
<1> QED
  BY <1>1, Invariant, PTL

=============================================================================
