----------------------------- MODULE DialProofs -----------------------------
(***************************************************************************)
(* What the goroutines and Dial do outside v2rayOP, for every value of the *)
(* constants: the type of every variable, and that no read of d.vServer    *)
(* after the nil test finds it nil.  The second rests on two facts of the  *)
(* code: vServer is only ever assigned a *resolved, never reset, and the   *)
(* name PrepareDomain resolves was set by the application before RunLoop.  *)
(* When the name is resolved inside RunLoop, moreover, v2rayOP is held     *)
(* until resolveChan is closed: no channel is signalled by or before       *)
(* another session's PrepareDomain, and nothing panics at all.             *)
(***************************************************************************)
EXTENDS V2RayPointProofs

Panics == {"none", "closeChan", "Vpoint", "resolveChan", "vServer"}

\* The types of what PointTypes leaves out.
DialerTypes ==
    /\ signalled \in SUBSET (0..MaxCalls)
    /\ DomainName \in Servers
    /\ currentServer \in Servers
    /\ vServer \in Servers
    /\ waits \in [Sessions -> WaitStates]
    /\ resolver \in [Sessions -> ResolverStates]
    /\ dial \in [Dialers -> DialStates]
    /\ panic \in Panics

\* The application named a server before any PrepareDomain began, and
\* PrepareDomain looks up what the application named.
NamedInv ==
    /\ calls # 0 => DomainName \in Domains
    /\ \A s \in Sessions :
         /\ resolver[s].at # "none" => calls # 0
         /\ resolver[s].at \in {"lookup", "wait"} => resolver[s].name \in Domains

\* A Dial past its nil test has a server to read.
ServerInv ==
    /\ \A d \in Dialers :
         dial[d].at \in {"ip", "port", "connect"} => vServer # NoServer
    /\ DialNeverDereferencesNil

DialInv == DialerTypes /\ NamedInv /\ ServerInv

-----------------------------------------------------------------------------
\* The invariant holds of a new V2RayPoint.
LEMMA InitDialInv == Init => DialInv
<1> SUFFICES ASSUME Init PROVE DialInv
  OBVIOUS
<1>1. 0 \in 0..MaxCalls /\ 0 \in 0..MaxRetry
  BY ConstantsAssumption
<1>2. NoResolver \in ResolverStates
  BY <1>1 DEF NoResolver, ResolverStates, Servers
<1>3. NoDial \in DialStates
  BY <1>1 DEF NoDial, DialStates, Servers
<1>4. DialerTypes
  BY <1>1, <1>2, <1>3 DEF Init, DialerTypes, WaitStates, Servers, Panics
<1>5. NamedInv
  BY DEF Init, NamedInv, NoResolver
<1>6. ServerInv
  BY DEF Init, ServerInv, DialNeverDereferencesNil, NoDial
<1> QED
  BY <1>4, <1>5, <1>6 DEF DialInv

\* A step that leaves the dialer, the names and the number of calls alone.
LEMMA DialInvUnchanged ==
    ASSUME DialInv, UNCHANGED <<dialer, calls, DomainName, waits, dial, panic>>
    PROVE  DialInv'
BY DEF DialInv, DialerTypes, NamedInv, ServerInv, DialNeverDereferencesNil,
       dialer

\* RunLoop: only the call itself and the start of PrepareDomain matter.
LEMMA RunLoopDialInv ==
    ASSUME IInv, DialInv, NEW c \in Callers, RunLoop(c) PROVE DialInv'
<1>1. CASE CallRunLoop(c)
  <2> USE <1>1 DEF CallRunLoop, dialer, DialInv
  <2>1. DialerTypes'
    BY DEF DialerTypes, Servers
  <2>2. NamedInv'
    <3>1. calls' # 0
      BY DEF IInv, PointTypes
    <3> QED
      BY <3>1 DEF NamedInv
  <2>3. ServerInv'
    BY DEF ServerInv, DialNeverDereferencesNil
  <2> QED
    BY <2>1, <2>2, <2>3
<1>2. CASE RunLoopEnter(c)
  <2> USE <1>2 DEF RunLoopEnter, DialInv
  <2>1. call[c] \in Sessions /\ calls # 0
    BY ConstantsAssumption DEF IInv, PointTypes, FreshInv, Sessions
  <2>2. resolver' \in [Sessions -> ResolverStates]
    BY DEF DialerTypes, ResolverStates
  <2>3. DialerTypes'
    BY <2>2 DEF DialerTypes
  <2>4. NamedInv'
    BY <2>1 DEF NamedInv, DialerTypes, ResolverStates
  <2>5. ServerInv'
    BY DEF ServerInv, DialNeverDereferencesNil
  <2> QED
    BY <2>3, <2>4, <2>5
<1>3. CASE RunLoop(c) /\ ~CallRunLoop(c) /\ ~RunLoopEnter(c)
  BY <1>3, DialInvUnchanged
  DEF RunLoop, RunLoopBusy, RunLoopPrepared, PointLoopLoadFails,
      PointLoopNewFails, PointLoopNew, PointLoopStartFails, PointLoopStart,
      RunLoopReturn, point
<1> QED
  BY <1>1, <1>2, <1>3

\* StopLoop writes nothing the dialer reads but panic.
LEMMA StopLoopDialInv ==
    ASSUME DialInv, NEW t \in Threads, StopLoop(t) PROVE DialInv'
<1>1. CASE StopLoopClose(t) \/ StopLoopShutdown(t)
  BY <1>1
  DEF StopLoopClose, StopLoopShutdown, DialInv, DialerTypes, NamedInv,
      ServerInv, DialNeverDereferencesNil, dialer, Panics
<1>2. CASE StopLoopIdle(t) \/ StopLoopEnter(t) \/ StopLoopEmit(t)
  BY <1>2, DialInvUnchanged
  DEF StopLoopIdle, StopLoopEnter, StopLoopEmit, point
<1> QED
  BY <1>1, <1>2 DEF StopLoop

\* A watcher writes its own channels only.
LEMMA WatcherDialInv ==
    ASSUME IInv, DialInv, NEW s \in Sessions, Watcher(s) PROVE DialInv'
<1> USE DEF DialInv
<1>1. waits' \in [Sessions -> WaitStates]
  <2>1. 0 \in 0..MaxCalls /\ session \in 0..MaxCalls
    BY ConstantsAssumption DEF IInv, PointTypes
  <2> QED
    BY <2>1
    DEF Watcher, WatcherReadResolve, WatcherReadClose, WatcherResolved,
        WatcherClosed, WatcherDecide, WatcherShutdown, DialerTypes, WaitStates
<1>2. UNCHANGED <<dialer, calls, DomainName, dial, panic>>
  BY DEF Watcher, WatcherReadResolve, WatcherReadClose, WatcherResolved,
         WatcherClosed, WatcherDecide, WatcherShutdown, point
<1> QED
  BY <1>1, <1>2
  DEF DialerTypes, NamedInv, ServerInv, DialNeverDereferencesNil, dialer

\* PrepareDomain reads the name the application set; it assigns vServer only a
\* server it has looked up.
LEMMA ResolverDialInv ==
    ASSUME IInv, DialInv, NEW s \in Sessions, Resolver(s) PROVE DialInv'
<1> USE DEF DialInv
<1>1. resolver[s] \in ResolverStates
  BY DEF DialerTypes
<1>2. CASE PrepareDomainBegin(s)
  <2> USE <1>2 DEF PrepareDomainBegin, point
  <2>1. session \in 0..MaxCalls /\ MaxRetry \in 0..MaxRetry
    BY ConstantsAssumption DEF IInv, PointTypes
  <2>2. DomainName \in Domains
    BY DEF NamedInv
  <2>3. resolver' \in [Sessions -> ResolverStates]
    BY <2>1 DEF DialerTypes, ResolverStates
  <2>4. DialerTypes'
    BY <2>3 DEF DialerTypes
  <2>5. NamedInv'
    BY <2>2 DEF NamedInv, DialerTypes
  <2>6. ServerInv'
    BY DEF ServerInv, DialNeverDereferencesNil
  <2> QED
    BY <2>4, <2>5, <2>6
<1>3. CASE PrepareDomainFound(s)
  <2> USE <1>3 DEF PrepareDomainFound, point
  <2>1. resolver[s].name \in Domains /\ NoServer \notin Domains
    BY ConstantsAssumption DEF NamedInv
  <2>2. resolver' \in [Sessions -> ResolverStates]
    BY <1>1 DEF DialerTypes, ResolverStates
  <2>3. DialerTypes'
    BY <2>1, <2>2 DEF DialerTypes, Servers
  <2>4. NamedInv'
    BY <1>1 DEF NamedInv, DialerTypes, ResolverStates
  <2>5. ServerInv'
    BY <2>1 DEF ServerInv, DialNeverDereferencesNil
  <2> QED
    BY <2>3, <2>4, <2>5
<1>4. CASE PrepareDomainGiveUp(s) \/ PrepareDomainFails(s)
             \/ PrepareDomainRetry(s) \/ PrepareDomainClosed(s)
  <2> USE <1>4 DEF PrepareDomainGiveUp, PrepareDomainFails,
                   PrepareDomainRetry, PrepareDomainClosed, point
  <2>1. resolver' \in [Sessions -> ResolverStates]
    BY <1>1, ConstantsAssumption DEF DialerTypes, ResolverStates
  <2>2. DialerTypes'
    BY <2>1 DEF DialerTypes
  <2>3. NamedInv'
    BY <1>1 DEF NamedInv, DialerTypes, ResolverStates
  <2>4. ServerInv'
    BY DEF ServerInv, DialNeverDereferencesNil
  <2> QED
    BY <2>2, <2>3, <2>4
<1>5. CASE CloseResolveChan(s)
  <2> USE <1>5 DEF CloseResolveChan, point
  <2>1. 0 \in 0..MaxCalls /\ 0 \in 0..MaxRetry /\ session \in 0..MaxCalls
    BY ConstantsAssumption DEF IInv, PointTypes
  <2>2. resolver' \in [Sessions -> ResolverStates]
    BY <1>1, <2>1 DEF DialerTypes, ResolverStates, NoResolver, Servers
  <2>3. DialerTypes'
    BY <2>1, <2>2 DEF DialerTypes, Panics
  <2>4. NamedInv'
    BY <1>1 DEF NamedInv, DialerTypes, ResolverStates, NoResolver
  <2>5. ServerInv'
    BY DEF ServerInv, DialNeverDereferencesNil
  <2> QED
    BY <2>3, <2>4, <2>5
<1> QED
  BY <1>2, <1>3, <1>4, <1>5 DEF Resolver

\* Dial passes its nil test only when vServer is set, and vServer stays set.
LEMMA DialDialInv ==
    ASSUME IInv, DialInv, NEW d \in Dialers, Dial(d) PROVE DialInv'
<1> USE DEF DialInv
<1>1. 0 \in 0..MaxCalls /\ session \in 0..MaxCalls /\ dial[d] \in DialStates
  BY ConstantsAssumption DEF IInv, PointTypes, DialerTypes
<1>2. NoDial \in DialStates
  BY <1>1 DEF NoDial, DialStates, Servers
<1>3. UNCHANGED <<dialer, calls, DomainName, waits>>
  BY DEF Dial, DialDomestic, DialServer, DialTest, DialPend, DialWake,
         DialNoSocket, DialReadIP, DialReadPort, DialConnect, point
<1>4. NamedInv'
  BY <1>3 DEF NamedInv, dialer
<1>5. dial' \in [Dialers -> DialStates] /\ ServerInv' /\ panic' = panic
  <2> USE DEF DialerTypes, ServerInv, DialNeverDereferencesNil
  <2>1. ASSUME NEW n \in Domains, DialDomestic(d, n) \/ DialServer(d, n)
        PROVE  dial' \in [Dialers -> DialStates] /\ ServerInv' /\ panic' = panic
    <3>1. CASE DialDomestic(d, n)
      <4>1. [at |-> "done", dest |-> n, chan |-> 0, ip |-> n, port |-> n]
              \in DialStates
        BY <1>1 DEF DialStates, Servers
      <4>2. [NoDial EXCEPT !.at = "failed"] \in DialStates
        BY <1>1 DEF DialStates, NoDial, Servers
      <4> QED
        BY <3>1, <4>1, <4>2, <1>3 DEF DialDomestic, NoDial, dialer
    <3>2. CASE DialServer(d, n)
      BY <3>2, <1>1, <1>3 DEF DialServer, DialStates, NoDial, Servers, dialer
    <3> QED
      BY <2>1, <3>1, <3>2
  <2>2. CASE DialPend(d)
    BY <2>2, <1>1, <1>3 DEF DialPend, DialStates, dialer
  <2>8. CASE DialTest(d)
    BY <2>8, <1>1, <1>3 DEF DialTest, DialStates, dialer
  <2>3. CASE DialWake(d)
    BY <2>3, <1>1, <1>2, <1>3 DEF DialWake, DialStates, NoDial, dialer
  <2>4. CASE DialNoSocket(d)
    BY <2>4, <1>1, <1>2, <1>3 DEF DialNoSocket, DialStates, NoDial, dialer
  <2>5. CASE DialReadIP(d)
    BY <2>5, <1>1, <1>3 DEF DialReadIP, DialStates, dialer
  <2>6. CASE DialReadPort(d)
    BY <2>6, <1>1, <1>3 DEF DialReadPort, DialStates, dialer
  <2>7. CASE DialConnect(d)
    BY <2>7, <1>1, <1>2, <1>3 DEF DialConnect, DialStates, NoDial, dialer
  <2> QED
    BY <2>1, <2>2, <2>3, <2>4, <2>5, <2>6, <2>7, <2>8 DEF Dial
<1>6. DialerTypes'
  BY <1>3, <1>5 DEF DialerTypes, dialer
<1> QED
  BY <1>4, <1>5, <1>6

\* Every step preserves the invariant.
LEMMA NextDialInv == IInv /\ DialInv /\ [Next]_vars => DialInv'
<1> SUFFICES ASSUME IInv, DialInv, [Next]_vars PROVE DialInv'
  OBVIOUS
<1>1. ASSUME NEW c \in Callers, CallStopLoop(c) PROVE DialInv'
  BY <1>1, DialInvUnchanged DEF CallStopLoop, point
<1>2. CASE UNCHANGED vars
  BY <1>2, DialInvUnchanged DEF vars, point
<1> QED
  BY <1>1, <1>2, RunLoopDialInv, StopLoopDialInv, WatcherDialInv,
     ResolverDialInv, DialDialInv
  DEF Next

-----------------------------------------------------------------------------
\* DialInv holds in every reachable state.
THEOREM DialInvariant == Spec => []DialInv
<1>1. Spec => [](IInv /\ DialInv)
  BY Invariant, InitDialInv, NextDialInv, PTL DEF Spec
<1> QED
  BY <1>1, PTL

\* Every variable of the point, the dialer and their goroutines keeps its type.
THEOREM TypeCorrect == Spec => []TypeOK
<1>1. IInv /\ DialInv => TypeOK
  BY DEF IInv, PointTypes, DialInv, DialerTypes, Panics, TypeOK
<1> QED
  BY <1>1, Invariant, DialInvariant, PTL

\* No unsynchronised read of d.vServer after Dial's nil test (support.go:241,
\* 257-264) finds it nil, whatever sessions are started and stopped meanwhile.
THEOREM DialIsSafe == Spec => []DialNeverDereferencesNil
<1>1. DialInv => DialNeverDereferencesNil
  BY DEF DialInv, ServerInv
<1> QED
  BY <1>1, DialInvariant, PTL

-----------------------------------------------------------------------------
(* Synchronous resolution.  RunLoop holds v2rayOP until PrepareDomain of    *)
(* its session has returned, so the channel that is current when resolveChan *)
(* is closed is the session's own.                                          *)

\* PrepareDomain of s is under way.
Resolving(s) == resolver[s].at \notin {"none", "done"}

\* A PrepareDomain under way is that of the current session, whose RunLoop
\* waits for it, and its resolveChan is open.
WaitedFor ==
    \A s \in Sessions :
        Resolving(s) => /\ session = s /\ s \notin signalled
                        /\ \E c \in Callers : pc[c] = "prepare"

\* A RunLoop call that has not entered has no PrepareDomain yet.
NotBegun ==
    \A s \in Sessions :
        resolver[s].at # "none" =>
            s <= calls /\ \A c \in Callers : pc[c] = "run" => call[c] # s

SyncInv == WaitedFor /\ NotBegun /\ SignalMeansPrepared

\* A step that neither resolves nor makes a session, in which no waiting
\* RunLoop goes on and no new call is made.
LEMMA SyncInvUnchanged ==
    ASSUME SyncInv, UNCHANGED <<session, signalled, resolver, calls>>,
           \A c \in Callers : pc[c] = "prepare" => pc'[c] = "prepare",
           \A c \in Callers : pc'[c] = "run" => pc[c] = "run"
                                                /\ call'[c] = call[c],
           panic' # "resolveChan"
    PROVE  SyncInv'
<1>1. WaitedFor'
  BY DEF SyncInv, WaitedFor, Resolving
<1>2. NotBegun'
  BY DEF SyncInv, NotBegun
<1>3. SignalMeansPrepared'
  BY DEF SyncInv, SignalMeansPrepared
<1> QED
  BY <1>1, <1>2, <1>3 DEF SyncInv

\* The call takes a number no PrepareDomain has had.
LEMMA CallRunLoopSync ==
    ASSUME IInv, SyncInv, NEW c \in Callers, CallRunLoop(c) PROVE SyncInv'
<1>1. /\ calls' = calls + 1 /\ calls \in Nat
      /\ call' = [call EXCEPT ![c] = calls + 1]
      /\ pc' = [pc EXCEPT ![c] = "run"] /\ pc[c] = "idle"
      /\ UNCHANGED <<session, signalled, resolver, panic>>
  BY ConstantsAssumption DEF CallRunLoop, Goto, dialer, IInv, PointTypes
<1>2. pc \in [Threads -> Labels] /\ call \in [Callers -> 0..MaxCalls]
      /\ c \in Threads
  BY ThreadsDistinct DEF IInv, PointTypes
<1>3. WaitedFor'
  BY <1>1, <1>2, ThreadsDistinct DEF SyncInv, WaitedFor, Resolving
<1>4. NotBegun'
  <2> SUFFICES ASSUME NEW s \in Sessions, resolver[s].at # "none"
               PROVE  s <= calls' /\ \A d \in Callers : pc'[d] = "run" => call'[d] # s
    BY <1>1 DEF NotBegun
  <2>1. s <= calls /\ s \in Nat
    BY DEF SyncInv, NotBegun, Sessions
  <2>2. ASSUME NEW d \in Callers, pc'[d] = "run" PROVE call'[d] # s
    <3>1. CASE d = c
      BY <1>1, <1>2, <2>1, <3>1
    <3>2. CASE d # c
      BY <1>1, <1>2, <2>2, <3>2, ThreadsDistinct DEF SyncInv, NotBegun
    <3> QED
      BY <3>1, <3>2
  <2> QED
    BY <1>1, <2>1, <2>2
<1>5. SignalMeansPrepared'
  BY <1>1 DEF SyncInv, SignalMeansPrepared
<1> QED
  BY <1>3, <1>4, <1>5 DEF SyncInv

\* RunLoop enters: v2rayOP was free, so nobody was resolving, and the session
\* it makes is new.
LEMMA RunLoopEnterSync ==
    ASSUME IInv, DialInv, SyncInv, AsyncResolve = FALSE,
           NEW c \in Callers, RunLoopEnter(c)
    PROVE  SyncInv'
<1> DEFINE r == call[c]
<1>1. pc \in [Threads -> Labels] /\ c \in Threads /\ r \in Sessions
      /\ r \in Threads /\ r # c /\ pc[c] = "run"
  BY ThreadsDistinct DEF IInv, PointTypes, FreshInv, RunLoopEnter
<1>2. /\ session' = r /\ UNCHANGED <<signalled, calls, call, panic>>
      /\ resolver' = [resolver EXCEPT ![r].at = "begin"]
      /\ pc' = [pc EXCEPT ![r] = "watch", ![c] = "prepare"]
  BY DEF RunLoopEnter
<1>3. resolver[r].at = "none" /\ r <= calls
  BY <1>1 DEF SyncInv, NotBegun, IInv, FreshInv
<1>4. r \notin signalled
  BY <1>3 DEF SyncInv, SignalMeansPrepared
<1>5. \A s \in Sessions : ~Resolving(s)
  <2>1. \A d \in Callers : pc[d] # "prepare"
    BY ThreadsDistinct DEF RunLoopEnter, IInv, LockInv, Critical
  <2> QED
    BY <2>1 DEF SyncInv, WaitedFor
<1>6. /\ resolver'[r].at = "begin"
      /\ \A s \in Sessions : s # r => resolver'[s] = resolver[s]
  BY <1>1, <1>2 DEF DialInv, DialerTypes, ResolverStates
<1>7. pc'[c] = "prepare" /\ \A d \in Callers : d # c => pc'[d] = pc[d]
  BY <1>1, <1>2, ThreadsDistinct
<1> HIDE DEF r
<1>8. WaitedFor'
  BY <1>2, <1>4, <1>5, <1>6, <1>7 DEF WaitedFor, Resolving
<1>9. NotBegun'
  <2>1. \A d \in Callers : d # c /\ pc[d] = "run" => call[d] # r
    BY <1>1 DEF r, IInv, FreshInv
  <2> QED
    BY <1>2, <1>3, <1>6, <1>7, <2>1 DEF SyncInv, NotBegun
<1>10. SignalMeansPrepared'
  <2>1. \A s \in signalled : s \in Sessions
    BY DEF SyncInv, SignalMeansPrepared, DialInv, DialerTypes, Sessions
  <2> QED
    BY <1>2, <1>4, <1>6, <2>1 DEF SyncInv, SignalMeansPrepared
<1> QED
  BY <1>8, <1>9, <1>10 DEF SyncInv

\* RunLoop goes on when its PrepareDomain is done, so none is under way.
LEMMA RunLoopPreparedSync ==
    ASSUME IInv, SyncInv, NEW c \in Callers, RunLoopPrepared(c) PROVE SyncInv'
<1>1. /\ pc' = [pc EXCEPT ![c] = "load"] /\ pc[c] = "prepare"
      /\ resolver[call[c]].at = "done"
      /\ UNCHANGED <<session, signalled, resolver, calls, call, panic>>
  BY DEF RunLoopPrepared, Goto, point, dialer
<1>2. session = call[c] /\ session \in Sessions
  BY <1>1 DEF IInv, HoldingRun
<1>3. \A s \in Sessions : ~Resolving(s)
  BY <1>1, <1>2 DEF SyncInv, WaitedFor, Resolving
<1>4. \A d \in Callers : pc'[d] = "run" => pc[d] = "run"
  BY <1>1, ThreadsDistinct DEF IInv, PointTypes
<1>5. WaitedFor'
  BY <1>1, <1>3 DEF WaitedFor, Resolving
<1>6. NotBegun' /\ SignalMeansPrepared'
  BY <1>1, <1>4 DEF SyncInv, NotBegun, SignalMeansPrepared
<1> QED
  BY <1>5, <1>6 DEF SyncInv

\* The other steps of RunLoop.
LEMMA RunLoopSync ==
    ASSUME IInv, DialInv, SyncInv, AsyncResolve = FALSE,
           NEW c \in Callers, RunLoop(c)
    PROVE  SyncInv'
<1>1. CASE RunLoopBusy(c) \/ PointLoopLoadFails(c) \/ PointLoopNewFails(c)
             \/ PointLoopStartFails(c) \/ PointLoopStart(c)
  <2>1. /\ pc' = [pc EXCEPT ![c] = "idle"] /\ pc[c] # "prepare"
        /\ call' = [call EXCEPT ![c] = 0]
        /\ UNCHANGED <<session, signalled, resolver, calls, panic>>
    BY <1>1
    DEF RunLoopBusy, PointLoopLoadFails, PointLoopNewFails,
        PointLoopStartFails, PointLoopStart, RunLoopReturn, Goto, dialer
  <2>2. pc \in [Threads -> Labels] /\ call \in [Callers -> 0..MaxCalls]
    BY DEF IInv, PointTypes
  <2>3. \A d \in Callers : pc'[d] = "run" => pc[d] = "run" /\ call'[d] = call[d]
    BY <2>1, <2>2, ThreadsDistinct
  <2>4. \A d \in Callers : pc[d] = "prepare" => pc'[d] = "prepare"
    BY <2>1, <2>2, ThreadsDistinct
  <2> QED
    BY <2>1, <2>3, <2>4, SyncInvUnchanged DEF SyncInv, SignalMeansPrepared
<1>2. CASE PointLoopNew(c)
  <2>1. /\ pc' = [pc EXCEPT ![c] = "start"] /\ pc[c] = "load"
        /\ UNCHANGED <<session, signalled, resolver, calls, call, panic>>
    BY <1>2 DEF PointLoopNew, Goto, dialer
  <2>2. pc \in [Threads -> Labels]
    BY DEF IInv, PointTypes
  <2>3. \A d \in Callers : /\ pc'[d] = "run" => pc[d] = "run"
                           /\ pc[d] = "prepare" => pc'[d] = "prepare"
    BY <2>1, <2>2, ThreadsDistinct
  <2> QED
    BY <2>1, <2>3, SyncInvUnchanged DEF SyncInv, SignalMeansPrepared
<1> QED
  BY <1>1, <1>2, CallRunLoopSync, RunLoopEnterSync, RunLoopPreparedSync
  DEF RunLoop

\* StopLoop and the watchers move threads that are not in RunLoop.
LEMMA StopLoopSync ==
    ASSUME IInv, SyncInv, NEW t \in Threads,
           StopLoop(t) \/ (t \in Callers /\ CallStopLoop(t))
             \/ (t \in Sessions /\ Watcher(t))
    PROVE  SyncInv'
<1>1. /\ UNCHANGED <<session, signalled, resolver, calls, call>>
      /\ panic' \in {panic, "closeChan", "Vpoint"}
  BY DEF StopLoop, CallStopLoop, Watcher, StopLoopIdle, StopLoopEnter,
         StopLoopClose, StopLoopShutdown, StopLoopEmit, WatcherReadResolve,
         WatcherReadClose, WatcherResolved, WatcherClosed, WatcherDecide,
         WatcherShutdown, point, dialer
<1>2. \E l : l # "run" /\ pc' = [pc EXCEPT ![t] = l] /\ pc[t] # "prepare"
  BY DEF StopLoop, CallStopLoop, Watcher, StopLoopIdle, StopLoopEnter,
         StopLoopClose, StopLoopShutdown, StopLoopEmit, WatcherReadResolve,
         WatcherReadClose, WatcherResolved, WatcherClosed, WatcherDecide,
         WatcherShutdown, AfterStop, Goto
<1>3. \A d \in Callers : /\ pc'[d] = "run" => pc[d] = "run"
                         /\ pc[d] = "prepare" => pc'[d] = "prepare"
  BY <1>2, ThreadsDistinct DEF IInv, PointTypes
<1> QED
  BY <1>1, <1>3, SyncInvUnchanged DEF SyncInv, SignalMeansPrepared

\* PrepareDomain goes on, or returns and closes the resolveChan of its own
\* session for the first time.
LEMMA ResolverSync ==
    ASSUME IInv, DialInv, SyncInv, NEW s \in Sessions, Resolver(s)
    PROVE  SyncInv'
<1>1. UNCHANGED <<session, calls, call, pc>>
  BY DEF Resolver, PrepareDomainBegin, PrepareDomainGiveUp, PrepareDomainFound,
         PrepareDomainFails, PrepareDomainRetry, PrepareDomainClosed,
         CloseResolveChan, point
<1>2. Resolving(s) /\ session = s /\ s \notin signalled
      /\ \E c \in Callers : pc[c] = "prepare"
  <2>1. Resolving(s)
    BY DEF Resolver, PrepareDomainBegin, PrepareDomainGiveUp,
           PrepareDomainFound, PrepareDomainFails, PrepareDomainRetry,
           PrepareDomainClosed, CloseResolveChan, Resolving
  <2> QED
    BY <2>1 DEF SyncInv, WaitedFor
<1>3. /\ \A q \in Sessions : q # s => resolver'[q] = resolver[q]
      /\ resolver'[s].at # "none"
  <2>1. resolver \in [Sessions -> ResolverStates]
    BY DEF DialInv, DialerTypes
  <2>2. CASE PrepareDomainBegin(s)
    BY <2>1, <2>2 DEF PrepareDomainBegin
  <2>3. CASE PrepareDomainGiveUp(s) \/ PrepareDomainRetry(s)
               \/ PrepareDomainClosed(s)
    BY <2>1, <2>3 DEF PrepareDomainGiveUp, PrepareDomainRetry,
                      PrepareDomainClosed, ResolverStates
  <2>4. CASE PrepareDomainFound(s) \/ PrepareDomainFails(s)
    BY <2>1, <2>4 DEF PrepareDomainFound, PrepareDomainFails, ResolverStates
  <2>5. CASE CloseResolveChan(s)
    BY <2>1, <2>5 DEF CloseResolveChan, NoResolver
  <2> QED
    BY <2>2, <2>3, <2>4, <2>5 DEF Resolver
<1>4. \/ UNCHANGED signalled /\ UNCHANGED panic
      \/ /\ signalled' = signalled \cup {s} /\ UNCHANGED panic
         /\ resolver'[s].at = "done"
  <2>1. CASE CloseResolveChan(s)
    BY <1>2, <2>1
    DEF CloseResolveChan, NoResolver, DialInv, DialerTypes
  <2>2. CASE Resolver(s) /\ ~CloseResolveChan(s)
    BY <2>2
    DEF Resolver, PrepareDomainBegin, PrepareDomainGiveUp, PrepareDomainFound,
        PrepareDomainFails, PrepareDomainRetry, PrepareDomainClosed
  <2> QED
    BY <2>1, <2>2
<1>5. WaitedFor'
  BY <1>1, <1>2, <1>3, <1>4 DEF SyncInv, WaitedFor, Resolving
<1>6. NotBegun'
  BY <1>1, <1>2, <1>3 DEF SyncInv, NotBegun, Resolving
<1>7. SignalMeansPrepared'
  <2>1. \A q \in signalled : q \in Sessions
    BY DEF SyncInv, SignalMeansPrepared, DialInv, DialerTypes, Sessions
  <2> QED
    BY <1>2, <1>3, <1>4, <2>1, ThreadsDistinct DEF SyncInv, SignalMeansPrepared
<1> QED
  BY <1>5, <1>6, <1>7 DEF SyncInv

\* With synchronous resolution every step preserves the invariant.
LEMMA NextSync ==
    ASSUME AsyncResolve = FALSE, IInv, DialInv, SyncInv, [Next]_vars
    PROVE  SyncInv'
<1>1. ASSUME NEW d \in Dialers, Dial(d) PROVE SyncInv'
  <2>1. UNCHANGED <<session, signalled, resolver, calls, call, pc>>
        /\ panic' \in {panic, "vServer"}
    BY <1>1
    DEF Dial, DialDomestic, DialServer, DialTest, DialPend, DialWake,
         DialNoSocket, DialReadIP, DialReadPort, DialConnect, point, dialer
  <2> QED
    BY <2>1, SyncInvUnchanged DEF SyncInv, SignalMeansPrepared
<1>2. CASE UNCHANGED vars
  BY <1>2, SyncInvUnchanged
  DEF vars, point, dialer, SyncInv, SignalMeansPrepared
<1> QED
  BY <1>1, <1>2, RunLoopSync, StopLoopSync, ResolverSync, ThreadsDistinct
  DEF Next

\* "wait until resolved" holds of every session when the name is resolved
\* inside RunLoop: its resolveChan is closed once, after PrepareDomain.
THEOREM SignalsArePrepared ==
    ASSUME AsyncResolve = FALSE
    PROVE  Spec => []SignalMeansPrepared
<1>1. Init => SyncInv
  <2> SUFFICES ASSUME Init PROVE SyncInv
    OBVIOUS
  <2>1. \A s \in Sessions : resolver[s].at = "none"
    BY DEF Init, NoResolver
  <2>2. WaitedFor /\ NotBegun
    BY <2>1 DEF WaitedFor, NotBegun, Resolving
  <2>3. SignalMeansPrepared
    BY DEF Init, SignalMeansPrepared
  <2> QED
    BY <2>2, <2>3 DEF SyncInv
<1>2. IInv /\ DialInv /\ SyncInv /\ [Next]_vars => SyncInv'
  BY NextSync
<1>3. SyncInv => SignalMeansPrepared
  BY DEF SyncInv
<1> QED
  BY <1>1, <1>2, <1>3, Invariant, DialInvariant, PTL DEF Spec

\* With synchronous resolution no race of callers, watchers, resolvers and
\* dialers ends in a Go panic.
THEOREM SyncNeverPanics ==
    ASSUME AsyncResolve = FALSE
    PROVE  Spec => [](panic = "none")
<1>1. IInv /\ DialInv /\ SignalMeansPrepared => panic = "none"
  BY DEF IInv, StopNeverPanics, DialInv, DialerTypes, ServerInv,
         DialNeverDereferencesNil, SignalMeansPrepared, Panics
<1> QED
  BY <1>1, Invariant, DialInvariant, SignalsArePrepared, PTL

=============================================================================
