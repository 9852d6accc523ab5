----------------------------- MODULE V2RayPoint -----------------------------
(***************************************************************************)
(* The life cycle of a V2RayPoint (libv2ray_main.go) together with the     *)
(* ProtectedDialer it owns (libv2ray_support.go).                          *)
(*                                                                         *)
(* The embedding application calls RunLoop and StopLoop from any thread.   *)
(* Each RunLoop that finds the point stopped makes a new pair of channels  *)
(* (closeChan, resolveChan), starts a watcher goroutine that waits for one *)
(* of them, resolves the server name (inside the call, or in a goroutine   *)
(* when AsyncResolve is set) and starts the core.  The core's outbounds    *)
(* enter ProtectedDialer.Dial, which waits for the name to be resolved.    *)
(*                                                                         *)
(* Only RunLoop and StopLoop take v2rayOP.  The goroutines and Dial read   *)
(* the fields of the point and of the dialer without it, so each of their  *)
(* reads is a step of its own.                                             *)
(*                                                                         *)
(* Both channels of a pair are replaced in the same critical section,      *)
(* hence one variable, session, names the current pair: the number of the  *)
(* RunLoop call that made it.  The core instance and the goroutines of     *)
(* that call carry the same number.                                        *)
(***************************************************************************)
EXTENDS Naturals

CONSTANTS
    Callers,        \* application threads that call RunLoop and StopLoop
    Dialers,        \* core threads that call ProtectedDialer.Dial
    Domains,        \* server addresses the application may configure
    AsyncResolve,   \* V2RayPoint.AsyncResolve
    MaxCalls,       \* bound: RunLoop calls in a behaviour
    MaxRetry,       \* lookups PrepareDomain makes (10 in the code)
    NoServer,       \* the nil *resolved, and the empty server address
    Free            \* v2rayOP is not held

ASSUME ConstantsAssumption ==
    /\ MaxCalls \in Nat /\ MaxRetry \in Nat
    /\ AsyncResolve \in BOOLEAN
    /\ \A c \in Callers : c \notin 0..MaxCalls
    /\ Free \notin Callers /\ Free \notin 0..MaxCalls
    /\ NoServer \notin Domains

VARIABLES
    op,             \* holder of v2rayOP
    pc,             \* control point of every caller and every watcher
    calls,          \* RunLoop calls made so far
    call,           \* the RunLoop call a caller is executing
    session,        \* the call that made the current closeChan, resolveChan
    closed,         \* the closeChans that are closed
    signalled,      \* the resolveChans that are closed
    Vpoint,         \* the call whose core instance v.Vpoint is; 0 is nil
    core,           \* what became of each call's core instance
    IsRunning,      \* V2RayPoint.IsRunning
    status,         \* last text given to SupportSet.OnEmitStatus
    DomainName,     \* V2RayPoint.DomainName
    currentServer,  \* ProtectedDialer.currentServer
    vServer,        \* the server ProtectedDialer.vServer was resolved for
    waits,          \* the channels each watcher selects on
    resolver,       \* PrepareDomain and the close after it, per call
    dial,           \* the Dial each dialer is executing
    panic           \* the Go panic that ended the process, or "none"

point  == <<op, calls, call, session, closed, Vpoint, core, IsRunning, status>>
dialer == <<currentServer, vServer, signalled, resolver>>
vars   == <<point, dialer, pc, DomainName, waits, dial, panic>>

Sessions == 1..MaxCalls
Threads  == Callers \cup Sessions

\* The control points at which a thread holds v2rayOP.
Critical == {"prepare", "load", "start", "close", "shutdown", "emit"}

Goto(t, l) == pc' = [pc EXCEPT ![t] = l]

\* Fields that no later step reads are reset, so that they do not tell apart
\* states in which the program behaves alike.
NoDial == [at |-> "idle", dest |-> NoServer, chan |-> 0,
           ip |-> NoServer, port |-> NoServer]
NoResolver == [at |-> "none", name |-> NoServer, close |-> 0,
               left |-> 0, ok |-> FALSE]

\* RunLoop returns to its caller.
RunLoopReturn(c) == Goto(c, "idle") /\ call' = [call EXCEPT ![c] = 0]

-----------------------------------------------------------------------------
(* NewV2RayPoint: nothing runs, both channels and the server are nil. *)

Init ==
    /\ op = Free
    /\ pc = [t \in Threads |-> IF t \in Callers THEN "idle" ELSE "none"]
    /\ calls = 0
    /\ call = [c \in Callers |-> 0]
    /\ session = 0
    /\ closed = {}
    /\ signalled = {}
    /\ Vpoint = 0
    /\ core = [s \in Sessions |-> "none"]
    /\ IsRunning = FALSE
    /\ status = "none"
    /\ DomainName = NoServer
    /\ currentServer = NoServer
    /\ vServer = NoServer
    /\ waits = [s \in Sessions |-> [resolve |-> 0, close |-> 0]]
    /\ resolver = [s \in Sessions |-> NoResolver]
    /\ dial = [d \in Dialers |-> NoDial]
    /\ panic = "none"

-----------------------------------------------------------------------------
(* RunLoop *)

\* The application sets DomainName and calls RunLoop.
CallRunLoop(c) ==
    /\ pc[c] = "idle"
    /\ calls < MaxCalls
    /\ calls' = calls + 1
    /\ call' = [call EXCEPT ![c] = calls + 1]
    /\ \E n \in Domains : DomainName' = n
    /\ Goto(c, "run")
    /\ UNCHANGED <<op, session, closed, Vpoint, core, IsRunning, status,
                   dialer, waits, dial, panic>>

\* RunLoop takes v2rayOP and returns at once: the point is running.
RunLoopBusy(c) ==
    /\ pc[c] = "run"
    /\ op = Free
    /\ IsRunning
    /\ RunLoopReturn(c)
    /\ UNCHANGED <<op, calls, session, closed, Vpoint, core, IsRunning, status,
                   dialer, DomainName, waits, dial, panic>>

\* RunLoop makes the channels, starts the watcher, and starts PrepareDomain:
\* in a goroutine, or in the call itself, which then waits for its end.
RunLoopEnter(c) ==
    LET s == call[c] IN
    /\ pc[c] = "run"
    /\ op = Free
    /\ ~IsRunning
    /\ op' = c
    /\ session' = s
    /\ resolver' = [resolver EXCEPT ![s].at = "begin"]
    /\ pc' = [pc EXCEPT ![s] = "watch",
                        ![c] = IF AsyncResolve THEN "load" ELSE "prepare"]
    /\ UNCHANGED <<calls, call, closed, Vpoint, core, IsRunning, status,
                   currentServer, vServer, signalled,
                   DomainName, waits, dial, panic>>

\* The synchronous RunLoop goes on when PrepareDomain has returned and the
\* resolveChan is closed.
RunLoopPrepared(c) ==
    /\ pc[c] = "prepare"
    /\ resolver[call[c]].at = "done"
    /\ Goto(c, "load")
    /\ UNCHANGED <<point, dialer, DomainName, waits, dial, panic>>

\* pointloop, the configuration does not load: Vpoint keeps its old value.
PointLoopLoadFails(c) ==
    /\ pc[c] = "load"
    /\ op' = Free
    /\ RunLoopReturn(c)
    /\ UNCHANGED <<calls, session, closed, Vpoint, core, IsRunning,
                   status, dialer, DomainName, waits, dial, panic>>

\* pointloop, core.New fails: Vpoint is reset.
PointLoopNewFails(c) ==
    /\ pc[c] = "load"
    /\ Vpoint' = 0
    /\ op' = Free
    /\ RunLoopReturn(c)
    /\ UNCHANGED <<calls, session, closed, core, IsRunning, status,
                   dialer, DomainName, waits, dial, panic>>

\* pointloop, core.New succeeds: IsRunning is set before the core is started.
PointLoopNew(c) ==
    /\ pc[c] = "load"
    /\ Vpoint' = call[c]
    /\ core' = [core EXCEPT ![call[c]] = "created"]
    /\ IsRunning' = TRUE
    /\ Goto(c, "start")
    /\ UNCHANGED <<op, calls, call, session, closed, status,
                   dialer, DomainName, waits, dial, panic>>

\* A Start failure that leaves IsRunning set.
PointLoopStartFailsStuck(c) ==
    /\ pc[c] = "start"
    /\ core' = [core EXCEPT ![call[c]] = "failed"]
    /\ op' = Free
    /\ RunLoopReturn(c)
    /\ UNCHANGED <<calls, session, closed, Vpoint, IsRunning, status,
                   dialer, DomainName, waits, dial, panic>>

\* pointloop, Start fails: IsRunning is cleared, Vpoint stays.
PointLoopStartFails(c) ==
    /\ pc[c] = "start"
    /\ core' = [core EXCEPT ![call[c]] = "failed"]
    /\ IsRunning' = FALSE
    /\ op' = Free
    /\ RunLoopReturn(c)
    /\ UNCHANGED <<calls, session, closed, Vpoint, status,
                   dialer, DomainName, waits, dial, panic>>

\* pointloop, the core starts: Prepare, Setup, OnEmitStatus "Running".
PointLoopStart(c) ==
    /\ pc[c] = "start"
    /\ core' = [core EXCEPT ![call[c]] = "started"]
    /\ status' = "Running"
    /\ op' = Free
    /\ RunLoopReturn(c)
    /\ UNCHANGED <<calls, session, closed, Vpoint, IsRunning,
                   dialer, DomainName, waits, dial, panic>>

-----------------------------------------------------------------------------
(* StopLoop, called by the application or by a watcher *)

CallStopLoop(c) ==
    /\ pc[c] = "idle"
    /\ Goto(c, "stop")
    /\ UNCHANGED <<point, dialer, DomainName, waits, dial, panic>>

\* What a thread does after StopLoop: a watcher calls SupportSet.Shutdown.
AfterStop(t) == IF t \in Callers THEN "idle" ELSE "notify"

\* StopLoop takes v2rayOP and returns at once: nothing runs.
StopLoopIdle(t) ==
    /\ pc[t] = "stop"
    /\ op = Free
    /\ ~IsRunning
    /\ Goto(t, AfterStop(t))
    /\ UNCHANGED <<point, dialer, DomainName, waits, dial, panic>>

\* A StopLoop that tests IsRunning before it takes v2rayOP, not under it.
StopLoopEnterUnchecked(t) ==
    /\ pc[t] = "stop"
    /\ op = Free
    /\ session # 0
    /\ op' = t
    /\ Goto(t, "close")
    /\ UNCHANGED <<calls, call, session, closed, Vpoint, core, IsRunning,
                   status, dialer, DomainName, waits, dial, panic>>

StopLoopEnter(t) ==
    /\ pc[t] = "stop"
    /\ op = Free
    /\ IsRunning
    /\ op' = t
    /\ Goto(t, "close")
    /\ UNCHANGED <<calls, call, session, closed, Vpoint, core, IsRunning,
                   status, dialer, DomainName, waits, dial, panic>>

\* A StopLoop that does not close closeChan.
StopLoopCloseMissing(t) ==
    /\ pc[t] = "close"
    /\ Goto(t, "shutdown")
    /\ UNCHANGED <<point, dialer, DomainName, waits, dial, panic>>

\* close(v.closeChan) panics on a channel that is nil or closed.
StopLoopClose(t) ==
    /\ pc[t] = "close"
    /\ IF session = 0 \/ session \in closed
         THEN panic' = "closeChan" /\ UNCHANGED closed
         ELSE closed' = closed \cup {session} /\ UNCHANGED panic
    /\ Goto(t, "shutdown")
    /\ UNCHANGED <<op, calls, call, session, Vpoint, core, IsRunning, status,
                   dialer, DomainName, waits, dial>>

\* A shutdownInit that drops the instance without closing it.
StopLoopShutdownNoClose(t) ==
    /\ pc[t] = "shutdown"
    /\ IsRunning' = FALSE
    /\ Vpoint' = 0
    /\ Goto(t, "emit")
    /\ UNCHANGED <<op, calls, call, session, closed, core, status,
                   dialer, DomainName, waits, dial, panic>>

\* shutdownInit; Vpoint.Close dereferences v.Vpoint.
StopLoopShutdown(t) ==
    /\ pc[t] = "shutdown"
    /\ IsRunning' = FALSE
    /\ IF Vpoint = 0
         THEN panic' = "Vpoint" /\ UNCHANGED core
         ELSE core' = [core EXCEPT ![Vpoint] = "closed"] /\ UNCHANGED panic
    /\ Vpoint' = 0
    /\ Goto(t, "emit")
    /\ UNCHANGED <<op, calls, call, session, closed, status,
                   dialer, DomainName, waits, dial>>

\* OnEmitStatus "Closed", and v2rayOP is released.
StopLoopEmit(t) ==
    /\ pc[t] = "emit"
    /\ status' = "Closed"
    /\ op' = Free
    /\ Goto(t, AfterStop(t))
    /\ UNCHANGED <<calls, call, session, closed, Vpoint, core, IsRunning,
                   dialer, DomainName, waits, dial, panic>>

-----------------------------------------------------------------------------
(* The watcher goroutine of RunLoop call s.  The select statement reads    *)
(* d.resolveChan and then v.closeChan when the goroutine gets to run, which *)
(* may be in a later session.                                              *)

WatcherReadResolve(s) ==
    /\ pc[s] = "watch"
    /\ waits' = [waits EXCEPT ![s].resolve = session]
    /\ Goto(s, "watch2")
    /\ UNCHANGED <<point, dialer, DomainName, dial, panic>>

WatcherReadClose(s) ==
    /\ pc[s] = "watch2"
    /\ waits' = [waits EXCEPT ![s].close = session]
    /\ Goto(s, "select")
    /\ UNCHANGED <<point, dialer, DomainName, dial, panic>>

WatcherResolved(s) ==
    /\ pc[s] = "select"
    /\ waits[s].resolve \in signalled
    /\ waits' = [waits EXCEPT ![s].close = 0]
    /\ Goto(s, "ready?")
    /\ UNCHANGED <<point, dialer, DomainName, dial, panic>>

WatcherClosed(s) ==
    /\ pc[s] = "select"
    /\ waits[s].close \in closed
    /\ waits' = [waits EXCEPT ![s] = [resolve |-> 0, close |-> 0]]
    /\ Goto(s, "closed")
    /\ UNCHANGED <<point, dialer, DomainName, dial, panic>>

\* A watcher that ignores an unresolved server.
WatcherDecideNever(s) ==
    /\ pc[s] = "ready?"
    /\ Goto(s, "passed")
    /\ UNCHANGED <<point, dialer, DomainName, waits, dial, panic>>

\* IsVServerReady decides between returning and StopLoop, Shutdown.
WatcherDecide(s) ==
    /\ pc[s] = "ready?"
    /\ Goto(s, IF vServer = NoServer THEN "stop" ELSE "passed")
    /\ UNCHANGED <<point, dialer, DomainName, waits, dial, panic>>

\* SupportSet.Shutdown, which makes the application stop the VPN service.
WatcherShutdown(s) ==
    /\ pc[s] = "notify"
    /\ Goto(s, "notified")
    /\ UNCHANGED <<point, dialer, DomainName, waits, dial, panic>>

-----------------------------------------------------------------------------
(* PrepareDomain for RunLoop call s and the close of resolveChan after it.  *)

\* The arguments v.DomainName and v.closeChan are read when the goroutine
\* gets to run; PrepareDomain then sets currentServer.
PrepareDomainBegin(s) ==
    /\ resolver[s].at = "begin"
    /\ resolver' = [resolver EXCEPT ![s] =
                      [at |-> "lookup", name |-> DomainName,
                       close |-> session, left |-> MaxRetry, ok |-> FALSE]]
    /\ currentServer' = DomainName
    /\ UNCHANGED <<point, pc, vServer, signalled, DomainName, waits, dial,
                   panic>>

\* A PrepareDomain that never gives up.
PrepareDomainGiveUpNever(s) ==
    /\ resolver[s].at = "lookup"
    /\ resolver[s].left = 0
    /\ resolver' = [resolver EXCEPT ![s].left = MaxRetry]
    /\ UNCHANGED <<point, pc, currentServer, vServer, signalled, DomainName,
                   waits, dial, panic>>

PrepareDomainGiveUp(s) ==
    /\ resolver[s].at = "lookup"
    /\ resolver[s].left = 0
    /\ resolver' = [resolver EXCEPT ![s].at = "signal"]
    /\ UNCHANGED <<point, pc, currentServer, vServer, signalled, DomainName,
                   waits, dial, panic>>

PrepareDomainFound(s) ==
    /\ resolver[s].at = "lookup"
    /\ resolver[s].left > 0
    /\ resolver' = [resolver EXCEPT ![s].at = "signal", ![s].ok = TRUE]
    /\ vServer' = resolver[s].name
    /\ UNCHANGED <<point, pc, currentServer, signalled, DomainName, waits,
                   dial, panic>>

\* A retry loop that counts without looking at the counter.
PrepareDomainFailsUncounted(s) ==
    /\ resolver[s].at = "lookup"
    /\ resolver' = [resolver EXCEPT ![s].at = "wait", ![s].left = @ - 1]
    /\ UNCHANGED <<point, pc, currentServer, vServer, signalled, DomainName,
                   waits, dial, panic>>

PrepareDomainFails(s) ==
    /\ resolver[s].at = "lookup"
    /\ resolver[s].left > 0
    /\ resolver' = [resolver EXCEPT ![s].at = "wait", ![s].left = @ - 1]
    /\ UNCHANGED <<point, pc, currentServer, vServer, signalled, DomainName,
                   waits, dial, panic>>

\* A retry wait that returns as soon as the RunLoop caller may proceed,
\* closing resolveChan while lookups are still being made.
PrepareDomainRetryEarly(s) ==
    /\ resolver[s].at = "wait"
    /\ resolver' = [resolver EXCEPT ![s].at = "lookup"]
    /\ signalled' = signalled \cup {session}
    /\ UNCHANGED <<point, pc, currentServer, vServer, DomainName, waits, dial,
                   panic>>

\* Two seconds have passed since the lookup failed.
PrepareDomainRetry(s) ==
    /\ resolver[s].at = "wait"
    /\ resolver' = [resolver EXCEPT ![s].at = "lookup"]
    /\ UNCHANGED <<point, pc, currentServer, vServer, signalled, DomainName,
                   waits, dial, panic>>

\* closeCh is closed during the wait.
PrepareDomainClosed(s) ==
    /\ resolver[s].at = "wait"
    /\ resolver[s].close \in closed
    /\ resolver' = [resolver EXCEPT ![s].at = "signal"]
    /\ UNCHANGED <<point, pc, currentServer, vServer, signalled, DomainName,
                   waits, dial, panic>>

\* An early return that skips the close of resolveChan.
CloseResolveChanMissing(s) ==
    /\ resolver[s].at = "signal"
    /\ IF resolver[s].ok
         THEN signalled' = signalled \cup {session}
         ELSE UNCHANGED signalled
    /\ resolver' = [resolver EXCEPT ![s] =
                      [NoResolver EXCEPT !.at = "done", !.ok = resolver[s].ok]]
    /\ UNCHANGED <<point, pc, currentServer, vServer, DomainName, waits, dial,
                   panic>>

\* close(v.dialer.ResolveChan()): the channel of the session that is current
\* now, which need not be s.  Closing it twice is a panic.
CloseResolveChan(s) ==
    /\ resolver[s].at = "signal"
    /\ IF session \in signalled
         THEN panic' = "resolveChan" /\ UNCHANGED signalled
         ELSE signalled' = signalled \cup {session} /\ UNCHANGED panic
    /\ resolver' = [resolver EXCEPT ![s] =
                      [NoResolver EXCEPT !.at = "done", !.ok = resolver[s].ok]]
    /\ UNCHANGED <<point, pc, currentServer, vServer, DomainName, waits, dial>>

-----------------------------------------------------------------------------
(* ProtectedDialer.Dial *)

Returned == {"idle", "done", "failed"}

\* A destination other than currentServer is resolved for this Dial alone.
DialDomestic(d, n) ==
    /\ dial[d].at \in Returned
    /\ n # currentServer
    /\ \/ dial' = [dial EXCEPT ![d] = [at |-> "done", dest |-> n, chan |-> 0,
                                       ip |-> n, port |-> n]]
       \/ dial' = [dial EXCEPT ![d] = [NoDial EXCEPT !.at = "failed"]]
    /\ UNCHANGED <<point, dialer, pc, DomainName, waits, panic>>

DialServer(d, n) ==
    /\ dial[d].at \in Returned
    /\ n = currentServer
    /\ dial' = [dial EXCEPT ![d] = [NoDial EXCEPT !.at = "test", !.dest = n]]
    /\ UNCHANGED <<point, dialer, pc, DomainName, waits, panic>>

\* if d.vServer == nil
DialTest(d) ==
    /\ dial[d].at = "test"
    /\ dial' = [dial EXCEPT ![d].at =
                  IF vServer = NoServer THEN "recv" ELSE "ip"]
    /\ UNCHANGED <<point, dialer, pc, DomainName, waits, panic>>

\* "Dial pending prepare": the receive evaluates d.resolveChan.
DialPend(d) ==
    /\ dial[d].at = "recv"
    /\ dial' = [dial EXCEPT ![d].at = "pending", ![d].chan = session]
    /\ UNCHANGED <<point, dialer, pc, DomainName, waits, panic>>

\* A Dial that does not look at vServer again after the wait.
DialWakeUnchecked(d) ==
    /\ dial[d].at = "pending"
    /\ dial[d].chan \in signalled
    /\ dial' = [dial EXCEPT ![d].chan = 0, ![d].at = "ip"]
    /\ UNCHANGED <<point, dialer, pc, DomainName, waits, panic>>

\* The channel is closed for good, so the receive and the nil test after it are
\* one step.
DialWake(d) ==
    /\ dial[d].at = "pending"
    /\ dial[d].chan \in signalled
    /\ dial' = [dial EXCEPT ![d] =
                  IF vServer = NoServer THEN [NoDial EXCEPT !.at = "failed"]
                                        ELSE [@ EXCEPT !.chan = 0, !.at = "ip"]]
    /\ UNCHANGED <<point, dialer, pc, DomainName, waits, panic>>

DialNoSocket(d) ==
    /\ dial[d].at = "ip"
    /\ dial' = [dial EXCEPT ![d] = [NoDial EXCEPT !.at = "failed"]]
    /\ UNCHANGED <<point, dialer, pc, DomainName, waits, panic>>

\* curIP := d.vServer.currentIP()
DialReadIP(d) ==
    /\ dial[d].at = "ip"
    /\ dial' = [dial EXCEPT ![d].at = "port", ![d].ip = vServer]
    /\ UNCHANGED <<point, dialer, pc, DomainName, waits, panic>>

\* d.vServer.Port, read again when fdConn is called; nil is a panic.
DialReadPort(d) ==
    /\ dial[d].at = "port"
    /\ IF vServer = NoServer
         THEN panic' = "vServer" /\ UNCHANGED dial
         ELSE /\ dial' = [dial EXCEPT ![d].at = "connect", ![d].port = vServer]
              /\ UNCHANGED panic
    /\ UNCHANGED <<point, dialer, pc, DomainName, waits>>

\* fdConn succeeds, or fails and d.vServer.NextIP() is called.
DialConnect(d) ==
    /\ dial[d].at = "connect"
    /\ \/ dial' = [dial EXCEPT ![d].at = "done"] /\ UNCHANGED panic
       \/ IF vServer = NoServer
            THEN panic' = "vServer" /\ UNCHANGED dial
            ELSE /\ dial' = [dial EXCEPT ![d] = [NoDial EXCEPT !.at = "failed"]]
                 /\ UNCHANGED panic
    /\ UNCHANGED <<point, dialer, pc, DomainName, waits>>

-----------------------------------------------------------------------------
RunLoop(c) ==
    \/ CallRunLoop(c) \/ RunLoopBusy(c) \/ RunLoopEnter(c)
    \/ RunLoopPrepared(c)
    \/ PointLoopLoadFails(c) \/ PointLoopNewFails(c) \/ PointLoopNew(c)
    \/ PointLoopStartFails(c) \/ PointLoopStart(c)

StopLoop(t) ==
    \/ StopLoopIdle(t) \/ StopLoopEnter(t) \/ StopLoopClose(t)
    \/ StopLoopShutdown(t) \/ StopLoopEmit(t)

Watcher(s) ==
    \/ WatcherReadResolve(s) \/ WatcherReadClose(s)
    \/ WatcherResolved(s) \/ WatcherClosed(s)
    \/ WatcherDecide(s) \/ WatcherShutdown(s)

Resolver(s) ==
    \/ PrepareDomainBegin(s) \/ PrepareDomainGiveUp(s)
    \/ PrepareDomainFound(s) \/ PrepareDomainFails(s)
    \/ PrepareDomainRetry(s) \/ PrepareDomainClosed(s)
    \/ CloseResolveChan(s)

Dial(d) ==
    \/ \E n \in Domains : DialDomestic(d, n) \/ DialServer(d, n)
    \/ DialTest(d) \/ DialPend(d) \/ DialWake(d) \/ DialNoSocket(d)
    \/ DialReadIP(d) \/ DialReadPort(d) \/ DialConnect(d)

\* A Go panic outside any recover ends the process: no step follows it, which
\* TLC would report as a deadlock.
Next ==
    /\ panic = "none"
    /\ \/ \E c \in Callers : RunLoop(c) \/ CallStopLoop(c)
       \/ \E t \in Threads : StopLoop(t)
       \/ \E s \in Sessions : Watcher(s) \/ Resolver(s)
       \/ \E d \in Dialers : Dial(d)

Spec == Init /\ [][Next]_vars

(***************************************************************************)
(* Fairness.  The Go scheduler runs every goroutine that can run, timers   *)
(* fire, lookups and the application's callbacks return: weak fairness of  *)
(* every step after a call has begun.  A sync.Mutex that is often free is  *)
(* given to every waiter (its starvation mode): strong fairness of Lock.   *)
(* Nothing obliges the application to call anything.                       *)
(***************************************************************************)
Alive(A) == panic = "none" /\ A

RunLoopBody(c) ==
    \/ RunLoopPrepared(c)
    \/ PointLoopLoadFails(c) \/ PointLoopNewFails(c) \/ PointLoopNew(c)
    \/ PointLoopStartFails(c) \/ PointLoopStart(c)

StopLoopBody(t) == StopLoopClose(t) \/ StopLoopShutdown(t) \/ StopLoopEmit(t)

DialBody(d) ==
    \/ DialTest(d) \/ DialPend(d) \/ DialWake(d) \/ DialNoSocket(d)
    \/ DialReadIP(d) \/ DialReadPort(d) \/ DialConnect(d)

Fairness ==
    /\ \A c \in Callers :
         /\ SF_vars(Alive(RunLoopBusy(c) \/ RunLoopEnter(c)))
         /\ WF_vars(Alive(RunLoopBody(c)))
    /\ \A t \in Threads :
         /\ SF_vars(Alive(StopLoopIdle(t) \/ StopLoopEnter(t)))
         /\ WF_vars(Alive(StopLoopBody(t)))
    /\ \A s \in Sessions :
         WF_vars(Alive(Watcher(s))) /\ WF_vars(Alive(Resolver(s)))
    /\ \A d \in Dialers : WF_vars(Alive(DialBody(d)))

FairSpec == Spec /\ Fairness

-----------------------------------------------------------------------------
(* Properties *)

Labels == Critical \cup {"idle", "run", "stop"}
            \cup {"none", "watch", "watch2", "select", "ready?", "notify",
                  "closed", "passed", "notified"}

Servers == Domains \cup {NoServer}

WaitStates == [resolve : 0..MaxCalls, close : 0..MaxCalls]

ResolverStates ==
    [at : {"none", "begin", "lookup", "wait", "signal", "done"},
     name : Servers, close : 0..MaxCalls, left : 0..MaxRetry, ok : BOOLEAN]

DialStates ==
    [at : {"idle", "test", "recv", "pending", "ip", "port", "connect", "done",
           "failed"},
     dest : Servers, chan : 0..MaxCalls, ip : Servers, port : Servers]

\* The type of every variable.
TypeOK ==
    /\ op \in Threads \cup {Free}
    /\ pc \in [Threads -> Labels]
    /\ calls \in 0..MaxCalls
    /\ call \in [Callers -> 0..MaxCalls]
    /\ session \in 0..MaxCalls
    /\ closed \in SUBSET Sessions
    /\ signalled \in SUBSET (0..MaxCalls)
    /\ Vpoint \in 0..MaxCalls
    /\ core \in [Sessions -> {"none", "created", "failed", "started", "closed"}]
    /\ IsRunning \in BOOLEAN
    /\ status \in {"none", "Running", "Closed"}
    /\ DomainName \in Servers
    /\ currentServer \in Servers
    /\ vServer \in Servers
    /\ waits \in [Sessions -> WaitStates]
    /\ resolver \in [Sessions -> ResolverStates]
    /\ dial \in [Dialers -> DialStates]
    /\ panic \in {"none", "closeChan", "Vpoint", "resolveChan", "vServer"}

\* StopLoop (main.go:113-122) never closes closeChan a second time nor closes
\* a nil one, and shutdownInit never dereferences a nil Vpoint, whichever
\* callers and watchers race to stop the point.
StopNeverPanics == panic \notin {"closeChan", "Vpoint"}

\* Dial reads d.vServer again after its nil test (support.go:257-262) without
\* synchronisation; none of these reads finds it nil.
DialNeverDereferencesNil == panic # "vServer"

\* A core that runs is the one v.Vpoint names and IsRunning reports, so there
\* is never a second running core and never one that StopLoop cannot reach.
RunningCoreIsReachable ==
    \A s \in Sessions : core[s] = "started" => IsRunning /\ Vpoint = s

\* Whenever v2rayOP is free, the last OnEmitStatus told the application
\* whether the point runs (main.go:119, 295).
StatusIsTruthful == op = Free => (IsRunning <=> status = "Running")

\* Whenever v2rayOP is free, the sessions whose closeChan is closed are those
\* whose core was shut down: no stop forgets to cancel what waits on
\* closeChan, and nothing is cancelled while its core goes on.
ClosedIffShutDown ==
    op = Free => \A s \in Sessions : s \in closed <=> core[s] = "closed"

\* "wait until resolved" (main.go:82): the resolveChan of a session is closed
\* once, and only when PrepareDomain of that session has returned.
SignalMeansPrepared ==
    /\ panic # "resolveChan"
    /\ \A s \in signalled : s # 0 /\ resolver[s].at = "done"

\* "v2ray server address, try to connect fixed IP ... parsed from domain"
\* (support.go:237-239): a Dial to the server connects to an address and a
\* port that were resolved for that server.
DialReachesItsServer ==
    \A d \in Dialers :
        dial[d].at = "done" => dial[d].ip = dial[d].dest
                               /\ dial[d].port = dial[d].dest

\* Every RunLoop and StopLoop call of the application returns, although
\* RunLoop holds v2rayOP while it resolves the name (main.go:102) and
\* watchers compete for the same lock.
CallsReturn ==
    \A c \in Callers : pc[c] # "idle" ~> pc[c] = "idle" \/ panic # "none"

\* Every watcher goroutine ends (main.go:80-94): one of its two channels is
\* closed, even when RunLoop failed and no StopLoop will close closeChan.
WatchersEnd ==
    \A s \in Sessions :
        pc[s] = "select" ~> pc[s] \in {"closed", "passed", "notified"}
                            \/ panic # "none"

\* A Dial that waits for the server to be resolved is released
\* (support.go:241-249), also when the session is stopped and replaced.
DialsReturn ==
    \A d \in Dialers :
        dial[d].at = "pending" ~> dial[d].at \in Returned \/ panic # "none"

\* A core does not go on running without any resolved server once
\* PrepareDomain of its session has given up (main.go:84-88).
NoServerIsNotKept ==
    \A s \in Sessions :
        (session = s /\ IsRunning /\ vServer = NoServer
           /\ resolver[s].at = "done")
          ~> (session # s \/ ~IsRunning \/ vServer # NoServer
              \/ panic # "none")

-----------------------------------------------------------------------------
(* The point implements Session: the phase is what the holder of v2rayOP is *)
(* doing, or what it left behind.                                           *)

Phase ==
    CASE op = Free /\ IsRunning  -> "on"
      [] op = Free /\ ~IsRunning -> "off"
      [] op # Free -> IF pc[op] \in {"prepare", "load", "start"}
                        THEN "starting" ELSE "stopping"

S == INSTANCE Session WITH
       Cores <- Sessions, phase <- Phase, cancelled <- closed, told <- status,
       running <- {s \in Sessions : core[s] = "started"}

\* RunLoop and StopLoop (main.go:70-122, 261-297), called by any threads and
\* by watchers at any time, look like one core after the other: no two cores
\* overlap, closeChan is closed before its core is ended and "Closed" comes
\* after both, and a failed start is never reported.
ImplementsSession == S!Spec

=============================================================================
