# AndroidLibXrayLite in TLA+

AndroidLibXrayLite is a Go library that an Android application embeds. It runs
an xray core behind the system's VPN service (`libv2ray_main.go`,
`libv2ray_support.go`) and, apart from the core, offers network calls that shape
their own TLS: `FetchWeb`, `ResolveDoH`, `ProbeCert`, `ProbeWireGuard`
(`libv2ray_fetch*.go`, `libv2ray_wireguard_probe.go`).

This directory holds TLA+ modules of its concurrent and its timing-dependent
parts, TLC configurations that check them on small instances, and TLAPS proofs
of the safety properties that matter most. File and line references are to the
Go files in the repository root, without the prefix `libv2ray_`.

## 1. Inventory

| Component | State | Operations | Interacts with |
| --- | --- | --- | --- |
| V2RayPoint (main.go) | `v2rayOP`, `closeChan`, `Vpoint`, `IsRunning`, `statsManager`, `DomainName` | `RunLoop`, `StopLoop`, `pointloop`, `shutdownInit`, `MeasureDelay`, `QueryStats`, a watcher goroutine per session | the dialer (channel, `IsVServerReady`), the application (`OnEmitStatus`, `Setup`, `Prepare`, `Shutdown`), the core |
| ProtectedDialer (support.go) | `currentServer`, `vServer`, `resolveChan`, `preferIPv6` | `PrepareDomain`, `Dial`, `lookupAddr`, `resolved.NextIP`, `resolved.currentIP`, `fdConn` | called by the point and by the core's outbounds |
| ECH cache (fetch.go, fetch_probe.go) | `echCache`, `echFetchMu` (one mutex per key), both process-wide | `echCacheLoad`, `echAcquire`, `echInvalidate`, `echProbe`, DoH lookup | every `FetchWeb` / `ResolveDoH` that uses ECH |
| Fetch transport (fetch.go, fetch_h3.go) | `connState`, `handoffDialer.pending`, the open connections | `roundTripper`, `h3RoundTripper`, `stdTLSDial`, `record`, `get`, `discard`, cleanup | `net/http`, `x/net/http2`, `http3`; the ECH cache |
| WireGuard probe (wireguard_probe.go) | attempt, read deadline, result | `ProbeWireGuard`, `probeWireGuardOnce`, `consumeResponse` | noise, the UDP network |
| Noise (fetch_noise.go) | none between calls | `noiseConfig`, `parseNoiseRange`, `send` | h3 and both probes |
| Option validation (fetch.go:196-337) | none | `validate`, `alpnMode` | every entry point |
| Certificate probe (fetch_cert.go) | `certSink` | `ProbeCert`, `handshakeTCP`, `handshakeQUIC` | noise, the QUIC ladder |

What is hard in it:

* Only `RunLoop` and `StopLoop` take `v2rayOP`. The watcher, the asynchronous
  resolver and `Dial` read the same fields without it, when they get to run,
  which may be in a later session.
* A channel is closed at several places, and Go panics on a second close.
* `RunLoop` resolves with the lock held; `Dial` waits without its context.
* Requests race for one cache entry while it expires, while their deadlines
  come and while the server rotates its key.
* A transport built for one url carries a whole redirect chain, and its dial
  goroutine may outlive the caller that gave up.
* Eleven options, some of which exclude each other, are honoured by different
  dialers; what is not refused at the start may be ignored later.
* Several `Dial`s share the descriptor table of the process.
* The certificate probe collects a chain on a goroutine it does not wait for,
  over several handshakes on one socket.
* The WireGuard probe listens on a network that loses, delays, duplicates and
  forges datagrams, on a budget split over attempts.

What makes each part correct: at most one core, reachable by `StopLoop`, and a
truthful status (point); no nil dereference, the right server, every waiter
released (dialer); one acquisition at a time, no foreign deadline, no expired
and no refused config (ECH cache); each request on the right connection in the
right HTTP version, nothing left open, the ECH result of the response
(transport), and every option in effect on every connection (options); no chain
lost, nothing left open, a coherent result (certificate probe); `Alive` only for
the holder of the key, within the time promised
(WireGuard probe). `PROJECT.json` lists the hazards line by line.

## 2. Modules

### V2RayPoint (with MCV2RayPoint)

`RunLoop`, `StopLoop`, the watcher, `PrepareDomain` and `Dial` together, since
they share the fields of the point and of the dialer. `RunLoop` replaces both
channels in one critical section, so one number, `session`, names the current
pair: that of the `RunLoop` call that made it. `closed` and `signalled` are the
sets of closed `closeChan`s and `resolveChan`s; `core` says what became of the
instance of each call; `vServer` and `currentServer` are server names. A caller
or watcher is a control point in `pc`, a `PrepareDomain` a record in `resolver`,
a `Dial` a record in `dial`. Every read of a shared field outside the lock is a
step of its own, e.g. `WatcherReadResolve` and `WatcherReadClose` for the two
operands of the watcher's `select`, `DialServer` and `DialTest` for the two
tests of `Dial`, `DialReadIP` and `DialReadPort` for the operands of `fdConn`. `panic` records a Go panic, after which nothing runs.

### Session

What the point promises, without locks, channels or goroutines: one core after
the other is starting, on and stopping; a stop first cancels what belongs to the
core, then ends it, then says so; a cancelled core never comes back. V2RayPoint
implements it (`ImplementsSession`) under the mapping `Phase`, which reads the
phase off the holder of `v2rayOP`; `running` are the started cores, `cancelled`
the closed `closeChan`s, `told` the last status.

### MeasureDelay (extends V2RayPoint; with MCMeasureDelay)

`MeasureDelay`, `MeasureOutboundDelay` and `measureInstDelay` beside the life
cycle. The call reads `Vpoint` and its goroutine reads `closeChan` without the
lock, each in a step of its own; the goroutine is the only one to cancel, and the
call does not wait for it.

### Resolved, LookupAddr (with MCLookupAddr)

`Resolved` is `NextIP` with its `uint8` arithmetic and its throttle; the length
of the answer is a number. `LookupAddr` extends it with `lookupAddr`, its two
unlocked readings of `preferIPv6`, and its callers: the result of `PrepareDomain`
becomes the `resolved` that `NextIP` walks. One lookup is followed in detail; the
`PrepareDomain` of another `RunLoop` may change the preference or store a list of
its own at any time.

### FdConn (with MCFdConn)

`getFd` and `fdConn` over the descriptor table of the process: a number that is
closed is given to whoever opens next. The deferred calls of `fdConn` are steps.

### ECHCache (with MCECHCache)

One key of the cache, since keys share nothing, and the requests on it. A
request goes through `echAcquire` (`load`, `lock`, `recheck`, `fetch`, `store`),
offers the config it got, and may invalidate. A config is the generation of the
server key it was made from. Entries carry the ticks to their expiry, requests
the ticks left of their timeout. A deadline ends the wait it guards before time
goes on; waiting for the mutex has no deadline, as in the code. A deadline that
comes during the acquisition shows up in one of two ways: as the error of the
context (`FetchDeadline`), which is not stored, or, where it was set on the
connection, as an i/o timeout (`FetchTimeout`), which is.

### Options, FetchTransport (with MCFetchTransport)

`Options` has the option record, with the values its parsers tell apart, and the
functions over it: `validate`, `parseNoiseRange`, `noiseRand`, and the branch of
`roundTripper` (`Branch`). `FetchTransport` extends it with one call from
`validate` to the return: the transport, the connections dialed for the url and
its redirects, directly or through a proxy, `connState`, `pending` of the handoff
dialer, and the result. Each connection remembers the options that took effect
on it (`how`), what it negotiated, what the server did with the offer of ECH
(which on TCP it may decline in any handshake) and the length of its noise. Of
the server name only whether the option takes effect is kept. The caller and the
transport's dial run concurrently; a dial may end after the caller has given up.
`http.Client` and the three transports are external and modelled by what this
code relies on: who keeps a connection, who closes it, when a dial is started.

### CertProbe (with MCCertProbe)

`ProbeCert`: a TCP handshake, or noise and then a handshake per rung of the
version ladder on one UDP socket. What is open and which closes are deferred are
two variables: a handshake function that comes to a return runs its deferred
calls one by one, last first (`RunDeferred`), and only then is the result put
together. A chain is the number of the attempt that
presented it and may reach `certSink` while a later attempt is under way, or
while the result is put together.

### WireGuardProbe (with MCWireGuardProbe)

The options, which may be refused, then noise, packet by packet with pauses of
any length or none, then attempts, over a set of datagrams that may arrive late, twice or
never. A datagram is what the receive loop tells apart: its sender, whether it
has the size and type of a response, the initiation it names, and whether it was
made with the peer's key.

### Proof modules

V2RayPointProofs, DialProofs and MeasureDelayProofs (which extend it),
ResolvedProofs (Resolved and LookupAddr), ECHCacheProofs, FetchTransportProofs
(with Options), CertProbeProofs, WireGuardProbeProofs.

Operators whose comment describes a defective variant (`StopLoopEnterUnchecked`,
`RecheckMissing`, ...) stand before the action they vary. No specification uses
them; put in place of the action, each makes a property fail, which shows that
the property depends on that part of the code.

## 3. Runs

`tlc -config <run>.cfg <module>`; the module is the MC module of the component.

| Run | Checks | Instance and why it is enough |
| --- | --- | --- |
| PointSync | `TypeOK`, `StopNeverPanics`, `DialNeverDereferencesNil`, `SignalMeansPrepared`; under `FairSpec` `CallsReturn`, `DialsReturn`, `NoServerIsNotKept`, `WatchersEnd` | 1 application thread, 1 dialing core thread, 2 `RunLoop` calls, synchronous resolving with 1 retry. Two calls give a session and its successor; the watchers are further stoppers that race the application, and the dial may begin in one session and end in the next. |
| Measure | `RunningCoreIsReachable`, `ClosedIffShutDown`, `ImplementsSession`; under `MSpec` `MeasuresEnd` | the same sessions with a measurement instead of the dial, which may begin before, in or between them. The safety properties are proved for any number of threads and both resolving modes; this run holds the formulas against the model. |
| Server | `IndexInRange`, `EveryAddressOnce`, `PreferredFamilyFirst`, `SwitchMoves`; under `LFairSpec` `EveryAddressIsTried` | every answer of up to 3 addresses, and, from the lookups of other `RunLoop`s, lists of up to 6 and of 255 to 258 addresses: ordinary ones and both sides of the wrap; the preference may change at any time. `EveryAddressIsTried` is about every index of each list: steps of one, and the last one reached again and again |
| ECHCache | `TypeOK`, `SingleFlight`, `DeadlineIsOwn`, `NoRepeatedAcquisition`; under `FairSpec` `SelfHealing`, `RequestsReturn` | 2 requests, again and again, on both paths, with a timeout below and one above the probe's, 2 key generations, TTLs of 2 and 1 ticks: one request is inside `echAcquire` while the other waits, has just missed, or offers what has been retired meanwhile |
| WireGuard | `TypeOK`, `AliveIsGenuine`, `ErrorIffNotAlive`, `OverrunAtMostOneWait`; under `FairSpec` `ProbeReturns` | 3 attempts of 2 ticks, up to 3 noise datagrams, each with no pause or one of any length up to the timeout, so that the noise may use up none, some or all of it |
| Fetch | `TypeOK`, `RequestOnItsConnection`, `NothingLeftOpen`, `VersionIsTheTransports`, `EchAcceptedIsGroundTruth`, `OptionsTakeEffect`, `NoiseIsBounded` | every option record that, besides its alpn, differs from the defaults in at most 2 options, so that every pair meets under every alpn; 2 hosts, 3 redirects, 4 dials: away, back, and once more; a noise ceiling of 2 with ranges below, across and above it in both orders |
| CertProbe | `EverythingIsClosed`, `ClosedInOrder`, `CertificateSurvivesFailure`, `ResultIsCoherent`, `NoiseOnlyFirst` | a ladder of 3 rungs (xray's has 2) and up to 3 datagrams of noise, so that a chain may be late by two attempts |

Bounds named in the modules: `MaxCalls`, `MaxRetry` (10 in the code),
`MaxGeneration`, `MaxRedirects` (10 in `http.Client`), `MaxDials`,
`MaxNoise`. Every counter behind them only limits how often something is
repeated. No symmetry is used, since most runs check liveness.

### Runs that find a disagreement

Each of these checks one sentence of the repository and finds a behaviour of the
code that contradicts it.

| Run | Sentence | Behaviour |
| --- | --- | --- |
| SignalAsync | "wait until resolved" (main.go:82) | with `AsyncResolve`, a resolver whose session was stopped closes the `resolveChan` of the next session (main.go:99) |
| StaleDial | "v2ray server address, try to connect fixed IP" (support.go:237-239) | `currentServer` is set before the lookup, `vServer` after it: a `Dial` in between connects to the old server |
| ECHUtlsDrop | "A config the server refuses is dropped immediately" (README_fetch.md:345) | on the uTLS path the refusal is an error of `roundTripper`, after which nothing is invalidated |
| DoubleClose | "Closing conn does not affect file, and closing file does not affect conn" (support.go:359) | the descriptor is closed by `file.Close` and again by the deferred `unix.Close` (support.go:297); in between another `Dial` may have been given its number |
| ProxyBypass | "To go through xray instead, set `proxy`" (README_fetch.md:91) | the `http.Transport` of the uTLS path has no `DialContext` (fetch.go:877), so an `http://` redirect is dialed without proxy and ip |

Other places where code and words part, met while modelling. The models contain
the behaviour and the properties are stated around it; no run is kept for them:

* main.go:84-88: the watcher's decision and its `StopLoop` are two steps; it may
  stop a later session whose server was found.
* support.go:57: with 256 addresses `uint8(len)` is 0 and `NextIP` stays on the
  first; hence the limit of 255 in `SwitchMoves`.
* fetch.go:530: the wait for the key's mutex is outside the "whole-operation
  budget" of README_fetch.md:235.
* wireguard_probe.go:221: the time of the noise is not deducted from the
  attempts, although the timeout is "for the whole probe" (line 91); hence
  `OverrunAtMostOneWait`.
* fetch.go:901: without a fingerprint, `alpn` h2 accepts a server that selects no
  protocol (README_fetch.md:440); hence `VersionIsTheTransports` speaks of the
  uTLS and h3 paths.
* fetch.go:688: `record` compares raw strings, and refuses a redirect between two
  HTTP/1.1 servers of which one sends no ALPN.
* fetch.go:714: `connState` has one ECH result for the whole redirect chain, that of
  the last handshake. On the uTLS and stdH2 paths a response that came on another
  connection (in cleartext after a redirect to `http://`, or on one taken from the
  pool after another host was dialed) is reported with it; hence the condition
  `LastHandshake` in `EchAcceptedIsGroundTruth`.
* fetch.go:815: the TCP paths pin the first host as server name over redirects,
  which fetch_h3.go:69-71 warns of, and the transport of an `http://` url has no
  `TLSClientConfig` (fetch.go:779-785), so that `serverName` does not reach an
  https redirect. Which name goes out is not modelled.
* fetch.go:811-820: a connection that net/http was still dialing when the caller
  gave up, and that then negotiates h2, goes into net/http's own HTTP/2 pool, from
  which `DisableKeepAlives` takes a connection only after a request. This is
  from how net/http works, not from this repository; hence `GivenUp` in
  `NothingLeftOpen`.
* support.go:206: `vServer` is never reset, so the watcher does not notice that
  the name of a later session was not resolved, although it should "shutdown
  VPNService if server name can not reolved" (main.go:84).
* support.go:150, 162: if the preference changes between the two readings of
  `preferIPv6`, the IPv6 addresses are lost or doubled; without IPv4 addresses
  `resolved.IPs[0]` (support.go:285) panics. Hence `EveryAddressOnce` asks for
  agreeing readings.
* fetch.go:544: a deadline set with `SetDeadline` (`proxyConnect`, fetch.go:433-436;
  `echProbe`, fetch_probe.go:193-195) ends a read or write with
  `os.ErrDeadlineExceeded`, which is neither of the two errors tested for. It is
  stored for 30 seconds and fails requests with a longer timeout, although "a
  failure caused by the caller's own deadline is not cached, so a short-timeout
  request cannot poison a patient one" (README_fetch.md:341-343). Hence
  `DeadlineIsOwn` speaks of the errors of a context.
* fetch.go:544: where the probe's own timeout does surface as an error of the
  context it is not remembered, although "a failed acquisition is remembered for 30 seconds, so a
  burst of requests does not each pay a 12-second probe timeout"
  (README_fetch.md:340).
* main.go:304: the goroutine of `MeasureDelay` evaluates `closeChan` when it gets
  to run: nil before the first session, closed already after a stop, or that of a
  session that began after the one measured. So a measurement may be cancelled
  by no close during it, or not by one.
* main.go:346, 410: `config.App[:5]` and the dropped error of
  `NewRequestWithContext` can panic; a measurement in the model may end so.
* fetch.go:772-784: with an `http://` url, `fingerprint` and `ech` are accepted
  and ignored; hence `OptionsTakeEffect` speaks of https urls.
* fetch.go:277-291: `wnoisecount`, `wnoisedelay` and `wpayloadsize` are parsed but
  not refused off the h3 path, and then ignored, although "all five are h3-only
  and are refused" (README_fetch.md:495). Hence `Moot` in `OptionsTakeEffect`.
* fetch_h3.go:103-111: "Before the first handshake packet, never after", but with
  a pinned `ip` a redirect to another host dials the same 4-tuple again, noise
  included.
* fetch_cert.go:128: "performs one handshake", but the ladder performs up to one
  per version, and the leaf reported is the first presented, which may not be
  that of the handshake that completed.

### Fairness

* `V2RayPoint!FairSpec`: goroutines that can run are run, timers fire, lookups
  and callbacks return (weak fairness of every step inside a call); `sync.Mutex`
  hands the lock to every waiter, by its starvation mode (strong fairness of the
  step that takes it). The application is never obliged to call anything.
* `MeasureDelay!MSpec`: the 12 s of a measurement pass, its goroutine runs, and
  `Do` returns once its context is over. No server owes an answer and the point
  owes nothing: `MeasuresEnd` must not depend on a session that stops.
* `LookupAddr!LFairSpec`: time goes on and connections go on failing.
* `ECHCache!FairSpec`: goroutines run, the key's mutex starves nobody, the
  application goes on issuing requests on a standard path, and a server that is
  offered a retired key again and again is reached and refuses it at some time.
  Time is not promised to pass, so no entry is rescued by its expiry.
* `WireGuardProbe!FairSpec`: the goroutine runs and timers run out. The peer and the network promise
  nothing, and others may send for ever.

Deadlock is checked in every run. A panic of the point has no successor, so a
passing run also shows that none is reached in its instance; the other
specifications stutter explicitly only after a panic or a return.

The passing runs of the point resolve the name inside `RunLoop`; the theorems of
section 4 about it hold for both values of `AsyncResolve`, but for the two of
DialProofs that say otherwise. Liveness with
`AsyncResolve` is not claimed: `SignalAsync` shows that the process may panic.

## 4. Proofs

`tlapm <module>.tla`. The assumptions are those named in the component modules
(`ConstantsAssumption`, `AnswersAssumption`): sets of threads, servers, requests
and hosts are arbitrary, the numbers are arbitrary naturals, and an answer of
`LookupIPAddr` is any sequence of IPv4 and IPv6 addresses. Every invariant that a
passing run checks is also a theorem.

| Theorem | States |
| --- | --- |
| V2RayPointProofs!StopIsSafe, OneReachableCore, StatusAlwaysTruthful, ClosedExactlyWhenShutDown | the four properties of the point, in both resolving modes |
| V2RayPointProofs!RefinesSession | `Spec => ImplementsSession`: V2RayPoint implements Session |
| DialProofs!TypeCorrect, DialIsSafe | types of everything; no nil server after `Dial`'s test |
| DialProofs!SignalsArePrepared, SyncNeverPanics | with synchronous resolving (`AsyncResolve = FALSE`): each `resolveChan` is closed once and after its own `PrepareDomain`; none of the modelled panics is reachable |
| MeasureDelayProofs!PointUndisturbed | `MSpec => Spec`: measurements change nothing of the point |
| MeasureDelayProofs!MeasuredCoreIsReachable, MeasuredSessionClosed, MeasuredPointRefinesSession | hence the properties of the point, and Session, with any number of measurements beside it |
| MeasureDelayProofs!ReturnedMeasureHoldsNoInstance | a returned measurement has closed its own instance; no response outlives its context |
| ResolvedProofs!IndexAlwaysInRange, SwitchAlwaysMoves | of `Resolved!Spec`: index in range for any length; a move on every answer of up to 255 addresses |
| ResolvedProofs!LookedUpIndexInRange, LookedUpSwitchMoves | the same of `LSpec`, whose lists come out of `lookupAddr` |
| ResolvedProofs!EveryAddressAlwaysOnce, PreferredFamilyAlwaysFirst | the order of `lookupAddr`, for answers of any length |
| ECHCacheProofs!TypeCorrect, OneAcquisitionAtATime, FreshEntryIsKept, DeadlineAlwaysOwn | types; single flight; no repeated acquisition; no foreign error of a context |
| ECHCacheProofs!RefusalDropsConfig | a refused config is dropped if all requests are on the standard path (`Paths \subseteq {"std"}`); with the uTLS path the run ECHUtlsDrop refutes it |
| FetchTransportProofs!TypeCorrect, RequestAlwaysOnItsConnection, CallLeavesNothingOpen, VersionAlwaysTheTransports, EchAcceptedAlwaysTrue, OptionsAlwaysTakeEffect, NoiseAlwaysBounded | the seven properties of the run Fetch, for any option record, hosts, redirects, dials and noise ceiling |
| CertProbeProofs!ProbeClosesEverything, ProbeClosesInOrder, CertificateIsKept, ResultAlwaysCoherent, NoiseAlwaysFirst | the five properties of the run CertProbe, for a ladder and a burst of any length |
| WireGuardProbeProofs!TypeCorrect, AliveOnlyIfAnswered, ErrorExactlyIfNotAlive, BoundedOverrun | types; genuine `Alive`; an error exactly if not alive; bounded overrun |

Along which argument:

* V2RayPoint. None of the four properties is inductive: between the steps of
  `pointloop` and `StopLoop` the fields disagree. `IInv` says who holds `v2rayOP`
  (`LockInv`: exactly the thread at a critical control point), how the fields
  stand when nobody does (`Idle`), and how they stand at each control point of
  the holder (`HoldingRun`, `HoldingStop`). `FreshInv` says that a call that has
  not entered yet owns a core and channels nobody has touched, which is why a
  new session never finds its `closeChan` closed. The steps of watchers,
  resolvers and dialers leave all of it unchanged (`DialerOnly`).
* RefinesSession. `IInv` fixes the mapped state at every control point of the
  holder, so each step inside the critical section is one step of Session or
  stutters (`RunLoopSession`, `StopLoopSession`); that `Up` finds no core running
  (`NoneRuns`) and an uncancelled one is `Idle` and `FreshInv`. Steps of watchers,
  resolvers and dialers stutter (`OtherSession`).
* DialProofs. A `Dial` past its test has seen a server and `vServer` is never
  reset; that `PrepareDomain` never stores the absent server needs that it
  looks up a configured name (`NamedInv`). For `SignalsArePrepared`: a resolver
  under way in the synchronous mode is that of the `RunLoop` call that holds
  `v2rayOP` and waits in `prepare`, so `session` is its own when it signals.
  Without `AsyncResolve = FALSE` this fails, as SignalAsync shows.
* MeasureDelayProofs. What a measurement writes is its own record, so every step
  of `MNext` is a step of `Next` or stutters on the point's variables. `MInv` says
  of each record by itself what it may hold at which control point.
* ResolvedProofs. `Advance` of an index in range is in range, by cases on the
  wrap of the length. The loops of `lookupAddr` need induction over their passes
  (`Lists`: after n passes the list has the addresses of its family among the
  first n, once and in order; `Split`: the two lists together have n). It is done
  on sets, since the induction theorems of the library take an operator: a set of
  naturals that contains 0 and successors is all of them, because its complement
  has no least element (`LeastElement`, `SetInduction`, from `WFMin`). The two
  lists are then joined (`JoinedIsOrdered`).
* ECHCacheProofs. The request inside `echAcquire` holds the mutex
  (`HolderInside`), and past the second load it knows that no entry is fresh:
  others only drop entries or let them age. `UseInv` adds the types and that an
  entry never carries the error of a context, though it may carry an i/o
  timeout; so an error of a context that a request reports is its own.
* FetchTransportProofs. `IInv` accounts for every connection: one that is open
  belongs to the dial under way, is `pending`, carries the request, or lies in
  the pool of a transport that keeps it (`OwnerInv`, `OpenInv`), and nobody else
  holds its number. `PhaseInv`, `DialInv` and `PendingInv` say what the caller,
  the dial and the handoff may be doing together, `StateInv` and `ResultInv` what
  `connState` and the result record of the connection they speak of. `LastInv`
  ties `connState` to the last handshake, the only one it can be right about. The
  properties of options rest on lemmas about the pure part: every option that
  `validate` lets through is honoured on the branch it leads to
  (`AskedIsHonoured`), and a clamped range bounds the burst in either order
  (`RangeBounded`, `BurstBounded`).
* CertProbeProofs. What is open is, at every control point, what the deferred
  calls still to run will close, and the QUIC connection, which the transport's
  close ends or `CloseWithError` has ended; the order of `deferred` is part of
  the invariant, since it is what keeps the socket open to the last. The sink holds a
  presented chain as soon as there is one and never lets it go; noise is over
  when the first rung begins.
* WireGuardProbeProofs. Genuine responses on the network belong to answered
  initiations; the read deadline never lies beyond the timeout plus one wait; a
  result without an error is only ever made together with `Alive`.

Only model-checked: the liveness properties (`CallsReturn`, `DialsReturn`,
`NoServerIsNotKept`, `WatchersEnd`, `MeasuresEnd`, `EveryAddressIsTried`,
`SelfHealing`, `RequestsReturn`, `ProbeReturns`), since liveness under fairness
and ENABLED are outside the prover, and FdConn, whose one property the code
violates.

## 5. Not modelled

* What `Protect`, `Bind` and `Connect` do; FdConn keeps whether they succeed.
* `QueryStats` (main.go:250-259): a method on a copy of the point; it resets a
  counter of the core and changes nothing of the point.
* The order and the stickiness of quicdial's version ladder, SOCKS5, and the pools
  of the HTTP libraries beyond what this code relies on.
* Cryptography and wire formats (Noise IK, ECHConfigList bytes, QUIC packets).
* The server name that goes out on each connection of a redirect chain
  (section 3).
* Header profiles, DNS answer summaries, logging, `InitV2Env`, `CheckVersionX`,
  `GetDataFromWeb`, the asset script.
* `x/net/http2` keeps connections in a pool that no cleanup closes
  (fetch.go:805-809, 870-875); `NothingLeftOpen` excludes that pool.

## 6. Plan

What the code decides is modelled, and the safety properties of the runs are
proved. What is left:

1. An abstract cache cell (empty, being filled, full) that ECHCache implements,
   as a refinement theorem from `HolderInside` and `FetchingMeansMiss`.
2. Of FdConn, what holds in spite of the second close: up to `os.NewFile` every
   descriptor is closed exactly once on every error path.
3. The safety halves of the liveness properties: in every state where a call
   waits, what it waits for is in somebody's hands (the holder of `v2rayOP`, a
   resolver, a timer).
