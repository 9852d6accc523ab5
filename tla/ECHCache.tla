------------------------------ MODULE ECHCache ------------------------------
(***************************************************************************)
(* The ECH config cache (libv2ray_fetch.go) and the requests that use it:  *)
(* echAcquire, the acquisition behind it (echProbe, or the DoH lookup of   *)
(* echConfigList), the handshake that offers the config, and echInvalidate *)
(* when the server refuses it.                                             *)
(*                                                                         *)
(* Entries of different keys share nothing (each key has its own mutex and *)
(* its own slot of echCache), so the model has one key.  A config is the   *)
(* generation of the server key it was made from; the server accepts only  *)
(* its current generation.  A pinned ech.configList has no cache entry and *)
(* is not modelled.                                                        *)
(*                                                                         *)
(* Time passes in ticks.  An entry carries the ticks until it expires, a   *)
(* request the ticks left of its timeout, a running acquisition its age.   *)
(* A context whose deadline has come ends the wait it guards before time   *)
(* goes on; sync.Mutex.Lock is guarded by no context.                      *)
(***************************************************************************)
EXTENDS Naturals

CONSTANTS
    Requests,       \* concurrent FetchWeb / ResolveDoH calls on the key
    Paths,          \* transports in use: "std" (net/http and h3) or "utls"
    Timeouts,       \* values of the timeout option, in ticks
    Probe,          \* TRUE: ech.probe, with its own deadline; FALSE: ech.doh
    ProbeTimeout,   \* echProbeTimeout (12 s)
    PositiveTTL,    \* echProbeTTL, or the TTL of the DNS answer
    NegativeTTL,    \* echNegativeTTL (30 s)
    MaxGeneration,  \* bound: server key generations
    Free            \* the key's mutex is not held

ASSUME ConstantsAssumption ==
    /\ Free \notin Requests
    /\ Paths \subseteq {"std", "utls"}
    /\ Timeouts \subseteq Nat
    /\ Probe \in BOOLEAN
    /\ ProbeTimeout \in Nat \ {0}
    /\ PositiveTTL \in Nat \ {0} /\ NegativeTTL \in Nat \ {0}
    /\ MaxGeneration \in Nat \ {0}

VARIABLES
    serverKey,  \* the generation the server accepts
    cache,      \* the echCacheEntry of the key, kind "none" if there is none
    mu,         \* holder of the key's mutex in echFetchMu
    req         \* the state of each request

vars == <<serverKey, cache, mu, req>>

Generations == 1..MaxGeneration

NoEntry == [kind |-> "none", config |-> 0, err |-> "none", expire |-> 0]
Positive(g) ==
    [kind |-> "list", config |-> g, err |-> "none", expire |-> PositiveTTL]
Negative(e) ==
    [kind |-> "error", config |-> 0, err |-> e, expire |-> NegativeTTL]

\* echCacheLoad finds an entry that has not expired.
Fresh(e) == e.kind # "none" /\ e.expire > 0

NoRequest == [at |-> "returned", path |-> "none", left |-> 0, age |-> 0,
              config |-> 0, err |-> "none"]

\* A request q that has returned with error e.  Fields that nothing reads any
\* more are reset, so that they do not tell states apart.
Done(q, e) ==
    [NoRequest EXCEPT !.err = e,
       !.left = IF e = "deadline" THEN q.left ELSE 0,
       !.age  = IF e = "deadline" THEN q.age ELSE 0]

\* Request r moves on, or returns with an error.
To(r, l) == req' = [req EXCEPT ![r].at = l]
Fail(r, e) == req' = [req EXCEPT ![r] = Done(@, e)]

\* echAcquire returns the entry: its list is offered, its error is the
\* request's.
UseEntry(r, e) ==
    req' = [req EXCEPT ![r] =
              IF e.kind = "list"
                THEN [@ EXCEPT !.at = "offer", !.config = e.config]
                ELSE Done(@, e.err)]

-----------------------------------------------------------------------------
Init ==
    /\ serverKey = 1
    /\ cache = NoEntry
    /\ mu = Free
    /\ req = [r \in Requests |-> NoRequest]

\* FetchWeb starts the clock of its timeout and reaches echConfigList.
Start(r, p) ==
    /\ req[r].at = "returned"
    /\ \E t \in Timeouts :
         req' = [req EXCEPT ![r] =
                   [NoRequest EXCEPT !.at = "load", !.path = p, !.left = t]]
    /\ UNCHANGED <<serverKey, cache, mu>>

\* echAcquire, the first echCacheLoad.
LoadHit(r) ==
    /\ req[r].at = "load"
    /\ Fresh(cache)
    /\ UseEntry(r, cache)
    /\ UNCHANGED <<serverKey, cache, mu>>

LoadMiss(r) ==
    /\ req[r].at = "load"
    /\ ~Fresh(cache)
    /\ To(r, "lock")
    /\ UNCHANGED <<serverKey, cache, mu>>

\* A LoadOrStore that hands every caller a mutex of its own.
LockOwnMutex(r) ==
    /\ req[r].at = "lock"
    /\ mu' = r
    /\ To(r, "recheck")
    /\ UNCHANGED <<serverKey, cache>>

\* mu.Lock(), however long it takes.
Lock(r) ==
    /\ req[r].at = "lock"
    /\ mu = Free
    /\ mu' = r
    /\ To(r, "recheck")
    /\ UNCHANGED <<serverKey, cache>>

\* "Whoever lost the race finds what the winner stored".
RecheckHit(r) ==
    /\ req[r].at = "recheck"
    /\ Fresh(cache)
    /\ UseEntry(r, cache)
    /\ mu' = Free
    /\ UNCHANGED <<serverKey, cache>>

\* An echAcquire without the second echCacheLoad.
RecheckMissing(r) ==
    /\ req[r].at = "recheck"
    /\ To(r, "fetch")
    /\ UNCHANGED <<serverKey, cache, mu>>

RecheckMiss(r) ==
    /\ req[r].at = "recheck"
    /\ ~Fresh(cache)
    /\ To(r, "fetch")
    /\ UNCHANGED <<serverKey, cache, mu>>

\* The time fetch has is over: the request's own deadline, or the one echProbe
\* adds.
DeadlineCame(r) ==
    \/ req[r].left = 0
    \/ Probe /\ req[r].age = ProbeTimeout

\* fetch hears from the source, which knows the server's current key.
FetchAnswered(r) ==
    /\ req[r].at = "fetch"
    /\ ~DeadlineCame(r)
    /\ req' = [req EXCEPT ![r].at = "store", ![r].config = serverKey,
                          ![r].age = 0]
    /\ UNCHANGED <<serverKey, cache, mu>>

\* fetch fails before its time is over: unreachable, no ECH record, malformed
\* list.
FetchRefused(r) ==
    /\ req[r].at = "fetch"
    /\ ~DeadlineCame(r)
    /\ cache' = Negative("endpoint")
    /\ mu' = Free
    /\ Fail(r, "endpoint")
    /\ UNCHANGED serverKey

\* An error path that leaves without unlocking.
FetchDeadlineKeepsLock(r) ==
    /\ req[r].at = "fetch"
    /\ DeadlineCame(r)
    /\ Fail(r, "deadline")
    /\ UNCHANGED <<serverKey, cache, mu>>

\* An echAcquire that remembers every error.
FetchDeadlineCached(r) ==
    /\ req[r].at = "fetch"
    /\ DeadlineCame(r)
    /\ cache' = Negative("deadline")
    /\ mu' = Free
    /\ Fail(r, "deadline")
    /\ UNCHANGED serverKey

\* fetch fails with context.DeadlineExceeded, which is not remembered: the
\* context ended a dial, or a handshake it was watching.
FetchDeadline(r) ==
    /\ req[r].at = "fetch"
    /\ DeadlineCame(r)
    /\ mu' = Free
    /\ Fail(r, "deadline")
    /\ UNCHANGED <<serverKey, cache>>

\* The same deadline, set on the connection (proxyConnect, echProbe), ended a
\* read or a write.  Its error is os.ErrDeadlineExceeded, which is none of the
\* two the test knows: it is remembered like an error of the endpoint.
FetchTimeout(r) ==
    /\ req[r].at = "fetch"
    /\ DeadlineCame(r)
    /\ cache' = Negative("timeout")
    /\ mu' = Free
    /\ Fail(r, "timeout")
    /\ UNCHANGED serverKey

\* echCache.Store of a list, and unlock.
Store(r) ==
    /\ req[r].at = "store"
    /\ cache' = Positive(req[r].config)
    /\ mu' = Free
    /\ To(r, "offer")
    /\ UNCHANGED serverKey

-----------------------------------------------------------------------------
(* The handshake with the server.  On the std paths it runs inside         *)
(* http.Client.Do; on the utls path roundTripper dials before Do.          *)

Accepted(r) ==
    /\ req[r].at = "offer"
    /\ req[r].left > 0
    /\ req[r].config = serverKey
    /\ Fail(r, "none")
    /\ UNCHANGED <<serverKey, cache, mu>>

OfferDeadline(r) ==
    /\ req[r].at = "offer"
    /\ req[r].left = 0
    /\ Fail(r, "deadline")
    /\ UNCHANGED <<serverKey, cache, mu>>

\* The request fails for a reason that has nothing to do with ECH.
OfferFails(r) ==
    /\ req[r].at = "offer"
    /\ req[r].left > 0
    /\ Fail(r, "endpoint")
    /\ UNCHANGED <<serverKey, cache, mu>>

\* Do fails on the server's certificate although the config was accepted:
\* echRejected takes that for a refusal too.
CertificateError(r) ==
    /\ req[r].at = "offer"
    /\ req[r].left > 0
    /\ req[r].path = "std"
    /\ req[r].config = serverKey
    /\ To(r, "rejected")
    /\ UNCHANGED <<serverKey, cache, mu>>

\* The error of Do is echRejected: it travels to the caller of Do.
RefusedStd(r) ==
    /\ req[r].at = "offer"
    /\ req[r].left > 0
    /\ req[r].path = "std"
    /\ req[r].config # serverKey
    /\ To(r, "rejected")
    /\ UNCHANGED <<serverKey, cache, mu>>

\* The error of roundTripper's own dial is returned as it is.
RefusedUtls(r) ==
    /\ req[r].at = "offer"
    /\ req[r].left > 0
    /\ req[r].path = "utls"
    /\ req[r].config # serverKey
    /\ Fail(r, "rejected")
    /\ UNCHANGED <<serverKey, cache, mu>>

\* A rejection that leaves the entry where it is.
InvalidateMissing(r) ==
    /\ req[r].at = "rejected"
    /\ Fail(r, "rejected")
    /\ UNCHANGED <<serverKey, cache, mu>>

\* A rejection that is remembered like a failed acquisition.
InvalidateRemembers(r) ==
    /\ req[r].at = "rejected"
    /\ cache' = Negative("rejected")
    /\ Fail(r, "rejected")
    /\ UNCHANGED <<serverKey, mu>>

\* echInvalidate(state.echKey): the entry of the key, whatever it holds now.
Invalidate(r) ==
    /\ req[r].at = "rejected"
    /\ cache' = NoEntry
    /\ Fail(r, "rejected")
    /\ UNCHANGED <<serverKey, mu>>

-----------------------------------------------------------------------------
\* The server rotates its key and retires the one before.
Rotate ==
    /\ serverKey < MaxGeneration
    /\ serverKey' = serverKey + 1
    /\ UNCHANGED <<cache, mu, req>>

\* The waits a context ends, and the steps that take no time.
Due(r) ==
    \/ req[r].at = "fetch" /\ DeadlineCame(r)
    \/ req[r].at = "offer" /\ req[r].left = 0
    \/ req[r].at \in {"load", "recheck", "store", "rejected"}

Sub1(n) == IF n = 0 THEN 0 ELSE n - 1

Tick ==
    /\ \A r \in Requests : ~Due(r)
    /\ cache' = IF cache.expire > 0 THEN [cache EXCEPT !.expire = @ - 1]
                                    ELSE cache
    /\ req' = [r \in Requests |->
                 IF req[r].at = "returned" THEN req[r]
                 ELSE [req[r] EXCEPT !.left = Sub1(@),
                         !.age = IF req[r].at = "fetch" THEN @ + 1 ELSE @]]
    /\ UNCHANGED <<serverKey, mu>>

Acquire(r) ==
    \/ LoadHit(r) \/ LoadMiss(r)
    \/ RecheckHit(r) \/ RecheckMiss(r)
    \/ FetchAnswered(r) \/ FetchRefused(r)
    \/ FetchDeadline(r) \/ FetchTimeout(r)
    \/ Store(r)

Handshake(r) ==
    \/ Accepted(r) \/ OfferDeadline(r) \/ OfferFails(r) \/ CertificateError(r)
    \/ RefusedStd(r) \/ RefusedUtls(r) \/ Invalidate(r)

Next ==
    \/ \E r \in Requests, p \in Paths : Start(r, p)
    \/ \E r \in Requests : Lock(r) \/ Acquire(r) \/ Handshake(r)
    \/ Rotate
    \/ Tick

Spec == Init /\ [][Next]_vars

\* Fairness: goroutines run, a sync.Mutex starves nobody, the application goes
\* on issuing requests on a std path, whatever it does on the other, and a
\* server that is offered a retired key again and again is reached and refuses
\* it at some time.  Neither a rotation nor the passing of time is promised, so
\* nothing that depends on an entry's expiry follows from it.
FairSpec ==
    /\ Spec
    /\ \A r \in Requests :
         /\ SF_vars(Start(r, "std"))
         /\ SF_vars(Lock(r))
         /\ WF_vars(Acquire(r) \/ Handshake(r))
         /\ SF_vars(RefusedStd(r))

-----------------------------------------------------------------------------
(* Properties *)

Entries ==
    [kind : {"none", "list", "error"}, config : Generations \cup {0},
     err : {"none", "endpoint", "deadline", "timeout"}, expire : Nat]

RequestStates ==
    [at : {"returned", "load", "lock", "recheck", "fetch", "store", "offer",
           "rejected"},
     path : Paths \cup {"none"}, left : Nat, age : Nat,
     config : Generations \cup {0},
     err : {"none", "endpoint", "deadline", "timeout", "rejected"}]

\* The type of every variable.
TypeOK ==
    /\ serverKey \in Generations
    /\ cache \in Entries
    /\ mu \in Requests \cup {Free}
    /\ req \in [Requests -> RequestStates]

\* "Concurrent requests needing the same config collapse into one acquisition"
\* (README_fetch.md:344): no two requests are between the lock and the unlock
\* of echAcquire (fetch.go:530-553) at the same time.
InsideAcquire == {"recheck", "fetch", "store"}
SingleFlight ==
    \A r, q \in Requests :
        req[r].at \in InsideAcquire /\ req[q].at \in InsideAcquire => r = q

\* "Whoever lost the race finds what the winner stored ... instead of
\* repeating a lookup that just happened" (fetch.go:533-534): while an entry is
\* fresh nobody acquires again, so no fresh entry is ever replaced by another
\* acquisition; it only ages or is dropped.
NoRepeatedAcquisition ==
    [][Fresh(cache) => \/ cache' = cache
                       \/ cache' = [cache EXCEPT !.expire = @ - 1]
                       \/ cache' = NoEntry]_vars

\* "A caller's own deadline says nothing about the endpoint" (fetch.go:541-543):
\* the context error a request reports is never another one's, handed on by the
\* cache; the request used up its own timeout, or waited for a probe of its own
\* as long as a probe may take.  It is said of context errors only: a deadline
\* that ends a read or a write of the connection ("timeout") is stored, and
\* does fail the patient for NegativeTTL.
DeadlineIsOwn ==
    \A r \in Requests :
        req[r].at = "returned" /\ req[r].err = "deadline"
          => req[r].left = 0 \/ (Probe /\ req[r].age = ProbeTimeout)

\* "A config the server refuses is dropped immediately" (README_fetch.md:345):
\* when a request reports the refusal, the config it offered is not in the
\* cache.
RefusedConfigIsDropped ==
    [][\A r \in Requests :
         req[r].at # "returned" /\ req'[r].at = "returned"
           /\ req'[r].err = "rejected"
           => cache'.config # req[r].config]_vars

\* "This is what makes a key rotation self-healing" (README_fetch.md:345,
\* fetch.go:509): a config of a retired key does not go on being served while
\* requests go on, even if its TTL never runs out.
ServesRetiredKey ==
    Fresh(cache) /\ cache.kind = "list" /\ cache.config # serverKey
SelfHealing == ServesRetiredKey ~> ~ServesRetiredKey

\* Every request returns: no path through echAcquire leaves the mutex locked.
RequestsReturn ==
    \A r \in Requests : req[r].at # "returned" ~> req[r].at = "returned"

=============================================================================
