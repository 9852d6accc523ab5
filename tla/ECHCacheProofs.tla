--------------------------- MODULE ECHCacheProofs ---------------------------
(***************************************************************************)
(* Proofs about ECHCache, for every number of requests, every timeout and  *)
(* every TTL.  The argument is mutual exclusion: a request between the     *)
(* lock and the unlock of echAcquire holds mu, and from its second         *)
(* echCacheLoad on the key has no fresh entry, because only a holder of mu *)
(* stores and everything else only ages or drops.                          *)
(***************************************************************************)
EXTENDS ECHCache, TLAPS

\* Whoever is between the lock and the unlock of echAcquire holds mu.
HolderInside ==
    \A r \in Requests : req[r].at \in InsideAcquire => mu = r

\* From its second load on, the holder has seen that there is no fresh entry,
\* and nobody has stored one since.
FetchingMeansMiss ==
    \A r \in Requests : req[r].at \in {"fetch", "store"} => ~Fresh(cache)

IInv == TypeOK /\ HolderInside /\ FetchingMeansMiss

\* The steps of one request.
RequestStep(r) ==
    (\E p \in Paths : Start(r, p)) \/ Lock(r) \/ Acquire(r) \/ Handshake(r)

\* Changing a request within RequestStates keeps the type of req.
LEMMA SetRequest ==
    ASSUME TypeOK, NEW r \in Requests, NEW v \in RequestStates,
           req' = [req EXCEPT ![r] = v]
    PROVE  req' \in [Requests -> RequestStates]
BY DEF TypeOK

\* A request that only moves on keeps its type.
LEMMA ToTypes ==
    ASSUME TypeOK, NEW r \in Requests,
           NEW l \in {"lock", "recheck", "fetch", "offer", "rejected"}, To(r, l)
    PROVE  req' \in [Requests -> RequestStates]
<1>1. [req[r] EXCEPT !.at = l] \in RequestStates
  BY DEF TypeOK, RequestStates
<1> QED
  BY <1>1, SetRequest DEF To

\* The state a request returns in has its type.
LEMMA DoneTypes ==
    ASSUME NEW q \in RequestStates,
           NEW e \in {"none", "endpoint", "deadline", "timeout", "rejected"}
    PROVE  Done(q, e) \in RequestStates /\ Done(q, e).at = "returned"
<1>1. /\ (IF e = "deadline" THEN q.left ELSE 0) \in Nat
      /\ (IF e = "deadline" THEN q.age ELSE 0) \in Nat
  BY DEF RequestStates
<1>2. NoRequest \in RequestStates
  BY DEF NoRequest, RequestStates
<1> QED
  BY <1>1, <1>2 DEF Done, NoRequest, RequestStates

\* A request that returns keeps its type.
LEMMA FailTypes ==
    ASSUME TypeOK, NEW r \in Requests,
           NEW e \in {"none", "endpoint", "deadline", "timeout", "rejected"}, Fail(r, e)
    PROVE  req' \in [Requests -> RequestStates] /\ req'[r].at = "returned"
<1>1. Done(req[r], e) \in RequestStates /\ Done(req[r], e).at = "returned"
  BY DoneTypes DEF TypeOK
<1> QED
  BY <1>1, SetRequest DEF Fail, TypeOK

\* A request that takes what the cache holds keeps its type.
LEMMA UseEntryTypes ==
    ASSUME TypeOK, NEW r \in Requests, UseEntry(r, cache)
    PROVE  req' \in [Requests -> RequestStates] /\ req'[r].at \notin InsideAcquire
<1> DEFINE v == IF cache.kind = "list"
                  THEN [req[r] EXCEPT !.at = "offer", !.config = cache.config]
                  ELSE Done(req[r], cache.err)
<1>1. v \in RequestStates /\ v.at \notin InsideAcquire
  <2>1. CASE cache.kind = "list"
    BY <2>1 DEF TypeOK, RequestStates, Entries, InsideAcquire
  <2>2. CASE cache.kind # "list"
    BY <2>2, DoneTypes DEF TypeOK, Entries, InsideAcquire
  <2> QED
    BY <2>1, <2>2
<1>2. req' = [req EXCEPT ![r] = v]
  BY DEF UseEntry
<1> HIDE DEF v
<1> QED
  BY <1>1, <1>2, SetRequest DEF TypeOK

\* Every step of a request keeps the types.
LEMMA RequestTypes ==
    ASSUME TypeOK, NEW r \in Requests, RequestStep(r)
    PROVE  TypeOK'
<1> USE ConstantsAssumption
<1>1. CASE \E p \in Paths : Start(r, p)
  <2>1. PICK p \in Paths, t \in Timeouts :
          req' = [req EXCEPT ![r] =
                    [NoRequest EXCEPT !.at = "load", !.path = p, !.left = t]]
    BY <1>1 DEF Start
  <2>2. [NoRequest EXCEPT !.at = "load", !.path = p, !.left = t]
          \in RequestStates
    BY DEF NoRequest, RequestStates
  <2> QED
    BY <1>1, <2>1, <2>2, SetRequest DEF Start, TypeOK
<1>2. CASE FetchAnswered(r)
  <2>1. [req[r] EXCEPT !.at = "store", !.config = serverKey, !.age = 0] \in RequestStates
    BY DEF TypeOK, RequestStates
  <2>2. req' = [req EXCEPT ![r] =
                  [req[r] EXCEPT !.at = "store", !.config = serverKey, !.age = 0]]
    BY <1>2 DEF FetchAnswered, TypeOK
  <2> QED
    BY <1>2, <2>1, <2>2, SetRequest DEF FetchAnswered, TypeOK
<1>3. CASE Accepted(r)
  BY <1>3, FailTypes DEF Accepted, TypeOK
<1>4. CASE LoadMiss(r) \/ Lock(r) \/ RecheckMiss(r) \/ RefusedStd(r)
             \/ CertificateError(r)
  BY <1>4, ToTypes
  DEF LoadMiss, Lock, RecheckMiss, RefusedStd, CertificateError, TypeOK
<1>5. CASE LoadHit(r) \/ RecheckHit(r)
  BY <1>5, UseEntryTypes DEF LoadHit, RecheckHit, TypeOK
<1>6. CASE FetchDeadline(r) \/ OfferDeadline(r) \/ OfferFails(r)
             \/ RefusedUtls(r)
  BY <1>6, FailTypes
  DEF FetchDeadline, OfferDeadline, OfferFails, RefusedUtls, TypeOK
<1>7. CASE FetchRefused(r) \/ FetchTimeout(r)
  <2>1. Negative("endpoint") \in Entries /\ Negative("timeout") \in Entries
    BY DEF Negative, Entries
  <2> QED
    BY <1>7, <2>1, FailTypes DEF FetchRefused, FetchTimeout, TypeOK
<1>8. CASE Store(r)
  <2>1. Positive(req[r].config) \in Entries
    BY DEF Positive, Entries, TypeOK, RequestStates
  <2> QED
    BY <1>8, <2>1, ToTypes DEF Store, TypeOK
<1>9. CASE Invalidate(r)
  <2>1. NoEntry \in Entries
    BY DEF NoEntry, Entries
  <2> QED
    BY <1>9, <2>1, FailTypes DEF Invalidate, TypeOK
<1> QED
  BY <1>1, <1>2, <1>3, <1>4, <1>5, <1>6, <1>7, <1>8, <1>9
  DEF RequestStep, Acquire, Handshake

\* A step of request r leaves the other requests alone.
LEMMA OthersUnchanged ==
    ASSUME TypeOK, NEW r \in Requests, RequestStep(r),
           NEW q \in Requests, q # r
    PROVE  req'[q] = req[q]
BY DEF TypeOK, RequestStep, Acquire, Handshake, Start, Lock, LoadHit, LoadMiss,
       RecheckHit, RecheckMiss, FetchAnswered, FetchRefused, FetchDeadline,
       FetchTimeout, Store, Accepted, OfferDeadline, OfferFails, CertificateError,
       RefusedStd, RefusedUtls, Invalidate, UseEntry, To, Fail

\* What a step of request r does to mu, to the cache and to its own control
\* point, in the terms of the invariant.
LEMMA RequestEffect ==
    ASSUME IInv, NEW r \in Requests, RequestStep(r)
    PROVE  /\ req'[r].at \in InsideAcquire => mu' = r
           /\ mu' # mu => mu = Free \/ mu = r
           /\ req'[r].at \in {"fetch", "store"} => ~Fresh(cache')
           /\ Fresh(cache') => cache' = cache \/ (mu = r /\ mu' = Free)
           /\ Fresh(cache) => cache' = cache \/ cache' = NoEntry
<1> USE ConstantsAssumption
    DEF InsideAcquire, TypeOK, Entries, RequestStates, HolderInside,
        FetchingMeansMiss, Fresh, NoEntry
<1> TypeOK /\ HolderInside /\ FetchingMeansMiss
  BY DEF IInv
<1>1. CASE \E p \in Paths : Start(r, p)
  BY <1>1 DEF Start, NoRequest
<1>2. CASE Lock(r)
  BY <1>2 DEF Lock, To
<1>3. CASE LoadHit(r)
  BY <1>3, UseEntryTypes DEF LoadHit
<1>4. CASE LoadMiss(r)
  BY <1>4 DEF LoadMiss, To
<1>5. CASE RecheckHit(r)
  BY <1>5, UseEntryTypes DEF RecheckHit
<1>6. CASE RecheckMiss(r)
  BY <1>6 DEF RecheckMiss, To
<1>7. CASE FetchAnswered(r)
  BY <1>7 DEF FetchAnswered
<1>8. CASE FetchRefused(r) \/ FetchTimeout(r)
  BY <1>8, FailTypes DEF FetchRefused, FetchTimeout, Negative
<1>9. CASE FetchDeadline(r)
  BY <1>9, FailTypes DEF FetchDeadline
<1>10. CASE Store(r)
  BY <1>10 DEF Store, To, Positive
<1>11. CASE Accepted(r)
  BY <1>11, FailTypes DEF Accepted
<1>12. CASE OfferDeadline(r)
  BY <1>12, FailTypes DEF OfferDeadline
<1>13. CASE RefusedStd(r) \/ CertificateError(r)
  BY <1>13 DEF RefusedStd, CertificateError, To
<1>14. CASE RefusedUtls(r)
  BY <1>14, FailTypes DEF RefusedUtls
<1>15. CASE Invalidate(r)
  BY <1>15, FailTypes DEF Invalidate
<1>16. CASE OfferFails(r)
  BY <1>16, FailTypes DEF OfferFails
<1> QED
  BY <1>1, <1>2, <1>3, <1>4, <1>5, <1>6, <1>7, <1>8,
     <1>9, <1>10, <1>11, <1>12, <1>13, <1>14, <1>15, <1>16
  DEF RequestStep, Acquire, Handshake

\* A tick keeps the types, moves nobody and makes no entry fresh.
LEMMA TickEffect ==
    ASSUME TypeOK, Tick
    PROVE  /\ TypeOK'
           /\ \A r \in Requests : req'[r].at = req[r].at
           /\ UNCHANGED mu
           /\ Fresh(cache') => Fresh(cache)
           /\ Fresh(cache) => cache' = [cache EXCEPT !.expire = @ - 1]
<1> USE ConstantsAssumption
<1> DEFINE v(r) == IF req[r].at = "returned" THEN req[r]
                   ELSE [req[r] EXCEPT !.left = Sub1(@),
                           !.age = IF req[r].at = "fetch" THEN @ + 1 ELSE @]
<1>1. req' = [r \in Requests |-> v(r)]
  BY DEF Tick
<1>2. ASSUME NEW r \in Requests
      PROVE  v(r) \in RequestStates /\ v(r).at = req[r].at
  <2>1. req[r] \in RequestStates
    BY DEF TypeOK
  <2>2. Sub1(req[r].left) \in Nat
    BY <2>1 DEF Sub1, RequestStates
  <2>3. (IF req[r].at = "fetch" THEN req[r].age + 1 ELSE req[r].age) \in Nat
    BY <2>1 DEF RequestStates
  <2> QED
    BY <2>1, <2>2, <2>3 DEF RequestStates
<1>3. cache' \in Entries
  <2>1. CASE cache.expire > 0
    <3>1. cache.expire - 1 \in Nat
      BY <2>1 DEF TypeOK, Entries
    <3> QED
      BY <2>1, <3>1 DEF Tick, TypeOK, Entries
  <2>2. CASE ~(cache.expire > 0)
    BY <2>2 DEF Tick, TypeOK
  <2> QED
    BY <2>1, <2>2
<1> HIDE DEF v
<1>4. TypeOK' /\ \A r \in Requests : req'[r].at = req[r].at
  <2>1. req' \in [Requests -> RequestStates]
    BY <1>1, <1>2
  <2>2. \A r \in Requests : req'[r].at = req[r].at
    BY <1>1, <1>2
  <2> QED
    BY <1>3, <2>1, <2>2 DEF TypeOK, Tick
<1>5. (Fresh(cache') => Fresh(cache))
      /\ (Fresh(cache) => cache' = [cache EXCEPT !.expire = @ - 1])
  BY DEF Tick, Fresh, TypeOK, Entries
<1> QED
  BY <1>4, <1>5 DEF Tick

\* Types, mutual exclusion and the miss under the lock are inductive.
THEOREM Invariant == Spec => []IInv
<1>1. Init => IInv
  BY ConstantsAssumption
  DEF Init, IInv, TypeOK, HolderInside, FetchingMeansMiss, NoEntry, NoRequest,
      InsideAcquire, Generations, Entries, RequestStates
<1>2. IInv /\ [Next]_vars => IInv'
  <2> SUFFICES ASSUME IInv, [Next]_vars PROVE IInv'
    OBVIOUS
  <2>1. ASSUME NEW r \in Requests, RequestStep(r) PROVE IInv'
    <3>1. TypeOK'
      BY <2>1, RequestTypes DEF IInv
    <3>2. \A q \in Requests : q # r => req'[q] = req[q]
      BY <2>1, OthersUnchanged DEF IInv
    <3>3. HolderInside'
      BY <2>1, <3>2, RequestEffect, ConstantsAssumption DEF IInv, HolderInside
    <3>4. FetchingMeansMiss'
      BY <2>1, <3>2, RequestEffect, ConstantsAssumption
      DEF IInv, HolderInside, FetchingMeansMiss, InsideAcquire
    <3> QED
      BY <3>1, <3>3, <3>4 DEF IInv
  <2>2. CASE Rotate
    BY <2>2, ConstantsAssumption
    DEF Rotate, IInv, TypeOK, Generations, HolderInside, FetchingMeansMiss
  <2>3. CASE Tick
    BY <2>3, TickEffect DEF IInv, HolderInside, FetchingMeansMiss
  <2>4. CASE UNCHANGED vars
    BY <2>4 DEF vars, IInv, TypeOK, HolderInside, FetchingMeansMiss
  <2> QED
    BY <2>1, <2>2, <2>3, <2>4 DEF Next, RequestStep
<1> QED
  BY <1>1, <1>2, PTL DEF Spec

\* At most one acquisition of a key is in flight.
THEOREM OneAcquisitionAtATime == Spec => []SingleFlight
<1>1. IInv => SingleFlight
  BY DEF IInv, HolderInside, SingleFlight
<1> QED
  BY <1>1, Invariant, PTL

\* A fresh entry only ages or is dropped: no request acquires what another has
\* just stored.
THEOREM FreshEntryIsKept == Spec => NoRepeatedAcquisition
<1> DEFINE Kept == \/ cache' = cache
                   \/ cache' = [cache EXCEPT !.expire = @ - 1]
                   \/ cache' = NoEntry
<1>1. IInv /\ [Next]_vars => [Fresh(cache) => Kept]_vars
  <2> SUFFICES ASSUME IInv, [Next]_vars, Fresh(cache)
               PROVE  Kept \/ UNCHANGED vars
    OBVIOUS
  <2>1. ASSUME NEW r \in Requests, RequestStep(r) PROVE Kept
    BY <2>1, RequestEffect
  <2>2. CASE Rotate
    BY <2>2 DEF Rotate
  <2>3. CASE Tick
    BY <2>3, TickEffect DEF IInv
  <2> QED
    BY <2>1, <2>2, <2>3 DEF Next, RequestStep
<1> QED
  BY <1>1, Invariant, PTL DEF Spec, NoRepeatedAcquisition

-----------------------------------------------------------------------------
(* Deadlines and refusals.  What the cache remembers is a config or an      *)
(* error that is none of the context's, and whatever a request offers is a  *)
(* config.                                                                  *)

\* echAcquire never stores a context error, and a list it stores has a config.
EntryInv ==
    /\ cache.err # "deadline"
    /\ cache.kind = "list" => cache.config # 0

\* A request that stores, offers or was refused has a config.
OfferInv ==
    \A r \in Requests :
        req[r].at \in {"store", "offer", "rejected"} => req[r].config # 0

UseInv == EntryInv /\ OfferInv /\ DeadlineIsOwn

\* A request that only moves on keeps its config.
LEMMA ToEffect ==
    ASSUME TypeOK, NEW r \in Requests, NEW l, To(r, l)
    PROVE  req'[r].at = l /\ req'[r].config = req[r].config
BY DEF TypeOK, RequestStates, To

\* A request that returns with another error than a deadline.
LEMMA FailOther ==
    ASSUME TypeOK, NEW r \in Requests,
           NEW e \in {"none", "endpoint", "timeout", "rejected"}, Fail(r, e)
    PROVE  req'[r].at = "returned" /\ req'[r].err = e
BY DEF TypeOK, Fail, Done, NoRequest

\* A request that returns at its deadline keeps what shows whose deadline it
\* was.
LEMMA FailDeadline ==
    ASSUME TypeOK, NEW r \in Requests, Fail(r, "deadline")
    PROVE  /\ req'[r].at = "returned"
           /\ req'[r].left = req[r].left /\ req'[r].age = req[r].age
BY DEF TypeOK, Fail, Done, NoRequest

\* A request that takes the entry offers its config or returns its error.
LEMMA UseEntryEffect ==
    ASSUME TypeOK, EntryInv, NEW r \in Requests, UseEntry(r, cache)
    PROVE  \/ req'[r].at = "offer" /\ req'[r].config # 0
           \/ req'[r].at = "returned" /\ req'[r].err # "deadline"
BY DEF TypeOK, EntryInv, UseEntry, Done, NoRequest

\* What a step of request r does to itself and to the cache, in the terms of
\* UseInv.
LEMMA RequestUse ==
    ASSUME TypeOK, UseInv, NEW r \in Requests, RequestStep(r)
    PROVE  /\ EntryInv'
           /\ req'[r].at \in {"store", "offer", "rejected"} => req'[r].config # 0
           /\ req'[r].at = "returned" /\ req'[r].err = "deadline"
                => req'[r].left = 0 \/ (Probe /\ req'[r].age = ProbeTimeout)
<1> USE ConstantsAssumption DEF UseInv, EntryInv, OfferInv
<1>1. CASE \E p \in Paths : Start(r, p)
  <2>1. req'[r].at = "load" /\ UNCHANGED cache
    BY <1>1 DEF Start, NoRequest, TypeOK
  <2> QED
    BY <2>1
<1>2. CASE LoadMiss(r) \/ Lock(r) \/ RecheckMiss(r)
  BY <1>2, ToEffect DEF LoadMiss, Lock, RecheckMiss
<1>3. CASE LoadHit(r) \/ RecheckHit(r)
  BY <1>3, UseEntryEffect DEF LoadHit, RecheckHit
<1>4. CASE FetchAnswered(r)
  BY <1>4 DEF FetchAnswered, TypeOK, Generations
<1>5. CASE FetchRefused(r) \/ FetchTimeout(r)
  BY <1>5, FailOther DEF FetchRefused, FetchTimeout, Negative
<1>6. CASE FetchDeadline(r)
  BY <1>6, FailDeadline DEF FetchDeadline, DeadlineCame
<1>7. CASE Store(r)
  BY <1>7, ToEffect DEF Store, Positive
<1>8. CASE Accepted(r) \/ OfferFails(r) \/ RefusedUtls(r)
  <2>1. PICK e \in {"none", "endpoint", "rejected"} : Fail(r, e)
    BY <1>8 DEF Accepted, OfferFails, RefusedUtls
  <2>2. UNCHANGED cache
    BY <1>8 DEF Accepted, OfferFails, RefusedUtls
  <2> QED
    BY <2>1, <2>2, FailOther
<1>9. CASE OfferDeadline(r)
  BY <1>9, FailDeadline DEF OfferDeadline
<1>10. CASE CertificateError(r) \/ RefusedStd(r)
  BY <1>10, ToEffect DEF CertificateError, RefusedStd
<1>11. CASE Invalidate(r)
  BY <1>11, FailOther DEF Invalidate, NoEntry
<1> QED
  BY <1>1, <1>2, <1>3, <1>4, <1>5, <1>6, <1>7, <1>8, <1>9, <1>10, <1>11
  DEF RequestStep, Acquire, Handshake

\* A tick changes nothing UseInv speaks of: it does not touch requests that
\* have returned, nor anybody's config.
LEMMA TickUse == ASSUME TypeOK, UseInv, Tick PROVE UseInv'
<1>1. EntryInv'
  BY DEF Tick, UseInv, EntryInv, TypeOK, Entries
<1>2. ASSUME NEW r \in Requests
      PROVE  /\ req'[r].at = req[r].at /\ req'[r].config = req[r].config
             /\ req[r].at = "returned" => req'[r] = req[r]
  BY DEF Tick, TypeOK, RequestStates
<1> QED
  BY <1>1, <1>2 DEF UseInv, OfferInv, DeadlineIsOwn

\* No context error is remembered, and whoever reports one met its own deadline.
THEOREM UseInvariant == Spec => []UseInv
<1>1. Init => UseInv
  BY DEF Init, NoEntry, NoRequest, UseInv, EntryInv, OfferInv, DeadlineIsOwn
<1>2. TypeOK /\ UseInv /\ [Next]_vars => UseInv'
  <2> SUFFICES ASSUME TypeOK, UseInv, [Next]_vars PROVE UseInv'
    OBVIOUS
  <2>1. ASSUME NEW r \in Requests, RequestStep(r) PROVE UseInv'
    <3>1. \A q \in Requests : q # r => req'[q] = req[q]
      BY <2>1, OthersUnchanged
    <3> QED
      BY <2>1, <3>1, RequestUse DEF UseInv, OfferInv, DeadlineIsOwn
  <2>2. CASE Rotate
    BY <2>2 DEF Rotate, UseInv, EntryInv, OfferInv, DeadlineIsOwn
  <2>3. CASE Tick
    BY <2>3, TickUse
  <2>4. CASE UNCHANGED vars
    BY <2>4 DEF vars, UseInv, EntryInv, OfferInv, DeadlineIsOwn
  <2> QED
    BY <2>1, <2>2, <2>3, <2>4 DEF Next, RequestStep
<1>3. IInv => TypeOK
  BY DEF IInv
<1> QED
  BY <1>1, <1>2, <1>3, Invariant, PTL DEF Spec

\* The cache, the mutex and the requests have their types.
THEOREM TypeCorrect == Spec => []TypeOK
<1>1. IInv => TypeOK
  BY DEF IInv
<1> QED
  BY <1>1, Invariant, PTL

\* A request that reports a context error used up its own timeout or waited for
\* its own probe: the cache hands none of them on.  (The timeouts of connections
\* are not context errors, and it does hand on those.)
THEOREM DeadlineAlwaysOwn == Spec => []DeadlineIsOwn
<1>1. UseInv => DeadlineIsOwn
  BY DEF UseInv
<1> QED
  BY <1>1, UseInvariant, PTL

\* A step that ends a request with a refusal is one of these two.
LEMMA OnlyRefusals ==
    ASSUME TypeOK, NEW r \in Requests, RequestStep(r),
           req'[r].at = "returned", req'[r].err = "rejected"
    PROVE  Invalidate(r) \/ RefusedUtls(r)
<1>1. ~\E p \in Paths : Start(r, p)
  BY DEF Start, NoRequest, TypeOK
<1>2. ~(LoadMiss(r) \/ Lock(r) \/ RecheckMiss(r) \/ RefusedStd(r)
          \/ CertificateError(r) \/ Store(r))
  BY ToEffect
  DEF LoadMiss, Lock, RecheckMiss, RefusedStd, CertificateError, Store
<1>3. ~FetchAnswered(r)
  BY DEF FetchAnswered, TypeOK, RequestStates
<1>4. ~(LoadHit(r) \/ RecheckHit(r))
  <2>1. ASSUME UseEntry(r, cache) PROVE FALSE
    <3>1. CASE cache.kind = "list"
      BY <2>1, <3>1 DEF UseEntry, TypeOK, RequestStates
    <3>2. CASE cache.kind # "list"
      <4>1. req'[r].err = cache.err
        BY <2>1, <3>2 DEF UseEntry, Done, NoRequest, TypeOK
      <4> QED
        BY <4>1 DEF TypeOK, Entries
    <3> QED
      BY <3>1, <3>2
  <2> QED
    BY <2>1 DEF LoadHit, RecheckHit
<1>5. ~(FetchRefused(r) \/ FetchTimeout(r) \/ Accepted(r) \/ OfferFails(r))
  BY FailOther DEF FetchRefused, FetchTimeout, Accepted, OfferFails
<1>6. ~(FetchDeadline(r) \/ OfferDeadline(r))
  BY DEF FetchDeadline, OfferDeadline, Fail, Done, NoRequest, TypeOK
<1> QED
  BY <1>1, <1>2, <1>3, <1>4, <1>5, <1>6 DEF RequestStep, Acquire, Handshake

\* As long as no request uses the uTLS path, a refusal is reported only after
\* the refused config has left the cache.
THEOREM RefusalDropsConfig ==
    ASSUME Paths \subseteq {"std"}
    PROVE  Spec => RefusedConfigIsDropped
<1> DEFINE Dropped == \A r \in Requests :
                        req[r].at # "returned" /\ req'[r].at = "returned"
                          /\ req'[r].err = "rejected"
                          => cache'.config # req[r].config
<1>1. TypeOK /\ UseInv /\ [Next]_vars => [Dropped]_vars
  <2> SUFFICES ASSUME TypeOK, UseInv, [Next]_vars,
                      NEW r \in Requests, req[r].at # "returned",
                      req'[r].at = "returned", req'[r].err = "rejected"
               PROVE  cache'.config # req[r].config
    BY DEF vars
  <2>1. RequestStep(r)
    <3>1. ASSUME NEW q \in Requests, RequestStep(q) PROVE q = r
      BY <3>1, OthersUnchanged
    <3>2. ~Tick /\ ~Rotate /\ ~UNCHANGED vars
      BY TickEffect DEF Rotate, vars
    <3> QED
      BY <3>1, <3>2 DEF Next, RequestStep
  <2>2. Invalidate(r) \/ RefusedUtls(r)
    BY <2>1, OnlyRefusals
  <2>3. CASE Invalidate(r)
    BY <2>3 DEF Invalidate, NoEntry, UseInv, OfferInv
  <2>4. CASE RefusedUtls(r)
    BY <2>4 DEF RefusedUtls, TypeOK, RequestStates
  <2> QED
    BY <2>2, <2>3, <2>4
<1>2. IInv => TypeOK
  BY DEF IInv
<1> QED
  BY <1>1, <1>2, Invariant, UseInvariant, PTL DEF Spec, RefusedConfigIsDropped

=============================================================================
