------------------------- MODULE MeasureDelayProofs -------------------------
(***************************************************************************)
(* Proofs about MeasureDelay, for any number of measurements beside any    *)
(* number of callers, dialers and RunLoop calls.                           *)
(*                                                                         *)
(* Measurements read the fields of the point without v2rayOP.  What they   *)
(* write is their own, so a behaviour of point and measurements is one of  *)
(* the point (PointUndisturbed), and what V2RayPointProofs proves of the   *)
(* point holds beside them.  What a measurement itself may hold on to is   *)
(* an invariant of each record by itself (RecordInv).                      *)
(***************************************************************************)
EXTENDS MeasureDelay, V2RayPointProofs

\* Every step of a measurement leaves the point alone.
LEMMA MNextIsNext == [MNext]_mvars => [Next]_vars
<1> SUFFICES ASSUME [MNext]_mvars PROVE [Next]_vars
  OBVIOUS
<1>1. CASE Next /\ UNCHANGED measure
  BY <1>1
<1>2. ASSUME NEW m \in Measures, Measure(m) /\ UNCHANGED vars
      PROVE  [Next]_vars
  BY <1>2
<1>3. CASE UNCHANGED mvars
  <2>1. UNCHANGED vars
    BY <1>3 DEF mvars
  <2> QED
    BY <2>1
<1> QED
  BY <1>1, <1>2, <1>3 DEF MNext

\* MeasureDelay and MeasureOutboundDelay (main.go:299-312, 335-357) run without
\* v2rayOP and beside any step of RunLoop, StopLoop, the watchers, the
\* resolvers and Dial; they never change what those do.
THEOREM PointUndisturbed == MSpec => Spec
<1>1. MInit => Init
  BY DEF MInit
<1> QED
  BY <1>1, MNextIsNext, PTL DEF MSpec, Spec

\* There is at most one running core that StopLoop can reach, also while
\* measurements read v.Vpoint and start instances of their own.
THEOREM MeasuredCoreIsReachable == MSpec => []RunningCoreIsReachable
BY PointUndisturbed, OneReachableCore, PTL

\* The closeChans the measurements' goroutines select on are closed exactly
\* when their cores were shut down, whenever v2rayOP is free.
THEOREM MeasuredSessionClosed == MSpec => []ClosedIffShutDown
BY PointUndisturbed, ClosedExactlyWhenShutDown, PTL

\* With measurements beside it the point still looks like one core after the
\* other.
THEOREM MeasuredPointRefinesSession == MSpec => ImplementsSession
BY PointUndisturbed, RefinesSession, PTL

-----------------------------------------------------------------------------
(* What a measurement holds on to *)

Records ==
    [at : {"idle", "begin", "request", "close", "done", "panicked"},
     watch : {"start", "select", "ended"}, chan : 0..MaxCalls,
     ctx : {"live", "over"}, conn : BOOLEAN, own : BOOLEAN]

\* An instance of its own is held until it is closed, and never by a call that
\* has a goroutine; a response is open only after an answer and only while the
\* context is live; and a goroutine that is not in its select waits for
\* nothing.
RecordInv(r) ==
    /\ r \in Records
    /\ r.at = "idle" => r = NoMeasure
    /\ r.at = "close" => r.own
    /\ r.own => r.at \in {"request", "close", "panicked"} /\ r.watch = "ended"
    /\ r.conn => r.at \in {"close", "done"} /\ r.ctx = "live"
    /\ r.watch # "select" => r.chan = 0

MInv ==
    /\ session \in 0..MaxCalls
    /\ measure \in [Measures -> Records]
    /\ \A m \in Measures : RecordInv(measure[m])

\* A call that returned has closed the instance it made (main.go:350-357); the
\* response it may have left open and the goroutine it may have left behind
\* last no longer than the 12 s of its context (main.go:300-309, 385-422).
ReturnedHoldsNoInstance ==
    \A m \in Measures :
        /\ measure[m].at = "done" => ~measure[m].own
        /\ measure[m].ctx = "over" => ~measure[m].conn

LEMMA NoMeasureInv == RecordInv(NoMeasure)
<1>1. /\ NoMeasure.at = "idle" /\ NoMeasure.watch = "ended"
      /\ NoMeasure.chan = 0 /\ NoMeasure.ctx = "live"
      /\ NoMeasure.conn = FALSE /\ NoMeasure.own = FALSE
  BY DEF NoMeasure
<1>2. NoMeasure \in Records
  BY ConstantsAssumption DEF NoMeasure, Records
<1> QED
  BY <1>1, <1>2 DEF RecordInv

\* One record replaced by a good one.
LEMMA SetStep ==
    ASSUME MInv, UNCHANGED vars, NEW m \in Measures, NEW r,
           Set(m, r), RecordInv(r)
    PROVE  MInv'
<1>1. session' = session
  BY DEF vars, point
<1>2. measure' = [measure EXCEPT ![m] = r]
  BY DEF Set
<1>3. measure \in [Measures -> Records] /\ r \in Records
  BY DEF MInv, RecordInv
<1>4. measure' \in [Measures -> Records]
  BY <1>2, <1>3
<1>5. ASSUME NEW k \in Measures PROVE RecordInv(measure'[k])
  <2>1. CASE k = m
    BY <1>2, <1>3, <2>1
  <2>2. CASE k # m
    <3>1. measure'[k] = measure[k]
      BY <1>2, <1>3, <2>2
    <3> QED
      BY <3>1 DEF MInv
  <2> QED
    BY <2>1, <2>2
<1> QED
  BY <1>1, <1>4, <1>5 DEF MInv

\* The steps of a call and of its goroutine, on its record.
LEMMA CallSteps ==
    /\ RecordInv([NoMeasure EXCEPT !.at = "begin", !.watch = "start"])
    /\ RecordInv([NoMeasure EXCEPT !.at = "done"])
    /\ RecordInv([NoMeasure EXCEPT !.at = "panicked"])
    /\ RecordInv([NoMeasure EXCEPT !.at = "request", !.own = TRUE])
<1> DEFINE N == NoMeasure
<1>1. N \in Records /\ N.at = "idle" /\ N.watch = "ended" /\ N.chan = 0
      /\ N.conn = FALSE /\ N.own = FALSE
  BY NoMeasureInv DEF RecordInv, NoMeasure
<1> HIDE DEF N
<1>2. RecordInv([N EXCEPT !.at = "begin", !.watch = "start"])
  BY <1>1 DEF RecordInv, Records
<1>3. RecordInv([N EXCEPT !.at = "done"])
  BY <1>1 DEF RecordInv, Records
<1>4. RecordInv([N EXCEPT !.at = "panicked"])
  BY <1>1 DEF RecordInv, Records
<1>5. RecordInv([N EXCEPT !.at = "request", !.own = TRUE])
  BY <1>1 DEF RecordInv, Records
<1> QED
  BY <1>2, <1>3, <1>4, <1>5 DEF N

LEMMA MeasureSteps ==
    ASSUME NEW r, RecordInv(r)
    PROVE  /\ r.at = "begin" => RecordInv([r EXCEPT !.at = "done"])
           /\ r.at = "begin" => RecordInv([r EXCEPT !.at = "request"])
           /\ r.at = "request" => RecordInv([r EXCEPT !.at = "panicked"])
           /\ r.at = "request" => RecordInv([r EXCEPT !.at = Measured(r)])
           /\ r.at = "close"
                => RecordInv([r EXCEPT !.at = "done", !.own = FALSE])
BY DEF RecordInv, Records, Measured

LEMMA AnsweredStep ==
    ASSUME NEW r, RecordInv(r), r.at = "request", r.ctx = "live",
           NEW bad \in BOOLEAN
    PROVE  RecordInv([r EXCEPT !.at = Measured(r), !.conn = bad])
BY DEF RecordInv, Records, Measured

LEMMA OverStep ==
    ASSUME NEW r, RecordInv(r), r.at # "idle"
    PROVE  RecordInv([r EXCEPT !.ctx = "over", !.conn = FALSE])
BY DEF RecordInv, Records

LEMMA GoroutineSteps ==
    ASSUME NEW r, RecordInv(r), r.watch # "ended", NEW s \in 0..MaxCalls
    PROVE  /\ r.at # "idle"
           /\ RecordInv([r EXCEPT !.watch = "select", !.chan = s])
           /\ RecordInv([r EXCEPT !.watch = "ended", !.chan = 0])
<1>1. r.at # "idle"
  BY DEF RecordInv, NoMeasure
<1>2. RecordInv([r EXCEPT !.watch = "select", !.chan = s])
  BY <1>1 DEF RecordInv, Records
<1>3. 0 \in 0..MaxCalls
  BY ConstantsAssumption
<1>4. RecordInv([r EXCEPT !.watch = "ended", !.chan = 0])
  BY <1>1, <1>3 DEF RecordInv, Records
<1> QED
  BY <1>1, <1>2, <1>4

\* Every step of a measurement keeps its record good.
LEMMA MeasureStep ==
    ASSUME MInv, NEW m \in Measures, Measure(m), UNCHANGED vars
    PROVE  MInv'
<1> DEFINE r == measure[m]
<1>1. RecordInv(r) /\ session \in 0..MaxCalls
  BY DEF MInv
<1> SUFFICES \E new : Set(m, new) /\ RecordInv(new)
  BY SetStep
<1>2. CASE MeasureCall(m)
  BY <1>2, CallSteps DEF MeasureCall
<1>3. CASE OutboundCall(m)
  BY <1>3, CallSteps DEF OutboundCall
<1>4. CASE MeasureBegin(m)
  <2>1. CASE Vpoint = 0
    <3>1. Set(m, [r EXCEPT !.at = "done"]) /\ r.at = "begin"
      BY <1>4, <2>1 DEF MeasureBegin
    <3> QED
      BY <1>1, <3>1, MeasureSteps
  <2>2. CASE Vpoint # 0
    <3>1. Set(m, [r EXCEPT !.at = "request"]) /\ r.at = "begin"
      BY <1>4, <2>2 DEF MeasureBegin
    <3> QED
      BY <1>1, <3>1, MeasureSteps
  <2> QED
    BY <2>1, <2>2
<1>5. CASE MeasureMalformedURL(m)
  BY <1>1, <1>5, MeasureSteps DEF MeasureMalformedURL
<1>6. CASE MeasureAnswered(m)
  BY <1>1, <1>6, AnsweredStep DEF MeasureAnswered
<1>7. CASE MeasureFails(m)
  BY <1>1, <1>7, MeasureSteps DEF MeasureFails
<1>8. CASE OutboundClose(m)
  BY <1>1, <1>8, MeasureSteps DEF OutboundClose
<1>9. CASE Deadline(m)
  BY <1>1, <1>9, OverStep DEF Deadline, Over
<1>10. CASE MeasureWatch(m)
  BY <1>1, <1>10, GoroutineSteps DEF MeasureWatch
<1>11. CASE MeasureCancel(m)
  <2> DEFINE o == [r EXCEPT !.ctx = "over", !.conn = FALSE]
  <2>1. r.watch = "select" /\ Set(m, [o EXCEPT !.watch = "ended", !.chan = 0])
    BY <1>11 DEF MeasureCancel, Over
  <2>2. r.at # "idle"
    BY <1>1, <2>1, GoroutineSteps
  <2>3. RecordInv(o)
    BY <1>1, <2>2, OverStep
  <2>4. o.watch = "select"
    BY <1>1, <2>1 DEF RecordInv, Records
  <2> HIDE DEF o
  <2>5. RecordInv([o EXCEPT !.watch = "ended", !.chan = 0])
    BY <1>1, <2>3, <2>4, GoroutineSteps
  <2> QED
    BY <2>1, <2>5
<1>12. CASE MeasureDone(m)
  BY <1>1, <1>12, GoroutineSteps DEF MeasureDone
<1> QED
  BY <1>2, <1>3, <1>4, <1>5, <1>6, <1>7, <1>8, <1>9, <1>10, <1>11, <1>12
  DEF Measure

LEMMA MInvStep ==
    ASSUME MInv, IInv', [MNext]_mvars PROVE MInv'
<1>1. session' \in 0..MaxCalls
  BY DEF IInv, PointTypes
<1>2. ASSUME measure' = measure PROVE MInv'
  BY <1>1, <1>2 DEF MInv
<1>3. ASSUME NEW m \in Measures, Measure(m) /\ UNCHANGED vars PROVE MInv'
  BY <1>3, MeasureStep
<1>4. CASE UNCHANGED mvars
  BY <1>2, <1>4 DEF mvars
<1> QED
  BY <1>2, <1>3, <1>4 DEF MNext

\* The inductive invariant of the measurements.
THEOREM MeasureInvariant == MSpec => []MInv
<1>1. MInit => MInv
  <2> SUFFICES ASSUME MInit PROVE MInv
    OBVIOUS
  <2>1. session \in 0..MaxCalls
    BY ConstantsAssumption DEF MInit, Init
  <2>2. NoMeasure \in Records
    BY NoMeasureInv DEF RecordInv
  <2>3. measure = [m \in Measures |-> NoMeasure]
    BY DEF MInit
  <2> QED
    BY <2>1, <2>2, <2>3, NoMeasureInv DEF MInv
<1>2. MSpec => []IInv
  BY PointUndisturbed, Invariant, PTL
<1> QED
  BY <1>1, <1>2, MInvStep, PTL DEF MSpec

\* A call that returned has closed the instance it made (main.go:350-357), and
\* a response nobody closed does not outlive the context (main.go:385-422).
THEOREM ReturnedMeasureHoldsNoInstance == MSpec => []ReturnedHoldsNoInstance
<1>1. MInv => ReturnedHoldsNoInstance
  <2> SUFFICES ASSUME MInv, NEW m \in Measures
               PROVE  /\ measure[m].at = "done" => ~measure[m].own
                      /\ measure[m].ctx = "over" => ~measure[m].conn
    BY DEF ReturnedHoldsNoInstance
  <2>1. RecordInv(measure[m])
    BY DEF MInv
  <2> QED
    BY <2>1 DEF RecordInv
<1> QED
  BY <1>1, MeasureInvariant, PTL

=============================================================================
