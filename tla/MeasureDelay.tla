---------------------------- MODULE MeasureDelay ----------------------------
(***************************************************************************)
(* MeasureDelay and MeasureOutboundDelay (libv2ray_main.go) beside the     *)
(* life cycle of the point.  MeasureDelay takes no lock: it reads v.Vpoint *)
(* when it calls measureInstDelay, and the goroutine it starts reads       *)
(* v.closeChan whenever it gets to run.  Nothing but that goroutine calls  *)
(* cancel, and the call does not wait for it.                              *)
(***************************************************************************)
EXTENDS V2RayPoint

CONSTANT Measures   \* calls of MeasureDelay or MeasureOutboundDelay

VARIABLE measure    \* what became of each call

\* at: the call.  watch: its goroutine, which selects on the closeChan of
\* session chan (nil, and so never ready, if that is 0).  ctx: the context and
\* the Client's timer, both of 12 s.  conn: a response whose body nobody
\* closed.  own: the instance MeasureOutboundDelay makes for itself.
NoMeasure == [at |-> "idle", watch |-> "ended", chan |-> 0, ctx |-> "live",
              conn |-> FALSE, own |-> FALSE]

mvars == <<vars, measure>>

Set(m, r) == measure' = [measure EXCEPT ![m] = r]

\* The call goes on after measureInstDelay.
Measured(r) == IF r.own THEN "close" ELSE "done"

MInit == Init /\ measure = [m \in Measures |-> NoMeasure]

-----------------------------------------------------------------------------
\* MeasureDelay makes its context and starts its goroutine.
MeasureCall(m) ==
    /\ measure[m].at = "idle"
    /\ Set(m, [NoMeasure EXCEPT !.at = "begin", !.watch = "start"])

\* MeasureOutboundDelay: the configuration does not load or makes no core, or
\* it has fewer than the five apps the slice expression takes, or the core is
\* there; whether it starts is not looked at.
OutboundCall(m) ==
    /\ measure[m].at = "idle"
    /\ \/ Set(m, [NoMeasure EXCEPT !.at = "done"])
       \/ Set(m, [NoMeasure EXCEPT !.at = "panicked"])
       \/ Set(m, [NoMeasure EXCEPT !.at = "request", !.own = TRUE])

\* measureInstDelay refuses a nil core; else it makes the request.
MeasureBegin(m) ==
    /\ measure[m].at = "begin"
    /\ Set(m, [measure[m] EXCEPT !.at = IF Vpoint = 0 THEN "done"
                                                      ELSE "request"])

\* The error of NewRequestWithContext is dropped: Do gets a nil request.
MeasureMalformedURL(m) ==
    /\ measure[m].at = "request"
    /\ Set(m, [measure[m] EXCEPT !.at = "panicked"])

\* A response: the body is closed, unless the status is not 20x.
MeasureAnswered(m) ==
    /\ measure[m].at = "request"
    /\ measure[m].ctx = "live"
    /\ \E bad \in BOOLEAN :
         Set(m, [measure[m] EXCEPT !.at = Measured(measure[m]), !.conn = bad])

\* Do fails: of itself, or because its context is over.
MeasureFails(m) ==
    /\ measure[m].at = "request"
    /\ Set(m, [measure[m] EXCEPT !.at = Measured(measure[m])])

OutboundClose(m) ==
    /\ measure[m].at = "close"
    /\ Set(m, [measure[m] EXCEPT !.at = "done", !.own = FALSE])

\* The context is over, and with it a connection nobody closed.
Over(m) == [measure[m] EXCEPT !.ctx = "over", !.conn = FALSE]

\* 12 s have passed.
Deadline(m) ==
    /\ measure[m].at # "idle" /\ measure[m].ctx = "live"
    /\ Set(m, Over(m))

-----------------------------------------------------------------------------
(* The goroutine of MeasureDelay *)

\* The select statement evaluates v.closeChan.
MeasureWatch(m) ==
    /\ measure[m].watch = "start"
    /\ Set(m, [measure[m] EXCEPT !.watch = "select", !.chan = session])

\* "cancel request if close called during meansure"
MeasureCancel(m) ==
    /\ measure[m].watch = "select"
    /\ measure[m].chan \in closed
    /\ Set(m, [Over(m) EXCEPT !.watch = "ended", !.chan = 0])

\* A goroutine that waits for closeChan alone.
MeasureDoneMissing(m) ==
    /\ measure[m].watch = "select"
    /\ measure[m].chan \in closed
    /\ Set(m, [measure[m] EXCEPT !.watch = "ended", !.chan = 0])

MeasureDone(m) ==
    /\ measure[m].watch = "select"
    /\ measure[m].ctx = "over"
    /\ Set(m, [measure[m] EXCEPT !.watch = "ended", !.chan = 0])

-----------------------------------------------------------------------------
MeasureReturns(m) ==
    \/ MeasureBegin(m) \/ OutboundClose(m)
    \/ MeasureFails(m) /\ measure[m].ctx = "over"

MeasureGoroutine(m) == MeasureWatch(m) \/ MeasureCancel(m) \/ MeasureDone(m)

Measure(m) ==
    \/ MeasureCall(m) \/ OutboundCall(m) \/ MeasureBegin(m)
    \/ MeasureMalformedURL(m) \/ MeasureAnswered(m) \/ MeasureFails(m)
    \/ OutboundClose(m) \/ Deadline(m)
    \/ MeasureWatch(m) \/ MeasureCancel(m) \/ MeasureDone(m)

\* A panic of a measurement ends the process, like one of the point.
MAlive == panic = "none" /\ \A m \in Measures : measure[m].at # "panicked"

MNext ==
    \/ /\ MAlive
       /\ \/ Next /\ UNCHANGED measure
          \/ \E m \in Measures : Measure(m) /\ UNCHANGED vars
    \/ ~MAlive /\ UNCHANGED mvars

\* The 12 s pass, goroutines run, and Do returns once its context is over.  No
\* server owes an answer, and nothing is asked of the point: a measurement must
\* end even if the session never does.
MFairness ==
    \A m \in Measures :
        /\ WF_mvars(MAlive /\ Deadline(m) /\ UNCHANGED vars)
        /\ WF_mvars(MAlive /\ MeasureReturns(m) /\ UNCHANGED vars)
        /\ WF_mvars(MAlive /\ MeasureGoroutine(m) /\ UNCHANGED vars)

MSpec == MInit /\ [][MNext]_mvars /\ MFairness

-----------------------------------------------------------------------------
\* Every measurement ends and leaves nothing behind (main.go:299-312, 335-357,
\* 385-422): the call returns, its goroutine ends although the closeChan it
\* waits on may be nil, of a session that never stops, or of another session
\* than the one measured, the response nobody closed is released, and the
\* instance MeasureOutboundDelay made is closed.
MeasuresEnd ==
    \A m \in Measures :
        measure[m].at # "idle"
          ~> \/ /\ measure[m].at = "done" /\ measure[m].watch = "ended"
                /\ ~measure[m].conn /\ ~measure[m].own
             \/ ~MAlive

=============================================================================
