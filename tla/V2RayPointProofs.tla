-------------------------- MODULE V2RayPointProofs --------------------------
(***************************************************************************)
(* Proofs about V2RayPoint for every number of callers, dialers, servers   *)
(* and RunLoop calls, with synchronous and asynchronous resolution.        *)
(*                                                                         *)
(* The invariant says what v2rayOP protects: what the fields of the point  *)
(* are when the lock is free (Idle), what the holder of the lock knows at  *)
(* each of its control points (Holding), which sessions are closed         *)
(* (ClosedInv), and that a RunLoop call that waits for the lock names      *)
(* channels that do not exist yet (FreshInv).                              *)
(***************************************************************************)
EXTENDS V2RayPoint, TLAPS

\* The types of what RunLoop and StopLoop read and write.
PointTypes ==
    /\ op \in Threads \cup {Free}
    /\ pc \in [Threads -> Labels]
    /\ calls \in 0..MaxCalls
    /\ call \in [Callers -> 0..MaxCalls]
    /\ session \in 0..MaxCalls
    /\ closed \in SUBSET Sessions
    /\ Vpoint \in 0..MaxCalls
    /\ core \in [Sessions -> {"none", "created", "failed", "started", "closed"}]
    /\ IsRunning \in BOOLEAN
    /\ status \in {"none", "Running", "Closed"}

\* A thread at a critical control point holds v2rayOP.
LockInv == \A t \in Threads : pc[t] \in Critical => op = t

\* The current session has a started core and an open closeChan.
Live ==
    /\ IsRunning
    /\ session \in Sessions
    /\ Vpoint = session
    /\ core[session] = "started"

\* v2rayOP is free: the status is the truth, and what runs is live and open.
Idle ==
    op = Free => /\ IsRunning <=> status = "Running"
                 /\ IsRunning => Live /\ session \notin closed

\* What the holder of v2rayOP knows at its control points.
HoldingRun ==
    \A c \in Callers :
        /\ pc[c] \in {"prepare", "load"} =>
             /\ ~IsRunning /\ status # "Running"
             /\ session = call[c] /\ session \in Sessions
             /\ session \notin closed /\ core[session] = "none"
        /\ pc[c] = "start" =>
             /\ IsRunning /\ status # "Running"
             /\ session = call[c] /\ session \in Sessions
             /\ Vpoint = session
             /\ session \notin closed /\ core[session] = "created"

HoldingStop ==
    \A t \in Threads :
        /\ pc[t] = "close" => Live /\ session \notin closed
        /\ pc[t] = "shutdown" => Live /\ session \in closed
        /\ pc[t] = "emit" => ~IsRunning

\* A session is closed if and only if its core was shut down, except between
\* close(v.closeChan) and shutdownInit.
ClosedInv ==
    \A s \in Sessions :
        /\ core[s] = "closed" => s \in closed
        /\ s \in closed => \/ core[s] = "closed"
                           \/ /\ s = session
                              /\ \E t \in Threads : pc[t] = "shutdown"

\* No RunLoop call has used the channels and the core of s.
Untouched(s) == core[s] = "none" /\ s \notin closed /\ s # session

\* Waiting RunLoop calls have numbers of their own, not used before.
FreshInv ==
    /\ \A s \in Sessions : s > calls => Untouched(s)
    /\ session <= calls
    /\ \A c \in Callers : call[c] <= calls
    /\ \A c \in Callers : pc[c] = "run" =>
         /\ call[c] \in Sessions /\ Untouched(call[c])
         /\ \A d \in Callers : d # c /\ pc[d] = "run" => call[d] # call[c]

IInv ==
    /\ PointTypes /\ LockInv /\ Idle /\ HoldingRun /\ HoldingStop
    /\ ClosedInv /\ FreshInv
    /\ RunningCoreIsReachable /\ StopNeverPanics

-----------------------------------------------------------------------------
\* A thread is not a caller and a watcher at once, and Free is no thread.
LEMMA ThreadsDistinct ==
    /\ \A c \in Callers : c \notin Sessions
    /\ Free \notin Threads
    /\ Callers \subseteq Threads /\ Sessions \subseteq Threads
    /\ Sessions \subseteq 0..MaxCalls /\ 0 \notin Sessions
BY ConstantsAssumption DEF Threads, Sessions

\* The invariant holds of a new V2RayPoint.
LEMMA InitIInv == Init => IInv
<1> SUFFICES ASSUME Init PROVE IInv
  OBVIOUS
<1> USE ConstantsAssumption, ThreadsDistinct DEF Init
<1>1. PointTypes /\ LockInv
  <2>1. pc \in [Threads -> Labels]
    BY DEF Labels
  <2>2. core \in [Sessions ->
                   {"none", "created", "failed", "started", "closed"}]
    OBVIOUS
  <2>3. call \in [Callers -> 0..MaxCalls]
    OBVIOUS
  <2>4. closed \in SUBSET Sessions /\ calls \in 0..MaxCalls
    OBVIOUS
  <2>5. PointTypes
    BY <2>1, <2>2, <2>3, <2>4 DEF PointTypes
  <2>6. LockInv
    BY DEF LockInv, Critical
  <2> QED
    BY <2>5, <2>6
<1>2. Idle /\ HoldingRun /\ HoldingStop
  BY DEF Idle, HoldingRun, HoldingStop
<1>3. ClosedInv /\ RunningCoreIsReachable /\ StopNeverPanics
  BY DEF ClosedInv, RunningCoreIsReachable, StopNeverPanics
<1>4. FreshInv
  <2>1. \A c \in Callers : pc[c] = "idle" /\ call[c] = 0
    OBVIOUS
  <2>2. \A s \in Sessions : Untouched(s)
    BY DEF Untouched
  <2>3. session = 0 /\ calls = 0
    OBVIOUS
  <2> QED
    BY ONLY <2>1, <2>2, <2>3 DEF FreshInv
<1> QED
  BY <1>1, <1>2, <1>3, <1>4 DEF IInv

\* The new call takes the number after the last one, which nothing has used.
LEMMA CallRunLoopStep ==
    ASSUME IInv, NEW c \in Callers, CallRunLoop(c) PROVE IInv'
<1> USE ThreadsDistinct, ConstantsAssumption
    DEF CallRunLoop, Goto, Critical, IInv, PointTypes
<1>1. PointTypes'
  BY DEF Labels
<1>2. LockInv'
  BY DEF LockInv
<1>3. Idle'
  BY DEF Idle, Live
<1>4. HoldingRun'
  BY DEF HoldingRun
<1>5. HoldingStop'
  BY DEF HoldingStop, Live
<1>6. ClosedInv'
  BY DEF ClosedInv
<1>7. FreshInv'
  BY DEF FreshInv, Untouched, Sessions
<1>8. RunningCoreIsReachable'
  BY DEF RunningCoreIsReachable
<1>9. StopNeverPanics'
  BY DEF StopNeverPanics
<1> QED
  BY <1>1, <1>2, <1>3, <1>4, <1>5, <1>6, <1>7, <1>8, <1>9

\* A RunLoop that finds the point running leaves it as it is.
LEMMA RunLoopBusyStep ==
    ASSUME IInv, NEW c \in Callers, RunLoopBusy(c) PROVE IInv'
<1> USE ThreadsDistinct, ConstantsAssumption
    DEF RunLoopBusy, RunLoopReturn, Goto, Critical, IInv, PointTypes
<1>1. PointTypes'
  <2>1. pc' \in [Threads -> Labels]
    BY DEF Labels
  <2>2. call' \in [Callers -> 0..MaxCalls]
    OBVIOUS
  <2> QED
    BY <2>1, <2>2
<1>2. LockInv'
  BY DEF LockInv
<1>3. Idle'
  BY DEF Idle, Live
<1>4. HoldingRun'
  BY DEF HoldingRun
<1>5. HoldingStop'
  BY DEF HoldingStop, Live
<1>6. ClosedInv'
  BY DEF ClosedInv
<1>7. FreshInv'
  BY DEF FreshInv, Untouched
<1>8. RunningCoreIsReachable'
  BY DEF RunningCoreIsReachable
<1>9. StopNeverPanics'
  BY DEF StopNeverPanics
<1> QED
  BY <1>1, <1>2, <1>3, <1>4, <1>5, <1>6, <1>7, <1>8, <1>9

\* The lock was free and the point stopped: by FreshInv the new session's
\* channels are open and its core does not exist.
LEMMA RunLoopEnterStep ==
    ASSUME IInv, NEW c \in Callers, RunLoopEnter(c) PROVE IInv'
<1> USE ThreadsDistinct, ConstantsAssumption
    DEF RunLoopEnter, Goto, Critical, IInv, PointTypes
<1>1. PointTypes'
  BY DEF Labels
<1>2. LockInv'
  BY DEF LockInv
<1>3. Idle'
  BY DEF Idle
<1>4. HoldingRun'
  BY DEF HoldingRun, LockInv, Idle, FreshInv, Untouched
<1>5. HoldingStop'
  BY DEF HoldingStop, Live
<1>6. ClosedInv'
  BY DEF ClosedInv, LockInv
<1>7. FreshInv'
  BY DEF FreshInv, Untouched
<1>8. RunningCoreIsReachable'
  BY DEF RunningCoreIsReachable
<1>9. StopNeverPanics'
  BY DEF StopNeverPanics
<1> QED
  BY <1>1, <1>2, <1>3, <1>4, <1>5, <1>6, <1>7, <1>8, <1>9

\* The holder of the lock goes on; nothing it knows changes.
LEMMA RunLoopPreparedStep ==
    ASSUME IInv, NEW c \in Callers, RunLoopPrepared(c) PROVE IInv'
<1> USE ThreadsDistinct, ConstantsAssumption
    DEF RunLoopPrepared, point, Goto, Critical, IInv, PointTypes
<1>1. PointTypes'
  BY DEF Labels
<1>2. LockInv'
  BY DEF LockInv
<1>3. Idle'
  BY DEF Idle, Live
<1>4. HoldingRun'
  BY DEF HoldingRun
<1>5. HoldingStop'
  BY DEF HoldingStop, Live
<1>6. ClosedInv'
  BY DEF ClosedInv
<1>7. FreshInv'
  BY DEF FreshInv, Untouched
<1>8. RunningCoreIsReachable'
  BY DEF RunningCoreIsReachable
<1>9. StopNeverPanics'
  BY DEF StopNeverPanics
<1> QED
  BY <1>1, <1>2, <1>3, <1>4, <1>5, <1>6, <1>7, <1>8, <1>9

\* A configuration that does not load leaves the point stopped.
LEMMA PointLoopLoadFailsStep ==
    ASSUME IInv, NEW c \in Callers, PointLoopLoadFails(c) PROVE IInv'
<1> USE ThreadsDistinct, ConstantsAssumption
    DEF PointLoopLoadFails, RunLoopReturn, Goto, Critical, IInv, PointTypes
<1>1. PointTypes'
  BY DEF Labels
<1>2. LockInv'
  BY DEF LockInv
<1>3. Idle'
  BY DEF Idle, HoldingRun
<1>4. HoldingRun'
  BY DEF HoldingRun
<1>5. HoldingStop'
  BY DEF HoldingStop, Live
<1>6. ClosedInv'
  BY DEF ClosedInv
<1>7. FreshInv'
  BY DEF FreshInv, Untouched
<1>8. RunningCoreIsReachable'
  BY DEF RunningCoreIsReachable
<1>9. StopNeverPanics'
  BY DEF StopNeverPanics
<1> QED
  BY <1>1, <1>2, <1>3, <1>4, <1>5, <1>6, <1>7, <1>8, <1>9

\* A core that cannot be made leaves the point stopped.
LEMMA PointLoopNewFailsStep ==
    ASSUME IInv, NEW c \in Callers, PointLoopNewFails(c) PROVE IInv'
<1> USE ThreadsDistinct, ConstantsAssumption
    DEF PointLoopNewFails, RunLoopReturn, Goto, Critical, IInv, PointTypes
<1>1. PointTypes'
  BY DEF Labels
<1>2. LockInv'
  BY DEF LockInv
<1>3. Idle'
  BY DEF Idle, HoldingRun
<1>4. HoldingRun'
  BY DEF HoldingRun
<1>5. HoldingStop'
  BY DEF HoldingStop, LockInv
<1>6. ClosedInv'
  BY DEF ClosedInv
<1>7. FreshInv'
  BY DEF FreshInv, Untouched
<1>8. RunningCoreIsReachable'
  BY DEF RunningCoreIsReachable, HoldingRun
<1>9. StopNeverPanics'
  BY DEF StopNeverPanics
<1> QED
  BY <1>1, <1>2, <1>3, <1>4, <1>5, <1>6, <1>7, <1>8, <1>9

\* IsRunning and Vpoint are set together, for the session of the lock's holder.
LEMMA PointLoopNewStep ==
    ASSUME IInv, NEW c \in Callers, PointLoopNew(c) PROVE IInv'
<1> USE ThreadsDistinct, ConstantsAssumption
    DEF PointLoopNew, Goto, Critical, IInv, PointTypes
<1>1. PointTypes'
  BY DEF Labels
<1>2. LockInv'
  BY DEF LockInv
<1>3. Idle'
  BY DEF Idle, LockInv
<1>4. HoldingRun'
  BY DEF HoldingRun, LockInv
<1>5. HoldingStop'
  BY DEF HoldingStop, LockInv
<1>6. ClosedInv'
  BY DEF ClosedInv, HoldingRun
<1>7. FreshInv'
  BY DEF FreshInv, Untouched, HoldingRun
<1>8. RunningCoreIsReachable'
  BY DEF RunningCoreIsReachable, HoldingRun
<1>9. StopNeverPanics'
  BY DEF StopNeverPanics
<1> QED
  BY <1>1, <1>2, <1>3, <1>4, <1>5, <1>6, <1>7, <1>8, <1>9

\* Start fails: the point is stopped again before the lock is released.
LEMMA PointLoopStartFailsStep ==
    ASSUME IInv, NEW c \in Callers, PointLoopStartFails(c) PROVE IInv'
<1> USE ThreadsDistinct, ConstantsAssumption
    DEF PointLoopStartFails, RunLoopReturn, Goto, Critical, IInv, PointTypes
<1>1. PointTypes'
  <2>1. pc' \in [Threads -> Labels]
    BY DEF Labels
  <2>2. call' \in [Callers -> 0..MaxCalls]
    OBVIOUS
  <2>3. core' \in [Sessions ->
                    {"none", "created", "failed", "started", "closed"}]
    OBVIOUS
  <2> QED
    BY <2>1, <2>2, <2>3
<1>2. LockInv'
  BY DEF LockInv
<1>3. Idle'
  BY DEF Idle, HoldingRun
<1>4. HoldingRun'
  BY DEF HoldingRun, LockInv
<1>5. HoldingStop'
  BY DEF HoldingStop, LockInv
<1>6. ClosedInv'
  BY DEF ClosedInv, HoldingRun
<1>7. FreshInv'
  BY DEF FreshInv, Untouched, HoldingRun
<1>8. RunningCoreIsReachable'
  BY DEF RunningCoreIsReachable, HoldingRun
<1>9. StopNeverPanics'
  BY DEF StopNeverPanics
<1> QED
  BY <1>1, <1>2, <1>3, <1>4, <1>5, <1>6, <1>7, <1>8, <1>9

\* Start succeeds: the session is live when the lock is released.
LEMMA PointLoopStartStep ==
    ASSUME IInv, NEW c \in Callers, PointLoopStart(c) PROVE IInv'
<1> USE ThreadsDistinct, ConstantsAssumption
    DEF PointLoopStart, RunLoopReturn, Goto, Critical, IInv, PointTypes
<1>1. PointTypes'
  <2>1. pc' \in [Threads -> Labels]
    BY DEF Labels
  <2>2. call' \in [Callers -> 0..MaxCalls]
    OBVIOUS
  <2>3. core' \in [Sessions ->
                    {"none", "created", "failed", "started", "closed"}]
    OBVIOUS
  <2> QED
    BY <2>1, <2>2, <2>3
<1>2. LockInv'
  BY DEF LockInv
<1>3. Idle'
  BY DEF Idle, Live, HoldingRun
<1>4. HoldingRun'
  BY DEF HoldingRun, LockInv
<1>5. HoldingStop'
  BY DEF HoldingStop, Live
<1>6. ClosedInv'
  BY DEF ClosedInv, HoldingRun
<1>7. FreshInv'
  BY DEF FreshInv, Untouched, HoldingRun
<1>8. RunningCoreIsReachable'
  BY DEF RunningCoreIsReachable, HoldingRun
<1>9. StopNeverPanics'
  BY DEF StopNeverPanics
<1> QED
  BY <1>1, <1>2, <1>3, <1>4, <1>5, <1>6, <1>7, <1>8, <1>9

\* A call of StopLoop has no effect before it takes the lock.
LEMMA CallStopLoopStep ==
    ASSUME IInv, NEW c \in Callers, CallStopLoop(c) PROVE IInv'
<1> USE ThreadsDistinct, ConstantsAssumption
    DEF CallStopLoop, point, Goto, Critical, IInv, PointTypes
<1>1. PointTypes'
  BY DEF Labels
<1>2. LockInv'
  BY DEF LockInv
<1>3. Idle'
  BY DEF Idle, Live
<1>4. HoldingRun'
  BY DEF HoldingRun
<1>5. HoldingStop'
  BY DEF HoldingStop, Live
<1>6. ClosedInv'
  BY DEF ClosedInv
<1>7. FreshInv'
  BY DEF FreshInv, Untouched
<1>8. RunningCoreIsReachable'
  BY DEF RunningCoreIsReachable
<1>9. StopNeverPanics'
  BY DEF StopNeverPanics
<1> QED
  BY <1>1, <1>2, <1>3, <1>4, <1>5, <1>6, <1>7, <1>8, <1>9

\* A StopLoop that finds the point stopped leaves it as it is.
LEMMA StopLoopIdleStep ==
    ASSUME IInv, NEW t \in Threads, StopLoopIdle(t) PROVE IInv'
<1> USE ThreadsDistinct, ConstantsAssumption
    DEF StopLoopIdle, point, AfterStop, Goto, Critical, IInv, PointTypes
<1>1. PointTypes'
  BY DEF Labels
<1>2. LockInv'
  BY DEF LockInv
<1>3. Idle'
  BY DEF Idle
<1>4. HoldingRun'
  BY DEF HoldingRun
<1>5. HoldingStop'
  BY DEF HoldingStop, Live
<1>6. ClosedInv'
  BY DEF ClosedInv
<1>7. FreshInv'
  BY DEF FreshInv, Untouched
<1>8. RunningCoreIsReachable'
  BY DEF RunningCoreIsReachable
<1>9. StopNeverPanics'
  BY DEF StopNeverPanics
<1> QED
  BY <1>1, <1>2, <1>3, <1>4, <1>5, <1>6, <1>7, <1>8, <1>9

\* The lock was free and the point running: by Idle the session is live and its
\* closeChan open.
LEMMA StopLoopEnterStep ==
    ASSUME IInv, NEW t \in Threads, StopLoopEnter(t) PROVE IInv'
<1> USE ThreadsDistinct, ConstantsAssumption
    DEF StopLoopEnter, Goto, Critical, IInv, PointTypes
<1>1. PointTypes'
  BY DEF Labels
<1>2. LockInv'
  BY DEF LockInv
<1>3. Idle'
  BY DEF Idle
<1>4. HoldingRun'
  BY DEF HoldingRun
<1>5. HoldingStop'
  BY DEF HoldingStop, Live, Idle
<1>6. ClosedInv'
  BY DEF ClosedInv
<1>7. FreshInv'
  BY DEF FreshInv, Untouched
<1>8. RunningCoreIsReachable'
  BY DEF RunningCoreIsReachable
<1>9. StopNeverPanics'
  BY DEF StopNeverPanics
<1> QED
  BY <1>1, <1>2, <1>3, <1>4, <1>5, <1>6, <1>7, <1>8, <1>9

\* closeChan is neither nil nor closed, by HoldingStop.
LEMMA StopLoopCloseStep ==
    ASSUME IInv, NEW t \in Threads, StopLoopClose(t) PROVE IInv'
<1> USE ThreadsDistinct, ConstantsAssumption
    DEF StopLoopClose, Goto, Critical, IInv, PointTypes
<1>1. PointTypes'
  <2>1. pc' \in [Threads -> Labels]
    BY DEF Labels
  <2>2. closed' \in SUBSET Sessions
    BY DEF HoldingStop, Live
  <2> QED
    BY <2>1, <2>2
<1>2. LockInv'
  BY DEF LockInv
<1>3. Idle'
  BY DEF Idle, LockInv
<1>4. HoldingRun'
  BY DEF HoldingRun, LockInv
<1>5. HoldingStop'
  BY DEF HoldingStop, Live, LockInv
<1>6. ClosedInv'
  BY DEF ClosedInv
<1>7. FreshInv'
  BY DEF FreshInv, Untouched
<1>8. RunningCoreIsReachable'
  BY DEF RunningCoreIsReachable
<1>9. StopNeverPanics'
  BY DEF StopNeverPanics, HoldingStop, Live
<1> QED
  BY <1>1, <1>2, <1>3, <1>4, <1>5, <1>6, <1>7, <1>8, <1>9

\* Vpoint is the live core, by HoldingStop.
LEMMA StopLoopShutdownStep ==
    ASSUME IInv, NEW t \in Threads, StopLoopShutdown(t) PROVE IInv'
<1> USE ThreadsDistinct, ConstantsAssumption
    DEF StopLoopShutdown, Goto, Critical, IInv, PointTypes
<1>1. PointTypes'
  <2>1. pc' \in [Threads -> Labels]
    BY DEF Labels
  <2>2. core' \in [Sessions ->
                    {"none", "created", "failed", "started", "closed"}]
    OBVIOUS
  <2>3. 0 \in 0..MaxCalls
    BY ONLY ConstantsAssumption
  <2>4. Vpoint' = 0 /\ IsRunning' = FALSE
    BY ONLY StopLoopShutdown(t) DEF StopLoopShutdown
  <2> QED
    BY <2>1, <2>2, <2>3, <2>4
<1>2. LockInv'
  BY DEF LockInv
<1>3. Idle'
  BY DEF Idle, LockInv
<1>4. HoldingRun'
  BY DEF HoldingRun, LockInv
<1>5. HoldingStop'
  BY DEF HoldingStop, LockInv
<1>6. ClosedInv'
  BY DEF ClosedInv, HoldingStop, Live
<1>7. FreshInv'
  BY DEF FreshInv, Untouched, HoldingStop, Live
<1>8. RunningCoreIsReachable'
  BY DEF RunningCoreIsReachable
<1>9. StopNeverPanics'
  BY DEF StopNeverPanics, HoldingStop, Live
<1> QED
  BY <1>1, <1>2, <1>3, <1>4, <1>5, <1>6, <1>7, <1>8, <1>9

\* The status is told before the lock is released.
LEMMA StopLoopEmitStep ==
    ASSUME IInv, NEW t \in Threads, StopLoopEmit(t) PROVE IInv'
<1> USE ThreadsDistinct, ConstantsAssumption
    DEF StopLoopEmit, AfterStop, Goto, Critical, IInv, PointTypes
<1>1. PointTypes'
  BY DEF Labels
<1>2. LockInv'
  BY DEF LockInv
<1>3. Idle'
  BY DEF Idle, HoldingStop
<1>4. HoldingRun'
  BY DEF HoldingRun
<1>5. HoldingStop'
  BY DEF HoldingStop, Live
<1>6. ClosedInv'
  BY DEF ClosedInv
<1>7. FreshInv'
  BY DEF FreshInv, Untouched
<1>8. RunningCoreIsReachable'
  BY DEF RunningCoreIsReachable
<1>9. StopNeverPanics'
  BY DEF StopNeverPanics
<1> QED
  BY <1>1, <1>2, <1>3, <1>4, <1>5, <1>6, <1>7, <1>8, <1>9

-----------------------------------------------------------------------------
\* A step of a watcher outside StopLoop, which holds no lock and writes no
\* field of the point, preserves the invariant.
LEMMA WatcherGoto ==
    ASSUME IInv, NEW s \in Sessions, NEW l \in Labels \ Critical,
           pc[s] \notin Critical, Goto(s, l), UNCHANGED <<point, panic>>
    PROVE  IInv'
<1> USE ThreadsDistinct, ConstantsAssumption
    DEF point, Goto, Critical, IInv, PointTypes
<1>1. PointTypes'
  OBVIOUS
<1>2. LockInv' /\ Idle'
  BY DEF LockInv, Idle, Live
<1>3. HoldingRun' /\ HoldingStop'
  BY DEF HoldingRun, HoldingStop, Live
<1>4. ClosedInv'
  BY DEF ClosedInv
<1>5. FreshInv'
  BY DEF FreshInv, Untouched
<1>6. RunningCoreIsReachable' /\ StopNeverPanics'
  BY DEF RunningCoreIsReachable, StopNeverPanics
<1> QED
  BY <1>1, <1>2, <1>3, <1>4, <1>5, <1>6

\* The watcher's own steps.
LEMMA WatcherStep ==
    ASSUME IInv, NEW s \in Sessions, Watcher(s) PROVE IInv'
<1>1. CASE WatcherReadResolve(s)
  BY <1>1, WatcherGoto DEF WatcherReadResolve, Labels, Critical
<1>2. CASE WatcherReadClose(s)
  BY <1>2, WatcherGoto DEF WatcherReadClose, Labels, Critical
<1>3. CASE WatcherResolved(s)
  BY <1>3, WatcherGoto DEF WatcherResolved, Labels, Critical
<1>4. CASE WatcherClosed(s)
  BY <1>4, WatcherGoto DEF WatcherClosed, Labels, Critical
<1>5. CASE WatcherDecide(s)
  BY <1>5, WatcherGoto DEF WatcherDecide, Labels, Critical
<1>6. CASE WatcherShutdown(s)
  BY <1>6, WatcherGoto DEF WatcherShutdown, Labels, Critical
<1> QED
  BY <1>1, <1>2, <1>3, <1>4, <1>5, <1>6 DEF Watcher

\* A step that writes no field of the point and moves neither callers nor
\* watchers preserves the invariant, whatever it does to the dialer.
LEMMA DialerOnly ==
    ASSUME IInv, UNCHANGED <<point, pc>>, StopNeverPanics' PROVE IInv'
BY DEF IInv, point, PointTypes, LockInv, Idle, Live, HoldingRun, HoldingStop,
       ClosedInv, FreshInv, Untouched, RunningCoreIsReachable

\* PrepareDomain and the close of resolveChan.
LEMMA ResolverStep ==
    ASSUME IInv, NEW s \in Sessions, Resolver(s) PROVE IInv'
<1>1. UNCHANGED <<point, pc>>
  BY DEF Resolver, PrepareDomainBegin, PrepareDomainGiveUp, PrepareDomainFound,
         PrepareDomainFails, PrepareDomainRetry, PrepareDomainClosed,
         CloseResolveChan
<1>2. StopNeverPanics'
  BY DEF Resolver, PrepareDomainBegin, PrepareDomainGiveUp, PrepareDomainFound,
         PrepareDomainFails, PrepareDomainRetry, PrepareDomainClosed,
         CloseResolveChan, IInv, StopNeverPanics
<1> QED
  BY <1>1, <1>2, DialerOnly

\* ProtectedDialer.Dial.
LEMMA DialStep ==
    ASSUME IInv, NEW d \in Dialers, Dial(d) PROVE IInv'
<1>1. UNCHANGED <<point, pc>>
  BY DEF Dial, DialDomestic, DialServer, DialTest, DialPend, DialWake,
         DialNoSocket, DialReadIP, DialReadPort, DialConnect
<1>2. StopNeverPanics'
  BY DEF Dial, DialDomestic, DialServer, DialTest, DialPend, DialWake,
         DialNoSocket, DialReadIP, DialReadPort, DialConnect, IInv, StopNeverPanics
<1> QED
  BY <1>1, <1>2, DialerOnly

\* Every step preserves the invariant.
LEMMA NextIInv == IInv /\ [Next]_vars => IInv'
<1> SUFFICES ASSUME IInv, [Next]_vars PROVE IInv'
  OBVIOUS
<1>1. ASSUME NEW c \in Callers, RunLoop(c) PROVE IInv'
  BY <1>1, CallRunLoopStep, RunLoopBusyStep, RunLoopEnterStep,
     RunLoopPreparedStep, PointLoopLoadFailsStep, PointLoopNewFailsStep,
     PointLoopNewStep, PointLoopStartFailsStep, PointLoopStartStep
  DEF RunLoop
<1>2. ASSUME NEW c \in Callers, CallStopLoop(c) PROVE IInv'
  BY <1>2, CallStopLoopStep
<1>3. ASSUME NEW t \in Threads, StopLoop(t) PROVE IInv'
  BY <1>3, StopLoopIdleStep, StopLoopEnterStep, StopLoopCloseStep,
     StopLoopShutdownStep, StopLoopEmitStep
  DEF StopLoop
<1>4. ASSUME NEW s \in Sessions, Watcher(s) \/ Resolver(s) PROVE IInv'
  BY <1>4, WatcherStep, ResolverStep
<1>5. ASSUME NEW d \in Dialers, Dial(d) PROVE IInv'
  BY <1>5, DialStep
<1>6. CASE UNCHANGED vars
  BY <1>6, DialerOnly DEF vars, IInv, StopNeverPanics
<1> QED
  BY <1>1, <1>2, <1>3, <1>4, <1>5, <1>6 DEF Next

-----------------------------------------------------------------------------
\* IInv holds in every reachable state of the point.
THEOREM Invariant == Spec => []IInv
BY InitIInv, NextIInv, PTL DEF Spec

\* StopLoop (main.go:113-122) never closes a closeChan that is nil or closed
\* and never closes a nil core, however many callers and watchers race.
THEOREM StopIsSafe == Spec => []StopNeverPanics
<1>1. IInv => StopNeverPanics
  BY DEF IInv
<1> QED
  BY <1>1, Invariant, PTL

\* There is at most one running core, and StopLoop can always reach it
\* (main.go:76-78, 268-297).
THEOREM OneReachableCore == Spec => []RunningCoreIsReachable
<1>1. IInv => RunningCoreIsReachable
  BY DEF IInv
<1> QED
  BY <1>1, Invariant, PTL

\* Between operations the status the application was told last is the truth
\* (main.go:119, 295).
THEOREM StatusAlwaysTruthful == Spec => []StatusIsTruthful
<1>1. IInv => StatusIsTruthful
  BY DEF IInv, Idle, StatusIsTruthful
<1> QED
  BY <1>1, Invariant, PTL

\* Between operations a closeChan is closed if and only if its core was shut
\* down (main.go:113-122, 261-266).
THEOREM ClosedExactlyWhenShutDown == Spec => []ClosedIffShutDown
<1>1. IInv => ClosedIffShutDown
  BY ThreadsDistinct
  DEF IInv, ClosedInv, LockInv, ClosedIffShutDown, Critical
<1> QED
  BY <1>1, Invariant, PTL

-----------------------------------------------------------------------------
(* The refinement of Session.  Outside the critical sections of RunLoop and *)
(* StopLoop a step leaves the abstract state as it is; inside, IInv tells   *)
(* what the fields hold, hence which abstract step it is.                   *)

\* A step that leaves the point alone, and moves only threads that are not in
\* RunLoop's critical section and do not enter it, is invisible.
LEMMA SessionStutter ==
    ASSUME IInv, UNCHANGED <<op, closed, core, IsRunning, status>>,
           \A t \in Threads :
              pc[t] \in {"prepare", "load", "start"}
                <=> pc'[t] \in {"prepare", "load", "start"}
    PROVE  UNCHANGED S!vars
<1>1. Phase' = Phase
  <2>1. CASE op = Free
    BY <2>1 DEF Phase
  <2>2. CASE op # Free
    <3>1. op \in Threads
      BY <2>2 DEF IInv, PointTypes
    <3> QED
      BY <2>2, <3>1 DEF Phase
  <2> QED
    BY <2>1, <2>2
<1> QED
  BY <1>1 DEF S!vars

\* No core runs while v2rayOP is held to start one, nor after a shutdown.
LEMMA NoneRuns ==
    ASSUME IInv, ~IsRunning PROVE \A s \in Sessions : core[s] # "started"
BY DEF IInv, RunningCoreIsReachable

\* RunLoop's steps.
LEMMA RunLoopSession ==
    ASSUME IInv, NEW c \in Callers, RunLoop(c) PROVE [S!Next]_(S!vars)
<1> USE ThreadsDistinct, ConstantsAssumption DEF IInv, PointTypes
<1>1. CASE CallRunLoop(c) \/ RunLoopBusy(c) \/ RunLoopPrepared(c)
  BY <1>1, SessionStutter
  DEF CallRunLoop, RunLoopBusy, RunLoopPrepared, RunLoopReturn, Goto, point
<1>2. CASE RunLoopEnter(c)
  <2>1. Phase = "off" /\ Phase' = "starting"
    BY <1>2 DEF RunLoopEnter, Phase
  <2>2. UNCHANGED <<core, closed, status>>
    BY <1>2 DEF RunLoopEnter
  <2> QED
    BY <2>1, <2>2 DEF S!Next, S!Begin, S!Move
<1>3. CASE PointLoopLoadFails(c) \/ PointLoopNewFails(c)
  <2>1. op = c /\ ~IsRunning /\ op' = Free /\ pc[c] = "load"
        /\ UNCHANGED <<core, closed, status, IsRunning>>
    BY <1>3 DEF PointLoopLoadFails, PointLoopNewFails, LockInv, HoldingRun,
                Critical
  <2>2. Phase = "starting" /\ Phase' = "off"
    BY <2>1 DEF Phase
  <2> QED
    BY <2>1, <2>2 DEF S!Next, S!Abort, S!Move
<1>4. CASE PointLoopNew(c)
  <2>1. op = c /\ op' = c /\ pc[c] = "load" /\ pc'[c] = "start"
        /\ UNCHANGED <<closed, status>>
    BY <1>4 DEF PointLoopNew, LockInv, Critical, Goto
  <2>2. Phase' = Phase
    BY <2>1 DEF Phase
  <2>3. \A s \in Sessions : core'[s] = "started" <=> core[s] = "started"
    BY <1>4 DEF PointLoopNew, HoldingRun
  <2> QED
    BY <2>1, <2>2, <2>3 DEF S!vars
<1>5. CASE PointLoopStartFails(c)
  <2>1. op = c /\ op' = Free /\ ~IsRunning' /\ pc[c] = "start"
        /\ UNCHANGED <<closed, status>>
    BY <1>5 DEF PointLoopStartFails, LockInv, Critical
  <2>2. Phase = "starting" /\ Phase' = "off"
    BY <2>1 DEF Phase
  <2>3. \A s \in Sessions : core'[s] = "started" <=> core[s] = "started"
    BY <1>5 DEF PointLoopStartFails, HoldingRun
  <2> QED
    BY <2>1, <2>2, <2>3 DEF S!Next, S!Abort, S!Move
<1>6. CASE PointLoopStart(c)
  <2>1. op = c /\ op' = Free /\ IsRunning /\ IsRunning' /\ pc[c] = "start"
        /\ status' = "Running" /\ UNCHANGED closed
    BY <1>6 DEF PointLoopStart, LockInv, HoldingRun, Critical
  <2>2. Phase = "starting" /\ Phase' = "on"
    BY <2>1 DEF Phase
  <2>3. call[c] \in Sessions /\ call[c] \notin closed
        /\ Vpoint = call[c] /\ core[call[c]] = "created"
    BY <1>6, <2>1 DEF HoldingRun
  <2>4. {s \in Sessions : core[s] = "started"} = {}
    BY <2>3 DEF RunningCoreIsReachable
  <2>5. core' = [core EXCEPT ![call[c]] = "started"]
    BY <1>6 DEF PointLoopStart
  <2>6. {s \in Sessions : core'[s] = "started"} = {call[c]}
    BY <2>3, <2>4, <2>5
  <2>7. \E s \in Sessions : S!Up(s)
    BY <2>1, <2>2, <2>3, <2>4, <2>6 DEF S!Up, S!Move
  <2> QED
    BY <2>7 DEF S!Next
<1> QED
  BY <1>1, <1>2, <1>3, <1>4, <1>5, <1>6 DEF RunLoop

\* StopLoop's steps.
LEMMA StopLoopSession ==
    ASSUME IInv, NEW t \in Threads, StopLoop(t) PROVE [S!Next]_(S!vars)
<1> USE ThreadsDistinct, ConstantsAssumption DEF IInv, PointTypes
<1>1. CASE StopLoopIdle(t)
  BY <1>1, SessionStutter DEF StopLoopIdle, AfterStop, Goto, point
<1>2. CASE StopLoopEnter(t)
  <2>1. Phase = "on" /\ Phase' = "stopping"
    BY <1>2 DEF StopLoopEnter, Phase, Goto
  <2>2. UNCHANGED <<core, closed, status>>
    BY <1>2 DEF StopLoopEnter
  <2> QED
    BY <2>1, <2>2 DEF S!Next, S!Stop, S!Move
<1>3. CASE StopLoopClose(t)
  <2>1. op = t /\ op' = t /\ pc[t] = "close" /\ pc'[t] = "shutdown"
        /\ UNCHANGED <<core, status>>
    BY <1>3 DEF StopLoopClose, LockInv, Critical, Goto
  <2>2. Phase = "stopping" /\ Phase' = "stopping"
    BY <2>1 DEF Phase
  <2>3. session \in Sessions /\ session \notin closed
        /\ closed' = closed \cup {session}
    BY <1>3, <2>1 DEF StopLoopClose, HoldingStop, Live
  <2>4. {s \in Sessions : core[s] = "started"} = {session}
    BY <2>1, <2>3 DEF HoldingStop, Live, RunningCoreIsReachable
  <2> QED
    BY <2>1, <2>2, <2>3, <2>4 DEF S!Next, S!Cancel
<1>4. CASE StopLoopShutdown(t)
  <2>1. op = t /\ op' = t /\ pc[t] = "shutdown" /\ pc'[t] = "emit"
        /\ UNCHANGED <<closed, status>>
    BY <1>4 DEF StopLoopShutdown, LockInv, Critical, Goto
  <2>2. Phase = "stopping" /\ Phase' = "stopping"
    BY <2>1 DEF Phase
  <2>3. session \in Sessions /\ session \in closed /\ Vpoint = session
        /\ core[session] = "started"
    BY <2>1 DEF HoldingStop, Live
  <2>4. {s \in Sessions : core[s] = "started"} = {session}
    BY <2>3 DEF RunningCoreIsReachable
  <2>5. core' = [core EXCEPT ![session] = "closed"]
    BY <1>4, <2>3 DEF StopLoopShutdown
  <2>6. {s \in Sessions : core'[s] = "started"} = {}
    BY <2>4, <2>5
  <2> QED
    BY <2>1, <2>2, <2>3, <2>4, <2>6 DEF S!Next, S!Kill
<1>5. CASE StopLoopEmit(t)
  <2>1. op = t /\ op' = Free /\ pc[t] = "emit" /\ ~IsRunning /\ ~IsRunning'
        /\ status' = "Closed" /\ UNCHANGED <<core, closed>>
    BY <1>5 DEF StopLoopEmit, LockInv, HoldingStop, Critical
  <2>2. Phase = "stopping" /\ Phase' = "off"
    BY <2>1 DEF Phase
  <2>3. {s \in Sessions : core[s] = "started"} = {}
    BY <2>1, NoneRuns
  <2> QED
    BY <2>1, <2>2, <2>3 DEF S!Next, S!Down, S!Move
<1> QED
  BY <1>1, <1>2, <1>3, <1>4, <1>5 DEF StopLoop

\* What is outside the critical sections changes nothing a Session shows.
LEMMA OtherSession ==
    ASSUME IInv, \/ \E c \in Callers : CallStopLoop(c)
                 \/ \E s \in Sessions : Watcher(s) \/ Resolver(s)
                 \/ \E d \in Dialers : Dial(d)
                 \/ UNCHANGED vars
    PROVE  UNCHANGED S!vars
<1> USE ThreadsDistinct DEF IInv, PointTypes
<1>1. ASSUME NEW c \in Callers, CallStopLoop(c) PROVE UNCHANGED S!vars
  BY <1>1, SessionStutter DEF CallStopLoop, Goto, point
<1>2. ASSUME NEW s \in Sessions, Watcher(s) PROVE UNCHANGED S!vars
  <2>1. UNCHANGED point
    BY <1>2 DEF Watcher, WatcherReadResolve, WatcherReadClose,
                WatcherResolved, WatcherClosed, WatcherDecide, WatcherShutdown
  <2>2. PICK l \in {"watch2", "select", "ready?", "closed", "stop", "passed",
                    "notified"} : Goto(s, l)
    BY <1>2 DEF Watcher, WatcherReadResolve, WatcherReadClose,
                WatcherResolved, WatcherClosed, WatcherDecide, WatcherShutdown
  <2>3. pc[s] \in {"watch", "watch2", "select", "ready?", "notify"}
    BY <1>2 DEF Watcher, WatcherReadResolve, WatcherReadClose,
                WatcherResolved, WatcherClosed, WatcherDecide, WatcherShutdown
  <2> QED
    BY <2>1, <2>2, <2>3, SessionStutter DEF Goto, point
<1>3. ASSUME NEW s \in Sessions, Resolver(s) PROVE UNCHANGED S!vars
  <2>1. UNCHANGED <<point, pc>>
    BY <1>3 DEF Resolver, PrepareDomainBegin, PrepareDomainGiveUp,
                PrepareDomainFound, PrepareDomainFails, PrepareDomainRetry,
                PrepareDomainClosed, CloseResolveChan
  <2> QED
    BY <2>1, SessionStutter DEF point
<1>4. ASSUME NEW d \in Dialers, Dial(d) PROVE UNCHANGED S!vars
  <2>1. UNCHANGED <<point, pc>>
    BY <1>4 DEF Dial, DialDomestic, DialServer, DialTest, DialPend, DialWake,
                DialNoSocket, DialReadIP, DialReadPort, DialConnect
  <2> QED
    BY <2>1, SessionStutter DEF point
<1>5. CASE UNCHANGED vars
  BY <1>5, SessionStutter DEF vars, point
<1> QED
  BY <1>1, <1>2, <1>3, <1>4, <1>5

\* RunLoop and StopLoop (main.go:70-122, 261-297) implement Session, for any
\* number of callers, calls, watchers and dialers and in both resolve modes.
THEOREM RefinesSession == Spec => ImplementsSession
<1>1. Init => S!Init
  BY ThreadsDistinct DEF Init, S!Init, Phase
<1>2. IInv /\ [Next]_vars => [S!Next]_(S!vars)
  BY RunLoopSession, StopLoopSession, OtherSession DEF Next
<1> QED
  BY <1>1, <1>2, Invariant, PTL DEF Spec, S!Spec, ImplementsSession

=============================================================================
