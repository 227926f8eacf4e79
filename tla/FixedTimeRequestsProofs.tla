------------------------ MODULE FixedTimeRequestsProofs ------------------------
(***************************************************************************)
(* The worker with a target and a time: what WorkerBaseProofs shows of     *)
(* every worker carries over.  Of its own loop: it returns with its share  *)
(* done or cancelled, keeps its pace up to the deadline, and once past its *)
(* target it goes on until it is cancelled.                                *)
(***************************************************************************)
EXTENDS FixedTimeRequests, WorkerBaseProofs

\* A request for each tick that was taken, and the tick in the channel, have
\* had a period each.
Ticks(w) == sent[w] + IF tick[w] THEN 1 ELSE 0

InPace == \A w \in Workers : ~DeadlinePassed(w) => Ticks(w) * ReqEvery <= elapsed[w]

\* The loop is left for good with the share done, or cancelled.
ShareDone ==
  \A w \in Workers :
    /\ pc[w] = "wait" => Accounted(w) >= Target[w]
    /\ pc[w] = "exit" => ctxDone \/ Accounted(w) >= Target[w]

SpreadInv == BaseInv /\ ClockTypeOK /\ InPace /\ ShareDone

-------------------------------------------------------------------------------
(* Arithmetic. *)

LEMMA TimesMonotone ==
  ASSUME NEW a \in Nat, NEW b \in Nat, NEW k \in Nat, a <= b
  PROVE  a * k <= b * k
<1>1. PICK d \in Nat : b = a + d
  <2>1. b - a \in Nat /\ b = a + (b - a)
    OBVIOUS
  <2> QED
    BY <2>1
<1>2. b * k = a * k + d * k
  BY <1>1
<1>3. d * k >= 0
  OBVIOUS
<1>4. a * k \in Int /\ d * k \in Int
  OBVIOUS
<1> QED
  BY <1>2, <1>3, <1>4

\* When a period ends, what had room in the periods before leaves room for one
\* more.
LEMMA NextMultiple ==
  ASSUME NEW k \in Nat \ {0}, NEW n \in Nat, NEW t \in Nat,
         n * k <= t, (t + 1) % k = 0
  PROVE  (n + 1) * k <= t + 1
<1>1. PICK q \in Nat : t + 1 = q * k
  <2> DEFINE q == (t + 1) \div k
  <2>1. q \in Nat
    BY SMT
  <2>2. t + 1 = (q * k) + ((t + 1) % k)
    BY SMT
  <2>3. t + 1 = q * k
    BY <2>1, <2>2
  <2> HIDE DEF q
  <2> QED
    BY <2>1, <2>3
<1>2. n < q
  <2>1. SUFFICES ASSUME q <= n PROVE FALSE
    BY <1>1
  <2>2. q * k <= n * k
    BY <2>1, TimesMonotone
  <2>3. n * k \in Int
    OBVIOUS
  <2> QED
    BY <1>1, <2>2, <2>3
<1>3. (n + 1) * k <= q * k
  BY <1>2, TimesMonotone
<1> QED
  BY <1>1, <1>3

-------------------------------------------------------------------------------
(* Every step is a step of a worker, or only passes the time. *)

LEMMA NextIsBaseNext == [Next]_vars => [BaseNext]_baseVars
<1> SUFFICES ASSUME Next PROVE BaseNext \/ UNCHANGED baseVars
  BY DEF vars
<1>1. ASSUME NEW w \in Workers, Advance(w) PROVE UNCHANGED baseVars
  BY <1>1 DEF Advance
<1>2. ASSUME NEW w \in Workers, WorkerStep(w) PROVE LoopMove(w)
  BY <1>2 DEF WorkerStep, LoopMove, Cancelled, CatchUp, Finished, Tick
<1> QED
  BY <1>1, <1>2 DEF Next, BaseNext

LEMMA SpreadInit == Init => SpreadInv
<1> SUFFICES ASSUME Init PROVE SpreadInv
  OBVIOUS
<1>1. BaseInv
  BY BaseInvInit DEF Init
<1>2. ClockTypeOK
  BY FixedTimeRequestsAssumption, SMT DEF Init, ClockTypeOK
<1>3. InPace
  BY FixedTimeRequestsAssumption, SMT DEF Init, BaseInit, InPace, Ticks
<1>4. ShareDone
  BY DEF Init, BaseInit, ShareDone
<1> QED
  BY <1>1, <1>2, <1>3, <1>4 DEF SpreadInv

LEMMA ClockTypes ==
  ASSUME SpreadInv, [Next]_vars
  PROVE  ClockTypeOK'
<1> USE DEF SpreadInv, ClockTypeOK
<1>1. ASSUME NEW w \in Workers, Advance(w) PROVE ClockTypeOK'
  BY <1>1, FixedTimeRequestsAssumption, SMT DEF Advance, Due
<1>2. ASSUME NEW w \in Workers, Tick(w) PROVE ClockTypeOK'
  BY <1>2 DEF Tick
<1>3. ASSUME UNCHANGED clockVars PROVE ClockTypeOK'
  BY <1>3 DEF clockVars
<1> QED
  BY <1>1, <1>2, <1>3 DEF Next, WorkerStep, Cancelled, CatchUp, Finished, vars

\* No step but a tick starts a request before the deadline, and only time
\* brings a tick.
LEMMA PaceStep ==
  ASSUME SpreadInv, [Next]_vars
  PROVE  InPace'
<1> SUFFICES ASSUME NEW v \in Workers, ~DeadlinePassed(v)'
             PROVE  Ticks(v)' * ReqEvery <= elapsed'[v]
  BY DEF InPace
<1> USE DEF SpreadInv, ClockTypeOK
<1>0. /\ sent[v] \in Nat /\ elapsed[v] \in Nat /\ Ticks(v) \in Nat
      /\ ReqEvery \in Nat \ {0} /\ Until \in Nat
  BY FixedTimeRequestsAssumption, WorkerBaseAssumption, SMT
  DEF BaseInv, Shape, TypeOK, Ticks
<1>1. CASE UNCHANGED <<sent[v], elapsed[v], tick[v]>>
  BY <1>1 DEF InPace, Ticks, DeadlinePassed
<1>2. CASE Advance(v)
  <2>1. /\ elapsed'[v] = elapsed[v] + 1 /\ sent'[v] = sent[v]
        /\ tick'[v] = (tick[v] \/ Due(elapsed[v] + 1))
    BY <1>2, SMT DEF Advance, baseVars
  <2>2. Ticks(v) * ReqEvery <= elapsed[v]
    <3>1. ~DeadlinePassed(v)
      BY <1>0, <2>1 DEF DeadlinePassed
    <3> QED
      BY <3>1 DEF InPace
  <2>3. CASE tick'[v] = tick[v]
    <3>1. Ticks(v)' = Ticks(v)
      BY <2>1, <2>3 DEF Ticks
    <3>2. Ticks(v) * ReqEvery \in Int
      BY <1>0
    <3> QED
      BY <1>0, <2>1, <2>2, <3>1, <3>2
  <2>4. CASE tick'[v] # tick[v]
    <3>0. ~tick[v] /\ tick'[v] /\ Due(elapsed[v] + 1)
      <4>1. tick[v] \in BOOLEAN
        OBVIOUS
      <4>2. tick[v] => tick'[v] = tick[v]
        BY <2>1, <4>1, Zenon
      <4>3. ~tick[v] /\ ~Due(elapsed[v] + 1) => tick'[v] = tick[v]
        BY <2>1, <4>1, Zenon
      <4>4. Due(elapsed[v] + 1) => tick'[v]
        BY <2>1, Zenon
      <4> QED
        BY <2>4, <4>2, <4>3, <4>4, Zenon
    <3>1. Ticks(v)' = Ticks(v) + 1
      BY <1>0, <2>1, <3>0 DEF Ticks
    <3>2. (elapsed[v] + 1) % ReqEvery = 0
      BY <3>0 DEF Due
    <3>3. (Ticks(v) + 1) * ReqEvery <= elapsed[v] + 1
      BY <1>0, <2>2, <3>2, NextMultiple
    <3> QED
      BY <2>1, <3>1, <3>3
  <2> QED
    BY <2>3, <2>4
<1>3. CASE Tick(v)
  <2>1. sent'[v] = sent[v] + 1 /\ elapsed' = elapsed /\ tick[v] /\ ~tick'[v]
    BY <1>3, RunMoves, SMT DEF Tick, BaseInv
  <2>2. Ticks(v)' = Ticks(v)
    BY <1>0, <2>1 DEF Ticks
  <2> QED
    BY <2>1, <2>2 DEF InPace, DeadlinePassed
<1>4. CASE CatchUp(v)
  <2>1. elapsed' = elapsed /\ DeadlinePassed(v)
    BY <1>4 DEF CatchUp, clockVars
  <2> QED
    BY <2>1 DEF DeadlinePassed
<1>5. ASSUME NEW w \in Workers, w # v, Advance(w) \/ Tick(w) \/ CatchUp(w)
      PROVE  UNCHANGED <<sent[v], elapsed[v], tick[v]>>
  <2>1. sent'[v] = sent[v]
    BY <1>5, RunMoves DEF Advance, Tick, CatchUp, baseVars, BaseInv
  <2>2. elapsed'[v] = elapsed[v] /\ tick'[v] = tick[v]
    BY <1>5, SMT DEF Advance, Tick, CatchUp, clockVars
  <2> QED
    BY <2>1, <2>2
<1>6. ASSUME NEW w \in Workers,
             Begin(w) \/ Join(w) \/ Cancelled(w) \/ Finished(w), UNCHANGED clockVars
      PROVE  UNCHANGED <<sent[v], elapsed[v], tick[v]>>
  BY <1>6, OtherMoves DEF Cancelled, Finished, clockVars, BaseInv
<1>7. ASSUME NEW w \in Workers, NEW i \in Reqs, RequestStep(w, i), UNCHANGED clockVars
      PROVE  UNCHANGED <<sent[v], elapsed[v], tick[v]>>
  BY <1>7, StepIsLive DEF clockVars
<1>8. ASSUME StartWorkers \/ Cancel \/ RecvSample \/ UNCHANGED baseVars, UNCHANGED clockVars
      PROVE  UNCHANGED <<sent[v], elapsed[v], tick[v]>>
  BY <1>8 DEF StartWorkers, Cancel, RecvSample, baseVars, clockVars
<1>9. CASE UNCHANGED vars
  BY <1>1, <1>8, <1>9 DEF vars
<1>10. ASSUME NEW w \in Workers, Advance(w) \/ WorkerStep(w)
       PROVE  Ticks(v)' * ReqEvery <= elapsed'[v]
  <2>1. CASE w = v /\ (Advance(v) \/ Tick(v) \/ CatchUp(v))
    BY <2>1, <1>2, <1>3, <1>4
  <2>2. CASE w # v /\ (Advance(w) \/ Tick(w) \/ CatchUp(w))
    BY <2>2, <1>1, <1>5
  <2>3. CASE (Begin(w) \/ Join(w) \/ Cancelled(w) \/ Finished(w)) /\ UNCHANGED clockVars
    BY <2>3, <1>1, <1>6
  <2> QED
    BY <1>10, <2>1, <2>2, <2>3 DEF WorkerStep, Cancelled, Finished
<1> QED
  BY <1>1, <1>7, <1>8, <1>9, <1>10 DEF Next

LEMMA ShareStep ==
  ASSUME SpreadInv, [Next]_vars
  PROVE  ShareDone'
<1> SUFFICES ASSUME NEW v \in Workers
             PROVE  /\ pc'[v] = "wait" => (Accounted(v) >= Target[v])'
                    /\ pc'[v] = "exit" => ctxDone' \/ (Accounted(v) >= Target[v])'
  BY DEF ShareDone
<1> USE DEF SpreadInv
<1>0. /\ Accounted(v) \in Nat /\ Accounted(v)' \in Nat /\ Target[v] \in Nat
      /\ Accounted(v) <= Accounted(v)'
  <2>1. Target[v] \in Nat
    BY FixedTimeRequestsAssumption, WorkerBaseAssumption, SMT
  <2> QED
    BY <2>1, NextIsBaseNext, AccountsGrow DEF BaseInv, Accounted
<1>1. CASE pc'[v] = pc[v] /\ (ctxDone => ctxDone')
  BY <1>0, <1>1 DEF ShareDone
<1>2. CASE Finished(v)
  BY <1>0, <1>2 DEF Finished, OnTarget
<1>3. CASE Cancelled(v)
  BY <1>3, OtherMoves, SMT DEF Cancelled, Quit, BaseInv, Shape, TypeOK
<1>4. CASE Begin(v)
  BY <1>4, SMT DEF Begin, BaseInv, Shape, TypeOK
<1>5. CASE Join(v)
  BY <1>0, <1>5, SMT DEF Join, BaseInv, Shape, TypeOK, ShareDone
<1>6. ASSUME NEW w \in Workers, w # v,
             Begin(w) \/ Join(w) \/ Cancelled(w) \/ Finished(w)
      PROVE  pc'[v] = pc[v] /\ ctxDone' = ctxDone
  BY <1>6, OtherMoves DEF Cancelled, Finished, BaseInv
<1>7. ASSUME NEW w \in Workers, Advance(w) \/ Tick(w) \/ CatchUp(w)
      PROVE  pc'[v] = pc[v] /\ ctxDone' = ctxDone
  BY <1>7, RunMoves DEF Advance, Tick, CatchUp, baseVars, loopVars, BaseInv
<1>8. ASSUME NEW w \in Workers, NEW i \in Reqs, RequestStep(w, i)
      PROVE  pc'[v] = pc[v] /\ ctxDone' = ctxDone
  BY <1>8, StepIsLive
<1>9. ASSUME StartWorkers \/ Cancel \/ RecvSample \/ UNCHANGED vars
      PROVE  pc'[v] = pc[v] /\ (ctxDone => ctxDone')
  BY <1>9 DEF StartWorkers, Cancel, RecvSample, vars, baseVars, loopVars
<1> QED
  BY <1>1, <1>2, <1>3, <1>4, <1>5, <1>6, <1>7, <1>8, <1>9 DEF Next, WorkerStep

LEMMA SpreadInductive ==
  ASSUME SpreadInv, [Next]_vars
  PROVE  SpreadInv'
<1>1. BaseInv'
  BY NextIsBaseNext, BaseInductive DEF SpreadInv
<1> QED
  BY <1>1, ClockTypes, PaceStep, ShareStep DEF SpreadInv

LEMMA SpreadInvariant == Spec => []SpreadInv
  BY SpreadInit, SpreadInductive, PTL DEF Spec

-------------------------------------------------------------------------------
(* The theorems. *)

\* Types: the capacity of reqStats and the timers' variables included.
THEOREM FixedTimeRequestsTypeCorrect == Spec => [](TypeOK /\ ClockTypeOK)
<1>1. SpreadInv => TypeOK /\ ClockTypeOK
  BY DEF SpreadInv, BaseInv, Shape
<1> QED
  BY <1>1, SpreadInvariant, PTL

\* No statistics update is lost, nor a latency sample.
THEOREM FixedTimeRequestsCountsExactly == Spec => [](NoLostUpdate /\ SampleConservation)
<1>1. SpreadInv => NoLostUpdate /\ SampleConservation
  BY DEF SpreadInv, BaseInv
<1> QED
  BY <1>1, SpreadInvariant, PTL

\* A worker that returns without being cancelled has its share done, all of it
\* counted, and nothing running: the catching up after the deadline works.
THEOREM FixedTimeRequestsNeverShort == Spec => []NeverShort
<1>1. SpreadInv => NeverShort
  BY DEF SpreadInv, BaseInv, Quiet, QuietOutsideLoop, ShareDone, NeverShort
<1> QED
  BY <1>1, SpreadInvariant, PTL

\* Up to its deadline a worker has no more requests behind it than periods have
\* passed, whichever ticks its one-place channel dropped.
THEOREM FixedTimeRequestsPace == Spec => []Pace
<1>1. ASSUME SpreadInv, NEW w \in Workers, ~DeadlinePassed(w)
      PROVE  sent[w] * ReqEvery <= elapsed[w]
  <2>1. sent[w] \in Nat /\ Ticks(w) \in Nat /\ elapsed[w] \in Nat /\ ReqEvery \in Nat
    BY <1>1, FixedTimeRequestsAssumption, WorkerBaseAssumption, SMT
    DEF SpreadInv, BaseInv, Shape, TypeOK, ClockTypeOK, Ticks
  <2>2. sent[w] <= Ticks(w)
    BY <2>1 DEF Ticks
  <2>3. sent[w] * ReqEvery <= Ticks(w) * ReqEvery
    BY <2>1, <2>2, TimesMonotone
  <2>4. Ticks(w) * ReqEvery <= elapsed[w]
    BY <1>1 DEF SpreadInv, InPace
  <2>5. sent[w] * ReqEvery \in Int /\ Ticks(w) * ReqEvery \in Int
    BY <2>1
  <2> QED
    BY <2>1, <2>3, <2>4, <2>5
<1>2. SpreadInv => Pace
  BY <1>1 DEF Pace
<1> QED
  BY <1>2, SpreadInvariant, PTL

\* A loop past its target is not left, since its exit test is an equality with
\* counters that only grow, until the user cancels.
LEMMA PastTargetStays ==
  ASSUME SpreadInv, [Next]_vars, NEW v \in Workers,
         ctxDone \/ (pc[v] = "loop" /\ PastTarget(v))
  PROVE  ctxDone' \/ (pc'[v] = "loop" /\ PastTarget(v)')
<1> USE DEF SpreadInv
<1>0. /\ Accounted(v) \in Nat /\ Accounted(v)' \in Nat /\ Target[v] \in Nat
      /\ Accounted(v) <= Accounted(v)'
  <2>1. Target[v] \in Nat
    BY FixedTimeRequestsAssumption, WorkerBaseAssumption, SMT
  <2> QED
    BY <2>1, NextIsBaseNext, AccountsGrow DEF BaseInv, Accounted
<1>1. PastTarget(v) => PastTarget(v)' /\ ~OnTarget(v)
  BY <1>0 DEF PastTarget, OnTarget
<1>2. ASSUME NEW w \in Workers,
             Begin(w) \/ Join(w) \/ Cancelled(w) \/ Finished(w)
      PROVE  /\ ctxDone' = ctxDone
             /\ pc[v] = "loop" /\ PastTarget(v) /\ ~ctxDone => pc'[v] = "loop"
  <2>1. /\ ctxDone' = ctxDone
        /\ w # v => pc'[v] = pc[v]
    BY <1>2, OtherMoves DEF Cancelled, Finished, BaseInv
  <2>2. w = v /\ pc[v] = "loop" /\ PastTarget(v) => ctxDone
    BY <1>1, <1>2 DEF Begin, Join, Cancelled, Quit, Finished
  <2> QED
    BY <2>1, <2>2
<1>3. ASSUME NEW w \in Workers, Advance(w) \/ Tick(w) \/ CatchUp(w)
      PROVE  pc'[v] = pc[v] /\ ctxDone' = ctxDone
  BY <1>3, RunMoves DEF Advance, Tick, CatchUp, baseVars, loopVars, BaseInv
<1>4. ASSUME NEW w \in Workers, NEW i \in Reqs, RequestStep(w, i)
      PROVE  pc'[v] = pc[v] /\ ctxDone' = ctxDone
  BY <1>4, StepIsLive
<1>5. ASSUME StartWorkers \/ Cancel \/ RecvSample \/ UNCHANGED vars
      PROVE  pc'[v] = pc[v] /\ (ctxDone => ctxDone')
  BY <1>5 DEF StartWorkers, Cancel, RecvSample, vars, baseVars, loopVars
<1> QED
  BY <1>1, <1>2, <1>3, <1>4, <1>5 DEF Next, WorkerStep

\* The same as a property of behaviours, the one the run checks.
THEOREM FixedTimeRequestsPastTarget == Spec => PastTargetNeverReturns
<1> SUFFICES ASSUME NEW v \in Workers PROVE Spec => NeverReturnsPast(v)
  BY Zenon DEF PastTargetNeverReturns
<1> DEFINE Stuck == ctxDone \/ (pc[v] = "loop" /\ PastTarget(v))
<1>1. SpreadInv /\ Stuck /\ [Next]_vars => Stuck'
  BY PastTargetStays
<1>2. pc[v] = "loop" /\ PastTarget(v) => Stuck
  OBVIOUS
<1>3. Stuck => ctxDone \/ pc[v] = "loop"
  OBVIOUS
<1> HIDE DEF Stuck
<1> QED
  BY <1>1, <1>2, <1>3, SpreadInvariant, PTL DEF Spec, NeverReturnsPast
===============================================================================
