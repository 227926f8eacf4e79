---------------------------- MODULE FixedTimeProofs ----------------------------
(***************************************************************************)
(* The worker with a time: its steps are steps of a worker, so what        *)
(* WorkerBaseProofs shows of every worker carries over, and what it counts *)
(* is all it started.                                                      *)
(***************************************************************************)
EXTENDS FixedTime, WorkerBaseProofs

TimedInv == BaseInv /\ TimeTypeOK

\* The ticker's own step leaves the worker alone; every other one is a worker's.
LEMMA NextIsBaseNext == [Next]_vars => [BaseNext]_baseVars
<1> SUFFICES ASSUME Next PROVE BaseNext \/ UNCHANGED baseVars
  BY DEF vars
<1>1. ASSUME NEW w \in Workers, TimeUp(w) PROVE UNCHANGED baseVars
  BY <1>1 DEF TimeUp
<1>2. ASSUME NEW w \in Workers, WorkerStep(w) PROVE LoopMove(w)
  BY <1>2 DEF WorkerStep, LoopMove, Cancelled, Ticked, Launch
<1> QED
  BY <1>1, <1>2 DEF Next, BaseNext

LEMMA TimedInvInit == Init => TimedInv
<1> SUFFICES ASSUME Init PROVE TimedInv
  OBVIOUS
<1>1. TimeTypeOK
  BY DEF Init, TimeTypeOK
<1> QED
  BY <1>1, BaseInvInit DEF Init, TimedInv

LEMMA TimedInductive ==
  ASSUME TimedInv, [Next]_vars
  PROVE  TimedInv'
<1>1. BaseInv'
  BY NextIsBaseNext, BaseInductive DEF TimedInv
<1>2. TimeTypeOK'
  <2>1. \/ UNCHANGED timeUp
        \/ \E w \in Workers : timeUp' = [timeUp EXCEPT ![w] = TRUE]
    BY DEF Next, vars, TimeUp, WorkerStep, Cancelled, Ticked, Launch
  <2> QED
    BY <2>1 DEF TimedInv, TimeTypeOK
<1> QED
  BY <1>1, <1>2 DEF TimedInv

LEMMA TimedInvariant == Spec => []TimedInv
  BY TimedInvInit, TimedInductive, PTL DEF Spec

-------------------------------------------------------------------------------
(* The theorems. *)

\* Types: the capacity of reqStats and the ticker's variable included.
THEOREM FixedTimeTypeCorrect == Spec => [](TypeOK /\ TimeTypeOK)
<1>1. TimedInv => TypeOK /\ TimeTypeOK
  BY DEF TimedInv, BaseInv, Shape
<1> QED
  BY <1>1, TimedInvariant, PTL

\* No statistics update is lost, nor a latency sample.
THEOREM FixedTimeCountsExactly == Spec => [](NoLostUpdate /\ SampleConservation)
<1>1. TimedInv => NoLostUpdate /\ SampleConservation
  BY DEF TimedInv, BaseInv
<1> QED
  BY <1>1, TimedInvariant, PTL

\* Only a cancelled worker in parallel mode returns with requests running: the
\* time being up does not make it leave any (parallelWg.Wait).
THEOREM FixedTimeReturnsQuiet == Spec => []ReturnsQuiet
<1>1. TimedInv => ReturnsQuiet
  BY DEF TimedInv, BaseInv, Quiet, QuietOutsideLoop, ReturnsQuiet
<1> QED
  BY <1>1, TimedInvariant, PTL

\* When the workers have returned and nobody cancelled, what ComputeResults
\* adds up accounts for every request that was started.
THEOREM FixedTimeAllAccounted == Spec => []AllAccounted
<1>1. ASSUME TimedInv, ~ctxDone, NEW w \in Workers, pc[w] = "exit"
      PROVE  completed[w] + failed[w] = sent[w]
  <2>1. Live(w) = {}
    BY <1>1 DEF TimedInv, BaseInv, Quiet, QuietOutsideLoop
  <2> QED
    BY <1>1, <2>1, QuietAccount DEF TimedInv
<1>2. TimedInv => AllAccounted
  BY <1>1 DEF AllAccounted
<1> QED
  BY <1>2, TimedInvariant, PTL
===============================================================================
