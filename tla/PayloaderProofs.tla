---------------------------- MODULE PayloaderProofs ----------------------------
(***************************************************************************)
(* The worker with a request target, as FixedReqs has it: what             *)
(* WorkerBaseProofs shows of every worker carries over, and its own loop   *)
(* gives ReturnsComplete and the safety half of the ledger (WorkLedger).   *)
(* This part rests on the assumptions of FixedReqs alone.                  *)
(*                                                                         *)
(* Then the whole run, whose workers they are: the results are complete,   *)
(* the JWTs go out in turn and with every request, and the average is      *)
(* never overstated.                                                       *)
(***************************************************************************)
EXTENDS Payloader, WorkerBaseProofs, SumsProofs, SequenceTheorems

-------------------------------------------------------------------------------
(* The worker with a request target. *)

\* The loop never starts more than its target, ends at the target unless it is
\* cancelled, and then leaves nothing running.
LoopInv ==
  \A w \in Workers :
    /\ sent[w] <= Target[w]
    /\ pc[w] = "wait" => sent[w] = Target[w]
    /\ pc[w] = "exit" => \/ sent[w] = Target[w] /\ Live(w) = {}
                         \/ ctxDone /\ sent[w] < Target[w]

FixedInv == BaseInv /\ LoopInv

-------------------------------------------------------------------------------
(* Every step of FixedReqs is a step of a worker. *)

LEMMA NextIsBaseNext == [Next]_vars => [BaseNext]_baseVars
<1> SUFFICES ASSUME Next PROVE BaseNext
  BY DEF vars
<1>1. ASSUME NEW w \in Workers, WorkerStep(w) PROVE LoopMove(w)
  BY <1>1 DEF WorkerStep, LoopMove, Launch, Cancelled, Drained, AllStarted
<1> QED
  BY <1>1 DEF Next, BaseNext

-------------------------------------------------------------------------------
(* The invariant of the loop. *)

LEMMA FixedInvInit == BaseInit => FixedInv
<1> SUFFICES ASSUME BaseInit PROVE LoopInv
  BY BaseInvInit DEF FixedInv
<1> QED
  BY FixedReqsAssumption, WorkerBaseAssumption, SMT DEF BaseInit, LoopInv

LEMMA LoopInvStep ==
  ASSUME FixedInv, [Next]_vars
  PROVE  LoopInv'
<1> USE DEF FixedInv
<1>1. CASE StartWorkers \/ Cancel \/ RecvSample \/ UNCHANGED vars
  <2>1. UNCHANGED <<pc, sent, phase>> /\ (ctxDone => ctxDone')
    BY <1>1 DEF StartWorkers, Cancel, RecvSample, SampleReady, vars, baseVars, loopVars
  <2>2. \A w \in Workers : Live(w)' = Live(w)
    BY <2>1 DEF Live
  <2> QED
    BY <2>1, <2>2 DEF LoopInv
<1>2. ASSUME NEW w \in Workers, NEW i \in Reqs, RequestStep(w, i) PROVE LoopInv'
  <2>1. i \in Live(w) /\ UNCHANGED <<pc, sent, ctxDone>>
    BY <1>2, StepIsLive
  <2>2. \A v \in Workers : v # w => Live(v)' = Live(v)
    BY <1>2, LiveElsewhere DEF BaseInv
  <2> QED
    BY <2>1, <2>2 DEF LoopInv
<1>3. ASSUME NEW w \in Workers, WorkerStep(w) PROVE LoopInv'
  <2> USE DEF BaseInv, Shape, TypeOK
  <2>0. sent[w] \in Nat /\ Target[w] \in Nat
    BY FixedReqsAssumption, WorkerBaseAssumption, SMT
  <2>1. CASE Launch(w)
    <3>1. /\ UNCHANGED <<pc, ctxDone>> /\ pc[w] = "loop"
          /\ \A v \in Workers : v # w => sent'[v] = sent[v] /\ phase'[v] = phase[v]
          /\ sent'[w] = sent[w] + 1 /\ sent[w] < Target[w]
      BY <2>1, SMT DEF Launch, Run, Added, loopVars
    <3>2. \A v \in Workers : v # w => Live(v)' = Live(v)
      BY <3>1 DEF Live
    <3>3. sent'[w] <= Target[w]
      BY <2>0, <3>1
    <3> QED
      BY <3>1, <3>2, <3>3 DEF LoopInv
  <2>2. CASE Begin(w) \/ Cancelled(w) \/ Drained(w) \/ Join(w)
    <3>1. /\ UNCHANGED <<sent, ctxDone, phase>>
          /\ \A v \in Workers : v # w => pc'[v] = pc[v]
      BY <2>2, SMT DEF Begin, Cancelled, Quit, Drained, AllStarted, Drain, WaitIfParallel, Join
    <3>2. \A v \in Workers : Live(v)' = Live(v)
      BY <3>1 DEF Live
    <3>3. pc'[w] = "wait" => sent[w] = Target[w]
      <4> HIDE DEF TypeOK, Shape, BaseInv
      <4>1. CASE Drained(w)
        BY <2>0, <4>1 DEF Drained, AllStarted, LoopInv
      <4>2. CASE Begin(w) \/ Cancelled(w) \/ Join(w)
        BY <4>2, SMT DEF Begin, Cancelled, Quit, Join, BaseInv, Shape, TypeOK
      <4> QED
        BY <2>2, <4>1, <4>2
    <3>4. pc'[w] = "exit" => \/ sent[w] = Target[w] /\ Live(w) = {}
                             \/ ctxDone /\ sent[w] < Target[w]
      <4>1. CASE Begin(w)
        BY <4>1, SMT DEF Begin
      <4>2. CASE Cancelled(w)
        BY <4>2 DEF Cancelled, Quit
      <4>3. CASE Drained(w)
        <5> HIDE DEF TypeOK, Shape, BaseInv
        <5>1. sent[w] = Target[w]
          BY <2>0, <4>3 DEF Drained, AllStarted, LoopInv
        <5>2. pc'[w] = "exit" => ~Parallel
          BY <4>3, SMT DEF Drained, AllStarted, Drain, WaitIfParallel, BaseInv, Shape, TypeOK
        <5> QED
          BY <4>3, <5>1, <5>2 DEF Drained, AllStarted, Drain, WaitIfParallel, Ready
      <4>4. CASE Join(w)
        <5>1. sent[w] = Target[w] /\ Parallel /\ parallelWg[w] = 0
          BY <4>4 DEF Join, LoopInv, Quiet, QuietOutsideLoop
        <5>2. Cardinality(Live(w)) = 0
          BY <5>1 DEF Quiet, WaitGroupCounts
        <5>3. Live(w) = {}
          BY <5>2, FiniteRequestSets, FS_EmptySet
        <5> QED
          BY <5>1, <5>3
      <4> QED
        BY <2>2, <4>1, <4>2, <4>3, <4>4
    <3> QED
      BY <3>1, <3>2, <3>3, <3>4 DEF LoopInv
  <2> QED
    BY <1>3, <2>1, <2>2 DEF WorkerStep
<1> QED
  BY <1>1, <1>2, <1>3 DEF Next

LEMMA FixedInductive ==
  ASSUME FixedInv, [Next]_vars
  PROVE  FixedInv'
  BY NextIsBaseNext, BaseInductive, LoopInvStep DEF FixedInv

-------------------------------------------------------------------------------
(* The theorems. *)

LEMMA FixedInvariant == Spec => []FixedInv
  BY FixedInvInit, FixedInductive, PTL DEF Spec

\* Types: the capacity of reqStats included.
THEOREM FixedReqsTypeCorrect == Spec => []TypeOK
<1>1. FixedInv => TypeOK
  BY DEF FixedInv, BaseInv, Shape
<1> QED
  BY <1>1, FixedInvariant, PTL

\* No statistics update is lost (updateRespStats and updateErrStats count each
\* request exactly once).
THEOREM FixedReqsNoLostUpdate == Spec => []NoLostUpdate
<1>1. FixedInv => NoLostUpdate
  BY DEF FixedInv, BaseInv
<1> QED
  BY <1>1, FixedInvariant, PTL

\* Only a cancelled worker in parallel mode returns with requests running.
THEOREM FixedReqsReturnsQuiet == Spec => []ReturnsQuiet
<1>1. FixedInv => ReturnsQuiet
  BY DEF FixedInv, BaseInv, Quiet, QuietOutsideLoop, ReturnsQuiet
<1> QED
  BY <1>1, FixedInvariant, PTL

\* The samples sent are those in the channel and those received: one for each
\* successful request.
THEOREM FixedReqsSampleConservation == Spec => []SampleConservation
<1>1. FixedInv => SampleConservation
  BY DEF FixedInv, BaseInv
<1> QED
  BY <1>1, FixedInvariant, PTL

\* A worker that returns has accounted for its whole target, unless the user's
\* cancellation cut it short.
THEOREM FixedReqsReturnsComplete == Spec => []ReturnsComplete
<1>1. FixedInv => ReturnsComplete
  BY QuietAccount DEF FixedInv, LoopInv, ReturnsComplete
<1> QED
  BY <1>1, FixedInvariant, PTL

-------------------------------------------------------------------------------
(* The safety half of the ledger. *)

LEMMA LedgerInit == BaseInit => Ledger!Init
<1> SUFFICES ASSUME BaseInit PROVE Ledger!Init
  OBVIOUS
<1>1. \A w \in Workers : (pc[w] = "exit") = FALSE
  BY SMT DEF BaseInit
<1>2. [w \in Workers |-> pc[w] = "exit"] = [w \in Workers |-> FALSE]
  BY <1>1, Zenon
<1> QED
  BY <1>2 DEF BaseInit, Ledger!Init

\* Counting a success or a failure is legal: the account has room, and the
\* worker has not returned unless the run is stopped.
LEMMA OpenWhenCounting ==
  ASSUME FixedInv, NEW w \in Workers, NEW i \in Reqs,
         phase[w][i] \in {"resp", "errHeld"}
  PROVE  (pc[w] # "exit" \/ ctxDone) /\ completed[w] + failed[w] < Target[w]
<1>1. i \in Live(w)
  BY DEF Live
<1>2. pc[w] = "exit" => ctxDone
  BY <1>1 DEF FixedInv, BaseInv, Quiet, QuietOutsideLoop
<1>3. completed[w] + failed[w] < sent[w] /\ sent[w] <= Target[w]
  BY RoomForOne DEF FixedInv, LoopInv
<1>4. completed[w] \in Nat /\ failed[w] \in Nat
  BY DEF FixedInv, BaseInv, Shape, TypeOK
<1>5. sent[w] \in Nat /\ Target[w] \in Nat
  BY FixedReqsAssumption, WorkerBaseAssumption, SMT DEF FixedInv, BaseInv, Shape, TypeOK
<1>6. completed[w] + failed[w] < Target[w]
  BY <1>3, <1>4, <1>5
<1> QED
  BY <1>2, <1>6

\* A worker that leaves its loop closes its account as the ledger allows.
LEMMA ClosesLegally ==
  ASSUME FixedInv, NEW w \in Workers, Cancelled(w) \/ Drained(w) \/ Join(w)
  PROVE  /\ pc[w] # "exit"
         /\ pc'[w] = "exit" => ctxDone \/ completed[w] + failed[w] = Target[w]
<1>1. pc[w] # "exit"
  BY DEF Cancelled, Quit, Drained, AllStarted, Drain, WaitIfParallel, Join
<1>2. ASSUME Drained(w), pc'[w] = "exit" PROVE completed[w] + failed[w] = Target[w]
  <2>1. pc'[w] = IF Parallel THEN "wait" ELSE "exit"
    BY <1>2, SMT DEF Drained, AllStarted, Drain, WaitIfParallel, FixedInv, BaseInv, Shape, TypeOK
  <2>2. Live(w) = {}
    BY <1>2, <2>1 DEF Drained, AllStarted, Drain, WaitIfParallel, Ready
  <2>3. sent[w] = Target[w]
    <3>1. sent[w] >= Target[w] /\ sent[w] <= Target[w]
      BY <1>2 DEF Drained, AllStarted, FixedInv, LoopInv
    <3>2. sent[w] \in Nat /\ Target[w] \in Nat
      BY FixedReqsAssumption, WorkerBaseAssumption, SMT DEF FixedInv, BaseInv, Shape, TypeOK
    <3> QED
      BY <3>1, <3>2
  <2> QED
    BY <2>2, <2>3, QuietAccount DEF FixedInv
<1>3. ASSUME Join(w) PROVE completed[w] + failed[w] = Target[w]
  <2>1. sent[w] = Target[w] /\ Parallel /\ parallelWg[w] = 0
    BY <1>3 DEF Join, FixedInv, LoopInv, BaseInv, Quiet, QuietOutsideLoop
  <2>2. Cardinality(Live(w)) = 0
    BY <2>1 DEF FixedInv, BaseInv, Quiet, WaitGroupCounts
  <2>3. Live(w) = {}
    BY <2>2, FiniteRequestSets, FS_EmptySet
  <2> QED
    BY <2>1, <2>3, QuietAccount DEF FixedInv
<1>4. Cancelled(w) => ctxDone
  BY DEF Cancelled, Quit
<1> QED
  BY <1>1, <1>2, <1>3, <1>4

LEMMA LedgerStep ==
  ASSUME FixedInv, [Next]_vars
  PROVE  [Ledger!Next]_(Ledger!vars)
<1> DEFINE closed == [w \in Workers |-> pc[w] = "exit"]
<1> USE DEF Ledger!vars
<1>1. CASE StartWorkers \/ RecvSample \/ UNCHANGED vars
  BY <1>1 DEF StartWorkers, RecvSample, SampleReady, vars, baseVars, loopVars, statVars
<1>2. CASE Cancel
  BY <1>2 DEF Cancel, statVars, Ledger!Next, Ledger!Stop
<1>3. ASSUME NEW w \in Workers, NEW i \in Reqs, RequestStep(w, i)
      PROVE  [Ledger!Next]_(Ledger!vars)
  <2>1. CASE LockResp(w, i)
    <3>1. (pc[w] # "exit" \/ ctxDone) /\ completed[w] + failed[w] < Target[w]
      BY <2>1, OpenWhenCounting DEF LockResp, SuccessLockFree
    <3>2. /\ completed' = [completed EXCEPT ![w] = completed[w] + 1]
          /\ UNCHANGED <<failed, pc, ctxDone>>
      BY <2>1 DEF LockResp, SuccessLockFree, loopVars
    <3>3. Ledger!Succeed(w)
      BY <3>1, <3>2 DEF Ledger!Succeed, Ledger!Open
    <3> QED
      BY <3>3 DEF Ledger!Next
  <2>2. CASE StoreErr(w, i)
    <3>1. (pc[w] # "exit" \/ ctxDone) /\ completed[w] + failed[w] < Target[w]
      BY <2>2, OpenWhenCounting DEF StoreErr, OneMoreFailed
    <3>2. /\ failed' = [failed EXCEPT ![w] = failed[w] + 1]
          /\ UNCHANGED <<completed, pc, ctxDone>>
      BY <2>2 DEF StoreErr, OneMoreFailed, loopVars
    <3>3. Ledger!Fail(w)
      BY <3>1, <3>2 DEF Ledger!Fail, Ledger!Open
    <3> QED
      BY <3>3 DEF Ledger!Next
  <2>3. CASE ~LockResp(w, i) /\ ~StoreErr(w, i)
    BY <1>3, <2>3
    DEF RequestStep, NewReq, Middleware, Do, StoreResp, Sample, LockErr, Finish, Left,
        loopVars, statVars
  <2> QED
    BY <2>1, <2>2, <2>3
<1>4. ASSUME NEW w \in Workers, WorkerStep(w)
      PROVE  [Ledger!Next]_(Ledger!vars)
  <2>0. UNCHANGED <<completed, failed, ctxDone>>
    BY <1>4
    DEF WorkerStep, Begin, Launch, Run, Added, Cancelled, Quit, Drained, AllStarted, Drain,
        WaitIfParallel, Join,
        loopVars, statVars
  <2>1. CASE Launch(w)
    BY <2>0, <2>1 DEF Launch, Run, Added, loopVars
  <2>2. CASE ~Launch(w)
    <3>1. \A v \in Workers : v # w => pc'[v] = pc[v]
      BY <1>4, <2>2, SMT
      DEF WorkerStep, Begin, Cancelled, Quit, Drained, AllStarted, Drain, WaitIfParallel,
          Join, FixedInv, BaseInv,
          Shape, TypeOK
    <3>2. CASE pc'[w] # "exit"
      <4>1. pc[w] # "exit"
        BY <1>4, <2>2, SMT
        DEF WorkerStep, Begin, Cancelled, Quit, Drained, AllStarted, Drain, WaitIfParallel, Join
      <4> QED
        BY <2>0, <3>1, <3>2, <4>1
    <3>3. CASE pc'[w] = "exit"
      <4>1. CASE Begin(w)
        BY <3>3, <4>1, SMT DEF Begin, FixedInv, BaseInv, Shape, TypeOK
      <4>2. CASE Cancelled(w) \/ Drained(w) \/ Join(w)
        <5>1. pc[w] # "exit" /\ (ctxDone \/ completed[w] + failed[w] = Target[w])
          BY <3>3, <4>2, ClosesLegally
        <5>2. closed' = [closed EXCEPT ![w] = TRUE]
          BY <3>1, <3>3
        <5>3. Ledger!Close(w)
          BY <2>0, <5>1, <5>2 DEF Ledger!Close
        <5> QED
          BY <5>3 DEF Ledger!Next
      <4> QED
        BY <1>4, <2>2, <4>1, <4>2 DEF WorkerStep
    <3> QED
      BY <3>2, <3>3
  <2> QED
    BY <2>1, <2>2
<1> QED
  BY <1>1, <1>2, <1>3, <1>4 DEF Next

\* FixedReqs implements the safety half of its abstract promise: no more than
\* the target is accounted for, and a worker closes only a full account or a
\* stopped run.  (That it closes at all is liveness, which TLC checks.)
THEOREM FixedReqsImplementsLedger == Spec => Ledger!Safety
  BY LedgerInit, LedgerStep, FixedInvariant, PTL DEF Spec, Ledger!Safety

-------------------------------------------------------------------------------
(* The invariant of the whole run. *)

\* Requests, of any worker, that CompletedReqs counts.
CountedAll == {r \in Workers \X Reqs :
                 /\ outcome[r[1]][r[2]] \in Codes
                 /\ phase[r[1]][r[2]] \in {"respHeld", "sample", "returned", "done"}}

\* Requests of w whose response code has been stored.
Stored(w) == {i \in Reqs : /\ outcome[w][i] \in Codes
                           /\ phase[w][i] \in {"sample", "returned", "done"}}

\* The breakdowns of a worker add up to what it has stored.
Breakdown ==
  \A w \in Workers :
    /\ IsFiniteSet(Units(responses[w], Codes))
    /\ SumOf(responses[w], Codes) = Cardinality(Stored(w))
    /\ IsFiniteSet(Units(errors[w], Errs))
    /\ SumOf(errors[w], Errs) = failed[w]

CompletedTotal == SumOf(completed, Workers) = Cardinality(CountedAll)

Totals == Breakdown /\ CompletedTotal

\* SystemTypeOK, with results as the record it is.
ResultsType ==
  results \in [completed : Nat, failed : Nat, samples : Nat,
               responses : [Codes -> Nat], errors : [Errs -> Nat]]

\* Where handleReqs is tells what has happened.
MainInv ==
  /\ started => main \notin {"generate", "spawn", "release"}
  /\ main \in {"jwt", "wait", "compute", "returned"} => started
  /\ ~started => \A w \in Workers : pc[w] = "start"
  /\ \A w \in Workers : pc[w] = "start" => sent[w] = 0
  /\ UsesJwt /\ main \in {"wait", "compute", "returned"} => jwtErr = "closed"
  /\ main \in {"compute", "returned"} => AllDone
  /\ summed > 0 => main \in {"compute", "returned"}
  /\ main = "returned" => summed = Conns /\ results.samples <= received

\* What ComputeResults has added up of a run nobody cancelled.
ResultsInv ==
  ~ctxDone =>
    /\ results.completed + results.failed = SumOf(Target, 1 .. summed)
    /\ results.completed = SumOf(completed, 1 .. summed)
    /\ IsFiniteSet(Units(results.responses, Codes))
    /\ SumOf(results.responses, Codes) = results.completed
    /\ IsFiniteSet(Units(results.errors, Errs))
    /\ SumOf(results.errors, Errs) = results.failed

\* The requests that hold a JWT, and those that have been started.
Tokened == {r \in Workers \X Reqs : token[r[1]][r[2]] # NoToken}
Begun   == {r \in Workers \X Reqs : phase[r[1]][r[2]] # "idle"}

\* Every JWT the producer has put is in the stream or with a request that was
\* built; a request goes without only once the stream has failed.
JwtInv ==
  /\ jwtErr = "closed" => jwtPut = ReqTarget
  /\ Cardinality(Tokened) + Len(jwtStream) = jwtPut
  /\ \A w \in Workers : \A i \in Reqs :
       token[w][i] # NoToken => /\ phase[w][i] \notin {"idle", "new", "jwt"}
                                /\ outcome[w][i] \notin ReqErrs
  /\ \A w \in Workers : \A i \in Reqs :
       phase[w][i] \in {"idle", "new", "jwt", "send"} => outcome[w][i] = None
  /\ \A w \in Workers : \A i \in Reqs : SentBare(w, i) => jwtErr = "error"

\* The lines have been used equally often, those up to the last one once more.
TurnInv ==
  \E rounds \in Nat :
    /\ ~source.user => rounds = 0
    /\ \A l \in 1 .. source.lines :
         Uses(l) = rounds + (IF l <= line THEN 1 ELSE 0)

SystemInv ==
  /\ FixedInv /\ Totals /\ SystemTypeOK /\ ResultsType
  /\ MainInv /\ ResultsInv /\ JwtInv /\ TurnInv

-------------------------------------------------------------------------------
(* A step of the system is a step of its workers, or leaves them alone. *)

LEMMA SystemIsNext ==
  ASSUME [SystemNext]_sysVars
  PROVE  [Next]_vars
<1>1. CASE HandleReqs
  BY <1>1
  DEF HandleReqs, Generate, Spawn, Release, JwtsDone, WorkersDone, SumWorker, Average, Next
<1>2. CASE ReadSample \/ ReaderStops \/ Produce \/ ProducerEnds
  BY <1>2 DEF ReadSample, ReaderStops, Produce, ProducerEnds, Next
<1>3. CASE Interrupt \/ Deliver \/ Timeout
  BY <1>3 DEF Interrupt, Deliver, Timeout, Next
<1>4. ASSUME NEW w \in Workers, WorkerMoves(w) PROVE Next
  BY <1>4 DEF WorkerMoves, Next
<1>5. ASSUME NEW w \in Workers, NEW i \in Reqs, RequestMoves(w, i) PROVE Next
  BY <1>5 DEF RequestMoves, ReceiveJwt, RequestStep, Next
<1>6. CASE UNCHANGED sysVars
  BY <1>6 DEF sysVars
<1> QED
  BY <1>1, <1>2, <1>3, <1>4, <1>5, <1>6 DEF SystemNext

-------------------------------------------------------------------------------
(* The totals of the workers. *)

LEMMA FiniteCounted ==
  /\ IsFiniteSet(CountedAll) /\ Cardinality(CountedAll) \in Nat
  /\ \A w : IsFiniteSet(Stored(w)) /\ Cardinality(Stored(w)) \in Nat
<1>1. IsFiniteSet(Reqs) /\ IsFiniteSet(Workers)
  BY WorkerBaseAssumption, FS_Interval DEF Reqs
<1>2. IsFiniteSet(Workers \X Reqs)
  BY <1>1, FS_Product
<1>3. CountedAll \subseteq Workers \X Reqs
  BY DEF CountedAll
<1>4. \A w : Stored(w) \in SUBSET Reqs
  BY DEF Stored
<1> QED
  BY <1>2, <1>3, <1>4, FiniteReqs, FS_Subset, FS_CardinalityType

LEMMA TotalsInit == BaseInit => Totals
<1> SUFFICES ASSUME BaseInit PROVE Totals
  OBVIOUS
<1>1. CountedAll = {} /\ \A w \in Workers : Stored(w) = {}
  BY DEF BaseInit, CountedAll, Stored
<1>2. Cardinality({}) = 0
  BY FS_EmptySet
<1>3. \A w \in Workers : /\ \A c \in Codes : responses[w][c] = 0
                         /\ \A e \in Errs : errors[w][e] = 0
                         /\ completed[w] = 0 /\ failed[w] = 0
  BY DEF BaseInit
<1>4. SumOf(completed, Workers) = 0
  BY <1>3, SumZero
<1>5. \A w \in Workers :
        /\ IsFiniteSet(Units(responses[w], Codes)) /\ SumOf(responses[w], Codes) = 0
        /\ IsFiniteSet(Units(errors[w], Errs)) /\ SumOf(errors[w], Errs) = 0
  BY <1>3, SumZero
<1> QED
  BY <1>1, <1>2, <1>3, <1>4, <1>5 DEF Totals, Breakdown, CompletedTotal

\* Nothing is counted, and nothing stored.
LEMMA TotalsKept ==
  ASSUME Totals, UNCHANGED statVars, CountedAll' = CountedAll,
         \A w \in Workers : Stored(w)' = Stored(w)
  PROVE  Totals'
  BY DEF Totals, Breakdown, CompletedTotal, statVars

LEMMA TotalsOther ==
  ASSUME BaseInv, Totals,
         \/ StartWorkers \/ Cancel \/ RecvSample \/ UNCHANGED baseVars
         \/ \E w \in Workers : LoopMove(w)
  PROVE  Totals'
<1>0. Shape
  BY DEF BaseInv
<1>1. CASE StartWorkers \/ Cancel \/ RecvSample \/ UNCHANGED baseVars
  <2>1. UNCHANGED <<phase, outcome>> /\ UNCHANGED statVars
    BY <1>1 DEF StartWorkers, Cancel, RecvSample, SampleReady, baseVars, statVars
  <2> QED
    BY <2>1, TotalsKept DEF CountedAll, Stored
<1>2. ASSUME NEW w \in Workers, Begin(w) \/ Quit(w) \/ Drain(w) \/ Join(w) PROVE Totals'
  <2>1. UNCHANGED <<phase, outcome>> /\ UNCHANGED statVars
    BY <1>2 DEF Begin, Quit, Drain, WaitIfParallel, Join, statVars
  <2> QED
    BY <2>1, TotalsKept DEF CountedAll, Stored
<1>3. ASSUME NEW w \in Workers, Run(w) PROVE Totals'
  <2>1. sent[w] + 1 \in Reqs /\ phase[w][sent[w] + 1] = "idle"
    BY <1>0, <1>3, WorkerBaseAssumption, SMT
    DEF Run, Added, Shape, TypeOK, StartedInOrder, Reqs
  <2>2. /\ UNCHANGED outcome /\ UNCHANGED statVars
        /\ \A v \in Workers : \A j \in Reqs :
             phase'[v][j] = IF v = w /\ j = sent[w] + 1 THEN "new" ELSE phase[v][j]
    BY <1>0, <1>3, <2>1, SMT DEF Run, Added, Shape, TypeOK, statVars
  <2>3. CountedAll' = CountedAll /\ \A v \in Workers : Stored(v)' = Stored(v)
    BY <2>1, <2>2 DEF CountedAll, Stored
  <2> QED
    BY <2>2, <2>3, TotalsKept
<1> QED
  BY <1>1, <1>2, <1>3 DEF LoopMove

LEMMA OthersKeep ==
  ASSUME Shape, NEW w \in Workers, NEW i \in Reqs, RequestStep(w, i)
  PROVE  \A v \in Workers : \A j \in Reqs : v # w \/ j # i =>
           phase'[v][j] = phase[v][j] /\ outcome'[v][j] = outcome[v][j]
  BY SMT
  DEF RequestStep, NewReq, Middleware, Do, LockResp, SuccessLockFree, StoreResp, Sample, LockErr,
      StoreErr, OneMoreFailed, Finish, Left, Shape, TypeOK

LEMMA TotalsLockResp ==
  ASSUME BaseInv, Totals, NEW w \in Workers, NEW i \in Reqs, LockResp(w, i)
  PROVE  Totals'
<1>0. Shape
  BY DEF BaseInv
<1>1. /\ phase[w][i] = "resp" /\ phase'[w][i] = "respHeld"
      /\ outcome'[w][i] = outcome[w][i] /\ outcome[w][i] \in Codes
      /\ UNCHANGED <<failed, responses, errors>>
      /\ completed'[w] = completed[w] + 1
      /\ \A v \in Workers : v # w => completed'[v] = completed[v]
  BY <1>0, SMT DEF LockResp, SuccessLockFree, Shape, TypeOK, OutcomeKnown
<1>2. \A v \in Workers : \A j \in Reqs : v # w \/ j # i =>
        phase'[v][j] = phase[v][j] /\ outcome'[v][j] = outcome[v][j]
  BY <1>0, OthersKeep DEF RequestStep
<1>3. CountedAll' = CountedAll \cup {<<w, i>>} /\ <<w, i>> \notin CountedAll
  BY <1>1, <1>2 DEF CountedAll
<1>4. \A v \in Workers : Stored(v)' = Stored(v)
  BY <1>1, <1>2 DEF Stored
<1>5. Cardinality(CountedAll') = Cardinality(CountedAll) + 1
  BY <1>3, FiniteCounted, Grow
<1>6. \A v \in Workers : completed[v] \in Nat /\ completed'[v] \in Nat
  <2>1. completed \in [Workers -> Nat]
    BY <1>0 DEF Shape, TypeOK
  <2>2. \A v \in Workers : completed[v] \in Nat /\ completed[v] + 1 \in Nat
    BY <2>1
  <2> QED
    BY <1>1, <2>2, Zenon
<1>7. SumOf(completed', Workers) = SumOf(completed, Workers) + 1
  <2>1. IsFiniteSet(Units(completed, Workers))
    BY <1>6, WorkerBaseAssumption, FiniteUnits
  <2>2. SumOf(completed', Workers) = SumOf(completed, Workers) + completed'[w] - completed[w]
    BY <1>1, <1>6, <2>1, SumChange
  <2>3. SumOf(completed, Workers) \in Nat
    BY <2>1, SumType
  <2> QED
    BY <1>1, <1>6, <2>2, <2>3
<1>8. CompletedTotal'
  BY <1>5, <1>7 DEF Totals, CompletedTotal
<1> QED
  BY <1>1, <1>4, <1>8 DEF Totals, Breakdown

LEMMA TotalsStoreResp ==
  ASSUME BaseInv, Totals, NEW w \in Workers, NEW i \in Reqs, StoreResp(w, i)
  PROVE  Totals'
<1>0. Shape
  BY DEF BaseInv
<1> PICK c : c = outcome[w][i]
  OBVIOUS
<1>1. /\ phase[w][i] = "respHeld" /\ phase'[w][i] = "sample"
      /\ outcome'[w][i] = c /\ c \in Codes
      /\ UNCHANGED <<completed, failed, errors>>
      /\ \A v \in Workers : v # w => responses'[v] = responses[v]
      /\ \A d \in Codes : d # c => responses'[w][d] = responses[w][d]
      /\ responses'[w][c] = responses[w][c] + 1
      /\ responses[w][c] \in Nat
  BY <1>0, SMT DEF StoreResp, Shape, TypeOK, OutcomeKnown, LoadedFresh
<1>2. \A v \in Workers : \A j \in Reqs : v # w \/ j # i =>
        phase'[v][j] = phase[v][j] /\ outcome'[v][j] = outcome[v][j]
  BY <1>0, OthersKeep DEF RequestStep
<1>3. CountedAll' = CountedAll
  BY <1>1, <1>2 DEF CountedAll
<1>4. /\ \A v \in Workers : v # w => Stored(v)' = Stored(v)
      /\ Stored(w)' = Stored(w) \cup {i} /\ i \notin Stored(w)
  BY <1>1, <1>2 DEF Stored
<1>5. Cardinality(Stored(w)') = Cardinality(Stored(w)) + 1
  BY <1>4, FiniteCounted, Grow
<1>6. /\ IsFiniteSet(Units(responses[w], Codes))
      /\ SumOf(responses[w], Codes) = Cardinality(Stored(w))
  BY DEF Totals, Breakdown
<1>7. /\ IsFiniteSet(Units(responses'[w], Codes))
      /\ SumOf(responses'[w], Codes) =
           SumOf(responses[w], Codes) + responses'[w][c] - responses[w][c]
  <2> DEFINE old == responses[w]
             new == responses'[w]
  <2>1. /\ old[c] \in Nat /\ new[c] \in Nat
        /\ \A d \in Codes : d # c => new[d] = old[d]
        /\ IsFiniteSet(Units(old, Codes))
    BY <1>1, <1>6
  <2> HIDE DEF old, new
  <2>2. /\ IsFiniteSet(Units(new, Codes))
        /\ SumOf(new, Codes) = SumOf(old, Codes) + new[c] - old[c]
    BY <1>1, <2>1, SumChange
  <2> QED
    BY <2>2 DEF old, new
<1>8. SumOf(responses'[w], Codes) = Cardinality(Stored(w)')
  BY <1>1, <1>5, <1>6, <1>7, FiniteCounted
<1>9. \A v \in Workers : /\ IsFiniteSet(Units(responses'[v], Codes))
                         /\ SumOf(responses'[v], Codes) = Cardinality(Stored(v)')
  BY <1>1, <1>4, <1>7, <1>8, Zenon DEF Totals, Breakdown
<1> QED
  BY <1>1, <1>3, <1>9 DEF Totals, Breakdown, CompletedTotal

LEMMA TotalsStoreErr ==
  ASSUME BaseInv, Totals, NEW w \in Workers, NEW i \in Reqs, StoreErr(w, i)
  PROVE  Totals'
<1>0. Shape
  BY DEF BaseInv
<1> PICK e : e = outcome[w][i]
  OBVIOUS
<1>1. /\ phase[w][i] = "errHeld" /\ phase'[w][i] = "returned"
      /\ outcome'[w][i] = e /\ e \in Errs
      /\ UNCHANGED <<completed, responses>>
      /\ \A v \in Workers : v # w => errors'[v] = errors[v] /\ failed'[v] = failed[v]
      /\ \A d \in Errs : d # e => errors'[w][d] = errors[w][d]
      /\ errors'[w][e] = errors[w][e] + 1 /\ failed'[w] = failed[w] + 1
      /\ errors[w][e] \in Nat /\ failed[w] \in Nat
  BY <1>0, SMT DEF StoreErr, OneMoreFailed, Shape, TypeOK, OutcomeKnown, LoadedFresh
<1>2. \A v \in Workers : \A j \in Reqs : v # w \/ j # i =>
        phase'[v][j] = phase[v][j] /\ outcome'[v][j] = outcome[v][j]
  BY <1>0, OthersKeep DEF RequestStep
<1>3. e \notin Codes
  BY <1>1, WorkerBaseAssumption
<1>4. CountedAll' = CountedAll
  BY <1>1, <1>2, <1>3 DEF CountedAll
<1>5. \A v \in Workers : Stored(v)' = Stored(v)
  BY <1>1, <1>2, <1>3 DEF Stored
<1>6. IsFiniteSet(Units(errors[w], Errs)) /\ SumOf(errors[w], Errs) = failed[w]
  BY DEF Totals, Breakdown
<1>7. /\ IsFiniteSet(Units(errors'[w], Errs))
      /\ SumOf(errors'[w], Errs) = SumOf(errors[w], Errs) + errors'[w][e] - errors[w][e]
  <2> DEFINE old == errors[w]
             new == errors'[w]
  <2>1. /\ old[e] \in Nat /\ new[e] \in Nat
        /\ \A d \in Errs : d # e => new[d] = old[d]
        /\ IsFiniteSet(Units(old, Errs))
    BY <1>1, <1>6
  <2> HIDE DEF old, new
  <2>2. /\ IsFiniteSet(Units(new, Errs))
        /\ SumOf(new, Errs) = SumOf(old, Errs) + new[e] - old[e]
    BY <1>1, <2>1, SumChange
  <2> QED
    BY <2>2 DEF old, new
<1>8. SumOf(errors'[w], Errs) = failed'[w]
  BY <1>1, <1>6, <1>7
<1>9. \A v \in Workers : /\ IsFiniteSet(Units(errors'[v], Errs))
                         /\ SumOf(errors'[v], Errs) = failed'[v]
  BY <1>1, <1>7, <1>8, Zenon DEF Totals, Breakdown
<1> QED
  BY <1>1, <1>4, <1>5, <1>9 DEF Totals, Breakdown, CompletedTotal

LEMMA TotalsRequest ==
  ASSUME BaseInv, Totals, NEW w \in Workers, NEW i \in Reqs, RequestStep(w, i)
  PROVE  Totals'
<1>1. CASE LockResp(w, i)
  BY <1>1, TotalsLockResp
<1>2. CASE StoreResp(w, i)
  BY <1>2, TotalsStoreResp
<1>3. CASE StoreErr(w, i)
  BY <1>3, TotalsStoreErr
<1>4. CASE \/ NewReq(w, i) \/ Middleware(w, i) \/ Do(w, i)
           \/ Sample(w, i) \/ LockErr(w, i) \/ Finish(w, i)
  <2>1. UNCHANGED statVars
    BY <1>4 DEF NewReq, Middleware, Do, Sample, LockErr, Finish, Left, statVars
  <2>2. \/ /\ phase[w][i] \in {"new", "jwt", "send", "err"}
           /\ phase'[w][i] \in {"jwt", "send", "resp", "err", "errHeld"}
        \/ /\ phase[w][i] \in {"sample", "returned"}
           /\ phase'[w][i] \in {"returned", "done"}
           /\ outcome'[w][i] = outcome[w][i]
    BY <1>4, SMT
    DEF NewReq, Middleware, Do, Sample, LockErr, Finish, Left, BaseInv, Shape, TypeOK
  <2>3. \A v \in Workers : \A j \in Reqs : v # w \/ j # i =>
          phase'[v][j] = phase[v][j] /\ outcome'[v][j] = outcome[v][j]
    BY OthersKeep DEF BaseInv
  <2>4. CountedAll' = CountedAll
    BY <2>2, <2>3 DEF CountedAll
  <2>5. \A v \in Workers : Stored(v)' = Stored(v)
    BY <2>2, <2>3 DEF Stored
  <2> QED
    BY <2>1, <2>4, <2>5, TotalsKept
<1> QED
  BY <1>1, <1>2, <1>3, <1>4 DEF RequestStep

LEMMA TotalsStep ==
  ASSUME BaseInv, Totals, [Next]_vars
  PROVE  Totals'
<1>1. [BaseNext]_baseVars
  BY NextIsBaseNext
<1> QED
  BY <1>1, TotalsOther, TotalsRequest DEF BaseNext
-------------------------------------------------------------------------------
(* Types. *)

LEMMA SourceType ==
  ASSUME source \in Sources
  PROVE  source.user \in BOOLEAN /\ source.lines \in Nat
  BY PayloaderAssumption

LEMMA SystemTypeInit == SystemInit => SystemTypeOK /\ ResultsType
<1> SUFFICES ASSUME SystemInit PROVE SystemTypeOK /\ ResultsType
  OBVIOUS
<1>1. source \in Sources /\ source.lines \in Nat
  BY SourceType DEF SystemInit
<1>2. 0 \in 0 .. source.lines /\ 0 \in 0 .. ReqTarget /\ 0 \in 0 .. Conns
  BY <1>1, PayloaderAssumption
<1>3. jwtStream \in Seq(1 .. source.lines) /\ Len(jwtStream) <= JwtCap
  <2>1. Len(<<>>) = 0 /\ <<>> \in Seq(1 .. source.lines)
    BY EmptySeq
  <2> QED
    BY <2>1, PayloaderAssumption DEF SystemInit
<1>4. token \in [Workers -> [Reqs -> 0 .. source.lines]]
  BY <1>2 DEF SystemInit, NoToken
<1>5. ResultsType
  BY DEF SystemInit, ResultsType
<1>6. main \in MainPCs
  BY DEF SystemInit, MainPCs
<1> QED
  BY <1>1, <1>2, <1>3, <1>4, <1>5, <1>6 DEF SystemInit, SystemTypeOK, ResultsType

LEMMA StreamTaken ==
  ASSUME NEW S, NEW s \in Seq(S), s # <<>>
  PROVE  /\ Head(s) \in S /\ Tail(s) \in Seq(S)
         /\ Len(s) \in Nat \ {0} /\ Len(Tail(s)) = Len(s) - 1
  BY HeadTailProperties, LenProperties, EmptySeq

LEMMA NextLineType ==
  ASSUME SystemTypeOK, NextLine <= source.lines
  PROVE  NextLine \in 1 .. source.lines
<1>1. source.lines \in Nat /\ line \in 0 .. source.lines
  BY SourceType DEF SystemTypeOK
<1> QED
  BY <1>1 DEF NextLine

LEMMA SystemTypeStep ==
  ASSUME FixedInv, SystemTypeOK, ResultsType, [SystemNext]_sysVars
  PROVE  SystemTypeOK' /\ ResultsType'
<1> USE DEF mainVars, jwtVars, resVars
<1>1. CASE Generate \/ Spawn \/ Release \/ JwtsDone \/ WorkersDone
  BY <1>1
  DEF Generate, Spawn, Release, JwtsDone, ReaderAfterJwts, WorkersDone, SystemTypeOK, ResultsType,
      MainPCs
<1>2. CASE SumWorker
  <2>1. summed \in 0 .. Conns /\ Conns \in Nat /\ summed + 1 \in 1 .. Conns
    BY <1>2, PayloaderAssumption DEF SumWorker, SystemTypeOK
  <2> DEFINE k == summed + 1
  <2>2. /\ completed[k] \in Nat /\ failed[k] \in Nat
        /\ responses[k] \in [Codes -> Nat] /\ errors[k] \in [Errs -> Nat]
    BY <2>1, PayloaderAssumption DEF FixedInv, BaseInv, Shape, TypeOK
  <2>3. /\ results.completed \in Nat /\ results.failed \in Nat
        /\ results.responses \in [Codes -> Nat] /\ results.errors \in [Errs -> Nat]
    BY DEF SystemTypeOK
  <2>4. results' = [results EXCEPT
          !.completed = results.completed + completed[k],
          !.failed    = results.failed + failed[k],
          !.responses = [c \in Codes |-> results.responses[c] + responses[k][c]],
          !.errors    = [e \in Errs |-> results.errors[e] + errors[k][e]]]
    BY <1>2, Zenon DEF SumWorker
  <2> HIDE DEF k
  <2>5. ResultsType'
    <3>1. results.completed + completed[k] \in Nat /\ results.failed + failed[k] \in Nat
      BY <2>2, <2>3
    <3>2. [c \in Codes |-> results.responses[c] + responses[k][c]] \in [Codes -> Nat]
      BY <2>2, <2>3
    <3>3. [e \in Errs |-> results.errors[e] + errors[k][e]] \in [Errs -> Nat]
      BY <2>2, <2>3
    <3> QED
      BY <2>4, <3>1, <3>2, <3>3 DEF ResultsType
  <2>6. /\ summed' \in 0 .. Conns
        /\ UNCHANGED <<main, wrapper, source, line, jwtStream, jwtPut, jwtErr, token, reader>>
    BY <1>2, <2>1 DEF SumWorker
  <2>7. /\ results'.completed \in Nat /\ results'.failed \in Nat /\ results'.samples \in Nat
        /\ results'.responses \in [Codes -> Nat] /\ results'.errors \in [Errs -> Nat]
    BY <2>5 DEF ResultsType
  <2> QED
    BY <2>5, <2>6, <2>7 DEF SystemTypeOK
<1>3. CASE Average
  <2>1. received \in Nat
    BY DEF FixedInv, BaseInv, Shape, TypeOK
  <2> QED
    BY <1>3, <2>1 DEF Average, SystemTypeOK, ResultsType, MainPCs
<1>4. CASE Produce
  <2>1. /\ line' = NextLine /\ NextLine \in 1 .. source.lines
        /\ source.lines \in Nat
    BY <1>4, NextLineType, SourceType DEF Produce, SystemTypeOK
  <2>2. /\ jwtStream' \in Seq(1 .. source.lines)
        /\ Len(jwtStream') = Len(jwtStream) + 1 /\ Len(jwtStream) \in Nat
    <3>1. jwtStream' = Append(jwtStream, NextLine)
      BY <1>4, <2>1 DEF Produce
    <3> QED
      BY <2>1, <3>1, AppendProperties, LenProperties DEF SystemTypeOK
  <2>3. Len(jwtStream') <= JwtCap
    BY <1>4, <2>2, PayloaderAssumption DEF Produce
  <2>4. jwtPut' \in 0 .. ReqTarget
    BY <1>4, PayloaderAssumption DEF Produce, MoreJwts, SystemTypeOK
  <2> QED
    BY <1>4, <2>1, <2>2, <2>3, <2>4 DEF Produce, SystemTypeOK, ResultsType
<1>5. CASE ProducerEnds \/ ReadSample \/ ReaderStops \/ Interrupt \/ Deliver \/ Timeout
  BY <1>5
  DEF ProducerEnds, ReadSample, ReaderStops, Interrupt, Deliver, Timeout, SystemTypeOK, ResultsType
<1>6. ASSUME NEW w \in Workers, NEW i \in Reqs, ReceiveJwt(w, i)
      PROVE  SystemTypeOK' /\ ResultsType'
  <2>1. CASE jwtStream # <<>>
    <3>1. /\ Head(jwtStream) \in 1 .. source.lines
          /\ Tail(jwtStream) \in Seq(1 .. source.lines)
          /\ Len(jwtStream) \in Nat /\ Len(Tail(jwtStream)) = Len(jwtStream) - 1
      BY <2>1, StreamTaken DEF SystemTypeOK
    <3>2. /\ token' = [token EXCEPT ![w][i] = Head(jwtStream)]
          /\ jwtStream' = Tail(jwtStream)
      BY <1>6, <2>1 DEF ReceiveJwt
    <3>3. Head(jwtStream) \in 0 .. source.lines
      BY <3>1, SourceType DEF SystemTypeOK
    <3>4. token' \in [Workers -> [Reqs -> 0 .. source.lines]]
      BY <3>2, <3>3 DEF SystemTypeOK
    <3>5. Len(jwtStream') <= JwtCap
      BY <3>1, <3>2, PayloaderAssumption DEF SystemTypeOK
    <3> QED
      BY <1>6, <3>1, <3>2, <3>4, <3>5 DEF ReceiveJwt, SystemTypeOK, ResultsType
  <2>2. CASE jwtStream = <<>>
    BY <1>6, <2>2 DEF ReceiveJwt, SystemTypeOK, ResultsType
  <2> QED
    BY <2>1, <2>2
<1>7. CASE UNCHANGED <<mainVars, jwtVars, resVars>>
  BY <1>7 DEF SystemTypeOK, ResultsType
<1> QED
  BY <1>1, <1>2, <1>3, <1>4, <1>5, <1>6, <1>7
  DEF SystemNext, HandleReqs, WorkerMoves, RequestMoves, sysVars

-------------------------------------------------------------------------------
(* Where handleReqs is. *)

\* A request's step moves nothing but the request and its statistics.
LEMMA RequestMovesOnly ==
  ASSUME NEW w \in Workers, NEW i \in Reqs, RequestMoves(w, i)
  PROVE  /\ RequestStep(w, i)
         /\ UNCHANGED <<started, ctxDone, pc, sent, received>>
         /\ UNCHANGED <<main, wrapper, source, line, jwtPut, jwtErr, reader, summed, results>>
<1>1. RequestStep(w, i)
  BY DEF RequestMoves, ReceiveJwt, RequestStep
<1>2. UNCHANGED <<started, ctxDone, pc, sent, received>>
  BY <1>1
  DEF RequestStep, NewReq, Middleware, Do, LockResp, SuccessLockFree, StoreResp, Sample, LockErr,
      StoreErr, OneMoreFailed, Finish, Left, loopVars, chanVars
<1>3. UNCHANGED <<main, wrapper, source, line, jwtPut, jwtErr, reader, summed, results>>
  BY DEF RequestMoves, ReceiveJwt, mainVars, jwtVars, resVars
<1> QED
  BY <1>1, <1>2, <1>3

LEMMA MainInit == SystemInit => MainInv
<1> SUFFICES ASSUME SystemInit PROVE MainInv
  OBVIOUS
<1> QED
  BY DEF SystemInit, BaseInit, MainInv

LEMMA MainStep ==
  ASSUME FixedInv, SystemTypeOK, MainInv, [SystemNext]_sysVars
  PROVE  MainInv'
<1>0. /\ pc \in [Workers -> PCs] /\ sent \in [Workers -> Nat]
      /\ received \in Nat
  BY WorkerBaseAssumption, SMT DEF FixedInv, BaseInv, Shape, TypeOK
<1>1. CASE Generate \/ Spawn \/ JwtsDone \/ WorkersDone
  BY <1>1
  DEF Generate, Spawn, JwtsDone, WorkersDone, vars, baseVars, loopVars, chanVars, jwtVars, resVars,
      SystemTypeOK, MainInv, AllDone
<1>2. CASE Release
  BY <1>2 DEF Release, StartWorkers, chanVars, jwtVars, MainInv, AllDone
<1>3. CASE SumWorker
  BY <1>3 DEF SumWorker, vars, baseVars, loopVars, chanVars, mainVars, jwtVars, MainInv, AllDone
<1>4. CASE Average
  <2>1. results'.samples = received /\ received <= received
    BY <1>0, <1>3, <1>4 DEF Average, SystemTypeOK
  <2> QED
    BY <1>4, <2>1 DEF Average, vars, baseVars, loopVars, chanVars, jwtVars, MainInv, AllDone
<1>5. CASE Produce \/ ProducerEnds
  BY <1>5
  DEF Produce, ProducerEnds, JwtOpen, vars, baseVars, loopVars, chanVars, mainVars, resVars, MainInv,
      AllDone
<1>6. CASE ReadSample
  <2>1. received' = received + 1
    BY <1>6 DEF ReadSample, RecvSample, SampleReady
  <2>2. ASSUME main = "returned" PROVE results.samples <= received'
    BY <1>0, <2>1, <2>2 DEF SystemTypeOK, MainInv
  <2> QED
    BY <1>6, <2>2
    DEF ReadSample, RecvSample, SampleReady, loopVars, mainVars, jwtVars, resVars, MainInv, AllDone
<1>7. CASE ReaderStops \/ Interrupt \/ Deliver \/ Timeout \/ UNCHANGED sysVars
  BY <1>7
  DEF ReaderStops, Interrupt, Cancel, Deliver, Timeout, sysVars, vars, baseVars, loopVars, chanVars,
      mainVars, jwtVars, resVars, MainInv, AllDone
<1>8. ASSUME NEW w \in Workers, NEW i \in Reqs, RequestMoves(w, i) PROVE MainInv'
  BY <1>8, RequestMovesOnly DEF MainInv, AllDone
<1>9. ASSUME NEW w \in Workers, WorkerMoves(w) PROVE MainInv'
  <2>1. /\ UNCHANGED <<started, received, main, jwtErr, summed, results>>
        /\ pc[w] # "exit"
        /\ pc[w] = "start" => started
        /\ pc'[w] # "start"
        /\ \A v \in Workers : v # w => pc'[v] = pc[v] /\ sent'[v] = sent[v]
    BY <1>0, <1>9, SMT
    DEF WorkerMoves, WorkerStep, Begin, Launch, Run, Added, Cancelled, Quit, Drained, AllStarted,
        Drain, WaitIfParallel, Join, loopVars, chanVars, mainVars, jwtVars, resVars
  <2> QED
    BY <2>1 DEF MainInv, AllDone
<1> QED
  BY <1>1, <1>2, <1>3, <1>4, <1>5, <1>6, <1>7, <1>8, <1>9 DEF SystemNext, HandleReqs
-------------------------------------------------------------------------------
(* The results. *)

LEMMA CancelStays ==
  ASSUME [Next]_vars, ctxDone
  PROVE  ctxDone'
<1>1. ASSUME NEW w \in Workers, WorkerStep(w) PROVE ctxDone'
  BY <1>1
  DEF WorkerStep, Begin, Launch, Run, Added, Cancelled, Quit, Drained, AllStarted, Drain,
      WaitIfParallel, Join, loopVars
<1>2. ASSUME NEW w \in Workers, NEW i \in Reqs, RequestStep(w, i) PROVE ctxDone'
  BY <1>2, StepIsLive
<1>3. CASE StartWorkers \/ Cancel \/ RecvSample \/ UNCHANGED vars
  BY <1>3 DEF StartWorkers, Cancel, RecvSample, SampleReady, vars, baseVars, loopVars
<1> QED
  BY <1>1, <1>2, <1>3 DEF Next

\* When all workers of a run nobody cancelled have returned, nothing runs and
\* every account is closed.
LEMMA AllQuiet ==
  ASSUME FixedInv, AllDone, ~ctxDone, NEW w \in Workers
  PROVE  /\ Live(w) = {}
         /\ sent[w] = Target[w]
         /\ completed[w] + failed[w] = Target[w]
         /\ completed[w] = Cardinality(Stored(w))
<1>1. sent[w] = Target[w] /\ Live(w) = {}
  BY DEF AllDone, FixedInv, LoopInv
<1>2. completed[w] + failed[w] = sent[w]
  BY <1>1, QuietAccount DEF FixedInv
<1>3. Stored(w) = Counted(w)
  <2>1. \A i \in Reqs : phase[w][i] \in {"idle", "done"}
    BY <1>1 DEF Live
  <2> QED
    BY <2>1 DEF Stored, Counted
<1>4. completed[w] = Cardinality(Counted(w))
  BY DEF FixedInv, BaseInv, NoLostUpdate
<1> QED
  BY <1>1, <1>2, <1>3, <1>4

\* Summing numbers over the first workers, one more at a time.
LEMMA SumNext ==
  ASSUME NEW f, NEW n \in Nat, n < Conns, \A w \in Workers : f[w] \in Nat
  PROVE  SumOf(f, 1 .. n + 1) = SumOf(f, 1 .. n) + f[n + 1] /\ SumOf(f, 1 .. n) \in Nat
<1>1. n + 1 \in Workers /\ 1 .. n \subseteq Workers
  BY PayloaderAssumption
<1>2. IsFiniteSet(1 .. n)
  BY UpTo
<1>3. IsFiniteSet(Units(f, 1 .. n))
  BY <1>1, <1>2, FiniteUnits
<1>4. n + 1 \notin 1 .. n /\ f[n + 1] \in Nat
  BY <1>1
<1>5. SumOf(f, (1 .. n) \cup {n + 1}) = SumOf(f, 1 .. n) + f[n + 1]
  BY <1>3, <1>4, SumAdd, Zenon
<1>6. 1 .. n + 1 = (1 .. n) \cup {n + 1}
  OBVIOUS
<1> QED
  BY <1>3, <1>5, <1>6, SumType

LEMMA ResultsInit == SystemInit => ResultsInv
<1> SUFFICES ASSUME SystemInit PROVE ResultsInv
  OBVIOUS
<1>1. summed = 0 /\ 1 .. 0 = {}
  BY DEF SystemInit
<1>2. SumOf(Target, {}) = 0 /\ SumOf(completed, {}) = 0
  BY SumEmpty
<1>3. /\ results.completed = 0 /\ results.failed = 0
      /\ \A c \in Codes : results.responses[c] = 0
      /\ \A e \in Errs : results.errors[e] = 0
  BY DEF SystemInit
<1>4. /\ IsFiniteSet(Units(results.responses, Codes)) /\ SumOf(results.responses, Codes) = 0
      /\ IsFiniteSet(Units(results.errors, Errs)) /\ SumOf(results.errors, Errs) = 0
  BY <1>3, SumZero
<1> QED
  BY <1>1, <1>2, <1>3, <1>4 DEF ResultsInv

LEMMA ResultsSum ==
  ASSUME FixedInv, Totals, SystemTypeOK, ResultsType, MainInv, ResultsInv, SumWorker
  PROVE  ResultsInv'
<1> SUFFICES ASSUME ~ctxDone PROVE ResultsInv'
  BY DEF SumWorker, vars, baseVars, loopVars, ResultsInv
<1> DEFINE k == summed + 1
<1>1. AllDone /\ summed \in Nat /\ summed < Conns /\ summed' = k /\ k \in Workers
  BY PayloaderAssumption DEF SumWorker, MainInv, SystemTypeOK
<1>2. UNCHANGED <<ctxDone, completed, failed, responses, errors>>
  BY DEF SumWorker, vars, baseVars, loopVars, statVars
<1>3. results' = [results EXCEPT
        !.completed = results.completed + completed[k],
        !.failed    = results.failed + failed[k],
        !.responses = [c \in Codes |-> results.responses[c] + responses[k][c]],
        !.errors    = [e \in Errs |-> results.errors[e] + errors[k][e]]]
  BY Zenon DEF SumWorker
<1> HIDE DEF k
<1>4. /\ completed \in [Workers -> Nat] /\ failed \in [Workers -> Nat]
      /\ responses[k] \in [Codes -> Nat] /\ errors[k] \in [Errs -> Nat]
      /\ Target \in [Workers -> Nat]
  BY <1>1, FixedReqsAssumption, WorkerBaseAssumption DEF FixedInv, BaseInv, Shape, TypeOK
<1>5. /\ results'.completed = results.completed + completed[k]
      /\ results'.failed = results.failed + failed[k]
      /\ \A c \in Codes : results'.responses[c] = results.responses[c] + responses[k][c]
      /\ \A e \in Errs : results'.errors[e] = results.errors[e] + errors[k][e]
      /\ results.completed \in Nat /\ results.failed \in Nat
      /\ results.responses \in [Codes -> Nat] /\ results.errors \in [Errs -> Nat]
  BY <1>3 DEF ResultsType
<1>6. completed[k] + failed[k] = Target[k] /\ completed[k] = Cardinality(Stored(k))
  BY <1>1, AllQuiet
<1>7. /\ SumOf(Target, 1 .. k) = SumOf(Target, 1 .. summed) + Target[k]
      /\ SumOf(Target, 1 .. summed) \in Nat
      /\ SumOf(completed, 1 .. k) = SumOf(completed, 1 .. summed) + completed[k]
      /\ SumOf(completed, 1 .. summed) \in Nat
  BY <1>1, <1>4, SumNext DEF k
<1>8. /\ results.completed + results.failed = SumOf(Target, 1 .. summed)
      /\ results.completed = SumOf(completed, 1 .. summed)
  BY DEF ResultsInv
<1>9. /\ results'.completed + results'.failed = SumOf(Target, 1 .. k)
      /\ results'.completed = SumOf(completed, 1 .. k)
  BY <1>1, <1>4, <1>5, <1>6, <1>7, <1>8
<1>10. /\ IsFiniteSet(Units(results'.responses, Codes))
       /\ SumOf(results'.responses, Codes) = results'.completed
  <2>1. /\ IsFiniteSet(Units(results.responses, Codes))
        /\ SumOf(results.responses, Codes) = results.completed
        /\ IsFiniteSet(Units(responses[k], Codes))
        /\ SumOf(responses[k], Codes) = completed[k]
    BY <1>1, <1>6 DEF ResultsInv, Totals, Breakdown
  <2> DEFINE f == results.responses
             g == responses[k]
             h == results'.responses
  <2>2. \A c \in Codes : f[c] \in Nat /\ g[c] \in Nat /\ h[c] = f[c] + g[c]
    BY <1>4, <1>5
  <2>3. IsFiniteSet(Units(f, Codes)) /\ IsFiniteSet(Units(g, Codes))
    BY <2>1
  <2> HIDE DEF f, g, h
  <2>4. IsFiniteSet(Units(h, Codes)) /\ SumOf(h, Codes) = SumOf(f, Codes) + SumOf(g, Codes)
    BY <2>2, <2>3, SumPlus
  <2> QED
    BY <1>5, <2>1, <2>4 DEF f, g, h
<1>11. /\ IsFiniteSet(Units(results'.errors, Errs))
       /\ SumOf(results'.errors, Errs) = results'.failed
  <2>1. /\ IsFiniteSet(Units(results.errors, Errs))
        /\ SumOf(results.errors, Errs) = results.failed
        /\ IsFiniteSet(Units(errors[k], Errs))
        /\ SumOf(errors[k], Errs) = failed[k]
    BY <1>1 DEF ResultsInv, Totals, Breakdown
  <2> DEFINE f == results.errors
             g == errors[k]
             h == results'.errors
  <2>2. \A e \in Errs : f[e] \in Nat /\ g[e] \in Nat /\ h[e] = f[e] + g[e]
    BY <1>4, <1>5
  <2>3. IsFiniteSet(Units(f, Errs)) /\ IsFiniteSet(Units(g, Errs))
    BY <2>1
  <2> HIDE DEF f, g, h
  <2>4. IsFiniteSet(Units(h, Errs)) /\ SumOf(h, Errs) = SumOf(f, Errs) + SumOf(g, Errs)
    BY <2>2, <2>3, SumPlus
  <2> QED
    BY <1>5, <2>1, <2>4 DEF f, g, h
<1> QED
  BY <1>1, <1>2, <1>9, <1>10, <1>11 DEF ResultsInv

LEMMA CountersStill ==
  ASSUME FixedInv, AllDone, ~ctxDone, [SystemNext]_sysVars
  PROVE  UNCHANGED completed
<1>1. ASSUME NEW w \in Workers, NEW i \in Reqs, RequestMoves(w, i) PROVE FALSE
  BY <1>1, AllQuiet, RequestMovesOnly, StepIsLive
<1>2. ASSUME NEW w \in Workers, WorkerMoves(w) PROVE UNCHANGED completed
  BY <1>2
  DEF WorkerMoves, WorkerStep, Begin, Launch, Run, Added, Cancelled, Quit, Drained, AllStarted,
      Drain, WaitIfParallel, Join, statVars
<1>3. CASE HandleReqs
  BY <1>3
  DEF HandleReqs, Generate, Spawn, Release, StartWorkers, JwtsDone, WorkersDone, SumWorker, Average,
      vars, baseVars, statVars
<1>4. CASE ReadSample \/ ReaderStops \/ Produce \/ ProducerEnds
  BY <1>4
  DEF ReadSample, RecvSample, SampleReady, ReaderStops, Produce, ProducerEnds, vars, baseVars, statVars
<1>5. CASE Interrupt \/ Deliver \/ Timeout \/ UNCHANGED sysVars
  BY <1>5 DEF Interrupt, Cancel, Deliver, Timeout, sysVars, vars, baseVars, statVars
<1> QED
  BY <1>1, <1>2, <1>3, <1>4, <1>5 DEF SystemNext

\* Only ComputeResults changes the results.
LEMMA ResultsOnlyThere ==
  ASSUME [SystemNext]_sysVars, ~SumWorker, ~Average
  PROVE  UNCHANGED <<summed, results>>
<1>1. ASSUME NEW w \in Workers, NEW i \in Reqs, RequestMoves(w, i)
      PROVE  UNCHANGED <<summed, results>>
  BY <1>1, RequestMovesOnly
<1>2. ASSUME NEW w \in Workers, WorkerMoves(w) PROVE UNCHANGED <<summed, results>>
  BY <1>2 DEF WorkerMoves, resVars
<1>3. CASE Generate \/ Spawn \/ Release \/ JwtsDone \/ WorkersDone
  BY <1>3 DEF Generate, Spawn, Release, JwtsDone, WorkersDone, resVars
<1>4. CASE ReadSample \/ ReaderStops \/ Produce \/ ProducerEnds
  BY <1>4 DEF ReadSample, ReaderStops, Produce, ProducerEnds, resVars
<1>5. CASE Interrupt \/ Deliver \/ Timeout \/ UNCHANGED sysVars
  BY <1>5 DEF Interrupt, Deliver, Timeout, sysVars, resVars
<1> QED
  BY <1>1, <1>2, <1>3, <1>4, <1>5 DEF SystemNext, HandleReqs

LEMMA ResultsStep ==
  ASSUME FixedInv, Totals, SystemTypeOK, ResultsType, MainInv, ResultsInv, [SystemNext]_sysVars
  PROVE  ResultsInv'
<1>1. CASE SumWorker
  BY <1>1, ResultsSum
<1>2. CASE ~SumWorker
  <2> SUFFICES ASSUME ~ctxDone' PROVE ResultsInv'
    BY DEF ResultsInv
  <2>1. ~ctxDone
    BY SystemIsNext, CancelStays
  <2>2. /\ summed' = summed
        /\ results'.completed = results.completed /\ results'.failed = results.failed
        /\ results'.responses = results.responses /\ results'.errors = results.errors
    <3>1. CASE Average
      BY <3>1 DEF Average, ResultsType
    <3>2. CASE ~Average
      BY <1>2, <3>2, ResultsOnlyThere
    <3> QED
      BY <3>1, <3>2
  <2>3. SumOf(completed, 1 .. summed)' = SumOf(completed, 1 .. summed)
    <3>1. CASE summed = 0
      <4>1. 1 .. 0 = {} /\ summed' = 0
        BY <2>2, <3>1
      <4> QED
        BY <3>1, <4>1, SumEmpty
    <3>2. CASE summed # 0
      <4>1. AllDone
        BY <3>2 DEF MainInv, SystemTypeOK
      <4> QED
        BY <2>1, <2>2, <4>1, CountersStill
    <3> QED
      BY <3>1, <3>2
  <2> QED
    BY <2>1, <2>2, <2>3 DEF ResultsInv
<1> QED
  BY <1>1, <1>2
-------------------------------------------------------------------------------
(* The JWTs and the requests they go to. *)

LEMMA TargetTotal ==
  IsFiniteSet(Units(Target, Workers)) /\ SumOf(Target, Workers) = ReqTarget
<1>1. \A x \in 1 .. Conns :
        Target[x] = ReqTarget \div Conns + (IF x <= ReqTarget % Conns THEN 1 ELSE 0)
  BY PayloaderAssumption DEF Share
<1>2. Conns \in Nat \ {0} /\ ReqTarget \in Nat /\ Workers = 1 .. Conns
  BY PayloaderAssumption
<1> QED
  BY <1>1, <1>2, SharesSum

\* No more requests are begun than were asked for.
LEMMA BegunBounded ==
  ASSUME FixedInv
  PROVE  /\ Begun \subseteq Units(Target, Workers)
         /\ IsFiniteSet(Begun) /\ Cardinality(Begun) <= ReqTarget
<1>1. ASSUME NEW w \in Workers, NEW i \in Reqs, phase[w][i] # "idle"
      PROVE  i \in 1 .. Target[w]
  <2>1. sent[w] \in Nat /\ Target[w] \in Nat /\ i \in Nat /\ i >= 1
    BY FixedReqsAssumption, WorkerBaseAssumption, SMT
    DEF Reqs, FixedInv, BaseInv, Shape, TypeOK
  <2>2. ~(i > sent[w]) /\ sent[w] <= Target[w]
    BY <1>1 DEF FixedInv, LoopInv, BaseInv, Shape, StartedInOrder
  <2> QED
    BY <2>1, <2>2
<1>2. Begun \subseteq Units(Target, Workers)
  <2> SUFFICES ASSUME NEW r \in Begun PROVE r \in Units(Target, Workers)
    OBVIOUS
  <2>1. PICK w \in Workers : \E i \in Reqs : r = <<w, i>> /\ phase[w][i] # "idle"
    BY DEF Begun
  <2>2. PICK i \in Reqs : r = <<w, i>> /\ phase[w][i] # "idle"
    BY <2>1
  <2>3. i \in 1 .. Target[w]
    BY <1>1, <2>2
  <2> QED
    BY <2>2, <2>3, UnitsAre
<1> QED
  BY <1>2, TargetTotal, FS_Subset DEF SumOf

\* Only a request that has been sent holds a JWT.
LEMMA TokenedBegun ==
  ASSUME FixedInv, JwtInv
  PROVE  /\ Tokened \subseteq Begun
         /\ IsFiniteSet(Tokened) /\ Cardinality(Tokened) \in Nat
<1>1. Tokened \subseteq Begun
  BY DEF Tokened, Begun, JwtInv
<1> QED
  BY <1>1, BegunBounded, FS_Subset, FS_CardinalityType

LEMMA JwtInit == SystemInit => JwtInv
<1> SUFFICES ASSUME SystemInit PROVE JwtInv
  OBVIOUS
<1>1. Tokened = {}
  BY DEF SystemInit, Tokened, NoToken
<1>2. Cardinality({}) = 0 /\ Len(<<>>) = 0
  BY FS_EmptySet, EmptySeq
<1>3. \A w \in Workers : \A i \in Reqs : /\ token[w][i] = NoToken
                                         /\ phase[w][i] = "idle" /\ outcome[w][i] = None
  BY DEF SystemInit, BaseInit
<1> QED
  BY <1>1, <1>2, <1>3 DEF SystemInit, JwtInv, SentBare

\* A worker without a JWT middleware asks for none.
LEMMA JwtRequestStep ==
  ASSUME FixedInv, JwtInv, NEW w \in Workers, NEW i \in Reqs,
         RequestMoves(w, i), ~ReceiveJwt(w, i)
  PROVE  JwtInv'
<1>1. /\ RequestStep(w, i) /\ ~Middleware(w, i)
      /\ UNCHANGED <<token, jwtStream, jwtPut, jwtErr>>
  BY RequestMovesOnly DEF RequestMoves, jwtVars, NewReq, Middleware, Do, LockResp, StoreResp,
     Sample, LockErr, StoreErr, Finish
<1>2. Shape
  BY DEF FixedInv, BaseInv
<1>3. \A v \in Workers : \A j \in Reqs : v # w \/ j # i =>
        phase'[v][j] = phase[v][j] /\ outcome'[v][j] = outcome[v][j]
  BY <1>1, <1>2, OthersKeep
<1> DEFINE early == {"idle", "new", "jwt", "send"}
<1>4. \/ /\ phase[w][i] = "new"
         /\ \/ /\ phase'[w][i] = IF UsesJwt THEN "jwt" ELSE "send"
               /\ outcome'[w][i] = outcome[w][i]
            \/ phase'[w][i] = "err" /\ outcome'[w][i] \in ReqErrs
      \/ /\ phase[w][i] = "send" /\ phase'[w][i] \in {"resp", "err"}
         /\ outcome'[w][i] \in Codes \cup DoErrs
      \/ phase[w][i] \notin early /\ phase'[w][i] \notin early /\ outcome'[w][i] = outcome[w][i]
  <2>1. CASE NewReq(w, i)
    BY <1>2, <2>1, SMT DEF NewReq, Shape, TypeOK
  <2>2. CASE Do(w, i)
    BY <1>2, <2>2, SMT DEF Do, Shape, TypeOK
  <2>3. CASE LockResp(w, i) \/ StoreResp(w, i) \/ Sample(w, i)
    BY <1>2, <2>3, SMT DEF LockResp, SuccessLockFree, StoreResp, Sample, Shape, TypeOK
  <2>4. CASE LockErr(w, i) \/ StoreErr(w, i) \/ Finish(w, i)
    BY <1>2, <2>4, SMT DEF LockErr, StoreErr, OneMoreFailed, Finish, Left, Shape, TypeOK
  <2> QED
    BY <1>1, <2>1, <2>2, <2>3, <2>4 DEF RequestStep
<1>5. /\ Codes \cap ReqErrs = {} /\ DoErrs \cap ReqErrs = {} /\ None \notin ReqErrs
  BY WorkerBaseAssumption, PayloaderAssumption DEF Errs
<1>6. /\ token[w][i] # NoToken => /\ phase[w][i] \notin {"idle", "new", "jwt"}
                                  /\ outcome[w][i] \notin ReqErrs
      /\ phase[w][i] \in early => outcome[w][i] = None
      /\ SentBare(w, i) => jwtErr = "error"
  BY DEF JwtInv
<1>7. /\ token'[w][i] # NoToken => /\ phase'[w][i] \notin {"idle", "new", "jwt"}
                                   /\ outcome'[w][i] \notin ReqErrs
      /\ phase'[w][i] \in early => outcome'[w][i] = None
  BY <1>1, <1>4, <1>5, <1>6
<1>8. SentBare(w, i)' => jwtErr' = "error"
  BY <1>1, <1>4, <1>5, <1>6 DEF SentBare
<1>9. Tokened' = Tokened
  BY <1>1 DEF Tokened
<1> QED
  BY <1>1, <1>3, <1>7, <1>8, <1>9 DEF JwtInv, SentBare

\* A request that receives nothing finds a stream that failed: one that was
\* closed in good order held a JWT for each request.
LEMMA BareOnlyIfFailed ==
  ASSUME FixedInv, SystemTypeOK, JwtInv, NEW w \in Workers, NEW i \in Reqs,
         ReceiveJwt(w, i), jwtStream = <<>>
  PROVE  jwtErr = "error"
<1> SUFFICES ASSUME jwtErr = "closed" PROVE FALSE
  BY DEF ReceiveJwt, SystemTypeOK
<1>1. Cardinality(Tokened) + 0 = ReqTarget
  BY EmptySeq DEF JwtInv
<1>2. phase[w][i] = "jwt"
  BY DEF ReceiveJwt, Middleware
<1>3. <<w, i>> \in Begun /\ <<w, i>> \notin Tokened
  BY <1>2 DEF Begun, Tokened, JwtInv
<1>4. Cardinality(Tokened \cup {<<w, i>>}) = Cardinality(Tokened) + 1
  BY <1>3, TokenedBegun, FS_AddElement
<1>5. Tokened \cup {<<w, i>>} \subseteq Begun
  BY <1>3, TokenedBegun
<1>6. Cardinality(Tokened \cup {<<w, i>>}) <= Cardinality(Begun)
  BY <1>5, BegunBounded, FS_Subset
<1>7. Cardinality(Begun) \in Nat /\ Cardinality(Begun) <= ReqTarget
  BY BegunBounded, FS_CardinalityType
<1> QED
  BY <1>1, <1>4, <1>6, <1>7, TokenedBegun, PayloaderAssumption

LEMMA JwtReceiveStep ==
  ASSUME FixedInv, SystemTypeOK, JwtInv, NEW w \in Workers, NEW i \in Reqs, ReceiveJwt(w, i)
  PROVE  JwtInv'
<1>1. Shape /\ Middleware(w, i) /\ UNCHANGED <<jwtPut, jwtErr>>
  BY DEF FixedInv, BaseInv, ReceiveJwt
<1>2. /\ phase[w][i] = "jwt" /\ phase'[w][i] = "send"
      /\ UNCHANGED outcome
      /\ \A v \in Workers : \A j \in Reqs : v # w \/ j # i => phase'[v][j] = phase[v][j]
  BY <1>1, SMT DEF Middleware, Shape, TypeOK
<1>3. token[w][i] = NoToken /\ outcome[w][i] = None /\ None \notin ReqErrs
  BY <1>2, WorkerBaseAssumption DEF JwtInv, Errs
<1>4. CASE jwtStream # <<>>
  <2>1. /\ Head(jwtStream) \in 1 .. source.lines /\ Head(jwtStream) # NoToken
        /\ Len(jwtStream) \in Nat /\ Len(Tail(jwtStream)) = Len(jwtStream) - 1
    BY <1>4, StreamTaken, SourceType DEF SystemTypeOK, NoToken
  <2>2. /\ token' = [token EXCEPT ![w][i] = Head(jwtStream)]
        /\ jwtStream' = Tail(jwtStream)
    BY <1>4 DEF ReceiveJwt
  <2>3. /\ token'[w][i] # NoToken
        /\ \A v \in Workers : \A j \in Reqs : v # w \/ j # i => token'[v][j] = token[v][j]
    BY <2>1, <2>2 DEF SystemTypeOK
  <2>4. Tokened' = Tokened \cup {<<w, i>>} /\ <<w, i>> \notin Tokened
    BY <1>3, <2>3 DEF Tokened
  <2>5. Cardinality(Tokened') = Cardinality(Tokened) + 1
    BY <2>4, TokenedBegun, Grow
  <2>6. Cardinality(Tokened') + Len(jwtStream') = jwtPut'
    <3>1. Cardinality(Tokened) + Len(jwtStream) = jwtPut
      BY DEF JwtInv
    <3>2. Cardinality(Tokened) \in Nat
      BY TokenedBegun
    <3>3. jwtPut' = jwtPut /\ Len(jwtStream') = Len(jwtStream) - 1
      BY <1>1, <2>1, <2>2
    <3> QED
      BY <2>1, <2>5, <3>1, <3>2, <3>3
  <2> QED
    BY <1>1, <1>2, <1>3, <2>3, <2>6 DEF JwtInv, SentBare
<1>5. CASE jwtStream = <<>>
  <2>1. UNCHANGED <<token, jwtStream>> /\ jwtErr = "error"
    BY <1>5, BareOnlyIfFailed DEF ReceiveJwt
  <2>2. Tokened' = Tokened
    BY <2>1 DEF Tokened
  <2> QED
    BY <1>1, <1>2, <1>3, <2>1, <2>2 DEF JwtInv, SentBare
<1> QED
  BY <1>4, <1>5

LEMMA JwtProducerStep ==
  ASSUME FixedInv, SystemTypeOK, JwtInv, Produce \/ ProducerEnds
  PROVE  JwtInv'
<1>1. UNCHANGED <<phase, outcome, token>> /\ jwtErr = "open"
  BY DEF Produce, ProducerEnds, JwtOpen, vars, baseVars
<1>2. Tokened' = Tokened
  BY <1>1 DEF Tokened
<1>3. \A w \in Workers : \A i \in Reqs : ~SentBare(w, i)
  BY <1>1 DEF JwtInv
<1>4. \A w \in Workers : \A i \in Reqs : ~SentBare(w, i)'
  BY <1>1, <1>3 DEF SentBare
<1>5. CASE Produce
  <2>1. Len(jwtStream') = Len(jwtStream) + 1 /\ Len(jwtStream) \in Nat
    <3>1. NextLine \in 1 .. source.lines
      BY <1>5, NextLineType DEF Produce
    <3>2. jwtStream' = Append(jwtStream, NextLine)
      BY <1>5 DEF Produce
    <3> QED
      BY <3>1, <3>2, AppendProperties, LenProperties DEF SystemTypeOK
  <2>2. jwtPut' = jwtPut + 1 /\ jwtErr' = jwtErr
    BY <1>5 DEF Produce
  <2>3. Cardinality(Tokened') + Len(jwtStream') = jwtPut'
    BY <1>2, <2>1, <2>2, TokenedBegun DEF JwtInv
  <2> QED
    BY <1>1, <1>4, <2>2, <2>3 DEF JwtInv
<1>6. CASE ProducerEnds
  <2>1. /\ UNCHANGED <<jwtStream, jwtPut>>
        /\ jwtErr' = "closed" => ~MoreJwts
    BY <1>6 DEF ProducerEnds
  <2>2. jwtErr' = "closed" => jwtPut' = ReqTarget
    BY <2>1, PayloaderAssumption DEF MoreJwts, SystemTypeOK
  <2> QED
    BY <1>1, <1>2, <1>4, <2>1, <2>2 DEF JwtInv
<1> QED
  BY <1>5, <1>6

LEMMA JwtWorkerStep ==
  ASSUME FixedInv, JwtInv, NEW w \in Workers, WorkerMoves(w)
  PROVE  JwtInv'
<1>1. Shape /\ UNCHANGED <<token, jwtStream, jwtPut, jwtErr>>
  BY DEF FixedInv, BaseInv, WorkerMoves, jwtVars
<1>2. Tokened' = Tokened
  BY <1>1 DEF Tokened
<1>3. CASE Launch(w)
  <2>1. sent[w] + 1 \in Reqs /\ phase[w][sent[w] + 1] = "idle"
    BY <1>1, <1>3, WorkerBaseAssumption, SMT
    DEF Launch, Run, Added, Shape, TypeOK, StartedInOrder, Reqs
  <2>2. /\ UNCHANGED outcome
        /\ \A v \in Workers : \A j \in Reqs :
             phase'[v][j] = IF v = w /\ j = sent[w] + 1 THEN "new" ELSE phase[v][j]
    BY <1>1, <1>3, <2>1, SMT DEF Launch, Run, Added, Shape, TypeOK
  <2> QED
    BY <1>1, <1>2, <2>1, <2>2 DEF JwtInv, SentBare
<1>4. CASE Begin(w) \/ Cancelled(w) \/ Drained(w) \/ Join(w)
  <2>1. UNCHANGED <<phase, outcome>>
    BY <1>4 DEF Begin, Cancelled, Quit, Drained, AllStarted, Drain, WaitIfParallel, Join
  <2> QED
    BY <1>1, <1>2, <2>1 DEF JwtInv, SentBare
<1> QED
  BY <1>3, <1>4 DEF WorkerMoves, WorkerStep

\* Everything else leaves the requests and the JWTs alone.
LEMMA JwtsElsewhere ==
  ASSUME HandleReqs \/ ReadSample \/ ReaderStops \/ Interrupt \/ Deliver \/ Timeout
         \/ UNCHANGED sysVars
  PROVE  /\ UNCHANGED <<phase, outcome>>
         /\ UNCHANGED <<source, line, jwtStream, jwtPut, jwtErr, token>>
<1>1. CASE HandleReqs
  BY <1>1
  DEF HandleReqs, Generate, Spawn, Release, StartWorkers, JwtsDone, WorkersDone, SumWorker, Average,
      vars, baseVars, jwtVars
<1>2. CASE ~HandleReqs
  BY <1>2
  DEF ReadSample, RecvSample, SampleReady, ReaderStops, Interrupt, Cancel, Deliver, Timeout, sysVars,
      vars, baseVars, jwtVars
<1> QED
  BY <1>1, <1>2

LEMMA JwtStep ==
  ASSUME FixedInv, SystemTypeOK, JwtInv, [SystemNext]_sysVars
  PROVE  JwtInv'
<1>1. CASE HandleReqs \/ ReadSample \/ ReaderStops \/ Interrupt \/ Deliver \/ Timeout
           \/ UNCHANGED sysVars
  BY <1>1, JwtsElsewhere DEF JwtInv, SentBare, Tokened
<1>2. CASE Produce \/ ProducerEnds
  BY <1>2, JwtProducerStep
<1>3. ASSUME NEW w \in Workers, WorkerMoves(w) PROVE JwtInv'
  BY <1>3, JwtWorkerStep
<1>4. ASSUME NEW w \in Workers, NEW i \in Reqs, RequestMoves(w, i) PROVE JwtInv'
  BY <1>4, JwtReceiveStep, JwtRequestStep
<1> QED
  BY <1>1, <1>2, <1>3, <1>4 DEF SystemNext
-------------------------------------------------------------------------------
(* The turns of the JWTs. *)

Holders(l) == {r \in Workers \X Reqs : token[r[1]][r[2]] = l}

\* Where l is in a sequence.
Places(s, l) == {k \in 1 .. Len(s) : s[k] = l}

LEMMA PlacesFinite ==
  ASSUME NEW S, NEW s \in Seq(S), NEW l
  PROVE  IsFiniteSet(Places(s, l)) /\ Cardinality(Places(s, l)) \in Nat
<1>1. Len(s) \in Nat
  BY LenProperties
<1>2. IsFiniteSet(1 .. Len(s)) /\ Places(s, l) \subseteq 1 .. Len(s)
  BY <1>1, UpTo DEF Places
<1> QED
  BY <1>2, FS_Subset, FS_CardinalityType

LEMMA PlacesAppend ==
  ASSUME NEW S, NEW s \in Seq(S), NEW e \in S, NEW l
  PROVE  Cardinality(Places(Append(s, e), l)) =
           Cardinality(Places(s, l)) + (IF e = l THEN 1 ELSE 0)
<1>1. /\ Len(s) \in Nat
      /\ Len(Append(s, e)) = Len(s) + 1
      /\ Append(s, e)[Len(s) + 1] = e
      /\ \A k \in 1 .. Len(s) : Append(s, e)[k] = s[k]
  BY AppendProperties, LenProperties
<1> DEFINE n == Len(s)
           t == Append(s, e)
<1>2. n \in Nat /\ Len(t) = n + 1 /\ t[n + 1] = e /\ \A k \in 1 .. n : t[k] = s[k]
  BY <1>1
<1> HIDE DEF t
<1>3. CASE e = l
  <2>1. Places(t, l) = Places(s, l) \cup {n + 1} /\ n + 1 \notin Places(s, l)
    BY <1>2, <1>3 DEF Places
  <2>2. Cardinality(Places(t, l)) = Cardinality(Places(s, l)) + 1
    BY <2>1, PlacesFinite, Grow
  <2> QED
    BY <1>3, <2>2 DEF t
<1>4. CASE e # l
  <2>1. Places(t, l) = Places(s, l)
    BY <1>2, <1>4 DEF Places
  <2>2. Cardinality(Places(s, l)) + 0 = Cardinality(Places(s, l))
    BY PlacesFinite
  <2> QED
    BY <1>4, <2>1, <2>2 DEF t
<1> QED
  BY <1>3, <1>4

\* Everything but the head is one place further on.
LEMMA PlacesTail ==
  ASSUME NEW S, NEW s \in Seq(S), s # <<>>, NEW l
  PROVE  Cardinality(Places(s, l)) =
           Cardinality(Places(Tail(s), l)) + (IF Head(s) = l THEN 1 ELSE 0)
<1> DEFINE t == Tail(s)
           later == {k \in 2 .. Len(s) : s[k] = l}
           shift == [k \in Places(t, l) |-> k + 1]
<1>1. /\ Len(s) \in Nat \ {0} /\ Len(t) = Len(s) - 1 /\ Head(s) = s[1]
      /\ \A k \in 1 .. Len(t) : t[k] = s[k + 1]
      /\ t \in Seq(S)
  BY HeadTailProperties, LenProperties, EmptySeq
<1>2. IsFiniteSet(Places(t, l)) /\ Cardinality(Places(t, l)) \in Nat
  BY <1>1, PlacesFinite
<1> HIDE DEF t
<1>3. shift \in Bijection(Places(t, l), later)
  <2>1. ASSUME NEW k \in Places(t, l) PROVE k + 1 \in later
    BY <1>1 DEF Places
  <2>2. ASSUME NEW k \in Places(t, l), NEW m \in Places(t, l), k + 1 = m + 1 PROVE k = m
    BY <2>2 DEF Places
  <2>3. ASSUME NEW m \in later PROVE \E k \in Places(t, l) : shift[k] = m
    <3>1. m - 1 \in 1 .. Len(t) /\ (m - 1) + 1 = m
      BY <1>1
    <3>2. t[m - 1] = s[m]
      BY <1>1, <3>1
    <3>3. m - 1 \in Places(t, l)
      BY <3>1, <3>2 DEF Places
    <3> QED
      BY <3>1, <3>3
  <2>4. shift \in [Places(t, l) -> later]
    BY <2>1
  <2>5. \A k, m \in Places(t, l) : shift[k] = shift[m] => k = m
    BY <2>2
  <2> HIDE DEF shift, later
  <2> QED
    BY <2>3, <2>4, <2>5 DEF Bijection, Injection, IsInjective, Surjection
<1>4. IsFiniteSet(later) /\ Cardinality(later) = Cardinality(Places(t, l))
  BY <1>2, <1>3, FS_Bijection DEF ExistsBijection
<1>5. CASE Head(s) = l
  <2>1. Places(s, l) = later \cup {1} /\ 1 \notin later
    BY <1>1, <1>5 DEF Places
  <2>2. Cardinality(Places(s, l)) = Cardinality(later) + 1
    BY <1>4, <2>1, Grow
  <2> QED
    BY <1>4, <1>5, <2>2 DEF t
<1>6. CASE Head(s) # l
  <2>1. Places(s, l) = later
    BY <1>1, <1>6 DEF Places
  <2>2. Cardinality(Places(t, l)) + 0 = Cardinality(Places(t, l))
    BY <1>2
  <2> QED
    BY <1>4, <1>6, <2>1, <2>2 DEF t
<1> QED
  BY <1>5, <1>6

LEMMA UsesAre ==
  ASSUME NEW l
  PROVE  Uses(l) = Cardinality(Holders(l)) + Cardinality(Places(jwtStream, l))
  BY DEF Uses, Holders, Places

LEMMA HoldersFinite ==
  ASSUME NEW l
  PROVE  IsFiniteSet(Holders(l)) /\ Cardinality(Holders(l)) \in Nat
<1>1. IsFiniteSet(Reqs) /\ IsFiniteSet(Workers)
  BY WorkerBaseAssumption, FS_Interval DEF Reqs
<1>2. IsFiniteSet(Workers \X Reqs)
  BY <1>1, FS_Product
<1>3. Holders(l) \subseteq Workers \X Reqs
  BY DEF Holders
<1> QED
  BY <1>2, <1>3, FS_Subset, FS_CardinalityType

LEMMA UsesType ==
  ASSUME SystemTypeOK, NEW l
  PROVE  Uses(l) \in Nat
<1>1. Cardinality(Places(jwtStream, l)) \in Nat
  BY PlacesFinite DEF SystemTypeOK
<1> QED
  BY <1>1, HoldersFinite, UsesAre

LEMMA TurnInit == SystemInit => TurnInv
<1> SUFFICES ASSUME SystemInit PROVE TurnInv
  OBVIOUS
<1>1. source \in Sources /\ source.lines \in Nat /\ line = 0
  BY SourceType DEF SystemInit
<1>2. ASSUME NEW l \in 1 .. source.lines PROVE Uses(l) = 0
  <2>1. l # NoToken /\ Len(<<>>) = 0
    BY <1>1, EmptySeq DEF NoToken
  <2>2. Holders(l) = {} /\ Places(jwtStream, l) = {}
    BY <2>1 DEF SystemInit, Holders, Places
  <2> QED
    BY <2>2, FS_EmptySet, UsesAre
<1>3. \A l \in 1 .. source.lines : Uses(l) = 0 + (IF l <= line THEN 1 ELSE 0)
  BY <1>1, <1>2
<1> QED
  BY <1>3 DEF TurnInv

LEMMA TurnProduce ==
  ASSUME SystemTypeOK, TurnInv, Produce
  PROVE  TurnInv'
<1> PICK rounds \in Nat :
           /\ ~source.user => rounds = 0
           /\ \A l \in 1 .. source.lines : Uses(l) = rounds + (IF l <= line THEN 1 ELSE 0)
  BY DEF TurnInv
<1> DEFINE next == NextLine
<1>1. /\ next \in 1 .. source.lines /\ source.lines \in Nat
      /\ line \in 0 .. source.lines /\ line' = next
      /\ jwtStream' = Append(jwtStream, next)
      /\ UNCHANGED <<source, token>>
  BY NextLineType, SourceType DEF Produce, SystemTypeOK
<1>2. \/ next = line + 1
      \/ next = 1 /\ line = source.lines /\ source.user
  BY DEF NextLine
<1> HIDE DEF next
<1>3. ASSUME NEW l \in 1 .. source.lines
      PROVE  Uses(l)' = Uses(l) + (IF next = l THEN 1 ELSE 0)
  <2>1. Holders(l)' = Holders(l)
    BY <1>1 DEF Holders
  <2>2. Cardinality(Places(jwtStream', l)) =
          Cardinality(Places(jwtStream, l)) + (IF next = l THEN 1 ELSE 0)
    <3> DEFINE Lines == 1 .. source.lines
    <3>1. jwtStream \in Seq(Lines) /\ next \in Lines
      BY <1>1 DEF SystemTypeOK
    <3> HIDE DEF Lines
    <3>2. Cardinality(Places(Append(jwtStream, next), l)) =
            Cardinality(Places(jwtStream, l)) + (IF next = l THEN 1 ELSE 0)
      BY <3>1, PlacesAppend
    <3> QED
      BY <1>1, <3>2
  <2>3. Uses(l)' = Cardinality(Holders(l)') + Cardinality(Places(jwtStream', l))
    BY DEF Uses, Holders, Places
  <2>4. Cardinality(Holders(l)) \in Nat /\ Cardinality(Places(jwtStream, l)) \in Nat
    BY HoldersFinite, PlacesFinite DEF SystemTypeOK
  <2> QED
    BY <2>1, <2>2, <2>3, <2>4, UsesAre
<1>4. CASE next = line + 1
  <2>1. \A l \in 1 .. source.lines : Uses(l)' = rounds + (IF l <= line' THEN 1 ELSE 0)
    BY <1>1, <1>3, <1>4
  <2> QED
    BY <1>1, <2>1 DEF TurnInv
<1>5. CASE next = 1 /\ line = source.lines /\ source.user
  <2>1. \A l \in 1 .. source.lines : Uses(l)' = (rounds + 1) + (IF l <= line' THEN 1 ELSE 0)
    BY <1>1, <1>3, <1>5
  <2>2. rounds + 1 \in Nat
    OBVIOUS
  <2> QED
    BY <1>1, <1>5, <2>1, <2>2 DEF TurnInv
<1> QED
  BY <1>2, <1>4, <1>5

LEMMA TurnReceive ==
  ASSUME SystemTypeOK, JwtInv, NEW w \in Workers, NEW i \in Reqs, ReceiveJwt(w, i),
         jwtStream # <<>>, NEW l \in 1 .. source.lines
  PROVE  Uses(l)' = Uses(l)
<1> DEFINE h == Head(jwtStream)
<1>1. /\ jwtStream \in Seq(1 .. source.lines) /\ source.lines \in Nat
      /\ token' = [token EXCEPT ![w][i] = h] /\ jwtStream' = Tail(jwtStream)
      /\ Tail(jwtStream) \in Seq(1 .. source.lines)
  BY StreamTaken, SourceType DEF ReceiveJwt, SystemTypeOK
<1>2. token[w][i] = NoToken /\ NoToken # l
  BY <1>1 DEF ReceiveJwt, Middleware, JwtInv, NoToken
<1>3. /\ token'[w][i] = h
      /\ \A v \in Workers : \A j \in Reqs : v # w \/ j # i => token'[v][j] = token[v][j]
  BY <1>1 DEF SystemTypeOK
<1> HIDE DEF h
<1>4. /\ Cardinality(Places(jwtStream, l)) =
           Cardinality(Places(Tail(jwtStream), l)) + (IF h = l THEN 1 ELSE 0)
      /\ Cardinality(Places(Tail(jwtStream), l)) \in Nat
  BY <1>1, PlacesTail, PlacesFinite DEF h
<1>5. Cardinality(Holders(l)') = Cardinality(Holders(l)) + (IF h = l THEN 1 ELSE 0)
  <2>1. CASE h = l
    <3>1. Holders(l)' = Holders(l) \cup {<<w, i>>} /\ <<w, i>> \notin Holders(l)
      BY <1>2, <1>3, <2>1 DEF Holders
    <3>2. Cardinality(Holders(l)') = Cardinality(Holders(l)) + 1
      BY <3>1, HoldersFinite, Grow
    <3> QED
      BY <2>1, <3>2
  <2>2. CASE h # l
    <3>1. Holders(l)' = Holders(l)
      BY <1>2, <1>3, <2>2 DEF Holders
    <3>2. Cardinality(Holders(l)) + 0 = Cardinality(Holders(l))
      BY HoldersFinite
    <3> QED
      BY <2>2, <3>1, <3>2
  <2> QED
    BY <2>1, <2>2
<1>6. Uses(l)' = Cardinality(Holders(l)') + Cardinality(Places(Tail(jwtStream), l))
  BY <1>1 DEF Uses, Holders, Places
<1>7. Cardinality(Holders(l)) \in Nat
  BY HoldersFinite
<1> QED
  BY <1>4, <1>5, <1>6, <1>7, UsesAre

LEMMA TurnKept ==
  ASSUME TurnInv, UNCHANGED <<source, line>>, \A l \in 1 .. source.lines : Uses(l)' = Uses(l)
  PROVE  TurnInv'
<1> PICK rounds \in Nat :
           /\ ~source.user => rounds = 0
           /\ \A l \in 1 .. source.lines : Uses(l) = rounds + (IF l <= line THEN 1 ELSE 0)
  BY DEF TurnInv
<1> QED
  BY DEF TurnInv

LEMMA TurnStep ==
  ASSUME SystemTypeOK, JwtInv, TurnInv, [SystemNext]_sysVars
  PROVE  TurnInv'
<1>1. CASE HandleReqs \/ ReadSample \/ ReaderStops \/ Interrupt \/ Deliver \/ Timeout
           \/ UNCHANGED sysVars
  <2>1. UNCHANGED <<source, line, jwtStream, token>>
    BY <1>1, JwtsElsewhere
  <2> QED
    BY <2>1, TurnKept DEF Uses
<1>2. CASE Produce
  BY <1>2, TurnProduce
<1>3. CASE ProducerEnds
  BY <1>3, TurnKept DEF ProducerEnds, Uses
<1>4. ASSUME NEW w \in Workers, WorkerMoves(w) PROVE TurnInv'
  BY <1>4, TurnKept DEF WorkerMoves, jwtVars, Uses
<1>5. ASSUME NEW w \in Workers, NEW i \in Reqs, RequestMoves(w, i) PROVE TurnInv'
  <2>0. UNCHANGED <<source, line>>
    BY <1>5, RequestMovesOnly
  <2>1. CASE ReceiveJwt(w, i) /\ jwtStream # <<>>
    <3>1. \A l \in 1 .. source.lines : Uses(l)' = Uses(l)
      BY <2>1, TurnReceive
    <3> QED
      BY <2>0, <3>1, TurnKept
  <2>2. CASE ~(ReceiveJwt(w, i) /\ jwtStream # <<>>)
    <3>1. UNCHANGED <<jwtStream, token>>
      BY <1>5, <2>2 DEF RequestMoves, ReceiveJwt, jwtVars
    <3> QED
      BY <2>0, <3>1, TurnKept DEF Uses
  <2> QED
    BY <2>1, <2>2
<1> QED
  BY <1>1, <1>2, <1>3, <1>4, <1>5 DEF SystemNext
-------------------------------------------------------------------------------
(* The system's invariant. *)

LEMMA SystemInvInit == SystemInit => SystemInv
<1> SUFFICES ASSUME SystemInit PROVE SystemInv
  OBVIOUS
<1>1. BaseInit
  BY DEF SystemInit
<1> QED
  BY <1>1, FixedInvInit, TotalsInit, SystemTypeInit, MainInit, ResultsInit, JwtInit, TurnInit
  DEF SystemInv

LEMMA SystemInductive ==
  ASSUME SystemInv, [SystemNext]_sysVars
  PROVE  SystemInv'
<1>1. [Next]_vars
  BY SystemIsNext
<1>2. FixedInv'
  BY <1>1, FixedInductive DEF SystemInv
<1>3. Totals'
  BY <1>1, TotalsStep DEF SystemInv, FixedInv
<1>4. SystemTypeOK' /\ ResultsType'
  BY SystemTypeStep DEF SystemInv
<1>5. MainInv'
  BY MainStep DEF SystemInv
<1>6. ResultsInv'
  BY ResultsStep DEF SystemInv
<1>7. JwtInv'
  BY JwtStep DEF SystemInv
<1>8. TurnInv'
  BY TurnStep DEF SystemInv
<1> QED
  BY <1>2, <1>3, <1>4, <1>5, <1>6, <1>7, <1>8 DEF SystemInv

LEMMA SystemInvariant == SystemSpec => []SystemInv
  BY SystemInvInit, SystemInductive, PTL DEF SystemSpec

-------------------------------------------------------------------------------
(* What the invariant says of a run nobody cancelled. *)

LEMMA CompletedIsCounted ==
  ASSUME SystemInv, main = "returned", ~ctxDone
  PROVE  /\ results.completed = Cardinality(CountedAll)
         /\ results.completed + results.failed = ReqTarget
<1>1. summed = Conns
  BY DEF SystemInv, MainInv
<1>2. 1 .. Conns = Workers
  BY PayloaderAssumption
<1>3. /\ results.completed = SumOf(completed, Workers)
      /\ results.completed + results.failed = SumOf(Target, Workers)
  BY <1>1, <1>2 DEF SystemInv, ResultsInv
<1> QED
  BY <1>3, TargetTotal DEF SystemInv, Totals, CompletedTotal

\* Once every worker has returned, and the stream has not failed, the requests
\* are those that took a JWT and those that could not be built.
LEMMA TokensAndUnbuilt ==
  ASSUME SystemInv, AllDone, ~ctxDone, UsesJwt, jwtErr # "error"
  PROVE  /\ Cardinality(Unbuilt) \in Nat
         /\ Cardinality(Tokened) + Cardinality(Unbuilt) = ReqTarget
<1> USE DEF SystemInv
<1>1. Begun = Units(Target, Workers)
  <2>1. ASSUME NEW w \in Workers, NEW i \in 1 .. Target[w] PROVE <<w, i>> \in Begun
    <3>1. i \in Reqs /\ i <= Target[w] /\ Target[w] \in Nat
      BY FixedReqsAssumption, WorkerBaseAssumption, SMT DEF Reqs
    <3>2. sent[w] = Target[w]
      BY AllQuiet
    <3>3. ~(i > sent[w])
      BY <3>1, <3>2
    <3>4. phase[w][i] # "idle"
      BY <3>1, <3>3 DEF FixedInv, BaseInv, Shape, StartedInOrder
    <3> QED
      BY <3>1, <3>4 DEF Begun
  <2>2. Units(Target, Workers) \subseteq Begun
    <3> SUFFICES ASSUME NEW p \in Units(Target, Workers) PROVE p \in Begun
      OBVIOUS
    <3>1. PICK w \in Workers : \E i \in 1 .. Target[w] : p = <<w, i>>
      BY UnitsAre
    <3>2. PICK i \in 1 .. Target[w] : p = <<w, i>>
      BY <3>1
    <3> QED
      BY <2>1, <3>2
  <2> QED
    BY <2>2, BegunBounded
<1>2. ASSUME NEW w \in Workers, NEW i \in Reqs, phase[w][i] # "idle"
      PROVE  token[w][i] = NoToken <=> outcome[w][i] \in ReqErrs
  <2>1. phase[w][i] = "done"
    <3>1. Live(w) = {}
      BY AllQuiet
    <3> QED
      BY <1>2, <3>1 DEF Live
  <2>2. token[w][i] # NoToken => outcome[w][i] \notin ReqErrs
    BY DEF JwtInv
  <2>3. ~SentBare(w, i)
    BY DEF JwtInv
  <2> QED
    BY <2>1, <2>2, <2>3 DEF SentBare
<1>3. \A w \in Workers : \A i \in Reqs : outcome[w][i] \in ReqErrs => phase[w][i] # "idle"
  BY WorkerBaseAssumption DEF JwtInv, Errs
<1>4. Unbuilt \subseteq Begun /\ Tokened \subseteq Begun
  BY <1>3, TokenedBegun DEF Unbuilt, Begun
<1>5. Begun = Tokened \cup Unbuilt /\ Tokened \cap Unbuilt = {}
  BY <1>2, <1>4 DEF Begun, Tokened, Unbuilt
<1>6. IsFiniteSet(Unbuilt) /\ IsFiniteSet(Tokened)
  BY <1>4, BegunBounded, FS_Subset
<1>7. Cardinality(Tokened \cup Unbuilt) = Cardinality(Tokened) + Cardinality(Unbuilt)
  BY <1>5, <1>6, UnitsJoin
<1>8. Cardinality(Begun) = ReqTarget
  BY <1>1, TargetTotal DEF SumOf
<1> QED
  BY <1>5, <1>6, <1>7, <1>8, FS_CardinalityType

-------------------------------------------------------------------------------
(* The theorems. *)

\* Types: neither stream ever holds more than its capacity, and no more JWTs
\* are put than were asked for.
THEOREM PayloaderTypeCorrect == SystemSpec => [](TypeOK /\ SystemTypeOK)
<1>1. SystemInv => TypeOK /\ SystemTypeOK
  BY DEF SystemInv, FixedInv, BaseInv, Shape
<1> QED
  BY <1>1, SystemInvariant, PTL

\* The results of a run nobody cancelled account for every request asked for,
\* and their breakdowns add up to the totals (ComputeResults).
THEOREM PayloaderResultsComplete == SystemSpec => []ResultsComplete
<1>1. SystemInv => ResultsComplete
  <2> SUFFICES ASSUME SystemInv, main = "returned", ~ctxDone
               PROVE  /\ results.completed + results.failed = ReqTarget
                      /\ Total(results.responses) = results.completed
                      /\ Total(results.errors) = results.failed
    BY DEF ResultsComplete
  <2>1. DOMAIN results.responses = Codes /\ DOMAIN results.errors = Errs
    BY DEF SystemInv, SystemTypeOK
  <2> QED
    BY <2>1, CompletedIsCounted DEF SystemInv, ResultsInv, Total
<1> QED
  BY <1>1, SystemInvariant, PTL

\* The average latency of a run nobody cancelled is never overstated: it is
\* computed from no more samples than there are completed requests.
THEOREM PayloaderAverageNotOverstated == SystemSpec => []AverageNotOverstated
<1>1. SystemInv => AverageNotOverstated
  <2> SUFFICES ASSUME SystemInv, main = "returned", ~ctxDone
               PROVE  results.samples <= results.completed
    BY DEF AverageNotOverstated
  <2>1. results.samples <= received /\ results.samples \in Nat
    BY DEF SystemInv, MainInv, SystemTypeOK
  <2>2. reqStats + received = Cardinality(Sampled) /\ reqStats \in Nat /\ received \in Nat
    BY WorkerBaseAssumption, SMT
    DEF SystemInv, FixedInv, BaseInv, SampleConservation, Shape, TypeOK
  <2>3. Sampled \subseteq CountedAll
    BY DEF Sampled, CountedAll
  <2>4. Cardinality(Sampled) <= Cardinality(CountedAll)
    BY <2>3, FiniteCounted, FS_Subset
  <2>5. Cardinality(Sampled) \in Nat /\ Cardinality(CountedAll) \in Nat
    BY FiniteSampled, FiniteCounted
  <2>6. results.completed = Cardinality(CountedAll)
    BY CompletedIsCounted
  <2> QED
    BY <2>1, <2>2, <2>4, <2>5, <2>6
<1> QED
  BY <1>1, SystemInvariant, PTL

\* The JWTs go out in turn, whichever workers take them, and none of the cache
\* goes out twice (getUserJWTS, retrieve, jwtMiddleware).
THEOREM PayloaderJwtsInTurn == SystemSpec => []JwtsInTurn
<1>1. SystemInv => JwtsInTurn
  <2> SUFFICES ASSUME SystemInv, NEW l \in 1 .. source.lines, NEW m \in 1 .. source.lines
               PROVE  /\ l < m => Uses(l) - Uses(m) \in {0, 1}
                      /\ ~source.user => Uses(l) <= 1
    BY DEF JwtsInTurn
  <2>1. PICK rounds \in Nat :
           /\ ~source.user => rounds = 0
           /\ \A k \in 1 .. source.lines : Uses(k) = rounds + (IF k <= line THEN 1 ELSE 0)
    BY DEF SystemInv, TurnInv
  <2>2. source.lines \in Nat /\ line \in 0 .. source.lines
    BY SourceType DEF SystemInv, SystemTypeOK
  <2>3. /\ Uses(l) = rounds + (IF l <= line THEN 1 ELSE 0)
        /\ Uses(m) = rounds + (IF m <= line THEN 1 ELSE 0)
    BY <2>1
  <2> QED
    BY <2>1, <2>2, <2>3
<1> QED
  BY <1>1, SystemInvariant, PTL

\* A request goes out without its JWT only from a stream that failed, and then
\* handleReqs reports an error (jwtMiddleware ignores a closed stream).
THEOREM PayloaderNoBareRequests == SystemSpec => []NoBareRequests
<1>1. SystemInv => NoBareRequests
  <2> SUFFICES ASSUME SystemInv, NEW w \in Workers, NEW i \in Reqs, SentBare(w, i)
               PROVE  jwtErr = "error" /\ main \in {"jwt", "failed"}
    BY DEF NoBareRequests
  <2>1. jwtErr = "error" /\ UsesJwt
    BY DEF SystemInv, JwtInv, SentBare
  <2>2. phase[w][i] # "idle"
    BY DEF SentBare
  <2>3. sent[w] # 0
    <3>1. ~(i > sent[w]) /\ i > 0
      BY <2>2, WorkerBaseAssumption, SMT
      DEF SystemInv, FixedInv, BaseInv, Shape, StartedInOrder, Reqs
    <3> QED
      BY <3>1
  <2>4. started
    BY <2>3 DEF SystemInv, MainInv
  <2> QED
    BY <2>1, <2>4 DEF SystemInv, MainInv, SystemTypeOK, MainPCs
<1> QED
  BY <1>1, SystemInvariant, PTL

\* Results nobody cancelled mean that every request that could be built took a
\* JWT, and that only those of the others are left over.
THEOREM PayloaderEveryJwtSent == SystemSpec => []EveryJwtSent
<1>1. SystemInv => EveryJwtSent
  <2> SUFFICES ASSUME SystemInv, main = "returned", ~ctxDone, UsesJwt
               PROVE  jwtPut = ReqTarget /\ Len(jwtStream) = Cardinality(Unbuilt)
    BY DEF EveryJwtSent
  <2>1. jwtErr = "closed" /\ AllDone
    BY DEF SystemInv, MainInv
  <2>2. jwtPut = ReqTarget /\ Cardinality(Tokened) + Len(jwtStream) = jwtPut
    BY <2>1 DEF SystemInv, JwtInv
  <2>3. Cardinality(Unbuilt) \in Nat /\ Cardinality(Tokened) + Cardinality(Unbuilt) = ReqTarget
    BY <2>1, TokensAndUnbuilt
  <2>4. Len(jwtStream) \in Nat
    BY LenProperties DEF SystemInv, SystemTypeOK
  <2>5. Cardinality(Tokened) \in Nat
    BY TokenedBegun DEF SystemInv
  <2> QED
    BY <2>2, <2>3, <2>4, <2>5
<1> QED
  BY <1>1, SystemInvariant, PTL

\* Only a cancellation, or more unbuilt requests than the stream has places,
\* strands the producer, and handleReqs with it.
THEOREM PayloaderStrandedByUnread == SystemSpec => []StrandedByUnread
<1>1. SystemInv => StrandedByUnread
  <2> SUFFICES ASSUME SystemInv, Stranded, ~ctxDone PROVE Cardinality(Unbuilt) > JwtCap
    BY DEF StrandedByUnread
  <2>1. UsesJwt /\ jwtErr = "open" /\ AllDone /\ Len(jwtStream) = JwtCap /\ jwtPut < ReqTarget
    BY DEF Stranded, JwtOpen, MoreJwts
  <2>2. Cardinality(Tokened) + JwtCap = jwtPut /\ jwtPut \in Nat
    BY <2>1, PayloaderAssumption DEF SystemInv, JwtInv, SystemTypeOK
  <2>3. Cardinality(Unbuilt) \in Nat /\ Cardinality(Tokened) + Cardinality(Unbuilt) = ReqTarget
    BY <2>1, TokensAndUnbuilt
  <2>4. Cardinality(Tokened) \in Nat /\ JwtCap \in Nat /\ ReqTarget \in Nat
    BY TokenedBegun, PayloaderAssumption DEF SystemInv
  <2> QED
    BY <2>1, <2>2, <2>3, <2>4
<1> QED
  BY <1>1, SystemInvariant, PTL

\* Inside the whole run, too, the workers keep the ledger.
THEOREM PayloaderImplementsLedger == SystemSpec => Ledger!Safety
<1>1. SystemInit => Ledger!Init
  BY LedgerInit DEF SystemInit
<1>2. ASSUME SystemInv, [SystemNext]_sysVars PROVE [Ledger!Next]_(Ledger!vars)
  BY <1>2, SystemIsNext, LedgerStep DEF SystemInv
<1> QED
  BY <1>1, <1>2, SystemInvariant, PTL DEF SystemSpec, Ledger!Safety
===============================================================================
