------------------------------- MODULE FixedReqs -------------------------------
(***************************************************************************)
(* WorkerFixedReqs (worker-fixed-reqs.go): a loop over ReqTarget requests  *)
(* that stops early only when the user's context is cancelled, and that    *)
(* waits for its parallel requests when it has started them all.           *)
(***************************************************************************)
EXTENDS WorkerBase

CONSTANT Target    \* config.ReqTarget of each worker

ASSUME FixedReqsAssumption == Target \in [Workers -> 0 .. MaxReqs]

\* The default branch of the select: the context is not done.
Launch(w) ==
  /\ sent[w] < Target[w]
  /\ ~ctxDone
  /\ Run(w)

\* The ctx.Done() branch is only reached from inside the loop.
Cancelled(w) ==
  /\ sent[w] < Target[w]
  /\ Quit(w)

\* The loop is over.  (Fault: one iteration too few.)
AllButOneStarted(w) == sent[w] + 1 >= Target[w]

AllStarted(w) == sent[w] >= Target[w]

Drained(w) ==
  /\ AllStarted(w)
  /\ Drain(w)

WorkerStep(w) == Begin(w) \/ Launch(w) \/ Cancelled(w) \/ Drained(w) \/ Join(w)

Next ==
  \/ StartWorkers
  \/ Cancel
  \/ RecvSample
  \/ \E w \in Workers : WorkerStep(w)
  \/ \E w \in Workers, i \in Reqs : RequestStep(w, i)

vars == baseVars

\* The Go scheduler runs every goroutine that can run; the statistics reader
\* runs as long as a worker does.  Nothing obliges the user to cancel.
Fairness ==
  /\ WF_vars(StartWorkers)
  /\ WF_vars(RecvSample /\ \E w \in Workers : pc[w] # "exit")
  /\ \A w \in Workers : WF_vars(WorkerStep(w))
  /\ \A w \in Workers, i \in Reqs : WF_vars(RequestStep(w, i))

Spec == BaseInit /\ [][Next]_vars /\ Fairness

-------------------------------------------------------------------------------
\* A worker returns with the account of all its requests closed, unless the
\* user's cancellation reached its loop before the last of them was started.
\* In parallel mode this is what parallelWg is for.
ReturnsComplete ==
  \A w \in Workers : pc[w] = "exit" =>
    \/ completed[w] + failed[w] = Target[w]
    \/ ctxDone /\ sent[w] < Target[w]

\* Every worker returns, whatever its server answers and even if the samples
\* fill the reqStats channel; handleReqs waits for nothing else.
WorkersReturn == <>(\A w \in Workers : pc[w] = "exit")

\* FixedReqs implements the ledger: request accounting as ComputeResults
\* reads it, a worker's return, and the user's cancellation.
Ledger == INSTANCE WorkLedger WITH
            ok <- completed,
            bad <- failed,
            closed <- [w \in Workers |-> pc[w] = "exit"],
            stopped <- ctxDone

ImplementsLedger == Ledger!Spec
===============================================================================
