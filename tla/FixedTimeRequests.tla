--------------------------- MODULE FixedTimeRequests ---------------------------
(***************************************************************************)
(* WorkerFixedTimeRequests (worker-fixed-time-requests.go): ReqTarget      *)
(* requests spread over the time Until, one at each tick of a ticker of    *)
(* period ReqEvery.  After the deadline the worker is meant to catch up on *)
(* the requests that were not done in time and then return.                *)
(*                                                                         *)
(* The three branches of its select are three actions; a branch is enabled *)
(* when its channel is ready, and select takes any of those.  Time is the  *)
(* worker's own, counted from the creation of its two timers.              *)
(***************************************************************************)
EXTENDS WorkerBase

CONSTANTS
  Target,    \* config.ReqTarget of each worker
  Until,     \* config.Until, in units of time
  ReqEvery,  \* config.ReqEvery, in the same units
  MaxTime    \* bound: the clock of a worker stops here

ASSUME FixedTimeRequestsAssumption ==
  /\ Target \in [Workers -> 1 .. MaxReqs]
  /\ Until \in Nat \ {0}
  /\ ReqEvery \in Nat \ {0}   \* time.NewTicker panics otherwise
  /\ MaxTime \in Nat

VARIABLES
  elapsed,   \* time since the worker created its timers
  tick       \* newReq.C holds a tick: it has room for one

clockVars == <<elapsed, tick>>
vars      == <<baseVars, clockVars>>

\* The type of the two timers' variables.
ClockTypeOK ==
  /\ elapsed \in [Workers -> 0 .. MaxTime]
  /\ tick \in [Workers -> BOOLEAN]

Init ==
  /\ BaseInit
  /\ elapsed = [w \in Workers |-> 0]
  /\ tick = [w \in Workers |-> FALSE]

\* The ticker's period is over.  (Fault: it is not ReqEvery.)
AlwaysDue(t) == TRUE

Due(t) == t % ReqEvery = 0

\* Time passes; a tick that finds one in the channel is dropped.
Advance(w) ==
  /\ pc[w] \in {"loop", "wait"}
  /\ elapsed[w] < MaxTime
  /\ elapsed' = [elapsed EXCEPT ![w] = @ + 1]
  /\ tick' = [tick EXCEPT ![w] = @ \/ Due(elapsed'[w])]
  /\ UNCHANGED baseVars

\* case <-w.config.Ctx.Done()
Cancelled(w) ==
  /\ Quit(w)
  /\ UNCHANGED clockVars

DeadlinePassed(w) == elapsed[w] >= Until

Accounted(w) == completed[w] + failed[w]

\* (Fault: the comparison forgives one request.)
OnTargetButOne(w) == Target[w] <= Accounted(w) + 1

OnTarget(w) == Target[w] = Accounted(w)

\* case <-deadline.Done(), short of the target: catch up
CatchUp(w) ==
  /\ DeadlinePassed(w)
  /\ ~OnTarget(w)
  /\ Run(w)
  /\ UNCHANGED clockVars

\* case <-deadline.Done(), on target: finish
Finished(w) ==
  /\ DeadlinePassed(w)
  /\ OnTarget(w)
  /\ Drain(w)
  /\ UNCHANGED clockVars

\* case <-newReq.C: the next request is due
Tick(w) ==
  /\ tick[w]
  /\ Run(w)
  /\ tick' = [tick EXCEPT ![w] = FALSE]
  /\ UNCHANGED elapsed

WorkerStep(w) ==
  \/ (Begin(w) \/ Join(w)) /\ UNCHANGED clockVars
  \/ Cancelled(w) \/ CatchUp(w) \/ Finished(w) \/ Tick(w)

Next ==
  \/ (StartWorkers \/ Cancel \/ RecvSample) /\ UNCHANGED clockVars
  \/ \E w \in Workers : Advance(w) \/ WorkerStep(w)
  \/ \E w \in Workers, i \in Reqs : RequestStep(w, i) /\ UNCHANGED clockVars

\* As in FixedReqs, and time does not stop.  select chooses uniformly among the
\* ready branches, so the ctx.Done() branch, ready at every round once the user
\* has cancelled, is not passed over for ever; no other branch is promised.
Fairness ==
  /\ WF_vars(StartWorkers /\ UNCHANGED clockVars)
  /\ WF_vars((RecvSample /\ \E w \in Workers : pc[w] # "exit") /\ UNCHANGED clockVars)
  /\ \A w \in Workers : /\ WF_vars(Advance(w))
                         /\ WF_vars(WorkerStep(w))
                         /\ SF_vars(Cancelled(w))
  /\ \A w \in Workers, i \in Reqs : WF_vars(RequestStep(w, i) /\ UNCHANGED clockVars)

Spec == Init /\ [][Next]_vars /\ Fairness

-------------------------------------------------------------------------------
\* A worker that returns without being cancelled has made at least its share
\* of the requests, and all of them are counted.
NeverShort ==
  \A w \in Workers : pc[w] = "exit" /\ ~ctxDone =>
    /\ Live(w) = {}
    /\ Accounted(w) >= Target[w]

\* Up to the deadline the worker keeps to its pace: it never has more requests
\* behind it than periods have passed, however late its server answered and
\* however many ticks were dropped meanwhile.
Pace ==
  \A w \in Workers : ~DeadlinePassed(w) => sent[w] * ReqEvery <= elapsed[w]

\* The target check is an equality on counters that only grow: a worker whose
\* loop has got past its target, which nothing rules out, never returns unless
\* the user cancels.
PastTarget(w) == Accounted(w) > Target[w]

NeverReturnsPast(w) ==
  [](pc[w] = "loop" /\ PastTarget(w) => [](ctxDone \/ pc[w] = "loop"))

PastTargetNeverReturns == \A w \in Workers : NeverReturnsPast(w)

\* A cancelled worker returns, even one that has got past its target.
CancelReturns == ctxDone ~> \A w \in Workers : pc[w] = "exit"

\* What -r promises, "number of requests", and payloader_test.go checks: no
\* more requests than the target are made.
NeverMoreThanTarget == \A w \in Workers : sent[w] <= Target[w]
===============================================================================
