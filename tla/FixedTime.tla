------------------------------- MODULE FixedTime -------------------------------
(***************************************************************************)
(* WorkerFixedTime (worker-fixed-time.go): as many requests as fit in the  *)
(* time Until.  Its select has a default branch, which Go takes only when  *)
(* neither the context nor the ticker is ready.                            *)
(***************************************************************************)
EXTENDS WorkerBase

VARIABLE timeUp    \* the ticker of period Until has ticked: ticker.C is ready

vars == <<baseVars, timeUp>>

\* The type of the timer's variable.
TimeTypeOK == timeUp \in [Workers -> BOOLEAN]

Init ==
  /\ BaseInit
  /\ timeUp = [w \in Workers |-> FALSE]

\* The ticker, created when the worker begins, ticks at any later moment.
TimeUp(w) ==
  /\ pc[w] = "loop"
  /\ ~timeUp[w]
  /\ timeUp' = [timeUp EXCEPT ![w] = TRUE]
  /\ UNCHANGED baseVars

\* case <-w.config.Ctx.Done()
Cancelled(w) ==
  /\ Quit(w)
  /\ UNCHANGED timeUp

\* case <-ticker.C: wait for the parallel requests and return.
Ticked(w) ==
  /\ timeUp[w]
  /\ Drain(w)
  /\ UNCHANGED timeUp

\* default
Launch(w) ==
  /\ ~ctxDone
  /\ ~timeUp[w]
  /\ Run(w)
  /\ UNCHANGED timeUp

WorkerStep(w) ==
  \/ (Begin(w) \/ Join(w)) /\ UNCHANGED timeUp
  \/ Cancelled(w) \/ Ticked(w) \/ Launch(w)

Next ==
  \/ (StartWorkers \/ Cancel \/ RecvSample) /\ UNCHANGED timeUp
  \/ \E w \in Workers : TimeUp(w) \/ WorkerStep(w)
  \/ \E w \in Workers, i \in Reqs : RequestStep(w, i) /\ UNCHANGED timeUp

\* As in FixedReqs; the ticker does tick.
Fairness ==
  /\ WF_vars(StartWorkers /\ UNCHANGED timeUp)
  /\ WF_vars((RecvSample /\ \E w \in Workers : pc[w] # "exit") /\ UNCHANGED timeUp)
  /\ \A w \in Workers : WF_vars(TimeUp(w)) /\ WF_vars(WorkerStep(w))
  /\ \A w \in Workers, i \in Reqs : WF_vars(RequestStep(w, i) /\ UNCHANGED timeUp)

Spec == Init /\ [][Next]_vars /\ Fairness

-------------------------------------------------------------------------------
\* When every worker has returned and nobody cancelled, the statistics that
\* ComputeResults adds up account for every request that was ever started.
AllAccounted ==
  (\A w \in Workers : pc[w] = "exit") /\ ~ctxDone =>
    \A w \in Workers : completed[w] + failed[w] = sent[w]

\* The time being up ends the test: at most the requests already started are
\* waited for, and every worker returns.
WorkersReturn == <>(\A w \in Workers : pc[w] = "exit")
===============================================================================
