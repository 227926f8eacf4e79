------------------------------ MODULE WorkerBase ------------------------------
(***************************************************************************)
(* The part every kind of worker shares (pkgs/payloader/worker/worker.go): *)
(* run() starts one request, process() carries it through building the     *)
(* request, the JWT middleware and the HTTP client, and the two statistics *)
(* updates run under their mutexes.  In parallel mode each request is a    *)
(* goroutine of its own, counted by parallelWg; otherwise the worker runs  *)
(* the request to its end before it looks at its loop again.               *)
(*                                                                         *)
(* The loop itself is what distinguishes the kinds of workers (FixedReqs,  *)
(* FixedTime, FixedTimeRequests).  This module defines the moves a loop    *)
(* can make, Run, Quit, Drain and Join, and the three modules guard them.  *)
(***************************************************************************)
EXTENDS Integers, FiniteSets

CONSTANTS
  Workers,    \* one per connection (config.Conns)
  MaxReqs,    \* bound: requests a worker can start
  Parallel,   \* config.Parallel: a goroutine per request
  UsesJwt,    \* the worker has the jwtMiddleware
  Codes,      \* response codes the server answers with
  ReqErrs,    \* errors of newReq (the body file cannot be read)
  DoErrs,     \* errors of client.Do (connection, time-out)
  StatsCap    \* capacity of the reqStats channel (1000000 in the code)

Errs == ReqErrs \cup DoErrs
Reqs == 1 .. MaxReqs
None == "none"

ASSUME WorkerBaseAssumption ==
  /\ IsFiniteSet(Workers)
  /\ MaxReqs \in Nat
  /\ Parallel \in BOOLEAN
  /\ UsesJwt \in BOOLEAN
  /\ Codes \cap Errs = {}
  /\ None \notin Codes \cup Errs
  /\ StatsCap \in Nat \ {0}

VARIABLES
  started,     \* the start trigger has been released
  ctxDone,     \* the user's context is cancelled
  pc,          \* where each worker's Run is
  sent,        \* requests each worker has started: request i is its i-th
  phase,       \* where request i of worker w is
  outcome,     \* its response code or error, once known
  loaded,      \* the value it read from sync.Map under the mutex
  completed,   \* CompletedReqs
  failed,      \* FailedReqs
  responses,   \* stats.Responses
  errors,      \* stats.Errors
  parallelWg,  \* counter of the parallel wait group
  reqStats,    \* latency samples in the channel
  received     \* samples taken from the channel by the statistics reader

loopVars  == <<started, ctxDone, pc>>
statVars  == <<completed, failed, responses, errors>>
chanVars  == <<reqStats, received>>
baseVars  == <<loopVars, sent, phase, outcome, loaded, statVars, parallelWg,
               chanVars>>

-------------------------------------------------------------------------------
(* Where a worker and a request can be. *)

PCs    == {"start", "loop", "wait", "exit"}
Phases == {"idle",      \* not started
           "new",       \* about to build the request
           "jwt",       \* about to receive a JWT
           "send",      \* about to call client.Do
           "resp",      \* answered, about to take statsSuccessLock
           "respHeld",  \* counted and loaded, holding statsSuccessLock
           "sample",    \* about to send the latency sample
           "err",       \* failed, about to take statsErrorLock
           "errHeld",   \* loaded, holding statsErrorLock
           "returned",  \* about to return from run (and call parallelWg.Done)
           "done"}

\* Requests of w that are between run() and its end.
Live(w) == {i \in Reqs : phase[w][i] \notin {"idle", "done"}}

\* Successes counted in CompletedReqs, and failures counted in FailedReqs.
Counted(w) == {i \in Reqs : /\ outcome[w][i] \in Codes
                            /\ phase[w][i] \in {"respHeld", "sample", "returned", "done"}}
FailedSet(w) == {i \in Reqs : /\ outcome[w][i] \in Errs
                              /\ phase[w][i] \in {"returned", "done"}}

\* Requests whose response code c, or error e, has been stored.
StoredResp(w, c) == {i \in Reqs : /\ outcome[w][i] = c
                                  /\ phase[w][i] \in {"sample", "returned", "done"}}
StoredErr(w, e) == {i \in Reqs : /\ outcome[w][i] = e
                                 /\ phase[w][i] \in {"returned", "done"}}

\* Requests, of any worker, whose latency sample has been sent.
Sampled == {r \in Workers \X Reqs : /\ outcome[r[1]][r[2]] \in Codes
                                    /\ phase[r[1]][r[2]] \in {"returned", "done"}}

\* A worker's loop runs one request at a time unless it is parallel.
Ready(w) == Parallel \/ Live(w) = {}

-------------------------------------------------------------------------------
BaseInit ==
  /\ started = FALSE
  /\ ctxDone = FALSE
  /\ pc = [w \in Workers |-> "start"]
  /\ sent = [w \in Workers |-> 0]
  /\ phase = [w \in Workers |-> [i \in Reqs |-> "idle"]]
  /\ outcome = [w \in Workers |-> [i \in Reqs |-> None]]
  /\ loaded = [w \in Workers |-> [i \in Reqs |-> 0]]
  /\ completed = [w \in Workers |-> 0]
  /\ failed = [w \in Workers |-> 0]
  /\ responses = [w \in Workers |-> [c \in Codes |-> 0]]
  /\ errors = [w \in Workers |-> [e \in Errs |-> 0]]
  /\ parallelWg = [w \in Workers |-> 0]
  /\ reqStats = 0
  /\ received = 0

(***************************************************************************)
(* The payloader's side: release the workers, and the user's ctrl+c.       *)
(***************************************************************************)
StartWorkers ==
  /\ ~started
  /\ started' = TRUE
  /\ UNCHANGED <<ctxDone, pc, sent, phase, outcome, loaded, statVars,
                 parallelWg, chanVars>>

Cancel ==
  /\ ~ctxDone
  /\ ctxDone' = TRUE
  /\ UNCHANGED <<started, pc, sent, phase, outcome, loaded, statVars,
                 parallelWg, chanVars>>

\* calcReqStats receives one sample.  (Fault: from a channel closed too early,
\* samples nobody sent.)
SampleOrClosed == TRUE

SampleReady == reqStats > 0

RecvSample ==
  /\ SampleReady
  /\ reqStats' = reqStats - 1
  /\ received' = received + 1
  /\ UNCHANGED <<loopVars, sent, phase, outcome, loaded, statVars, parallelWg>>

-------------------------------------------------------------------------------
(* The moves of a worker's loop. *)

\* StartTrigger.Wait() returns.
Begin(w) ==
  /\ pc[w] = "start"
  /\ started
  /\ pc' = [pc EXCEPT ![w] = "loop"]
  /\ UNCHANGED <<started, ctxDone, sent, phase, outcome, loaded, statVars,
                 parallelWg, chanVars>>

\* A parallel request is added to the wait group before its goroutine starts.
\* (Fault: it is not added.)
NotAdded(w) == parallelWg

Added(w) == IF Parallel THEN [parallelWg EXCEPT ![w] = @ + 1] ELSE parallelWg

\* run(): start the next request.
Run(w) ==
  /\ pc[w] = "loop"
  /\ Ready(w)
  /\ sent[w] < MaxReqs
  /\ sent' = [sent EXCEPT ![w] = @ + 1]
  /\ phase' = [phase EXCEPT ![w][sent[w] + 1] = "new"]
  /\ parallelWg' = Added(w)
  /\ UNCHANGED <<loopVars, outcome, loaded, statVars, chanVars>>

\* The ctx.Done() branch: return at once, waiting for nothing.
Quit(w) ==
  /\ pc[w] = "loop"
  /\ Ready(w)
  /\ ctxDone
  /\ pc' = [pc EXCEPT ![w] = "exit"]
  /\ UNCHANGED <<started, ctxDone, sent, phase, outcome, loaded, statVars,
                 parallelWg, chanVars>>

\* No more requests to start: a parallel worker still has to wait for its own.
\* (Fault: it does not.)
ReturnAtOnce == "exit"

WaitIfParallel == IF Parallel THEN "wait" ELSE "exit"

Drain(w) ==
  /\ pc[w] = "loop"
  /\ Ready(w)
  /\ pc' = [pc EXCEPT ![w] = WaitIfParallel]
  /\ UNCHANGED <<started, ctxDone, sent, phase, outcome, loaded, statVars,
                 parallelWg, chanVars>>

\* parallelWg.Wait() returns.
Join(w) ==
  /\ pc[w] = "wait"
  /\ parallelWg[w] = 0
  /\ pc' = [pc EXCEPT ![w] = "exit"]
  /\ UNCHANGED <<started, ctxDone, sent, phase, outcome, loaded, statVars,
                 parallelWg, chanVars>>

-------------------------------------------------------------------------------
(* The steps of request i of worker w. *)

\* newReq: the request is built, or its body file cannot be read.
NewReq(w, i) ==
  /\ phase[w][i] = "new"
  /\ \/ /\ phase' = [phase EXCEPT ![w][i] = IF UsesJwt THEN "jwt" ELSE "send"]
        /\ UNCHANGED outcome
     \/ \E e \in ReqErrs : /\ outcome' = [outcome EXCEPT ![w][i] = e]
                           /\ phase' = [phase EXCEPT ![w][i] = "err"]
  /\ UNCHANGED <<loopVars, sent, loaded, statVars, parallelWg, chanVars>>

\* jwtMiddleware receives a JWT; Payloader says when one is there.
Middleware(w, i) ==
  /\ phase[w][i] = "jwt"
  /\ phase' = [phase EXCEPT ![w][i] = "send"]
  /\ UNCHANGED <<loopVars, sent, outcome, loaded, statVars, parallelWg, chanVars>>

\* client.Do answers or fails.
Do(w, i) ==
  /\ phase[w][i] = "send"
  /\ \/ \E c \in Codes : /\ outcome' = [outcome EXCEPT ![w][i] = c]
                         /\ phase' = [phase EXCEPT ![w][i] = "resp"]
     \/ \E e \in DoErrs : /\ outcome' = [outcome EXCEPT ![w][i] = e]
                          /\ phase' = [phase EXCEPT ![w][i] = "err"]
  /\ UNCHANGED <<loopVars, sent, loaded, statVars, parallelWg, chanVars>>

\* statsSuccessLock can be taken.  (Fault: it always can.)
NoSuccessLock(w) == TRUE

SuccessLockFree(w) == \A j \in Reqs : phase[w][j] # "respHeld"

\* updateRespStats, first half: take the mutex, count, load the code's entry.
LockResp(w, i) ==
  /\ phase[w][i] = "resp"
  /\ SuccessLockFree(w)
  /\ phase' = [phase EXCEPT ![w][i] = "respHeld"]
  /\ completed' = [completed EXCEPT ![w] = @ + 1]
  /\ loaded' = [loaded EXCEPT ![w][i] = responses[w][outcome[w][i]]]
  /\ UNCHANGED <<loopVars, sent, outcome, failed, responses, errors, parallelWg,
                 chanVars>>

\* updateRespStats, second half: store the entry, release the mutex.
StoreResp(w, i) ==
  /\ phase[w][i] = "respHeld"
  /\ phase' = [phase EXCEPT ![w][i] = "sample"]
  /\ responses' = [responses EXCEPT ![w][outcome[w][i]] = loaded[w][i] + 1]
  /\ UNCHANGED <<loopVars, sent, outcome, loaded, completed, failed, errors,
                 parallelWg, chanVars>>

\* process()'s deferred function: send the sample; a full channel blocks it.
\* (Fault: a full channel drops it.)
SampleOrDrop(w, i) ==
  /\ phase[w][i] = "sample"
  /\ reqStats' = IF reqStats < StatsCap THEN reqStats + 1 ELSE reqStats
  /\ phase' = [phase EXCEPT ![w][i] = "returned"]
  /\ UNCHANGED <<loopVars, sent, outcome, loaded, statVars, parallelWg, received>>

Sample(w, i) ==
  /\ phase[w][i] = "sample"
  /\ reqStats < StatsCap
  /\ reqStats' = reqStats + 1
  /\ phase' = [phase EXCEPT ![w][i] = "returned"]
  /\ UNCHANGED <<loopVars, sent, outcome, loaded, statVars, parallelWg, received>>

\* updateErrStats, first half: take the mutex, load the error's entry.
LockErr(w, i) ==
  /\ phase[w][i] = "err"
  /\ \A j \in Reqs : phase[w][j] # "errHeld"
  /\ phase' = [phase EXCEPT ![w][i] = "errHeld"]
  /\ loaded' = [loaded EXCEPT ![w][i] = errors[w][outcome[w][i]]]
  /\ UNCHANGED <<loopVars, sent, outcome, statVars, parallelWg, chanVars>>

\* FailedReqs counts the request.  (Fault: it does not.)
NotFailed(w) == failed

OneMoreFailed(w) == [failed EXCEPT ![w] = @ + 1]

\* updateErrStats, second half: store the entry, count, release the mutex.
StoreErr(w, i) ==
  /\ phase[w][i] = "errHeld"
  /\ phase' = [phase EXCEPT ![w][i] = "returned"]
  /\ errors' = [errors EXCEPT ![w][outcome[w][i]] = loaded[w][i] + 1]
  /\ failed' = OneMoreFailed(w)
  /\ UNCHANGED <<loopVars, sent, outcome, loaded, completed, responses,
                 parallelWg, chanVars>>

\* A parallel request leaves the wait group.  (Fault: a failed one does not, as
\* if Done were not deferred.)
SuccessLeft(w, i) == IF Parallel /\ outcome[w][i] \in Codes
                       THEN [parallelWg EXCEPT ![w] = @ - 1] ELSE parallelWg

Left(w, i) == IF Parallel THEN [parallelWg EXCEPT ![w] = @ - 1] ELSE parallelWg

\* run() ends.
Finish(w, i) ==
  /\ phase[w][i] = "returned"
  /\ phase' = [phase EXCEPT ![w][i] = "done"]
  /\ parallelWg' = Left(w, i)
  /\ UNCHANGED <<loopVars, sent, outcome, loaded, statVars, chanVars>>

RequestStep(w, i) ==
  \/ NewReq(w, i)   \/ Middleware(w, i) \/ Do(w, i)
  \/ LockResp(w, i) \/ StoreResp(w, i)  \/ Sample(w, i)
  \/ LockErr(w, i)  \/ StoreErr(w, i)   \/ Finish(w, i)

\* What any worker of this program can do, whatever its loop decides.
LoopMove(w) == Begin(w) \/ Run(w) \/ Quit(w) \/ Drain(w) \/ Join(w)

BaseNext ==
  \/ StartWorkers \/ Cancel \/ RecvSample
  \/ \E w \in Workers : LoopMove(w) \/ \E i \in Reqs : RequestStep(w, i)

BaseSpec == BaseInit /\ [][BaseNext]_baseVars

-------------------------------------------------------------------------------
(* Properties of every kind of worker. *)

\* Every variable of a worker keeps its type; the channel keeps its capacity.
TypeOK ==
  /\ started \in BOOLEAN
  /\ ctxDone \in BOOLEAN
  /\ pc \in [Workers -> PCs]
  /\ sent \in [Workers -> 0 .. MaxReqs]
  /\ phase \in [Workers -> [Reqs -> Phases]]
  /\ outcome \in [Workers -> [Reqs -> Codes \cup Errs \cup {None}]]
  /\ loaded \in [Workers -> [Reqs -> Nat]]
  /\ completed \in [Workers -> Nat]
  /\ failed \in [Workers -> Nat]
  /\ responses \in [Workers -> [Codes -> Nat]]
  /\ errors \in [Workers -> [Errs -> Nat]]
  /\ parallelWg \in [Workers -> Int]
  /\ reqStats \in 0 .. StatsCap
  /\ received \in Nat

\* No statistics update is lost: the load and the store that updateRespStats
\* and updateErrStats do on sync.Map count every request exactly once, whatever
\* requests of the same worker run beside it, and the totals agree with them.
NoLostUpdate ==
  \A w \in Workers :
    /\ completed[w] = Cardinality(Counted(w))
    /\ failed[w] = Cardinality(FailedSet(w))
    /\ \A c \in Codes : responses[w][c] = Cardinality(StoredResp(w, c))
    /\ \A e \in Errs : errors[w][e] = Cardinality(StoredErr(w, e))

\* Each successful request puts exactly one latency sample on reqStats, and a
\* failed one none: what was sent is in the channel or was received.
SampleConservation == reqStats + received = Cardinality(Sampled)

\* A worker returns with requests still running, whose outcome the statistics
\* may miss, only when it runs them in parallel and the user has cancelled.
ReturnsQuiet ==
  \A w \in Workers : pc[w] = "exit" /\ Live(w) # {} => Parallel /\ ctxDone
===============================================================================
