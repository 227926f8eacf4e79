-------------------------------- MODULE LiveStats --------------------------------
(***************************************************************************)
(* The statistics of a run while it is going on and when it ends:          *)
(*                                                                         *)
(*   the workers count their answers and send each latency to reqStats;    *)
(*   calcReqStats (payloader.go) turns the latencies into the requests per *)
(*     second and the extremes and the total of the latency;               *)
(*   displayProgress (payloader.go), in verbose mode, shows the counters   *)
(*     on a ticker until it is told to stop, which nobody waits for;       *)
(*   ComputeResults (payloader-results.go) reads the same counters once    *)
(*     the workers are done.                                               *)
(*                                                                         *)
(* The last two both call Stats() (worker.go), which stores the counters   *)
(* in the worker's stats before it copies them.  A worker makes its        *)
(* requests one after another or, with config.Parallel, each in a          *)
(* goroutine of its own; its loop is that of WorkerFixedReqs.  Of a        *)
(* request only its counting and its latency are here: its inside is in    *)
(* WorkerBase, the JWT stream and the wrapper are in Payloader.            *)
(***************************************************************************)
EXTENDS Integers, Sequences, FiniteSetsExt, Sums

CONSTANTS
  Conns,        \* config.Conns
  Target,       \* config.ReqTarget of each worker
  Latency,      \* possible latencies of each worker's answers, none of them 0
  StatsCap,     \* capacity of the reqStats channel (1000000 in the code)
  MaxTicks      \* bound: ticks of the reader's one-second ticker and of the
                \*   display's ticker, together

Workers == 1 .. Conns
Fields  == {"bad", "ok"}    \* FailedReqs and CompletedReqs
Callers == {"results", "display"}

ASSUME LiveStatsAssumption ==
  /\ Conns \in Nat \ {0}
  /\ Target \in [Workers -> Nat]
  /\ Latency \in [Workers -> SUBSET (Nat \ {0})]
  /\ StatsCap \in Nat \ {0}
  /\ MaxTicks \in Nat

VARIABLES
  verbose,   \* config.Verbose
  parallel,  \* config.Parallel
  ctxDone,   \* the user's context is cancelled
  stopped,   \* the context of the reader and the display is cancelled
  final,     \* history: the counters when the last worker had returned
  left,      \* requests each worker has not begun
  running,   \* its requests that are neither counted nor failed yet
  held,      \* its requests that are counted and have still to send their latency
  returned,  \* its loop has returned: wg.Done()
  count,     \* its atomic counters
  stats,     \* the same fields in its stats
  samples,   \* the reqStats channel
  reader,    \* calcReqStats: where it is, its t and its rps
  rps,       \* RPS of the results, as the reader leaves it
  latency,   \* Latency of the results, as the reader leaves it
  seconds,   \* the reader's rps at the end of each second so far
  call,      \* where ComputeResults and the display are, in and between Stats()
  shows,     \* how often the display has shown the sums
  shown,     \* the sums it showed last
  results    \* what ComputeResults has returned

runVars    == <<verbose, parallel, ctxDone, stopped, final>>
workerVars == <<left, running, held, returned, count>>
readerVars == <<reader, rps, latency, seconds>>
callVars   == <<stats, call, shows, shown, results>>
vars       == <<runVars, workerVars, samples, readerVars, callVars>>

Latencies == UNION {Latency[w] : w \in Workers}

Zero == [f \in Fields |-> 0]

Init ==
  /\ verbose \in BOOLEAN /\ parallel \in BOOLEAN
  /\ ctxDone = FALSE
  /\ stopped = FALSE
  /\ final = [w \in Workers |-> Zero]
  /\ left = Target
  /\ running = [w \in Workers |-> 0]
  /\ held = [w \in Workers |-> 0]
  /\ returned = [w \in Workers |-> FALSE]
  /\ count = [w \in Workers |-> Zero]
  /\ stats = [w \in Workers |-> Zero]
  /\ samples = <<>>
  /\ reader = [pc |-> "select", t |-> 0, rps |-> 0]
  /\ rps = [max |-> 0, min |-> 0]
  /\ latency = [max |-> 0, min |-> 0, total |-> 0]
  /\ seconds = <<>>
  /\ call = [p \in Callers |->
               [pc |-> IF p = "display" /\ ~verbose THEN "end" ELSE "wait",
                w |-> 1, field |-> "bad", val |-> 0, sum |-> Zero]]
  /\ shows = 0
  /\ shown = Zero
  /\ results = [sum |-> Zero, total |-> 0]

-------------------------------------------------------------------------------
(* Workers: a request fails, or is counted and then sends its latency. *)

Idle(w) == running[w] = 0 /\ held[w] = 0

\* The loop begins its next request, once the last is over unless they are
\* parallel; the user has not cancelled.
Begin(w) ==
  /\ ~returned[w] /\ left[w] > 0
  /\ ~ctxDone
  /\ parallel \/ Idle(w)
  /\ left' = [left EXCEPT ![w] = @ - 1]
  /\ running' = [running EXCEPT ![w] = @ + 1]
  /\ UNCHANGED <<runVars, held, returned, count, samples, readerVars, callVars>>

Fail(w) ==
  /\ running[w] > 0
  /\ running' = [running EXCEPT ![w] = @ - 1]
  /\ count' = [count EXCEPT ![w].bad = @ + 1]
  /\ UNCHANGED <<runVars, left, held, returned, samples, readerVars, callVars>>

Answer(w) ==
  /\ running[w] > 0
  /\ running' = [running EXCEPT ![w] = @ - 1]
  /\ count' = [count EXCEPT ![w].ok = @ + 1]
  /\ held' = [held EXCEPT ![w] = @ + 1]
  /\ UNCHANGED <<runVars, left, returned, samples, readerVars, callVars>>

\* (Fault: the channel takes one more than its capacity.)
RoomForOneMore == Len(samples) <= StatsCap

Room == Len(samples) < StatsCap

\* The latency was measured before the answer was counted, but nothing sees it
\* before it is sent.
Send(w, t) ==
  /\ held[w] > 0
  /\ Room
  /\ samples' = Append(samples, t)
  /\ held' = [held EXCEPT ![w] = @ - 1]
  /\ UNCHANGED <<runVars, left, running, returned, count, readerVars, callVars>>

\* The loop sees the user's cancellation between two requests, and does not
\* wait for those that run beside it.
Quit(w) ==
  /\ ~returned[w] /\ left[w] > 0
  /\ ctxDone
  /\ parallel \/ Idle(w)
  /\ returned' = [returned EXCEPT ![w] = TRUE]
  /\ UNCHANGED <<runVars, left, running, held, count, samples, readerVars, callVars>>

\* The loop has made all its requests and, if they are parallel, waited for them.
\* (Fault: without the wait.)
NotWaited(w) == parallel \/ Idle(w)

Waited(w) == Idle(w)

Finish(w) ==
  /\ ~returned[w] /\ left[w] = 0
  /\ Waited(w)
  /\ returned' = [returned EXCEPT ![w] = TRUE]
  /\ UNCHANGED <<runVars, left, running, held, count, samples, readerVars, callVars>>

Cancel ==
  /\ ~ctxDone
  /\ ctxDone' = TRUE
  /\ UNCHANGED <<verbose, parallel, stopped, final, workerVars, samples, readerVars, callVars>>

-------------------------------------------------------------------------------
(* calcReqStats: a select between its context, its ticker and the channel. *)

ReaderStops ==
  /\ reader.pc = "select"
  /\ stopped
  /\ reader' = [reader EXCEPT !.pc = "end"]
  /\ UNCHANGED <<runVars, workerVars, samples, rps, latency, seconds, callVars>>

\* A minimum of 0 counts as none.  (Fault: it counts.)
LowestOf(v, min) == IF v < min THEN v ELSE min

Lower(v, min) == IF v < min \/ min = 0 THEN v ELSE min

\* The bound on the two tickers.
MoreTicks == Len(seconds) + shows < MaxTicks

\* A second is over.
Second ==
  /\ reader.pc = "select"
  /\ MoreTicks
  /\ rps' = [max |-> Max({rps.max, reader.rps}), min |-> Lower(reader.rps, rps.min)]
  /\ seconds' = Append(seconds, reader.rps)
  /\ reader' = [reader EXCEPT !.rps = 0]
  /\ UNCHANGED <<runVars, workerVars, samples, latency, callVars>>

Receive ==
  /\ reader.pc = "select"
  /\ samples # <<>>
  /\ reader' = [pc |-> "max", t |-> Head(samples), rps |-> reader.rps + 1]
  /\ samples' = Tail(samples)
  /\ UNCHANGED <<runVars, workerVars, rps, latency, seconds, callVars>>

\* The latency's three fields are updated in this order; t is not used again.
\* (Fault: the total first.)
TotalFirst == [max |-> "min", min |-> "total", total |-> "max"]

FieldOrder == [max |-> "max", min |-> "min", total |-> "total"]

Update ==
  /\ reader.pc \in {"max", "min", "total"}
  /\ reader' = [reader EXCEPT
       !.pc = CASE @ = "max" -> "min" [] @ = "min" -> "total" [] @ = "total" -> "select",
       !.t  = IF reader.pc = "total" THEN 0 ELSE @]
  /\ latency' = [latency EXCEPT ![FieldOrder[reader.pc]] =
       CASE FieldOrder[reader.pc] = "max" -> Max({@, reader.t})
         [] FieldOrder[reader.pc] = "min" -> Lower(reader.t, @)
         [] OTHER -> @ + reader.t]
  /\ UNCHANGED <<runVars, workerVars, samples, rps, seconds, callVars>>

-------------------------------------------------------------------------------
(* Stats(): each counter is loaded and stored, then both fields are copied. *)

Load(p) ==
  /\ call[p].pc = "load"
  /\ call' = [call EXCEPT ![p] =
       [@ EXCEPT !.pc = "store", !.val = count[call[p].w][call[p].field]]]
  /\ UNCHANGED <<runVars, workerVars, samples, readerVars, stats, shows, shown, results>>

Store(p) ==
  /\ call[p].pc = "store"
  /\ stats' = [stats EXCEPT ![call[p].w][call[p].field] = call[p].val]
  /\ call' = [call EXCEPT ![p] =
       [@ EXCEPT !.pc = IF call[p].field = "bad" THEN "load" ELSE "copy",
                 !.field = "ok", !.val = 0]]
  /\ UNCHANGED <<runVars, workerVars, samples, readerVars, shows, shown, results>>

\* The caller adds them to its sums and goes on to the next worker.
Copy(p) ==
  /\ call[p].pc = "copy"
  /\ call' = [call EXCEPT ![p] =
       [@ EXCEPT !.sum   = [f \in Fields |-> call[p].sum[f] + stats[call[p].w][f]],
                 !.pc    = IF call[p].w = Conns THEN "use" ELSE "load",
                 !.field = "bad",
                 !.w     = IF call[p].w = Conns THEN 1 ELSE call[p].w + 1]]
  /\ UNCHANGED <<runVars, workerVars, samples, readerVars, stats, shows, shown, results>>

-------------------------------------------------------------------------------
(* displayProgress *)

\* Each tick adds up from zero.  (Fault: from the last sums.)
SumSoFar == call["display"].sum

FreshSum == Zero

DisplayTick ==
  /\ call["display"].pc = "wait"
  /\ MoreTicks
  /\ shows' = shows + 1
  /\ call' = [call EXCEPT !["display"] = [@ EXCEPT !.pc = "load", !.sum = FreshSum]]
  /\ UNCHANGED <<runVars, workerVars, samples, readerVars, stats, shown, results>>

Show ==
  /\ call["display"].pc = "use"
  /\ call' = [call EXCEPT !["display"] = [@ EXCEPT !.pc = "wait"]]
  /\ shown' = call["display"].sum
  /\ UNCHANGED <<runVars, workerVars, samples, readerVars, stats, shows, results>>

\* The run is over, or the user cancelled; or, before the first tick, nothing
\* can be drawn.
DisplayStops ==
  /\ call["display"].pc = "wait"
  /\ stopped \/ ctxDone \/ shows = 0
  /\ call' = [call EXCEPT !["display"] = [@ EXCEPT !.pc = "end"]]
  /\ UNCHANGED <<runVars, workerVars, samples, readerVars, stats, shows, shown, results>>

-------------------------------------------------------------------------------
(* handleReqs, from workersComplete.Wait() on, and ComputeResults. *)

AllDone == \A w \in Workers : returned[w]

WorkersDone ==
  /\ call["results"].pc = "wait"
  /\ AllDone
  /\ stopped' = TRUE
  /\ final' = count
  /\ call' = [call EXCEPT !["results"] = [@ EXCEPT !.pc = "load"]]
  /\ UNCHANGED <<verbose, parallel, ctxDone, workerVars, samples, readerVars,
                 stats, shows, shown, results>>

\* Latency.Average is Latency.Total over CompletedReqs, if there are any.
Return ==
  /\ call["results"].pc = "use"
  /\ call' = [call EXCEPT !["results"] = [@ EXCEPT !.pc = "end"]]
  /\ results' = [sum   |-> call["results"].sum,
                 total |-> IF call["results"].sum.ok > 0 THEN latency.total ELSE 0]
  /\ UNCHANGED <<runVars, workerVars, samples, readerVars, stats, shows, shown>>

-------------------------------------------------------------------------------
WorkerStep(w) ==
  \/ Begin(w) \/ Fail(w) \/ Answer(w)
  \/ \E t \in Latency[w] : Send(w, t)
  \/ Quit(w) \/ Finish(w)
ReaderStep    == ReaderStops \/ Second \/ Receive \/ Update
StatsStep(p)  == Load(p) \/ Store(p) \/ Copy(p)

Next ==
  \/ Cancel \/ ReaderStep \/ DisplayTick \/ Show \/ DisplayStops
  \/ WorkersDone \/ Return
  \/ \E w \in Workers : WorkerStep(w)
  \/ \E p \in Callers : StatsStep(p)

\* Safety only: that a run ends is checked of Payloader.
Spec == Init /\ [][Next]_vars

-------------------------------------------------------------------------------
Returned == call["results"].pc = "end"

SumOver(f) == SumOf([w \in Workers |-> count[w][f]], Workers)

FinalOver(f) == SumOf([w \in Workers |-> final[w][f]], Workers)

\* The user cancelled parallel workers before their last request: their loops
\* returned with requests in flight, which are counted while the results are
\* computed, or later.
CutOff == stopped /\ parallel /\ \E w \in Workers : left[w] > 0

\* Types; the channel keeps its capacity.
TypeOK ==
  /\ {verbose, parallel, ctxDone, stopped} \subseteq BOOLEAN
  /\ {left, running, held} \subseteq [Workers -> Nat]
  /\ returned \in [Workers -> BOOLEAN]
  /\ final \in [Workers -> [Fields -> Nat]]
  /\ count \in [Workers -> [Fields -> Nat]]
  /\ stats \in [Workers -> [Fields -> Nat]]
  /\ samples \in Seq(Latencies) /\ Len(samples) <= StatsCap
  /\ reader.pc \in {"select", "max", "min", "total", "end"}
  /\ reader.rps \in Nat /\ reader.t \in Latencies \cup {0}
  /\ \A v \in {rps.max, rps.min, latency.max, latency.min, latency.total} : v \in Nat
  /\ \A p \in Callers :
       /\ call[p].pc \in {"wait", "load", "store", "copy", "use", "end"}
       /\ call[p].w \in Workers /\ call[p].field \in Fields /\ call[p].val \in Nat
       /\ call[p].sum \in [Fields -> Nat]
  /\ shows \in 0 .. MaxTicks
  /\ {shown, results.sum} \subseteq [Fields -> Nat]
  /\ results.total \in Nat

\* The results never claim a request that was not made, whoever calls Stats()
\* beside ComputeResults.  Without a display they miss none that was counted
\* when the last worker returned, which is all of them unless the user cut
\* parallel workers off.
NeverOverstated ==
  Returned => \A f \in Fields :
    /\ results.sum[f] <= SumOver(f)
    /\ ~verbose => results.sum[f] >= FinalOver(f)
    /\ ~verbose /\ ~CutOff => results.sum[f] = SumOver(f)

\* What the display shows never runs ahead of the counters, and only grows but
\* after parallel workers were cut off, when ComputeResults can put an older
\* count back: the progress bar, to which the differences are added, never
\* moves past its end, nor back before the user cancels.
ShownGrows ==
  [][\A f \in Fields :
       /\ shown'[f] <= SumOver(f)
       /\ CutOff \/ shown[f] <= shown'[f]]_shown

\* The requests per second are those of whole seconds of one run: no answer is
\* in two of them, and the minimum is that of the seconds since the last one
\* without any answer, which is forgotten by the next.
LastSilent == Max({k \in 1 .. Len(seconds) : seconds[k] = 0} \cup {0})

SinceSilent == {seconds[k] : k \in LastSilent + 1 .. Len(seconds)}

RpsOfWholeSeconds ==
  /\ SumOver("ok") >= reader.rps + SumOf(seconds, DOMAIN seconds)
  /\ rps.max = Max({seconds[k] : k \in DOMAIN seconds} \cup {0})
  /\ rps.min = IF SinceSilent = {} THEN 0 ELSE Min(SinceSilent)

\* The minimum latency is never above the maximum.  Nor is the average, whatever
\* samples the reader got by the time ComputeResults reads the total and whatever
\* it is doing then, if the results count all answers: a display can make them
\* miss some whose latency is in the total, and so can requests that run on
\* after parallel workers were cut off.
AverageWithinMax ==
  /\ latency.min <= latency.max
  /\ Returned /\ ~verbose /\ ~CutOff => results.total <= latency.max * results.sum.ok

\* Verbose mode costs some speed, as the program says, but no requests: the
\* results count all of them, with a display or without, when the run was not
\* cut off.
VerboseCountsExact ==
  Returned /\ ~CutOff => \A f \in Fields : results.sum[f] = SumOver(f)
===============================================================================
