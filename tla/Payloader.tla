------------------------------- MODULE Payloader -------------------------------
(***************************************************************************)
(* A whole run of the program with a request target (-r without -t):       *)
(*                                                                         *)
(*   RunGoPayLoader (wrapper.go) waits for the results, an error or        *)
(*     ctrl+c; after ctrl+c for five seconds at most;                      *)
(*   handleReqs (payloader.go) has the JWTs generated, creates the workers *)
(*     of FixedReqs, releases them, waits for the end of the JWT stream    *)
(*     and then for the workers, stops the statistics reader and computes  *)
(*     the results;                                                        *)
(*   retrieve (cache.go) feeds the JWT stream from the cache file, or      *)
(*     getUserJWTS (jwt.go) from the user's file, round and round;         *)
(*   calcReqStats reads the latency samples until it is stopped.           *)
(*                                                                         *)
(* The JWT generation itself is JwtCache, and what calcReqStats makes of   *)
(* the samples is LiveStats.                                               *)
(***************************************************************************)
EXTENDS FixedReqs, Sequences, Sums

CONSTANTS
  ReqTarget,    \* config.ReqTarget
  Conns,        \* config.Conns
  JwtCap,       \* capacity of the JWT stream (1000000 in the code)
  JwtMayFail,   \* whether reading the JWTs can fail
  Sources       \* files of JWTs: whether the user's, and the lines a scan yields

\* handleReqs deals the requests out evenly, the remainder to the first workers.
Share(k) == ReqTarget \div Conns + (IF k <= ReqTarget % Conns THEN 1 ELSE 0)

\* config.Validate() accepts no more connections than requests.
ASSUME PayloaderAssumption ==
  /\ Conns \in Nat \ {0}
  /\ ReqTarget \in Nat
  /\ Conns <= ReqTarget
  /\ Workers = 1 .. Conns
  /\ Target = [k \in Workers |-> Share(k)]
  /\ ReqErrs \cap DoErrs = {}     \* an error tells where it comes from
  /\ JwtCap \in Nat \ {0}
  /\ JwtMayFail \in BOOLEAN
  /\ Sources \subseteq [user : BOOLEAN, lines : Nat]

VARIABLES
  main,         \* where handleReqs is
  wrapper,      \* where RunGoPayLoader is
  source,       \* the file of this run
  line,         \* the line of it last scanned
  jwtStream,    \* JWTs in the stream; the k-th line's JWT is the number k
  jwtPut,       \* how many the producer has put
  jwtErr,       \* the error channel and, with it, the stream: open or closed
  token,        \* the JWT each request got, NoToken from a closed stream
  reader,       \* calcReqStats
  summed,       \* workers ComputeResults has added up
  results       \* what it has added up

mainVars == <<main, wrapper>>
jwtVars  == <<source, line, jwtStream, jwtPut, jwtErr, token>>
resVars  == <<reader, summed, results>>
sysVars  == <<vars, mainVars, jwtVars, resVars>>

NoToken == 0

MainPCs == {"generate",   \* having the JWTs generated
            "spawn",      \* creating the workers
            "release",    \* about to release them
            "jwt",        \* waiting on jwtErr
            "wait",       \* waiting on workersComplete
            "compute",    \* in ComputeResults
            "returned", "failed"}

\* The types of the variables this module adds; the stream keeps its capacity.
SystemTypeOK ==
  /\ main \in MainPCs
  /\ wrapper \in {"waiting", "aborting", "results", "error", "timeout"}
  /\ source \in Sources
  /\ line \in 0 .. source.lines
  /\ jwtStream \in Seq(1 .. source.lines) /\ Len(jwtStream) <= JwtCap
  /\ jwtPut \in 0 .. ReqTarget
  /\ jwtErr \in {"open", "error", "closed"}
  /\ token \in [Workers -> [Reqs -> 0 .. source.lines]]
  /\ reader \in {"off", "running", "stopping", "stopped"}
  /\ summed \in 0 .. Conns
  /\ results.completed \in Nat /\ results.failed \in Nat /\ results.samples \in Nat
  /\ results.responses \in [Codes -> Nat] /\ results.errors \in [Errs -> Nat]

SystemInit ==
  /\ BaseInit
  /\ main = IF UsesJwt THEN "generate" ELSE "spawn"
  /\ wrapper = "waiting"
  /\ source \in Sources
  /\ line = 0
  /\ jwtStream = <<>>
  /\ jwtPut = 0
  /\ jwtErr = "open"
  /\ token = [w \in Workers |-> [i \in Reqs |-> NoToken]]
  /\ reader = "off"
  /\ summed = 0
  /\ results = [completed |-> 0, failed |-> 0, samples |-> 0,
                responses |-> [c \in Codes |-> 0], errors |-> [e \in Errs |-> 0]]

-------------------------------------------------------------------------------
(* handleReqs *)

\* The cache directory is made, and Generate and JWTS, or GetUserSuppliedJWTs,
\* return with a stream; or there is an error.
Generate ==
  /\ main = "generate"
  /\ main' \in {"spawn", "failed"}
  /\ UNCHANGED <<vars, wrapper, jwtVars, resVars>>

\* Every worker is created, or one cannot be (its client rejects the config)
\* and those before it are left waiting for the trigger.
Spawn ==
  /\ main = "spawn"
  /\ main' \in {"release", "failed"}
  /\ UNCHANGED <<vars, wrapper, jwtVars, resVars>>

\* startWorkers, startTimer, and the statistics reader.
Release ==
  /\ main = "release"
  /\ StartWorkers
  /\ main' = IF UsesJwt THEN "jwt" ELSE "wait"
  /\ reader' = "running"
  /\ UNCHANGED <<wrapper, jwtVars, summed, results>>

\* Returning with an error stops the reader.  (Fault: going on does, too.)
ReaderStoppedEarly == "stopping"

ReaderAfterJwts == IF jwtErr = "error" THEN "stopping" ELSE reader

\* err, _ := <-jwtErr: an error, or the channel closed without one.
JwtsDone ==
  /\ main = "jwt"
  /\ jwtErr # "open"
  /\ main' = IF jwtErr = "error" THEN "failed" ELSE "wait"
  /\ reader' = ReaderAfterJwts
  /\ UNCHANGED <<vars, wrapper, jwtVars, summed, results>>

\* workersComplete is at zero.  (Fault: it counts one worker only.)
FirstDone == \E w \in Workers : pc[w] = "exit"

AllDone == \A w \in Workers : pc[w] = "exit"

\* workersComplete.Wait() returns; stopTimer, stopStatsCalc.
WorkersDone ==
  /\ main = "wait"
  /\ AllDone
  /\ main' = "compute"
  /\ reader' = "stopping"
  /\ UNCHANGED <<vars, wrapper, jwtVars, summed, results>>

\* ComputeResults adds up the next worker.
SumWorker ==
  /\ main = "compute"
  /\ summed < Conns
  /\ summed' = summed + 1
  /\ results' = [results EXCEPT
       !.completed = @ + completed[summed'],
       !.failed    = @ + failed[summed'],
       !.responses = [c \in Codes |-> @[c] + responses[summed'][c]],
       !.errors    = [e \in Errs |-> @[e] + errors[summed'][e]]]
  /\ UNCHANGED <<vars, mainVars, jwtVars, reader>>

\* Latency.Average is Latency.Total, of the samples the reader has got by now,
\* over CompletedReqs.
Average ==
  /\ main = "compute"
  /\ summed = Conns
  /\ main' = "returned"
  /\ results' = [results EXCEPT !.samples = received]
  /\ UNCHANGED <<vars, wrapper, jwtVars, reader, summed>>

HandleReqs ==
  Generate \/ Spawn \/ Release \/ JwtsDone \/ WorkersDone \/ SumWorker \/ Average

-------------------------------------------------------------------------------
(* The statistics reader: a select between its context and the channel. *)

ReadSample ==
  /\ reader \in {"running", "stopping"}
  /\ RecvSample
  /\ UNCHANGED <<mainVars, jwtVars, resVars>>

ReaderStops ==
  /\ reader = "stopping"
  /\ reader' = "stopped"
  /\ UNCHANGED <<vars, mainVars, jwtVars, summed, results>>

-------------------------------------------------------------------------------
(* The JWT stream. *)

JwtOpen == UsesJwt /\ main # "generate" /\ jwtErr = "open"

\* The producer is asked for ReqTarget JWTs.  (Faults: one more; one less.)
OneMoreJwt == jwtPut <= ReqTarget
OneLessJwt == jwtPut + 1 < ReqTarget

MoreJwts == jwtPut < ReqTarget

\* The scanner's next line: getUserJWTS begins again after the last one.
\* (Fault: after it, it reads the last line again.)
NextLineStuck == IF line = source.lines /\ source.user THEN line ELSE line + 1

NextLine == IF line = source.lines /\ source.user THEN 1 ELSE line + 1

\* The next JWT is sent; a full stream blocks.
Produce ==
  /\ JwtOpen
  /\ MoreJwts
  /\ NextLine <= source.lines
  /\ Len(jwtStream) < JwtCap
  /\ line' = NextLine
  /\ jwtStream' = Append(jwtStream, line')
  /\ jwtPut' = jwtPut + 1
  /\ UNCHANGED <<vars, mainVars, source, jwtErr, token, resVars>>

\* No line is left, or there is a read error; getUserJWTS sees one only when it
\* opens the file or goes back to its beginning.
CannotRead ==
  \/ NextLine > source.lines
  \/ JwtMayFail /\ (source.user => line \in {0, source.lines})

\* The producer closes both channels, after the last JWT or an error.
ProducerEnds ==
  /\ JwtOpen
  /\ \/ ~MoreJwts /\ jwtErr' = "closed"
     \/ MoreJwts /\ CannotRead /\ jwtErr' = "error"
  /\ UNCHANGED <<vars, mainVars, source, line, jwtStream, jwtPut, token, resVars>>

\* jwtMiddleware: a JWT, or nothing at all from a closed and empty stream.
ReceiveJwt(w, i) ==
  /\ Middleware(w, i)
  /\ IF jwtStream # <<>>
       THEN /\ token' = [token EXCEPT ![w][i] = Head(jwtStream)]
            /\ jwtStream' = Tail(jwtStream)
       ELSE /\ jwtErr # "open"
            /\ UNCHANGED <<token, jwtStream>>
  /\ UNCHANGED <<mainVars, source, line, jwtPut, jwtErr, resVars>>

-------------------------------------------------------------------------------
(* Workers and requests, which do nothing to the rest of the system. *)

WorkerMoves(w) ==
  /\ WorkerStep(w)
  /\ UNCHANGED <<mainVars, jwtVars, resVars>>

RequestMoves(w, i) ==
  \/ ReceiveJwt(w, i)
  \/ /\ \/ NewReq(w, i)   \/ Do(w, i)
        \/ LockResp(w, i) \/ StoreResp(w, i) \/ Sample(w, i)
        \/ LockErr(w, i)  \/ StoreErr(w, i)  \/ Finish(w, i)
     /\ UNCHANGED <<mainVars, jwtVars, resVars>>

-------------------------------------------------------------------------------
(* RunGoPayLoader *)

Interrupt ==
  /\ wrapper = "waiting"
  /\ Cancel
  /\ wrapper' = "aborting"
  /\ UNCHANGED <<main, jwtVars, resVars>>

\* The results, or the error, are taken over the unbuffered channels.
Deliver ==
  /\ wrapper \in {"waiting", "aborting"}
  /\ \/ main = "returned" /\ wrapper' = "results"
     \/ main = "failed"   /\ wrapper' = "error"
  /\ UNCHANGED <<vars, main, jwtVars, resVars>>

Timeout ==
  /\ wrapper = "aborting"
  /\ wrapper' = "timeout"
  /\ UNCHANGED <<vars, main, jwtVars, resVars>>

-------------------------------------------------------------------------------
SystemNext ==
  \/ HandleReqs \/ ReadSample \/ ReaderStops \/ Produce \/ ProducerEnds
  \/ Interrupt \/ Deliver \/ Timeout
  \/ \E w \in Workers : WorkerMoves(w) \/ \E i \in Reqs : RequestMoves(w, i)

\* Every goroutine that can run does.  The reader's select is not fair to
\* either branch, but while it is not stopped it only has the channel.
SystemFairness ==
  /\ WF_sysVars(HandleReqs)
  /\ WF_sysVars(ReadSample \/ ReaderStops)
  /\ WF_sysVars(Produce \/ ProducerEnds)
  /\ WF_sysVars(Deliver \/ Timeout)
  /\ \A w \in Workers : WF_sysVars(WorkerMoves(w))
  /\ \A w \in Workers, i \in Reqs : WF_sysVars(RequestMoves(w, i))

SystemSpec == SystemInit /\ [][SystemNext]_sysVars /\ SystemFairness

-------------------------------------------------------------------------------
Total(counts) == SumOf(counts, DOMAIN counts)

\* Results of a run nobody cancelled account for every request asked for, and
\* their breakdowns by response code and by error add up to the totals.
ResultsComplete ==
  main = "returned" /\ ~ctxDone =>
    /\ results.completed + results.failed = ReqTarget
    /\ Total(results.responses) = results.completed
    /\ Total(results.errors) = results.failed

\* No JWT of the cache goes out twice, and of the user's file none is used again
\* before those after it: its JWTs go out in turn, whichever workers take them.
Uses(l) ==
  Cardinality({r \in Workers \X Reqs : token[r[1]][r[2]] = l})
    + Cardinality({k \in 1 .. Len(jwtStream) : jwtStream[k] = l})

JwtsInTurn ==
  \A l, m \in 1 .. source.lines :
    /\ l < m => Uses(l) - Uses(m) \in {0, 1}
    /\ ~source.user => Uses(l) <= 1

\* A request goes out without its JWT only when the stream failed, and results
\* of such a run are never reported.
SentBare(w, i) ==
  /\ UsesJwt
  /\ token[w][i] = NoToken
  /\ phase[w][i] \notin {"idle", "new", "jwt"}
  /\ outcome[w][i] \notin ReqErrs

NoBareRequests ==
  (\E w \in Workers, i \in Reqs : SentBare(w, i)) =>
    jwtErr = "error" /\ main \in {"jwt", "failed"}

\* The samples behind the average latency never outnumber the requests it is
\* divided by, so it is never overstated in a run nobody cancelled.
AverageNotOverstated ==
  main = "returned" /\ ~ctxDone => results.samples <= results.completed

\* The average latency is the average over the completed requests: the total
\* it is computed from has the sample of every one of them.
AverageOverAllRequests ==
  main = "returned" /\ ~ctxDone => results.samples = results.completed

\* The producer cannot go on: the stream is full and nobody will read from it.
Stranded ==
  JwtOpen /\ MoreJwts /\ Len(jwtStream) = JwtCap /\ AllDone

\* handleReqs returns, with results or an error, cancelled or not, through a
\* stream that holds fewer JWTs than there are requests, unless it waits for a
\* producer that is stranded.
HandleReqsReturns == <>(main \in {"returned", "failed"} \/ Stranded)

\* The producer is only ever stranded by a cancellation, or by more requests
\* that could not be built, and took no JWT, than the stream has places.
Unbuilt == {r \in Workers \X Reqs : outcome[r[1]][r[2]] \in ReqErrs}

StrandedByUnread == Stranded => ctxDone \/ Cardinality(Unbuilt) > JwtCap

\* After ctrl+c handleReqs still ends, with partial results or an error, which
\* is what RunGoPayLoader then waits for.
CancelGivesResults == ctxDone ~> main \in {"returned", "failed"}

\* Results nobody cancelled mean that each request that could be built took a
\* JWT, and that those of the others are left in the stream, no more, no less.
EveryJwtSent ==
  main = "returned" /\ ~ctxDone /\ UsesJwt =>
    /\ jwtPut = ReqTarget
    /\ Len(jwtStream) = Cardinality(Unbuilt)
===============================================================================
