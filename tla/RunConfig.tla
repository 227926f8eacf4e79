-------------------------------- MODULE RunConfig --------------------------------
(***************************************************************************)
(* From the command line to the workers: Validate (config.go), which       *)
(* RunGoPayLoader and PayLoader.Run both call, the first half of           *)
(* handleReqs, which deals the requests out and computes the pace,         *)
(* NewWorker (generate.go), which chooses the kind of worker, and the      *)
(* tickers with which the workers' loops and the display begin.  What a    *)
(* kind of worker assumes of its configuration, here it gets or does not.  *)
(***************************************************************************)
EXTENDS Integers, Sequences, Sums

CONSTANTS
  Durations,   \* -t, in units of time.Duration; a flag may be negative
  ReqTargets,  \* -r, an int64
  ConnCounts,  \* -c, a uint
  Tickers,     \* --ticker, a duration; a flag may be negative
  Clients,     \* --client, any string
  Word,        \* 2 to the width of an int, a uint and an int64 (64 in the code)
  CounterWord, \* 2 to the width of a wait group's counter (32 in Go)
  MaxSlice     \* the most workers that make can give a slice of

ASSUME RunConfigAssumption ==
  /\ {Word, CounterWord} \subseteq Nat \ {0}
  /\ MaxSlice \in Nat /\ 2 * MaxSlice < Word
  /\ Durations \subseteq Int
  /\ ReqTargets \subseteq Int
  /\ ConnCounts \subseteq 0 .. Word - 1
  /\ Tickers \subseteq Int

Known       == {"fasthttp", "nethttp", "nethttp2", "nethttp3"}
Multiplexed == {"nethttp2", "nethttp3"}
Kinds       == {"FixedReqs", "FixedTime", "FixedTimeRequests"}

\* wellFormed stands for what Validate checks by itself of the URI, the
\* headers, the method, the time-outs and the custom claims.
Confs == [Duration : Durations, ReqTarget : ReqTargets, Conns : ConnCounts,
          Client : Clients, Parallel : BOOLEAN, JwtKey : BOOLEAN,
          JwtsFilename : BOOLEAN, JwtHeader : BOOLEAN, Verbose : BOOLEAN,
          VerboseTicker : Tickers, wellFormed : BOOLEAN]

VARIABLES
  conf,       \* the configuration
  pc,         \* where the run is
  sendJWT,    \* config.SendJWT, set by Validate
  reqEvery,   \* the pace
  remainder,  \* remainderReqs
  workers     \* the workers created so far, in order

vars == <<conf, pc, sendJWT, reqEvery, remainder, workers>>

Init ==
  /\ conf \in Confs
  /\ pc = "config"
  /\ sendJWT = FALSE
  /\ reqEvery = 0
  /\ remainder = 0
  /\ workers = <<>>

-------------------------------------------------------------------------------
HasJwts(c) == c.JwtKey \/ c.JwtsFilename

\* An integer that is converted to a signed one.
Signed(n, word) ==
  IF n % word < word - (n % word) THEN n % word ELSE (n % word) - word

\* A connection needs a request, unless the time alone ends the run; a count
\* beyond the signed integers is compared as a negative one.  (Fault: whenever
\* there is a time, it does without.)
RequestPerConnUntimed(c) == c.Duration = 0 => Signed(c.Conns, Word) <= c.ReqTarget

RequestPerConn(c) ==
  c.Duration = 0 \/ c.ReqTarget # 0 => Signed(c.Conns, Word) <= c.ReqTarget

\* JWTs need a request target.  (Fault: or a time.)
JwtsCountedOrTimed(c) == HasJwts(c) => c.ReqTarget # 0 \/ c.Duration # 0

JwtsCounted(c) == HasJwts(c) => c.ReqTarget # 0

\* Validate's checks, the opening of the files apart: of the ticker, only that
\* it is not zero.
Accepts(c) ==
  /\ c.Conns # 0
  /\ RequestPerConn(c)
  /\ HasJwts(c) <=> c.JwtHeader
  /\ JwtsCounted(c)
  /\ c.Parallel => c.Client \in Multiplexed
  /\ c.VerboseTicker # 0
  /\ c.ReqTarget # 0 \/ c.Duration # 0
  /\ c.wellFormed

\* The two calls of Validate, by RunGoPayLoader and then by Run; each opens the
\* files anew, and what opened once need not open again.
Validate ==
  /\ pc \in {"config", "run"}
  /\ \/ /\ Accepts(conf)
        /\ sendJWT' = HasJwts(conf)
        /\ pc' = IF pc = "config" THEN "run" ELSE "prepare"
     \/ pc' = "rejected" /\ UNCHANGED sendJWT
  /\ UNCHANGED <<conf, reqEvery, remainder, workers>>

\* Duration / (ReqTarget / Conns), truncated to an integer.  (Faults:
\* integers divided too early, in two places.)
PaceOfWholeShares(c) ==
  IF c.Duration < 0 THEN -((-c.Duration) \div (c.ReqTarget \div c.Conns))
                    ELSE c.Duration \div (c.ReqTarget \div c.Conns)

PaceDividingFirst(c) == (c.Duration \div c.ReqTarget) * c.Conns

Pace(c) ==
  IF c.Duration < 0 THEN -((-c.Duration * c.Conns) \div c.ReqTarget)
                    ELSE (c.Duration * c.Conns) \div c.ReqTarget

\* Without a target the division is by zero, and Go leaves the conversion of
\* the infinite quotient to the implementation.
Undefined == {-1, 1}

\* The counter of workersComplete does not become negative, and there is a slice
\* of that many workers.
Countable(c) == Signed(c.Conns, CounterWord) >= 0 /\ c.Conns <= MaxSlice

\* handleReqs up to its loop.  With JWTs it may fail to get them; with too many
\* connections Add or make panics.
Prepare ==
  /\ pc = "prepare"
  /\ \/ /\ Countable(conf)
        /\ pc' = "deal"
        /\ remainder' = conf.ReqTarget % conf.Conns
        /\ reqEvery' \in IF conf.Duration = 0 THEN {0}
                         ELSE IF conf.ReqTarget = 0 THEN Undefined
                         ELSE {Pace(conf)}
     \/ /\ sendJWT
        /\ pc' = "failed"
        /\ UNCHANGED <<remainder, reqEvery>>
     \/ /\ ~Countable(conf)
        /\ pc' = "panicked"
        /\ UNCHANGED <<remainder, reqEvery>>
  /\ UNCHANGED <<conf, sendJWT, workers>>

KindOf(c) ==
  CASE c.Duration = 0 /\ c.ReqTarget # 0 -> "FixedReqs"
    [] c.Duration # 0 /\ c.ReqTarget = 0 -> "FixedTime"
    [] OTHER                             -> "FixedTimeRequests"

\* The worker of the next connection: its share of the requests, a piece of the
\* remainder while there is some, and the middleware if its kind takes JWTs.
NewWorker(c) ==
  [kind       |-> KindOf(c),
   target     |-> c.ReqTarget \div c.Conns + (IF remainder > 0 THEN 1 ELSE 0),
   middleware |-> sendJWT /\ KindOf(c) # "FixedTime"]

\* What the round leaves of the remainder.  (Fault: all of it.)
RemainderKept == remainder

RemainderLeft == IF remainder > 0 THEN remainder - 1 ELSE remainder

\* One round of the loop; the client is not known, or cannot be made.
Deal ==
  /\ pc = "deal"
  /\ Len(workers) < conf.Conns
  /\ \/ /\ conf.Client \in Known
        /\ workers' = Append(workers, NewWorker(conf))
        /\ remainder' = RemainderLeft
        /\ UNCHANGED pc
     \/ pc' = "failed" /\ UNCHANGED <<workers, remainder>>
  /\ UNCHANGED <<conf, sendJWT, reqEvery>>

Release ==
  /\ pc = "deal"
  /\ Len(workers) = conf.Conns
  /\ pc' = "released"
  /\ UNCHANGED <<conf, sendJWT, reqEvery, remainder, workers>>

\* The period of the ticker with which a released worker begins.
Period(kind) == CASE kind = "FixedTime"         -> conf.Duration
                  [] kind = "FixedTimeRequests" -> reqEvery
                  [] OTHER                      -> 1

\* time.NewTicker panics on a period that is not positive, in a goroutine that
\* recovers from nothing: the program ends without results.  The workers' loops
\* are waited for, but a short run can be over before the display has begun.
WorkersPanic == \E k \in DOMAIN workers : Period(workers[k].kind) <= 0

DisplayPanics == conf.Verbose /\ conf.VerboseTicker <= 0

StartLoops ==
  /\ pc = "released"
  /\ \/ (WorkersPanic \/ DisplayPanics) /\ pc' = "panicked"
     \/ ~WorkersPanic /\ pc' = "running"
  /\ UNCHANGED <<conf, sendJWT, reqEvery, remainder, workers>>

Next == Validate \/ Prepare \/ Deal \/ Release \/ StartLoops

Spec == Init /\ [][Next]_vars

-------------------------------------------------------------------------------
\* The types of the run's variables.
TypeOK ==
  /\ conf \in Confs
  /\ pc \in {"config", "run", "prepare", "deal", "released", "running",
             "rejected", "failed", "panicked"}
  /\ sendJWT \in BOOLEAN
  /\ reqEvery \in Int
  /\ remainder \in Nat
  /\ workers \in Seq([kind : Kinds, target : Nat, middleware : BOOLEAN])

Given(k) == workers[k].target

\* The shares that the loop deals out add up to the target, differ by at most
\* one, and leave no worker without a request when there is a target at all:
\* what FixedReqs and FixedTimeRequests assume of theirs.
SharesAddUp ==
  pc = "running" =>
    /\ SumOf([k \in DOMAIN workers |-> Given(k)], DOMAIN workers) = conf.ReqTarget
    /\ \A k, m \in DOMAIN workers : Given(k) <= Given(m) + 1
    /\ \A k \in DOMAIN workers : workers[k].kind # "FixedTime" => Given(k) > 0

\* A run that is asked to send JWTs sends one with every request: no kind of
\* worker that ignores the stream is made for it.
JwtsNeverIgnored ==
  pc = "running" /\ HasJwts(conf) => \A k \in DOMAIN workers : workers[k].middleware

\* The pace fits the duration: whatever the remainder, at most the last request
\* of a worker is due after its deadline.
LastAloneIsLate ==
  pc = "running" =>
    \A k \in DOMAIN workers : workers[k].kind = "FixedTimeRequests" =>
      reqEvery * (Given(k) - 1) < conf.Duration

\* A configuration that Validate accepted still crashes the program before its
\* first request in three cases only: there are more connections than a wait
\* group counts or a slice holds, the duration is negative or has no whole
\* nanosecond for each of a connection's requests, or the display's ticker is
\* negative.  None of the first two ever gets to a request.
TooManyConns == conf.Conns > MaxSlice \/ Signed(conf.Conns, CounterWord) < 0

TinyPace ==
  \/ conf.Duration < 0
  \/ conf.Duration > 0 /\ conf.Duration * conf.Conns < conf.ReqTarget

PanicCauses ==
  /\ pc = "panicked" => \/ TooManyConns
                        \/ TinyPace
                        \/ conf.Verbose /\ conf.VerboseTicker < 0
  /\ pc = "running" => ~TooManyConns /\ ~TinyPace
===============================================================================
