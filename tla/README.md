# A TLA+ model of gopayloader

gopayloader is a load generator: it sends a number of HTTP requests, or as many
as fit in a time, over several connections, optionally with a fresh JWT in each
request, and prints statistics. This directory models its concurrent core and
its JWT cache, checks the models with TLC and proves the safety properties with
TLAPS, for any number of workers, requests, JWTs and seconds. Paths below are relative to the repository.

## 1. The system

| component | state | operations | talks to |
|---|---|---|---|
| worker base (`worker.go`, `generate.go`) | `CompletedReqs`, `FailedReqs`, two `sync.Map`s, two mutexes, a wait group | `run`, `process`, `updateRespStats`, `updateErrStats`, `Stats` | HTTP client; sends on `reqStats`; receives on the JWT stream |
| three workers (`worker-fixed-*.go`) | the loop's position, timers | `Run` | start trigger, context, `workersComplete` |
| handleReqs (`payloader.go`) | wait groups, channels | deals out requests, creates and releases the workers, waits, computes | all of the others |
| statistics reader (`calcReqStats`) | RPS, latency | receives from `reqStats`, one-second timer | writes into the results |
| results (`payloader-results.go`) | the results | `ComputeResults` | reads workers and reader's sums |
| progress display (`displayProgress`) | bars | reads `Stats()` on a timer | workers |
| wrapper (`wrapper.go`) | context, signal | validates, runs, waits for results, error, ctrl+c, five seconds | handleReqs |
| JWT generator and cache (`jwt.go`, `cache.go`) | one file per configuration, `count` | `Generate`, `batchGenSave`, `save`, `get`, `retrieve` | signer; feeds the JWT stream |
| user's JWTs (`getUserJWTS`) | a file | rereads it until enough were sent | feeds the JWT stream |
| clear-cache (`clear-cache.go`) | none | removes the cache's directory | the cache file, of whatever process |
| configuration (`config.go`) | flags | `Validate` | called twice |
| HTTP clients, signer, command line, table, test server | none that matters here | | |

What is hard here: requests of one worker updating the same statistics; a wait
group that is added to while it may be waited on; a select with several ready
branches; two bounded channels that block whoever writes to them; a cancellation
that only some of the goroutines look at; results computed while other
goroutines still run, after a cancellation even those that count; counters that
two callers copy through the same structure;
a file written in three steps that a later run has to trust, and that another
process may write or remove meanwhile. `PROJECT.json` lists each such place with its line.

What makes each component correct:

- worker base: every request counted once, in the totals and the breakdowns;
- workers: return at their target or time, never before their requests ended
  unless cancelled;
- JWT cache: its count never promises more than its file has (whatever crashes, if
  no two processes ever use it at the same time; however many do, if none crashes;
  with both it can); nothing counted is lost; every run ends; JWTs come out as
  they went in;
- payloader: results account for every request; JWTs go out in turn, each of the
  cache once; it ends;
- statistics: what is shown or returned is what happened, never more, and less only
  under a display or after a cancellation;
- configuration: whatever it accepts gives every worker work it can do, or ends in
  a panic of one of a few known causes.

## 2. Modules

| module | models | state and actions in the code |
|---|---|---|
| `WorkerBase` | `worker.go`, `newReq`, `jwtMiddleware` | `phase[w][i]` is where the goroutine of request `i` of worker `w` is in `process`; a sequential worker is one whose loop waits for it. `pc[w]` is where its loop is. The load and the store on a `sync.Map` are separate steps between taking and releasing the mutex. |
| `FixedReqs` | `worker-fixed-reqs.go` | guards the loop moves of `WorkerBase` (`Run`, `Quit`, `Drain`, `Join`) |
| `FixedTime` | `worker-fixed-time.go` | the same; `timeUp` is a ready ticker; `default` only when nothing is ready |
| `FixedTimeRequests` | `worker-fixed-time-requests.go` | the same, with the worker's clock and the ticker's one-place channel |
| `WorkLedger` | abstract: what handleReqs relies on | refined by `FixedReqs` (`ImplementsLedger`) |
| `Payloader` | `handleReqs`, `ComputeResults`, `wrapper.go`, `retrieve`, `getUserJWTS` | extends `FixedReqs`; `main` and `wrapper` are program counters, `jwtStream` a channel that either producer fills: `source` says which, `line` is where its scanner is |
| `LiveStats` | `calcReqStats`, `displayProgress`, `Stats`, the reads of `ComputeResults` | workers with a target, sequential or parallel, reduced to what the statistics see of them: `left` requests not begun, `running` ones not counted, `held` ones counted but not sent; `final` remembers the counters when the last loop returned, which only properties use; `reader` is inside one of `calcReqStats`' updates, `call[p]` inside one of the `Stats()` calls of the display or of `ComputeResults` |
| `JwtCache` | `jwt.go`, `cache.go`, `clear-cache.go` | `disk` holds files by number, `dir` which of them has the cache's name, so that a process keeps a file that was removed; `run[p]` has the variables of `Generate`, `batchGenSave` and `save`; each write of `save` is an action, and `Crash` may come between any two or cut the first short; `shared` remembers that two runs were there at the same time, which only properties use |
| `RunConfig` | `config.go`, first half of `handleReqs`, `NewWorker` | one configuration through both validations, the wait group and the slice of workers, the dealing loop and the first tickers of the workers and of the display; `Signed` is a conversion to a signed integer of the constant's width |
| `MC*` | | values of the constants for TLC |
| `Sums` | | sums of counters, counted so that the prover can reason about them |
| `SumsProofs` | | their laws: adding, removing or changing one value, monotonicity, sums of sums |
| `WorkerBaseProofs` | | theorems on every kind of worker |
| `FixedTimeProofs`, `FixedTimeRequestsProofs` | | theorems on the two timed workers |
| `PayloaderProofs` | | theorems on `FixedReqs`, then on the whole run |
| `LiveStatsProofs`, `RunConfigProofs`, `JwtCacheProofs` | | theorems on those modules |

Operators whose comment says *Fault* are plausible bugs of the operator below
them. No specification uses them: each is put in the place of that operator to
see that a property notices.

## 3. Runs

| run | checks | bounds |
|---|---|---|
| `fixed_reqs` | types; `NoLostUpdate`, `SampleConservation`, `ReturnsQuiet`, `ReturnsComplete`; `WorkersReturn`; `ImplementsLedger` | two workers, targets 2 and 1, parallel, one code and two errors, JWTs that always come, a channel for one sample |
| `fixed_time_requests` | `NeverShort`, `Pace`, `PastTargetNeverReturns`, `CancelReturns` | target 2, window of 4, a tick each 2, up to 3 requests, parallel |
| `fixed_time_requests_overshoot` | `NeverMoreThanTarget` is **violated** | the same, sequential |
| `fixed_time` | `ReturnsQuiet`, `AllAccounted`, `WorkersReturn` | one worker, 3 parallel requests |
| `jwt_cache` | types; `CountNeverAhead`, `CountedStays`, `ServedInFull`, `NeverOvergenerates`, `SpoiltLines`; `RunsEnd` | 3 runs in two processes, asking for 1 or 2 JWTs, batches of 1, two processors, one crash, failure or clear-cache |
| `jwt_cache_whole` | `StreamedWhole` is **violated** | the same |
| `payloader` | types; `ResultsComplete`, `JwtsInTurn`, `NoBareRequests`, `AverageNotOverstated`, `EveryJwtSent`, `StrandedByUnread`; `HandleReqsReturns` | 3 requests over 2 connections, room for one JWT and one sample; a cache with the 3 JWTs or one short, a user's file with 2 or none; reading and building may fail |
| `payloader_cancel` | `CancelGivesResults` is **violated** | the same, a full cache, no failures |
| `payloader_latency` | `AverageOverAllRequests` is **violated** | without JWTs |
| `live_stats` | types; `NeverOverstated`, `RpsOfWholeSeconds`, `AverageWithinMax`, `ShownGrows` | two workers, targets 2 and 1, sequential or parallel, each with a latency of its own, room for one sample, two ticks of the display's and the reader's tickers together |
| `live_stats_verbose` | `VerboseCountsExact` is **violated** | the same, three ticks |
| `run_config` | types; `SharesAddUp`, `JwtsNeverIgnored`, `LastAloneIsLate`, `PanicCauses` | durations -4, 0, 1, 10; targets -1, 0, 2, 5; 0 to 3, 5, 8 and 15 connections in words of 4 bits, a wait group of 3 and slices of up to 4; tickers -1, 0, 1 with and without `-v`; all JWT and client flags |

Why these bounds are enough to be interesting. Losing an update takes two
requests of one worker; two workers of unequal targets show that their accounts
do not mix. A channel for one sample is full while a second request wants it. A
window of two periods has a tick that coincides with the deadline, and a third
request is one past the target. Two JWTs in batches of one by two processors
need two batches and leave a remainder in each; three runs are two at a time, and
one that reads what they left. (With two mishaps and without `RunsEnd` the same
run also passes, in 1.6 million states, and `CountNeverAhead` then holds even of
crashes among simultaneous runs: it takes four of them to break it.) A user's file of two JWTs has to be read
again for a third request, and a stream for one JWT is full while requests wait.
Two workers are what a display reads half before and half after a request, and
two requests of one of them what a parallel worker leaves running, or not begun,
when it is cancelled. Two ticks are two seconds, two updates of the display or one
of each; that a third second behind a silent one begins the minimum anew is left
to the proof of `RpsOfWholeSeconds`. Two requests make the averages differ from the
extremes. A count of connections that is negative in a wait group alone (5), as a
signed word alone (8) and in both (15) stands for 2^31, 2^63 and 2^64 - 1.
Deadlock is not checked where the program ends: every one of these systems comes
to rest. That it does not come to rest too early is what the liveness properties say.

Bounds that are not in the code: `MaxReqs` (requests of a worker; a loop that
would start more stops there), `MaxTime` (a worker's clock), `MaxRuns` and
`MaxMishaps`, and `MaxTicks`. `StatsCap`, `JwtCap` and `BatchSize`
are 1000000 in the code; `Word` is 2^64, `CounterWord` 2^32, and `MaxSlice` what
`make` gives, far less than 2^63.

### Fairness

Go runs every goroutine that can run, so each goroutine's next step is weakly
fair: each worker's loop, each request, handleReqs, the reader, the JWT producer
and the wrapper. `client.Do` returns because the clients have time-outs
(nethttp3 sets none; for it, this is an assumption on the server). In a select,
only what Go's uniform choice gives is assumed: `FixedTimeRequests` takes the
cancellation, ready at every round once it has happened, with strong fairness,
and the reader's select is fair to the choice as a whole, not to a branch.
Nothing obliges the user to press ctrl+c, a request to fail or a process to
crash. `JwtCache` needs less: that some process with a run goes on. `LiveStats`
has no liveness. In the runs of the worker modules the statistics reader is
assumed to run as long as a worker does; `Payloader` models the reader itself.

### What the violated properties show

- `NeverMoreThanTarget`: with `-r` and `-t` a worker sends more than its target,
  and then, because its exit test is an equality, does not stop until ctrl+c
  (`PastTargetNeverReturns`, a passing property, says exactly that).
- `StreamedWhole`: the first JWT in each cache file loses its first eleven bytes
  to the header. `SpoiltLines` bounds the damage from then on.
- `CancelGivesResults`: after ctrl+c a run with more JWTs than the stream holds
  blocks, and ends in the wrapper's time-out. `HandleReqsReturns` and
  `StrandedByUnread` say that this, and more requests that could not be built than
  the stream holds, are the only ways to block.
- `AverageOverAllRequests`: samples left in the channel are not in the average.
  `AverageNotOverstated` says the error has one direction.
- `VerboseCountsExact`: in verbose mode the display can put an older count under
  the results. `NeverOverstated` says that the error has one direction. Without a
  display the results miss nothing that was counted when the last worker
  returned. That is every request, but for one case: ctrl+c lets the loop of a
  parallel worker return with requests in flight (`CutOff`), which are counted
  while the results are read, or later. In that case, too, the progress bar can
  fall back and the average latency exceed the maximum; `ShownGrows` and
  `AverageWithinMax` except it, as the second excepts verbose mode.

## 4. Proofs

Every safety property that a passing run checks is also a theorem, with no further
hypothesis on the behaviour. A theorem holds for all values of the
constants that the module's named assumption admits; those say what
`config.Validate` and Go's types ensure (counts are natural numbers, there is a
connection, no more connections than requests), and two things about names:
codes and errors differ, and, in `Payloader`, so do the errors of building a
request and those of sending one. `MaxReqs`, `MaxTime`, `MaxRuns` and the other
bounds are constants like any other, so the theorems do not depend on them.

**Workers** (`WorkerBaseProofs`). `BaseNext` lets the loop do all that any of the
three loops may do, and the theorems are about `BaseSpec`: `BaseTypeCorrect`,
`BaseNoLostUpdate`, `BaseReturnsQuiet`, `BaseSampleConservation`. The inductive
invariant is `BaseInv`. `NoLostUpdate` alone is not inductive: a store writes
what was loaded some steps ago. `OneHolder` (a mutex has one holder) and
`LoadedFresh` (what its holder loaded is still what is stored) make the store
right; `StartedInOrder` and `OutcomeKnown` place a request by its phase. `Quiet`
adds that `parallelWg` counts the running requests, so that `Join` waits for all
of them. Counters are equated with cardinalities, so each step is shown to add
one request to one set and to leave the others as they were; a sample's step
moves one request from the set that still owes one to the channel.

**The three loops.** Their steps are base steps (`NextIsBaseNext` in each module),
so they inherit `BaseInv`.

- `FixedReqs*` (first part of `PayloaderProofs`): `LoopInv` says that the loop is
  never past its target, at it when it waits, and has nothing running when it
  ends there. Hence `FixedReqsReturnsComplete`, and `FixedReqsImplementsLedger`:
  every step is a step of the ledger or leaves it alone, because a request that is
  not counted yet leaves room in the account (`RoomForOne`).
- `FixedTime*`: `FixedTimeReturnsQuiet` and `FixedTimeAllAccounted`, from the
  same `Quiet`: a ready ticker is no other way to return than `Drain` and `Join`.
- `FixedTimeRequests*`: `Pace` is not inductive, since a tick in the channel
  allows a request later; `InPace` counts it as a request already.
  `FixedTimeRequestsNeverShort` rests on `ShareDone`: the loop is left with the
  share done, which stays done because the counters only grow. The same
  monotonicity gives `FixedTimeRequestsPastTarget`, the proved half of the
  finding that such a worker goes on until ctrl+c: a step from past the target
  neither returns to it nor leaves the loop.

**The whole run** (`PayloaderProofs`). Each system step is a step of `FixedReqs`
or leaves its variables alone (`SystemIsNext`), so the workers' invariant carries
over, and so does the ledger (`PayloaderImplementsLedger`). `SystemInv` adds what
ties the parts together. `Totals`: the breakdowns of all workers add up to the
requests counted. `MainInv`: where handleReqs is says which workers have started
and returned, and when the JWT stream is closed. `ResultsInv`: what has been
added up so far is the targets of the workers read so far, and stays so because
nobody moves any more once all have returned without a cancellation
(`AllQuiet`). `JwtInv`: each JWT put is in the stream or with one request that
was built, and a request goes without one only after a failure. `TurnInv`: the
lines of the file have been used equally often, those up to the scanner's once
more. From these, `PayloaderResultsComplete`, `PayloaderAverageNotOverstated`,
`PayloaderJwtsInTurn`, `PayloaderNoBareRequests`, `PayloaderEveryJwtSent` and
`PayloaderStrandedByUnread`.

**Configuration** (`RunConfigProofs`). `RunInv` describes the dealing loop: the
remainder that is left, and that worker k is `WorkerOf(k)`. The rest is
arithmetic: shares add up by summing quotient and remainder over the
connections (`RunConfigSharesAddUp`); as the pace is truncated downwards and a
share less one is below the average, a worker's requests but the last fit into
the duration (`RunConfigLastAloneIsLate`). `RunConfigPanicCauses` lists why an
accepted configuration can still panic before its first request: more connections
than a wait group's counter or a slice takes (`int64(c.Conns)`, which `Validate`
compares, is negative from 2^63 on and so never too many), a duration that is
negative or too short for the pace, and a negative ticker with `-v`, of which
`Validate` rejects only zero. The first two always end in a panic; the display's
goroutine may come too late for it. Past the creation of the workers the
conversion is the identity (`SignedIs`). `RunConfigMeetsAssumptions` closes the
circle: a configuration that gets as far as running workers gives the constants
of the other modules values that their assumptions admit, the shares of `Payloader`
and the positive window and pace of the timed workers among them.

**Statistics** (`LiveStatsProofs`). `EverySample` finds each counted answer held
by its worker, in the channel, in the current second or in an earlier one, which
gives the second's extremes their meaning (`LiveStatsRpsOfWholeSeconds`).
`LatencyInv` follows the reader through its three updates: the maximum is
raised before the total, so the total is never more than the maximum times the
samples in it (`LiveStatsAverageWithinMax`). `StatsBehind` says that what a caller
of `Stats()` loaded is not ahead of the counter, and what `ComputeResults` loaded
not behind `final`, hence `LiveStatsNeverOverstated`. `Loops` and `Frozen` say which
counters stand still by then: all of them unless parallel workers were cut off,
when they may only grow from `final`.
`ShownInv` is the reason why the bar never falls back, although `Stats()` of
`ComputeResults` can be undone: `Least` is what the display's own pending store
may leave of each worker's stats, and their sum is not below what it showed
(`LiveStatsShownGrows`). After a cut-off `ComputeResults` may itself store an older
count than the display has shown, and only the upper bound, `ShownBelow`, is left.

**JWT cache** (`JwtCacheProofs`). For any number of processes: `JwtCacheTypeCorrect`;
`JwtCacheNeverOvergenerates`, since what a run has, saves and has still to
receive is together at most what was asked for (`Fits`, with the shares of a
batch adding up); and `JwtCacheCountedStays`, from `AloneInv`: a run that nobody
ran beside knows the count of its file, which is still the one that has the
cache's name or is removed.

What the lines of a file are worth depends on how it was used (`Orderly`): no
write was ever cut short or left out by a crash, or no two runs were ever there
at the same time. Each half has an invariant of its own, since what keeps the
file in order is different.

- Without two at a time (`LinesInv`, `TidyInv`), a save begins where the file ends.
  `Covered`: the newlines after the header's cover the count of each file and the
  count about to be written, whatever was cut short before. `Tidy`: the lines that
  are not a whole JWT (`Bad`), and one more if the file does not end with a
  newline (`Debt`), are no more than the crashes and one; a crash may leave a
  debt, and the next save turns it into one spoilt line.
- Without a crash (`GridInv`), any number of runs save at places of their own, but
  at whole numbers of JWTs apart. `Grid`: there is a newline at every fourth cell
  and nowhere else but in the header, and every line but the first is whole.
  `Placed`: a run that generates has four cells in its file for each JWT it
  counts, and saves at a whole number of JWTs, no fewer than it counts and not
  behind the file's end, so its count is covered when it stores it. `Headed`: the
  header's newline is there, or some run is about to write it.

`JwtCacheCountNeverAhead`, `JwtCacheServedInFull` and `JwtCacheSpoiltLines` follow
for both. What connects them with what `bufio.ScanLines` yields are lemmas on
`Lines`: the newlines are numbered (`Rank`, `EndAt`, without induction, as the one
of a given rank), so that the k-th line is what stands between two of them
(`LineIs`), and the spoilt lines are counted by the newlines that end them
(`SpoiltAre`).

The condition is needed. `CountNeverAhead` without it is **false for two processes
at a time with four crashes**: the first leaves a count without its newline; a
save cut short by the second moves the file's end to no whole number of JWTs,
while a slower run still writes at the end it saw before, and crashes too; the
last cuts a save short over that run's newline; and the next run stores a count
of 3 in a file of two lines. That came out of the attempt to prove it, and
TLC confirms it on a behaviour of 30 steps; for three processes at a time three
crashes are enough. (`ServedInFull` speaks of a run that nobody ran beside, but
counts on the file that others left.)

Only model-checked:

- all liveness (`WorkersReturn`, `CancelReturns`, `RunsEnd`, `HandleReqsReturns`)
  and the fairness half of `ImplementsLedger`: out of the prover's reach, as is
  `ENABLED`;
- `CountNeverAhead` of a file that few crashes among simultaneous runs have left
  (section 3): it takes a bound on the crashes, of which the code knows nothing;
- that what the violated properties say is false: a counterexample is TLC's.

## 5. Not modelled

- Header, body and claim contents, sizes, formatting, the result table and the
  signing of JWTs: data that no property tells apart.
- The third-party HTTP clients and their connection pools: `Do` answers or fails.
- The choice of a signing method. A key that no other method accepts becomes the
  secret of an HMAC; what the server makes of such a JWT is outside the program.
- The byte sizes in the results, which are the first worker's, and `SetBody` of
  the net/http clients, which sets what a redirected request would send.
- A write of the 20-byte count or of the one newline that is cut short: each is
  one small write within the file's first block. Writes that a power failure
  leaves in another order.
- Two processes in the middle of a write of tokens: each such write is atomic to
  another process's `Stat` and writes, as POSIX has it for a local file; only a
  crash cuts it short.
- `retrieve` going on while another process writes: it is one step in `JwtCache`.
- File names that coincide; expired JWTs.
- A line of the user's file that the scanner cannot hold: it ends every pass as
  the file's end does, so the file in the model is the readable part.
- The statistics beside timed workers: the workers of `LiveStats` have a target, and
  their loop is that of `WorkerFixedReqs`. Memory that runs out below the limits of
  `make`, and a wait group that wraps around to a positive count, for which the
  slice of workers alone takes 64 GiB.
- A display with `-t`, whose bar counts seconds, and the table reading results that
  the reader may still change.
- Floating-point rounding in the pace: it is the exact quotient, truncated.

## 6. Plan

In the order of what matters most:

1. The timed workers composed with `Payloader`: requests past the target of a
   worker with JWTs take those of another, or none.
2. An abstract store (a count, and a bag of whole JWTs) that `JwtCache`
   implements, with the exception of the first line; the file's name as a
   function of the fields.
