----------------------------- MODULE LiveStatsProofs -----------------------------
(***************************************************************************)
(* What the live statistics and the results promise, for every number of   *)
(* workers, every target, every latency and every capacity of reqStats.    *)
(*                                                                         *)
(* The invariant has two halves.  Counted is about the workers and the     *)
(* reader: every answer that is counted is held, in the channel or in the  *)
(* reader's rps exactly once.  Reported is about the two callers of        *)
(* Stats(): what they stored and added up never runs ahead of the          *)
(* counters; what ComputeResults did is not behind the counters it found   *)
(* when the workers had returned; and while those are the last word, that  *)
(* is unless parallel workers were cut off, the display's sums never fall  *)
(* back behind what it showed.                                             *)
(***************************************************************************)
EXTENDS LiveStats, SumsProofs, SequenceTheorems

Calls == [pc : {"wait", "load", "store", "copy", "use", "end"},
          w : Workers, field : Fields, val : Nat, sum : [Fields -> Nat]]

\* The types, with the fields of the records.
Types ==
  /\ verbose \in BOOLEAN /\ parallel \in BOOLEAN
  /\ ctxDone \in BOOLEAN /\ stopped \in BOOLEAN
  /\ final \in [Workers -> [Fields -> Nat]]
  /\ left \in [Workers -> Nat] /\ running \in [Workers -> Nat]
  /\ held \in [Workers -> Nat] /\ returned \in [Workers -> BOOLEAN]
  /\ count \in [Workers -> [Fields -> Nat]]
  /\ stats \in [Workers -> [Fields -> Nat]]
  /\ samples \in Seq(Latencies) /\ Len(samples) <= StatsCap
  /\ reader \in [pc : {"select", "max", "min", "total", "end"},
                 t : Latencies \cup {0}, rps : Nat]
  /\ rps \in [max : Nat, min : Nat]
  /\ latency \in [max : Nat, min : Nat, total : Nat]
  /\ seconds \in Seq(Nat)
  /\ call \in [Callers -> Calls]
  /\ shows \in 0 .. MaxTicks
  /\ shown \in [Fields -> Nat]
  /\ results \in [sum : [Fields -> Nat], total : Nat]

-------------------------------------------------------------------------------
(* The workers and the reader. *)

Seconds == SumOf(seconds, DOMAIN seconds)

\* Each answer that was counted is held, in the channel or received.
EverySample ==
  SumOver("ok") = SumOf(held, Workers) + Len(samples) + reader.rps + Seconds

Busy == reader.pc \in {"max", "min", "total"}

\* The samples whose latency is in the total.
Totalled == Seconds + reader.rps - (IF Busy THEN 1 ELSE 0)

LatencyInv ==
  /\ Busy => reader.rps > 0
  /\ reader.pc \in {"min", "total"} => reader.t <= latency.max
  /\ latency.min <= latency.max
  /\ latency.total <= latency.max * Totalled

RpsMaxInv ==
  /\ rps.max = 0 \/ \E k \in 1 .. Len(seconds) : seconds[k] = rps.max
  /\ \A k \in 1 .. Len(seconds) : seconds[k] <= rps.max

\* s is the last second without any answer, 0 if there is none.
SilentLast(s) ==
  /\ s > 0 => seconds[s] = 0
  /\ \A k \in s + 1 .. Len(seconds) : seconds[k] # 0

RpsMinInv ==
  \E s \in 0 .. Len(seconds) :
    /\ SilentLast(s)
    /\ s = Len(seconds) => rps.min = 0
    /\ s # Len(seconds) => \E k \in s + 1 .. Len(seconds) : seconds[k] = rps.min
    /\ \A k \in s + 1 .. Len(seconds) : rps.min <= seconds[k]

Counted == EverySample /\ LatencyInv /\ RpsMaxInv /\ RpsMinInv

-------------------------------------------------------------------------------
(* The callers of Stats(). *)

Counts(f) == [w \in Workers |-> count[w][f]]
Finals(f) == [w \in Workers |-> final[w][f]]
Stored(f) == [w \in Workers |-> stats[w][f]]

\* Between two passes over the workers a caller is at the start of the next.
AtStart ==
  /\ \A p \in Callers : call[p].pc \in {"wait", "use"} => call[p].w = 1 /\ call[p].field = "bad"
  /\ call["results"].pc = "wait" => call["results"].sum = Zero

\* A loop that has returned left nothing in flight, unless it was cut off.
Loops == \A w \in Workers : returned[w] /\ (parallel => left[w] = 0) => Idle(w)

\* When ComputeResults reads, the loops have returned, and nobody counts any
\* more unless they were cut off.
Frozen ==
  /\ stopped <=> call["results"].pc # "wait"
  /\ stopped => AllDone /\ \A w \in Workers : \A f \in Fields : final[w][f] <= count[w][f]
  /\ stopped /\ ~CutOff => final = count

StatsBehind ==
  /\ \A w \in Workers : \A f \in Fields : stats[w][f] <= count[w][f]
  /\ \A p \in Callers : call[p].pc = "store" => call[p].val <= count[call[p].w][call[p].field]
  /\ LET c == call["results"] IN c.pc = "store" => final[c.w][c.field] <= c.val

\* Without a display, ComputeResults copies the stats as it stored them.
Undisturbed ==
  ~verbose =>
    /\ call["display"].pc = "end"
    /\ LET c == call["results"] IN
         /\ c.pc \in {"load", "store"} /\ c.field = "ok" => final[c.w]["bad"] <= stats[c.w]["bad"]
         /\ c.pc = "copy" => \A f \in Fields : final[c.w][f] <= stats[c.w][f]

InPass(p) == call[p].pc \in {"load", "store", "copy", "use"}

\* The workers whose stats the caller has added in this pass.
Scanned(p) == IF call[p].pc = "use" THEN Workers ELSE 1 .. call[p].w - 1

ResultsSum ==
  InPass("results") => \A f \in Fields :
    /\ call["results"].sum[f] <= SumOf(Counts(f), Scanned("results"))
    /\ ~verbose => SumOf(Finals(f), Scanned("results")) <= call["results"].sum[f]

ResultsInv ==
  /\ NeverOverstated
  /\ Returned /\ ~verbose /\ ~CutOff => results.total <= latency.max * results.sum["ok"]

\* What the display still can lose of a worker's stats: a value it loaded
\* before ComputeResults stored a later one.
Least(f) ==
  [w \in Workers |->
     LET c == call["display"] IN
     IF c.pc = "store" /\ c.w = w /\ c.field = f /\ c.val < stats[w][f] THEN c.val
                                                                     ELSE stats[w][f]]

ShownInv ==
  \A f \in Fields :
    /\ shown[f] <= SumOver(f)
    /\ IF InPass("display")
         THEN /\ call["display"].sum[f] <= SumOf(Stored(f), Scanned("display"))
              /\ shown[f] <= call["display"].sum[f]
                               + SumOf(Least(f), Workers \ Scanned("display"))
         ELSE shown[f] <= SumOf(Stored(f), Workers)

\* The display never shows more than was counted.
ShownBelow ==
  \A f \in Fields :
    /\ shown[f] <= SumOver(f)
    /\ InPass("display") => call["display"].sum[f] <= SumOf(Counts(f), Scanned("display"))

Reported ==
  /\ AtStart /\ Loops /\ Frozen /\ StatsBehind /\ Undisturbed /\ ResultsSum /\ ResultsInv
  /\ ShownBelow
  /\ ~CutOff => ShownInv

LiveInv == Types /\ Counted /\ Reported

-------------------------------------------------------------------------------
(* Facts about the definitions. *)

LEMMA FiniteOn ==
  ASSUME NEW S \in SUBSET Workers, NEW f, \A w \in S : f[w] \in Nat
  PROVE  IsFiniteSet(S) /\ IsFiniteSet(Units(f, S)) /\ SumOf(f, S) \in Nat
<1>1. IsFiniteSet(1 .. Conns)
  BY FS_Interval, LiveStatsAssumption, 1 \in Int, Conns \in Int
<1>2. IsFiniteSet(S)
  BY <1>1, FS_Subset DEF Workers
<1> QED
  BY <1>2, FiniteUnits, SumType

LEMMA FiniteSeconds ==
  ASSUME NEW t \in Seq(Nat)
  PROVE  IsFiniteSet(Units(t, DOMAIN t)) /\ SumOf(t, DOMAIN t) \in Nat
<1>1. Len(t) \in Nat /\ DOMAIN t = 1 .. Len(t) /\ \A k \in DOMAIN t : t[k] \in Nat
  BY LenProperties
<1>2. IsFiniteSet(1 .. Len(t))
  BY <1>1, FS_Interval, 1 \in Int, Len(t) \in Int
<1> QED
  BY <1>1, <1>2, FiniteUnits, SumType

LEMMA MaxIs ==
  ASSUME NEW S \in SUBSET Nat, NEW m \in S, \A x \in S : x <= m
  PROVE  Max(S) = m
<1>1. \E x \in S : \A y \in S : x >= y
  <2>1. \A y \in S : m >= y
    OBVIOUS
  <2> QED
    BY <2>1
<1>2. Max(S) \in S /\ \A y \in S : Max(S) >= y
  BY <1>1, Zenon DEF Max
<1> DEFINE n == Max(S)
<1> HIDE DEF n
<1>3. n \in S /\ \A y \in S : n >= y
  BY <1>2 DEF n
<1>4. n = m
  BY <1>3
<1> QED
  BY <1>4 DEF n

LEMMA MinIs ==
  ASSUME NEW S \in SUBSET Nat, NEW m \in S, \A x \in S : m <= x
  PROVE  Min(S) = m
<1>1. \E x \in S : \A y \in S : x =< y
  <2>1. \A y \in S : m =< y
    OBVIOUS
  <2> QED
    BY <2>1
<1>2. Min(S) \in S /\ \A y \in S : Min(S) =< y
  BY <1>1, Zenon DEF Min
<1> DEFINE n == Min(S)
<1> HIDE DEF n
<1>3. n \in S /\ \A y \in S : n =< y
  BY <1>2 DEF n
<1>4. n = m
  BY <1>3
<1> QED
  BY <1>4 DEF n

LEMMA MaxOfTwo ==
  ASSUME NEW a \in Nat, NEW b \in Nat
  PROVE  Max({a, b}) = IF a <= b THEN b ELSE a
<1>1. CASE a <= b
  BY <1>1, MaxIs
<1>2. CASE ~(a <= b)
  BY <1>2, MaxIs
<1> QED
  BY <1>1, <1>2

LEMMA LowerIs ==
  ASSUME NEW a \in Nat, NEW b \in Nat
  PROVE  Lower(a, b) = (IF a < b \/ b = 0 THEN a ELSE b) /\ Lower(a, b) \in Nat
  BY DEF Lower

LEMMA LatenciesAre == Latencies \subseteq Nat \ {0}
  BY LiveStatsAssumption DEF Latencies

-------------------------------------------------------------------------------
(* Types. *)

LEMMA TypesInit == Init => Types
<1> SUFFICES ASSUME Init PROVE Types
  OBVIOUS
<1> USE LiveStatsAssumption
<1>1. Zero \in [Fields -> Nat]
  BY DEF Zero
<1>2. samples \in Seq(Latencies) /\ Len(samples) <= StatsCap /\ seconds \in Seq(Nat)
  BY EmptySeq DEF Init
<1>3. call \in [Callers -> Calls]
  <2>1. 1 \in Workers /\ "bad" \in Fields
    BY DEF Workers, Fields
  <2> QED
    BY <1>1, <2>1 DEF Init, Calls
<1>4. reader \in [pc : {"select", "max", "min", "total", "end"},
                  t : Latencies \cup {0}, rps : Nat]
  BY DEF Init
<1>5. /\ verbose \in BOOLEAN /\ parallel \in BOOLEAN /\ ctxDone \in BOOLEAN
      /\ stopped \in BOOLEAN
  BY Zenon DEF Init
<1>6. /\ left \in [Workers -> Nat] /\ running \in [Workers -> Nat]
      /\ held \in [Workers -> Nat] /\ returned \in [Workers -> BOOLEAN]
      /\ final \in [Workers -> [Fields -> Nat]]
  BY <1>1 DEF Init
<1>7. /\ rps \in [max : Nat, min : Nat] /\ latency \in [max : Nat, min : Nat, total : Nat]
      /\ results \in [sum : [Fields -> Nat], total : Nat] /\ shows \in 0 .. MaxTicks
  BY <1>1 DEF Init
<1>8. /\ count \in [Workers -> [Fields -> Nat]] /\ stats \in [Workers -> [Fields -> Nat]]
      /\ shown \in [Fields -> Nat]
  BY <1>1 DEF Init
<1> QED
  BY <1>2, <1>3, <1>4, <1>5, <1>6, <1>7, <1>8 DEF Types

LEMMA CountGrowsType ==
  ASSUME Types, NEW w \in Workers, NEW f \in Fields, count' = [count EXCEPT ![w][f] = @ + 1]
  PROVE  /\ count' \in [Workers -> [Fields -> Nat]]
         /\ count'[w][f] = count[w][f] + 1
         /\ \A v \in Workers : \A g \in Fields : <<v, g>> # <<w, f>> => count'[v][g] = count[v][g]
<1>1. count \in [Workers -> [Fields -> Nat]]
  BY DEF Types
<1> QED
  BY <1>1

LEMMA TypesWorker ==
  ASSUME Types, NEW w \in Workers, WorkerStep(w)
  PROVE  Types'
<1>1. "bad" \in Fields /\ "ok" \in Fields
  BY DEF Fields
<1>2. CASE Begin(w)
  <2>1. left' \in [Workers -> Nat] /\ running' \in [Workers -> Nat]
    BY <1>2 DEF Begin, Types
  <2> QED
    BY <1>2, <2>1 DEF Begin, Types, runVars, readerVars, callVars
<1>3. CASE Fail(w)
  <2>1. count' \in [Workers -> [Fields -> Nat]]
    BY <1>1, <1>3, CountGrowsType DEF Fail
  <2>2. running' \in [Workers -> Nat]
    BY <1>3 DEF Fail, Types
  <2> QED
    BY <1>3, <2>1, <2>2 DEF Fail, Types, runVars, readerVars, callVars
<1>4. CASE Answer(w)
  <2>1. count' \in [Workers -> [Fields -> Nat]]
    BY <1>1, <1>4, CountGrowsType DEF Answer
  <2>2. running' \in [Workers -> Nat]
    BY <1>4 DEF Answer, Types
  <2>3. held' \in [Workers -> Nat]
    BY <1>4 DEF Answer, Types
  <2> QED
    BY <1>4, <2>1, <2>2, <2>3 DEF Answer, Types, runVars, readerVars, callVars
<1>5. ASSUME NEW t \in Latency[w], Send(w, t) PROVE Types'
  <2>1. t \in Latencies
    BY DEF Latencies
  <2>2. samples' \in Seq(Latencies) /\ Len(samples') = Len(samples) + 1 /\ Len(samples) \in Nat
    BY <1>5, <2>1, AppendProperties, LenProperties DEF Send, Types
  <2>3. Len(samples') <= StatsCap
    BY <1>5, <2>2, LiveStatsAssumption DEF Send, Room
  <2>4. held' \in [Workers -> Nat]
    BY <1>5 DEF Send, Types
  <2> QED
    BY <1>5, <2>2, <2>3, <2>4 DEF Send, Types, runVars, readerVars, callVars
<1>6. CASE Quit(w)
  BY <1>6 DEF Quit, Types, runVars, readerVars, callVars
<1>7. CASE Finish(w)
  BY <1>7 DEF Finish, Types, runVars, readerVars, callVars
<1> QED
  BY <1>2, <1>3, <1>4, <1>5, <1>6, <1>7 DEF WorkerStep

LEMMA TypesReader ==
  ASSUME Types, ReaderStep
  PROVE  Types'
<1>1. CASE ReaderStops
  BY <1>1 DEF ReaderStops, Types, runVars, workerVars, callVars
<1>2. CASE Second
  <2>1. /\ rps.max \in Nat /\ rps.min \in Nat /\ reader.rps \in Nat
        /\ seconds \in Seq(Nat)
    BY DEF Types
  <2>2. rps' \in [max : Nat, min : Nat]
    BY <1>2, <2>1, MaxOfTwo, LowerIs DEF Second
  <2>3. seconds' \in Seq(Nat)
    BY <1>2, <2>1, AppendProperties DEF Second
  <2> QED
    BY <1>2, <2>2, <2>3 DEF Second, Types, runVars, workerVars, callVars
<1>3. CASE Receive
  <2>1. samples \in Seq(Latencies) /\ samples # <<>> /\ StatsCap \in Nat
    BY <1>3, LiveStatsAssumption DEF Receive, Types
  <2>2. /\ Head(samples) \in Latencies /\ Tail(samples) \in Seq(Latencies)
        /\ Len(Tail(samples)) = Len(samples) - 1 /\ Len(samples) \in Nat
    BY <2>1, HeadTailProperties, LenProperties
  <2>3. reader' \in [pc : {"select", "max", "min", "total", "end"},
                     t : Latencies \cup {0}, rps : Nat]
    BY <1>3, <2>2 DEF Receive, Types
  <2>4. samples' \in Seq(Latencies) /\ Len(samples') <= StatsCap
    BY <1>3, <2>1, <2>2 DEF Receive, Types
  <2> QED
    BY <1>3, <2>3, <2>4 DEF Receive, Types, runVars, workerVars, callVars
<1>4. CASE Update
  <2>1. /\ latency.max \in Nat /\ latency.min \in Nat /\ latency.total \in Nat
        /\ reader.t \in Nat
    <3>1. reader.t \in Latencies \cup {0}
      BY DEF Types
    <3>2. reader.t \in Nat
      BY <3>1, LatenciesAre, 0 \in Nat, Zenon
    <3> QED
      BY <3>2 DEF Types
  <2>2. reader' \in [pc : {"select", "max", "min", "total", "end"},
                     t : Latencies \cup {0}, rps : Nat]
    BY <1>4 DEF Update, Types
  <2>3. latency' \in [max : Nat, min : Nat, total : Nat]
    <3>1. Max({latency.max, reader.t}) \in Nat
      BY <2>1, MaxOfTwo
    <3>2. Lower(reader.t, latency.min) \in Nat
      BY <2>1, LowerIs
    <3>3. latency.total + reader.t \in Nat
      BY <2>1
    <3> DEFINE f == FieldOrder[reader.pc]
               v == CASE f = "max" -> Max({latency[f], reader.t})
                      [] f = "min" -> Lower(reader.t, latency[f])
                      [] OTHER -> latency[f] + reader.t
    <3>4. latency' = [latency EXCEPT ![f] = v]
      BY <1>4, Zenon DEF Update
    <3>5. f \in {"max", "min", "total"}
      BY <1>4 DEF Update, FieldOrder
    <3>6. v \in Nat
      BY <3>1, <3>2, <3>3, <3>5
    <3>7. latency \in [max : Nat, min : Nat, total : Nat]
      BY DEF Types
    <3> HIDE DEF f, v
    <3> QED
      BY <3>4, <3>5, <3>6, <3>7
  <2> QED
    BY <1>4, <2>2, <2>3 DEF Update, Types, runVars, workerVars, callVars
<1> QED
  BY <1>1, <1>2, <1>3, <1>4 DEF ReaderStep

\* A step of a caller changes its own call only.
LEMMA CallIs ==
  ASSUME call \in [Callers -> Calls], NEW p \in Callers, NEW c \in Calls,
         call' = [call EXCEPT ![p] = c]
  PROVE  /\ call'[p] = c
         /\ \A q \in Callers : q # p => call'[q] = call[q]
         /\ call' \in [Callers -> Calls]
  OBVIOUS

LEMMA CallFields ==
  ASSUME Types, NEW p \in Callers
  PROVE  /\ call[p] \in Calls /\ call \in [Callers -> Calls]
         /\ call[p].pc \in {"wait", "load", "store", "copy", "use", "end"}
         /\ call[p].w \in Workers /\ call[p].field \in Fields
         /\ call[p].val \in Nat /\ call[p].sum \in [Fields -> Nat]
         /\ count[call[p].w] \in [Fields -> Nat] /\ stats[call[p].w] \in [Fields -> Nat]
         /\ count[call[p].w][call[p].field] \in Nat
<1>1. call[p] \in Calls /\ call \in [Callers -> Calls]
  BY DEF Types
<1>2. /\ call[p].pc \in {"wait", "load", "store", "copy", "use", "end"}
      /\ call[p].w \in Workers /\ call[p].field \in Fields
      /\ call[p].val \in Nat /\ call[p].sum \in [Fields -> Nat]
  BY <1>1 DEF Calls
<1>3. count[call[p].w] \in [Fields -> Nat] /\ stats[call[p].w] \in [Fields -> Nat]
  BY <1>2 DEF Types
<1>4. count[call[p].w][call[p].field] \in Nat
  BY <1>2, <1>3
<1> QED
  BY <1>1, <1>2, <1>3, <1>4

LEMMA LoadIs ==
  ASSUME Types, NEW p \in Callers, Load(p)
  PROVE  /\ call[p].pc = "load"
         /\ call'[p].pc = "store"
         /\ call'[p].w = call[p].w /\ call'[p].field = call[p].field
         /\ call'[p].val = count[call[p].w][call[p].field] /\ call'[p].sum = call[p].sum
         /\ \A q \in Callers : q # p => call'[q] = call[q]
         /\ call' \in [Callers -> Calls]
<1> DEFINE c == [call[p] EXCEPT !.pc = "store", !.val = count[call[p].w][call[p].field]]
<1>1. /\ c.pc = "store"
      /\ c.w = call[p].w /\ c.field = call[p].field
      /\ c.val = count[call[p].w][call[p].field] /\ c.sum = call[p].sum
  BY CallFields DEF Calls
<1>2. c \in Calls
  BY <1>1, CallFields DEF Calls
<1>3. call[p].pc = "load" /\ call' = [call EXCEPT ![p] = c]
  BY Zenon DEF Load
<1> HIDE DEF c
<1> QED
  BY <1>1, <1>2, <1>3, CallIs, CallFields

LEMMA StoreIs ==
  ASSUME Types, NEW p \in Callers, Store(p)
  PROVE  /\ call[p].pc = "store"
         /\ call'[p].pc = (IF call[p].field = "bad" THEN "load" ELSE "copy")
         /\ call'[p].w = call[p].w /\ call'[p].field = "ok"
         /\ call'[p].val = 0 /\ call'[p].sum = call[p].sum
         /\ \A q \in Callers : q # p => call'[q] = call[q]
         /\ call' \in [Callers -> Calls]
         /\ stats' \in [Workers -> [Fields -> Nat]]
         /\ stats'[call[p].w][call[p].field] = call[p].val
         /\ \A w \in Workers : \A f \in Fields :
              ~(w = call[p].w /\ f = call[p].field) => stats'[w][f] = stats[w][f]
<1> DEFINE c == [call[p] EXCEPT !.pc = IF call[p].field = "bad" THEN "load" ELSE "copy",
                                !.field = "ok", !.val = 0]
<1>1. /\ c.pc = (IF call[p].field = "bad" THEN "load" ELSE "copy")
      /\ c.w = call[p].w /\ c.field = "ok"
      /\ c.val = 0 /\ c.sum = call[p].sum
  BY CallFields DEF Calls
<1>2. c \in Calls
  BY <1>1, CallFields DEF Calls, Fields
<1>3. call[p].pc = "store" /\ call' = [call EXCEPT ![p] = c]
  BY Zenon DEF Store
<1> HIDE DEF c
<1>4. /\ stats' \in [Workers -> [Fields -> Nat]]
      /\ stats'[call[p].w][call[p].field] = call[p].val
      /\ \A w \in Workers : \A f \in Fields :
           ~(w = call[p].w /\ f = call[p].field) => stats'[w][f] = stats[w][f]
  <2>1. stats' = [stats EXCEPT ![call[p].w][call[p].field] = call[p].val]
    BY Zenon DEF Store
  <2>2. stats \in [Workers -> [Fields -> Nat]]
    BY DEF Types
  <2> QED
    BY <2>1, <2>2, CallFields
<1> QED
  BY <1>1, <1>2, <1>3, <1>4, CallIs, CallFields

LEMMA CopyIs ==
  ASSUME Types, NEW p \in Callers, Copy(p)
  PROVE  /\ call[p].pc = "copy"
         /\ call'[p].pc = (IF call[p].w = Conns THEN "use" ELSE "load")
         /\ call'[p].w = (IF call[p].w = Conns THEN 1 ELSE call[p].w + 1)
         /\ call'[p].field = "bad"
         /\ call'[p].val = call[p].val
         /\ call'[p].sum = [f \in Fields |-> call[p].sum[f] + stats[call[p].w][f]]
         /\ \A q \in Callers : q # p => call'[q] = call[q]
         /\ call' \in [Callers -> Calls]
<1> DEFINE added == [f \in Fields |-> call[p].sum[f] + stats[call[p].w][f]]
           next  == IF call[p].w = Conns THEN 1 ELSE call[p].w + 1
           c == [call[p] EXCEPT !.sum = added,
                                !.pc = IF call[p].w = Conns THEN "use" ELSE "load",
                                !.field = "bad", !.w = next]
<1>1. call[p].pc = "copy" /\ call' = [call EXCEPT ![p] = c]
  BY Zenon DEF Copy
<1>2. added \in [Fields -> Nat]
  BY CallFields
<1>3. next \in Workers
  BY CallFields, LiveStatsAssumption DEF Workers
<1> HIDE DEF added, next
<1>4. /\ c.pc = (IF call[p].w = Conns THEN "use" ELSE "load")
      /\ c.w = next /\ c.field = "bad"
      /\ c.val = call[p].val /\ c.sum = added
  BY CallFields DEF Calls
<1>5. c \in Calls
  BY <1>2, <1>3, <1>4, CallFields DEF Calls, Fields
<1> HIDE DEF c
<1>6. /\ call'[p] = c
      /\ \A q \in Callers : q # p => call'[q] = call[q]
      /\ call' \in [Callers -> Calls]
  BY <1>1, <1>5, CallIs, CallFields
<1> QED
  BY <1>1, <1>4, <1>6, Zenon DEF added, next

\* The steps between the passes, of the display and of the results.
LEMMA ToIs ==
  ASSUME Types, NEW p \in Callers, NEW to \in {"wait", "load", "end"},
         call' = [call EXCEPT ![p] = [@ EXCEPT !.pc = to]]
  PROVE  /\ call'[p].pc = to
         /\ call'[p].w = call[p].w /\ call'[p].field = call[p].field
         /\ call'[p].val = call[p].val /\ call'[p].sum = call[p].sum
         /\ \A q \in Callers : q # p => call'[q] = call[q]
         /\ call' \in [Callers -> Calls]
<1> DEFINE c == [call[p] EXCEPT !.pc = to]
<1>1. /\ c.pc = to
      /\ c.w = call[p].w /\ c.field = call[p].field
      /\ c.val = call[p].val /\ c.sum = call[p].sum
  BY CallFields DEF Calls
<1>2. c \in Calls
  BY <1>1, CallFields DEF Calls
<1>3. call' = [call EXCEPT ![p] = c]
  BY Zenon
<1> HIDE DEF c
<1> QED
  BY <1>1, <1>2, <1>3, CallIs, CallFields

LEMMA TickIs ==
  ASSUME Types, DisplayTick
  PROVE  /\ call["display"].pc = "wait"
         /\ call'["display"].pc = "load"
         /\ call'["display"].w = call["display"].w /\ call'["display"].field = call["display"].field
         /\ call'["display"].val = call["display"].val /\ call'["display"].sum = Zero
         /\ call'["results"] = call["results"]
         /\ call' \in [Callers -> Calls]
<1> DEFINE p == "display"
           c == [call[p] EXCEPT !.pc = "load", !.sum = Zero]
<1>1. p \in Callers /\ "results" \in Callers /\ p # "results"
  BY DEF Callers
<1>2. Zero \in [Fields -> Nat]
  BY DEF Zero
<1>3. call[p].pc = "wait" /\ call' = [call EXCEPT ![p] = c]
  BY Zenon DEF DisplayTick, FreshSum
<1> HIDE DEF p
<1>4. /\ c.pc = "load"
      /\ c.w = call[p].w /\ c.field = call[p].field
      /\ c.val = call[p].val /\ c.sum = Zero
  BY <1>1, CallFields DEF Calls
<1>5. c \in Calls
  BY <1>1, <1>2, <1>4, CallFields DEF Calls
<1> HIDE DEF c
<1>6. /\ call'[p] = c
      /\ \A q \in Callers : q # p => call'[q] = call[q]
      /\ call' \in [Callers -> Calls]
  BY <1>1, <1>3, <1>5, CallIs, CallFields
<1> QED
  BY <1>1, <1>3, <1>4, <1>6 DEF p

LEMMA TypesCaller ==
  ASSUME Types,
         \/ DisplayTick \/ Show \/ DisplayStops \/ WorkersDone \/ Return
         \/ \E p \in Callers : StatsStep(p)
  PROVE  Types'
<1>1. Zero \in [Fields -> Nat]
  BY DEF Zero
<1>2. /\ call \in [Callers -> Calls] /\ "display" \in Callers /\ "results" \in Callers
      /\ shown \in [Fields -> Nat] /\ shows \in Nat /\ latency.total \in Nat
  BY LiveStatsAssumption DEF Types, Callers
<1>3. call["display"].sum \in [Fields -> Nat] /\ call["results"].sum \in [Fields -> Nat]
  BY <1>2 DEF Calls
<1>4. CASE DisplayTick
  <2>1. call' \in [Callers -> Calls]
    BY <1>2, <1>4, TickIs
  <2>2. shows' \in 0 .. MaxTicks
    <3>1. Len(seconds) \in Nat /\ Len(seconds) + shows < MaxTicks /\ shows' = shows + 1
      BY <1>4, LenProperties DEF DisplayTick, MoreTicks, Types
    <3> QED
      BY <1>2, <3>1, LiveStatsAssumption
  <2> QED
    BY <1>4, <2>1, <2>2 DEF DisplayTick, Types, runVars, workerVars, readerVars
<1>5. CASE Show
  <2>1. call' \in [Callers -> Calls]
    BY <1>2, <1>5, ToIs DEF Show
  <2> QED
    BY <1>5, <2>1, <1>3 DEF Show, Types, runVars, workerVars, readerVars
<1>6. CASE DisplayStops
  <2>1. call' \in [Callers -> Calls]
    BY <1>2, <1>6, ToIs DEF DisplayStops
  <2> QED
    BY <1>6, <2>1 DEF DisplayStops, Types, runVars, workerVars, readerVars
<1>7. CASE WorkersDone
  <2>1. call' \in [Callers -> Calls]
    BY <1>2, <1>7, ToIs DEF WorkersDone
  <2> QED
    BY <1>7, <2>1 DEF WorkersDone, Types, workerVars, readerVars
<1>8. CASE Return
  <2>1. call' \in [Callers -> Calls]
    BY <1>2, <1>8, ToIs DEF Return
  <2>2. results' \in [sum : [Fields -> Nat], total : Nat]
    BY <1>2, <1>3, <1>8 DEF Return
  <2> QED
    BY <1>8, <2>1, <2>2 DEF Return, Types, runVars, workerVars, readerVars
<1>9. ASSUME NEW p \in Callers, StatsStep(p) PROVE Types'
  <2>1. CASE Load(p)
    <3>1. call' \in [Callers -> Calls]
      BY <2>1, LoadIs
    <3> QED
      BY <2>1, <3>1 DEF Load, Types, runVars, workerVars, readerVars
  <2>2. CASE Store(p)
    <3>1. call' \in [Callers -> Calls] /\ stats' \in [Workers -> [Fields -> Nat]]
      BY <2>2, StoreIs
    <3> QED
      BY <2>2, <3>1 DEF Store, Types, runVars, workerVars, readerVars
  <2>3. CASE Copy(p)
    <3>1. call' \in [Callers -> Calls]
      BY <2>3, CopyIs
    <3> QED
      BY <2>3, <3>1 DEF Copy, Types, runVars, workerVars, readerVars
  <2> QED
    BY <1>9, <2>1, <2>2, <2>3 DEF StatsStep
<1> QED
  BY <1>4, <1>5, <1>6, <1>7, <1>8, <1>9, Zenon

LEMMA TypesInductive ==
  ASSUME Types, [Next]_vars
  PROVE  Types'
<1>1. CASE Cancel
  BY <1>1 DEF Cancel, Types, workerVars, readerVars, callVars
<1>2. CASE UNCHANGED vars
  BY <1>2 DEF vars, Types, runVars, workerVars, readerVars, callVars
<1> QED
  BY <1>1, <1>2, TypesWorker, TypesReader, TypesCaller, Zenon DEF Next

-------------------------------------------------------------------------------
(* Every answer is counted once. *)

\* One more in a counter of one worker.
LEMMA CountOne ==
  ASSUME Types, NEW w \in Workers, NEW f \in Fields, count' = [count EXCEPT ![w][f] = @ + 1]
  PROVE  /\ SumOver(f)' = SumOver(f) + 1
         /\ \A g \in Fields : g # f => SumOver(g)' = SumOver(g)
<1>1. /\ count \in [Workers -> [Fields -> Nat]] /\ count' \in [Workers -> [Fields -> Nat]]
      /\ count'[w][f] = count[w][f] + 1
      /\ \A v \in Workers : \A g \in Fields : <<v, g>> # <<w, f>> => count'[v][g] = count[v][g]
  <2>1. count \in [Workers -> [Fields -> Nat]]
    BY DEF Types
  <2> QED
    BY <2>1, CountGrowsType
<1>2. SumOver(f)' = SumOver(f) + 1
  <2> DEFINE old == [v \in Workers |-> count[v][f]]
             new == [v \in Workers |-> count'[v][f]]
  <2>1. /\ \A v \in Workers : old[v] \in Nat
        /\ new[w] = old[w] + 1 /\ new[w] \in Nat
        /\ \A v \in Workers : v # w => new[v] = old[v]
    BY <1>1
  <2> HIDE DEF old, new
  <2>2. IsFiniteSet(Units(old, Workers)) /\ SumOf(old, Workers) \in Nat
    BY <2>1, FiniteOn
  <2>3. SumOf(new, Workers) = SumOf(old, Workers) + new[w] - old[w]
    BY <2>1, <2>2, SumChange
  <2>4. SumOf(new, Workers) = SumOf(old, Workers) + 1
    BY <2>1, <2>2, <2>3
  <2> QED
    BY <2>4 DEF SumOver, old, new
<1>3. ASSUME NEW g \in Fields, g # f PROVE SumOver(g)' = SumOver(g)
  <2>1. \A v \in Workers : count'[v][g] = count[v][g]
    BY <1>1, <1>3
  <2> QED
    BY <2>1 DEF SumOver
<1> QED
  BY <1>2, <1>3

\* One worker more, or one fewer, holds a sample.
LEMMA HoldingOne ==
  ASSUME Types, Types', NEW w \in Workers, \A v \in Workers : v # w => held'[v] = held[v]
  PROVE  /\ SumOf(held, Workers) \in Nat /\ SumOf(held', Workers) \in Nat
         /\ SumOf(held', Workers) = SumOf(held, Workers) + held'[w] - held[w]
<1> DEFINE old == held
           new == held'
<1>1. /\ \A v \in Workers : old[v] \in Nat /\ new[v] \in Nat
      /\ \A v \in Workers : v # w => new[v] = old[v]
  BY DEF Types
<1> HIDE DEF old, new
<1>2. /\ IsFiniteSet(Units(old, Workers)) /\ SumOf(old, Workers) \in Nat
      /\ SumOf(new, Workers) \in Nat
  BY <1>1, FiniteOn
<1>3. SumOf(new, Workers) = SumOf(old, Workers) + new[w] - old[w]
  BY <1>1, <1>2, SumChange
<1> QED
  BY <1>2, <1>3 DEF old, new

\* One second more.
LEMMA SecondsAppend ==
  ASSUME NEW t \in Seq(Nat), NEW n \in Nat
  PROVE  SumOf(Append(t, n), DOMAIN Append(t, n)) = SumOf(t, DOMAIN t) + n
<1> DEFINE u == Append(t, n)
           k == Len(t) + 1
<1>1. /\ Len(t) \in Nat /\ DOMAIN t = 1 .. Len(t) /\ DOMAIN u = 1 .. k
      /\ \A i \in 1 .. Len(t) : u[i] = t[i]
      /\ u[k] = n
  BY AppendProperties, LenProperties
<1> HIDE DEF u
<1>2. DOMAIN u = DOMAIN t \cup {k} /\ k \notin DOMAIN t
  BY <1>1
<1>3. \A i \in DOMAIN t : u[i] = t[i]
  BY <1>1
<1> HIDE DEF k
<1>4. IsFiniteSet(Units(t, DOMAIN t))
  BY FiniteSeconds
<1>5. Units(u, DOMAIN t) = Units(t, DOMAIN t) /\ SumOf(u, DOMAIN t) = SumOf(t, DOMAIN t)
  BY <1>3, SumSame
<1>6. SumOf(u, DOMAIN t \cup {k}) = SumOf(u, DOMAIN t) + u[k]
  BY <1>1, <1>2, <1>4, <1>5, SumAdd
<1>7. SumOf(u, DOMAIN u) = SumOf(t, DOMAIN t) + n
  BY <1>1, <1>2, <1>5, <1>6
<1> QED
  BY <1>7 DEF u

LEMMA SumsAre ==
  ASSUME Types
  PROVE  /\ \A f \in Fields : SumOver(f) \in Nat
         /\ SumOf(held, Workers) \in Nat
         /\ Len(samples) \in Nat /\ reader.rps \in Nat /\ Seconds \in Nat
<1>1. ASSUME NEW f \in Fields PROVE SumOver(f) \in Nat
  <2> DEFINE g == [w \in Workers |-> count[w][f]]
  <2>1. \A w \in Workers : g[w] \in Nat
    BY DEF Types
  <2> HIDE DEF g
  <2>2. SumOf(g, Workers) \in Nat
    BY <2>1, FiniteOn
  <2> QED
    BY <2>2 DEF SumOver, g
<1>2. SumOf(held, Workers) \in Nat
  <2> DEFINE g == held
  <2>1. \A w \in Workers : g[w] \in Nat
    BY DEF Types
  <2> HIDE DEF g
  <2>2. SumOf(g, Workers) \in Nat
    BY <2>1, FiniteOn
  <2> QED
    BY <2>2 DEF g
<1>3. Len(samples) \in Nat /\ reader.rps \in Nat
  BY LenProperties DEF Types
<1>4. Seconds \in Nat
  BY FiniteSeconds DEF Types, Seconds
<1> QED
  BY <1>1, <1>2, <1>3, <1>4

LEMMA CountedInit ==
  ASSUME Init
  PROVE  Counted
<1>1. SumOver("ok") = 0
  <2> DEFINE g == [w \in Workers |-> count[w]["ok"]]
  <2>1. \A w \in Workers : g[w] = 0
    BY DEF Init, Zero, Fields
  <2> HIDE DEF g
  <2>2. SumOf(g, Workers) = 0
    BY <2>1, SumZero
  <2> QED
    BY <2>2 DEF SumOver, g
<1>2. SumOf(held, Workers) = 0
  <2> DEFINE g == held
  <2>1. \A w \in Workers : g[w] = 0
    BY DEF Init
  <2> HIDE DEF g
  <2>2. SumOf(g, Workers) = 0
    BY <2>1, SumZero
  <2> QED
    BY <2>2 DEF g
<1>3. /\ samples = <<>> /\ seconds = <<>> /\ reader.pc = "select" /\ reader.rps = 0
      /\ rps.max = 0 /\ rps.min = 0
      /\ latency.max = 0 /\ latency.min = 0 /\ latency.total = 0
  BY DEF Init
<1>4. Len(samples) = 0 /\ Len(seconds) = 0 /\ DOMAIN seconds = {}
  BY <1>3
<1>5. Seconds = 0
  BY <1>4, SumEmpty DEF Seconds
<1>6. EverySample
  BY <1>1, <1>2, <1>3, <1>4, <1>5 DEF EverySample
<1>7. LatencyInv
  BY <1>3, <1>5 DEF LatencyInv, Busy, Totalled
<1>8. RpsMaxInv
  BY <1>3, <1>4 DEF RpsMaxInv
<1>9. RpsMinInv
  BY <1>3, <1>4 DEF RpsMinInv, SilentLast
<1> QED
  BY <1>6, <1>7, <1>8, <1>9 DEF Counted

\* The steps that neither count nor receive.
LEMMA CountedFrame ==
  ASSUME Counted, UNCHANGED <<count, held, samples, readerVars>>
  PROVE  Counted'
<1>1. EverySample'
  BY DEF Counted, EverySample, SumOver, Seconds, readerVars
<1>2. LatencyInv'
  BY DEF Counted, LatencyInv, Busy, Totalled, Seconds, readerVars
<1>3. RpsMaxInv' /\ RpsMinInv'
  BY DEF Counted, RpsMaxInv, RpsMinInv, SilentLast, readerVars
<1> QED
  BY <1>1, <1>2, <1>3 DEF Counted

LEMMA CountedWorker ==
  ASSUME Types, Counted, NEW w \in Workers, WorkerStep(w)
  PROVE  Counted'
<1>1. Types'
  BY TypesWorker
<1>2. LatencyInv' /\ RpsMaxInv' /\ RpsMinInv' /\ Seconds' = Seconds /\ reader' = reader
  <2>1. UNCHANGED readerVars
    BY DEF WorkerStep, Begin, Fail, Answer, Send, Quit, Finish
  <2> QED
    BY <2>1 DEF Counted, LatencyInv, Busy, Totalled, Seconds, RpsMaxInv, RpsMinInv,
                SilentLast, readerVars
<1>3. /\ SumOver("ok") \in Nat /\ SumOf(held, Workers) \in Nat /\ Len(samples) \in Nat
      /\ reader.rps \in Nat /\ Seconds \in Nat
      /\ SumOver("ok") = SumOf(held, Workers) + Len(samples) + reader.rps + Seconds
  BY SumsAre DEF Counted, EverySample, Fields
<1>4. EverySample'
  <2>1. CASE Begin(w) \/ Quit(w) \/ Finish(w)
    <3>1. count' = count /\ held' = held /\ samples' = samples
      BY <2>1 DEF Begin, Quit, Finish
    <3> QED
      BY <1>2, <1>3, <3>1 DEF EverySample, SumOver
  <2>2. CASE Fail(w)
    <3>1. count' = [count EXCEPT ![w]["bad"] = @ + 1] /\ held' = held /\ samples' = samples
      BY <2>2 DEF Fail
    <3>2. SumOver("ok")' = SumOver("ok")
      BY <3>1, CountOne DEF Fields
    <3> QED
      BY <1>2, <1>3, <3>1, <3>2 DEF EverySample
  <2>3. CASE Answer(w)
    <3>1. /\ count' = [count EXCEPT ![w]["ok"] = @ + 1] /\ samples' = samples
          /\ held' = [held EXCEPT ![w] = @ + 1]
      BY <2>3 DEF Answer
    <3>2. SumOver("ok")' = SumOver("ok") + 1
      BY <3>1, CountOne DEF Fields
    <3>3. /\ held[w] \in Nat /\ held'[w] = held[w] + 1
          /\ \A v \in Workers : v # w => held'[v] = held[v]
      BY <3>1 DEF Types
    <3>4. SumOf(held', Workers) = SumOf(held, Workers) + 1
      BY <1>1, <1>3, <3>3, HoldingOne
    <3> QED
      BY <1>2, <1>3, <3>1, <3>2, <3>4 DEF EverySample
  <2>4. ASSUME NEW t \in Latency[w], Send(w, t) PROVE EverySample'
    <3>1. /\ count' = count /\ samples' = Append(samples, t)
          /\ held' = [held EXCEPT ![w] = @ - 1]
      BY <2>4 DEF Send
    <3>2. SumOver("ok")' = SumOver("ok")
      BY <3>1 DEF SumOver
    <3>3. /\ held[w] \in Nat /\ held'[w] = held[w] - 1
          /\ \A v \in Workers : v # w => held'[v] = held[v]
      BY <3>1 DEF Types
    <3>4. SumOf(held', Workers) = SumOf(held, Workers) - 1
      BY <1>1, <1>3, <3>3, HoldingOne
    <3>5. Len(samples') = Len(samples) + 1
      <4>1. t \in Latencies /\ samples \in Seq(Latencies)
        BY DEF Types, Latencies
      <4> QED
        BY <3>1, <4>1, AppendProperties
    <3> QED
      BY <1>2, <1>3, <3>2, <3>4, <3>5 DEF EverySample
  <2> QED
    BY <2>1, <2>2, <2>3, <2>4 DEF WorkerStep
<1> QED
  BY <1>2, <1>4 DEF Counted

\* The maximum and the minimum over the seconds, with one second more.
LEMMA RpsSecond ==
  ASSUME Types, RpsMaxInv, RpsMinInv, Second
  PROVE  RpsMaxInv' /\ RpsMinInv'
<1> DEFINE n == Len(seconds)
           v == reader.rps
<1>1. /\ rps.max \in Nat /\ rps.min \in Nat /\ v \in Nat /\ n \in Nat
      /\ \A k \in 1 .. n : seconds[k] \in Nat
  BY LenProperties, ElementOfSeq DEF Types
<1>2. /\ Len(seconds') = n + 1 /\ seconds'[n + 1] = v
      /\ \A k \in 1 .. n : seconds'[k] = seconds[k]
  BY <1>1, AppendProperties DEF Second, Types
<1>3. rps'.max = (IF rps.max <= v THEN v ELSE rps.max)
  <2>1. rps'.max = Max({rps.max, v})
    BY DEF Second
  <2> QED
    BY <1>1, <2>1, MaxOfTwo
<1>4. rps'.min = (IF v < rps.min \/ rps.min = 0 THEN v ELSE rps.min)
  BY DEF Second, Lower
<1> HIDE DEF n, v
<1>5. RpsMaxInv'
  <2>1. \A k \in 1 .. n + 1 : k \in 1 .. n \/ k = n + 1
    BY <1>1
  <2>2. rps.max = 0 \/ \E k \in 1 .. n : seconds[k] = rps.max
    BY DEF RpsMaxInv, n
  <2>3. \A k \in 1 .. n : seconds[k] <= rps.max
    BY DEF RpsMaxInv, n
  <2>4. \A k \in 1 .. n + 1 : seconds'[k] <= rps'.max
    BY <1>1, <1>2, <1>3, <2>1, <2>3
  <2>5. rps'.max = 0 \/ \E k \in 1 .. n + 1 : seconds'[k] = rps'.max
    <3>1. n + 1 \in 1 .. n + 1 /\ \A k \in 1 .. n : k \in 1 .. n + 1
      BY <1>1
    <3> QED
      BY <1>1, <1>2, <1>3, <2>2, <3>1
  <2> QED
    BY <1>2, <2>4, <2>5 DEF RpsMaxInv
<1>6. RpsMinInv'
  <2>1. PICK s \in 0 .. n :
          /\ s > 0 => seconds[s] = 0
          /\ \A k \in s + 1 .. n : seconds[k] # 0
          /\ s = n => rps.min = 0
          /\ s # n => \E k \in s + 1 .. n : seconds[k] = rps.min
          /\ \A k \in s + 1 .. n : rps.min <= seconds[k]
    BY DEF RpsMinInv, SilentLast, n
  <2>2. CASE v = 0
    <3>1. rps'.min = 0
      BY <1>1, <1>4, <2>2
    <3>2. n + 1 \in 0 .. n + 1 /\ \A k \in n + 1 + 1 .. n + 1 : FALSE
      BY <1>1
    <3>3. /\ n + 1 > 0 => seconds'[n + 1] = 0
          /\ \A k \in n + 1 + 1 .. n + 1 : seconds'[k] # 0
          /\ \A k \in n + 1 + 1 .. n + 1 : rps'.min <= seconds'[k]
      BY <1>2, <2>2, <3>2
    <3> QED
      BY <1>2, <3>1, <3>2, <3>3 DEF RpsMinInv, SilentLast
  <2>3. CASE v # 0
    <3>1. s \in Nat /\ s \in 0 .. n + 1 /\ s # n + 1
      BY <1>1
    <3>2. \A k \in s + 1 .. n + 1 : (k \in s + 1 .. n /\ k \in 1 .. n) \/ k = n + 1
      BY <1>1, <3>1
    <3>3. n + 1 \in s + 1 .. n + 1 /\ \A k \in s + 1 .. n : k \in s + 1 .. n + 1
      BY <1>1, <3>1
    <3>4. s > 0 => seconds'[s] = 0
      BY <1>1, <1>2, <2>1, <3>1
    <3>5. \A k \in s + 1 .. n + 1 : seconds'[k] # 0
      BY <1>2, <2>1, <2>3, <3>2
    <3>6. (\E k \in s + 1 .. n + 1 : seconds'[k] = rps'.min)
          /\ \A k \in s + 1 .. n + 1 : rps'.min <= seconds'[k]
      <4>1. CASE s = n
        <5>1. rps'.min = v /\ \A k \in s + 1 .. n + 1 : k = n + 1
          BY <1>1, <1>4, <2>1, <4>1
        <5> QED
          BY <1>1, <1>2, <3>3, <5>1
      <4>2. CASE s # n
        <5>1. PICK m \in s + 1 .. n : seconds[m] = rps.min
          BY <2>1, <4>2
        <5>2. m \in 1 .. n /\ seconds'[m] = rps.min /\ rps.min # 0 /\ m \in s + 1 .. n + 1
          BY <1>1, <1>2, <2>1, <3>1, <5>1
        <5>3. rps'.min = IF v < rps.min THEN v ELSE rps.min
          BY <1>1, <1>4, <5>2
        <5>4. \A k \in s + 1 .. n + 1 : rps'.min <= seconds'[k]
          BY <1>1, <1>2, <2>1, <3>2, <5>3
        <5>5. \E k \in s + 1 .. n + 1 : seconds'[k] = rps'.min
          BY <1>2, <3>3, <5>2, <5>3
        <5> QED
          BY <5>4, <5>5
      <4> QED
        BY <4>1, <4>2
    <3>7. SilentLast(s)'
      BY <1>2, <3>4, <3>5 DEF SilentLast
    <3> QED
      BY <1>2, <3>1, <3>6, <3>7 DEF RpsMinInv
  <2> QED
    BY <2>2, <2>3
<1> QED
  BY <1>5, <1>6

\* The field of the latency that is updated.
LEMMA UpdateIs ==
  ASSUME Types, Update
  PROVE  /\ latency'.max = (IF reader.pc = "max" THEN Max({latency.max, reader.t})
                                                ELSE latency.max)
         /\ latency'.min = (IF reader.pc = "min" THEN Lower(reader.t, latency.min)
                                                ELSE latency.min)
         /\ latency'.total = (IF reader.pc = "total" THEN latency.total + reader.t
                                                    ELSE latency.total)
<1> DEFINE f == FieldOrder[reader.pc]
           v == CASE f = "max" -> Max({latency[f], reader.t})
                  [] f = "min" -> Lower(reader.t, latency[f])
                  [] OTHER -> latency[f] + reader.t
<1>1. latency' = [latency EXCEPT ![f] = v]
  BY Zenon DEF Update
<1>2. f = reader.pc /\ f \in {"max", "min", "total"}
  BY DEF Update, FieldOrder
<1>3. /\ f = "max" => v = Max({latency.max, reader.t})
      /\ f = "min" => v = Lower(reader.t, latency.min)
      /\ f = "total" => v = latency.total + reader.t
  OBVIOUS
<1>4. latency \in [max : Nat, min : Nat, total : Nat]
  BY DEF Types
<1> HIDE DEF f, v
<1>5. /\ latency'.max = IF f = "max" THEN v ELSE latency.max
      /\ latency'.min = IF f = "min" THEN v ELSE latency.min
      /\ latency'.total = IF f = "total" THEN v ELSE latency.total
  BY <1>1, <1>2, <1>4
<1> QED
  BY <1>2, <1>3, <1>5

\* The average: a sample is added to the total once it is below the maximum.
LEMMA LatencyUpdate ==
  ASSUME Types, LatencyInv, Update
  PROVE  LatencyInv' /\ latency.max <= latency'.max
<1> DEFINE m == latency.max
           l == latency.min
           total == latency.total
           t == reader.t
           n == Totalled
<1>1. /\ m \in Nat /\ l \in Nat /\ total \in Nat /\ reader.rps \in Nat /\ Seconds \in Nat
      /\ latency \in [max : Nat, min : Nat, total : Nat]
      /\ reader \in [pc : {"select", "max", "min", "total", "end"},
                     t : Latencies \cup {0}, rps : Nat]
  BY SumsAre DEF Types
<1>2. t \in Nat
  <2>1. t \in Latencies \cup {0}
    BY DEF Types
  <2> QED
    BY <2>1, LatenciesAre, 0 \in Nat, Zenon
<1>3. Busy /\ reader.rps > 0 /\ l <= m /\ total <= m * n
      /\ (reader.pc \in {"min", "total"} => t <= m)
  BY DEF Update, LatencyInv, Busy
<1>4. n \in Nat /\ n = Seconds + reader.rps - 1
  BY <1>1, <1>3 DEF Totalled
<1>5. /\ reader'.rps = reader.rps /\ Seconds' = Seconds
      /\ reader'.pc = CASE reader.pc = "max" -> "min" [] reader.pc = "min" -> "total"
                        [] reader.pc = "total" -> "select"
      /\ reader.pc # "total" => reader'.t = t
  BY <1>1 DEF Update, Seconds
<1>6. CASE reader.pc = "max"
  <2>2. Max({latency.max, reader.t}) = IF m <= t THEN t ELSE m
    BY <1>1, <1>2, MaxOfTwo
  <2>3. latency'.max = (IF m <= t THEN t ELSE m) /\ latency'.min = l /\ latency'.total = total
    BY <1>6, UpdateIs, <2>2
  <2>4. Busy' /\ Totalled' = n
    BY <1>4, <1>5, <1>6 DEF Busy, Totalled
  <2> HIDE DEF m, l, total, t, n
  <2>5. \A x \in Nat : m <= x => m * n <= x * n
    <3> SUFFICES ASSUME NEW x \in Nat, m <= x PROVE m * n <= x * n
      OBVIOUS
    <3> QED
      BY <1>1, <1>4
  <2>6. total <= latency'.max * n
    <3> DEFINE x == latency'.max
    <3>1. x \in Nat /\ m <= x
      BY <1>1, <1>2, <2>3
    <3> HIDE DEF x
    <3>2. m * n <= x * n /\ m * n \in Nat /\ x * n \in Nat
      BY <1>1, <1>4, <2>5, <3>1
    <3>3. total <= x * n
      BY <1>1, <1>3, <3>2
    <3> QED
      BY <3>3 DEF x
  <2>7. /\ reader'.pc = "min" /\ reader'.t = t /\ reader'.rps > 0
        /\ t <= latency'.max /\ latency'.min <= latency'.max /\ m <= latency'.max
    BY <1>1, <1>2, <1>3, <1>5, <1>6, <2>3
  <2> QED
    BY <2>3, <2>4, <2>6, <2>7 DEF LatencyInv, m
<1>7. CASE reader.pc = "min"
  <2>2. Lower(reader.t, latency.min) \in {t, l}
    BY DEF Lower
  <2>3. latency'.max = m /\ latency'.min \in {t, l} /\ latency'.total = total
    BY <1>7, UpdateIs, <2>2
  <2>4. Busy' /\ Totalled' = n
    BY <1>4, <1>5, <1>7 DEF Busy, Totalled
  <2>5. reader'.pc = "total" /\ reader'.t = t /\ reader'.rps > 0 /\ t <= m
    BY <1>3, <1>5, <1>7
  <2> HIDE DEF m, l, total, t, n
  <2> QED
    BY <1>1, <1>3, <2>3, <2>4, <2>5 DEF LatencyInv, m
<1>8. CASE reader.pc = "total"
  <2>2. latency'.max = m /\ latency'.min = l /\ latency'.total = total + t
    BY <1>8, UpdateIs
  <2>3. reader'.pc = "select" /\ ~Busy' /\ Totalled' = n + 1
    BY <1>1, <1>4, <1>5, <1>8 DEF Busy, Totalled
  <2> HIDE DEF m, l, total, t, n
  <2>4. m * (n + 1) = m * n + m /\ m * n \in Nat
    BY <1>1, <1>4
  <2>5. total + t <= m * (n + 1)
    BY <1>1, <1>2, <1>3, <1>8, <2>4
  <2>6. m <= m
    BY <1>1
  <2> QED
    BY <1>3, <2>2, <2>3, <2>5, <2>6 DEF LatencyInv, m, Busy
<1> QED
  BY <1>6, <1>7, <1>8 DEF Update

LEMMA CountedReader ==
  ASSUME Types, Counted, ReaderStep
  PROVE  Counted' /\ latency.max <= latency'.max /\ UNCHANGED <<runVars, workerVars, callVars>>
<1>1. /\ SumOf(held, Workers) \in Nat /\ Len(samples) \in Nat
      /\ reader.rps \in Nat /\ Seconds \in Nat /\ latency.max \in Nat
      /\ SumOver("ok") = SumOf(held, Workers) + Len(samples) + reader.rps + Seconds
      /\ reader \in [pc : {"select", "max", "min", "total", "end"},
                     t : Latencies \cup {0}, rps : Nat]
  BY SumsAre DEF Types, Counted, EverySample
<1>2. /\ UNCHANGED <<runVars, workerVars, callVars>>
      /\ SumOver("ok")' = SumOver("ok") /\ held' = held
  BY DEF ReaderStep, ReaderStops, Second, Receive, Update, SumOver, workerVars
<1>3. CASE ReaderStops
  <2>1. /\ reader'.rps = reader.rps /\ reader.pc = "select" /\ reader'.pc = "end"
        /\ UNCHANGED <<samples, rps, latency, seconds>>
    BY <1>1, <1>3 DEF ReaderStops
  <2>2. EverySample'
    BY <1>1, <1>2, <2>1 DEF EverySample, Seconds
  <2>3. LatencyInv'
    BY <2>1 DEF Counted, LatencyInv, Busy, Totalled, Seconds
  <2>4. RpsMaxInv' /\ RpsMinInv'
    BY <2>1 DEF Counted, RpsMaxInv, RpsMinInv, SilentLast
  <2> QED
    BY <1>1, <1>2, <2>1, <2>2, <2>3, <2>4 DEF Counted
<1>4. CASE Second
  <2>1. /\ reader'.rps = 0 /\ reader.pc = "select" /\ reader'.pc = "select"
        /\ UNCHANGED <<samples, latency>>
    BY <1>1, <1>4 DEF Second
  <2>2. Seconds' = Seconds + reader.rps
    <3>1. seconds' = Append(seconds, reader.rps) /\ seconds \in Seq(Nat)
      BY <1>4 DEF Second, Types
    <3> QED
      BY <1>1, <3>1, SecondsAppend DEF Seconds
  <2>3. EverySample'
    BY <1>1, <1>2, <2>1, <2>2 DEF EverySample
  <2>4. LatencyInv'
    <3>1. Totalled' = Totalled /\ ~Busy'
      BY <1>1, <2>1, <2>2 DEF Busy, Totalled
    <3> QED
      BY <2>1, <3>1 DEF Counted, LatencyInv
  <2>5. RpsMaxInv' /\ RpsMinInv'
    BY <1>4, RpsSecond DEF Counted
  <2> QED
    BY <1>1, <1>2, <2>1, <2>3, <2>4, <2>5 DEF Counted
<1>5. CASE Receive
  <2>1. /\ reader'.rps = reader.rps + 1 /\ reader.pc = "select" /\ reader'.pc = "max"
        /\ samples # <<>> /\ samples' = Tail(samples)
        /\ UNCHANGED <<rps, latency, seconds>>
    BY <1>5 DEF Receive
  <2>2. Len(samples') = Len(samples) - 1
    BY <2>1, HeadTailProperties DEF Types
  <2>3. EverySample'
    BY <1>1, <1>2, <2>1, <2>2 DEF EverySample, Seconds
  <2>4. LatencyInv'
    <3>1. Totalled' = Totalled
      BY <1>1, <2>1 DEF Busy, Totalled, Seconds
    <3> QED
      BY <1>1, <2>1, <3>1 DEF Counted, LatencyInv, Busy
  <2>5. RpsMaxInv' /\ RpsMinInv'
    BY <2>1 DEF Counted, RpsMaxInv, RpsMinInv, SilentLast
  <2> QED
    BY <1>1, <1>2, <2>1, <2>3, <2>4, <2>5 DEF Counted
<1>6. CASE Update
  <2>1. /\ reader'.rps = reader.rps /\ UNCHANGED <<samples, rps, seconds>>
    BY <1>1, <1>6 DEF Update
  <2>2. EverySample'
    BY <1>1, <1>2, <2>1 DEF EverySample, Seconds
  <2>3. LatencyInv' /\ latency.max <= latency'.max
    BY <1>6, LatencyUpdate DEF Counted
  <2>4. RpsMaxInv' /\ RpsMinInv'
    BY <2>1 DEF Counted, RpsMaxInv, RpsMinInv, SilentLast
  <2> QED
    BY <1>2, <2>2, <2>3, <2>4 DEF Counted
<1> QED
  BY <1>3, <1>4, <1>5, <1>6 DEF ReaderStep

-------------------------------------------------------------------------------
(* What is reported stays behind what is counted. *)

LEMMA CallersAre ==
  /\ "display" \in Callers /\ "results" \in Callers /\ "display" # "results"
  /\ \A p \in Callers : p = "display" \/ p = "results"
  BY DEF Callers

LEMMA ColumnsAre ==
  ASSUME Types, NEW f \in Fields
  PROVE  \A w \in Workers : /\ Counts(f)[w] = count[w][f] /\ count[w][f] \in Nat
                            /\ Stored(f)[w] = stats[w][f] /\ stats[w][f] \in Nat
                            /\ Finals(f)[w] = final[w][f] /\ final[w][f] \in Nat
                            /\ Least(f)[w] \in Nat
<1>1. \A w \in Workers : count[w][f] \in Nat /\ stats[w][f] \in Nat /\ final[w][f] \in Nat
  BY DEF Types
<1>2. call["display"].val \in Nat
  BY CallFields, CallersAre
<1> QED
  BY <1>1, <1>2 DEF Counts, Finals, Stored, Least

\* The sums of the columns over some of the workers.
LEMMA ColumnSums ==
  ASSUME Types, NEW f \in Fields, NEW S \in SUBSET Workers
  PROVE  /\ IsFiniteSet(Units(Counts(f), S)) /\ SumOf(Counts(f), S) \in Nat
         /\ IsFiniteSet(Units(Stored(f), S)) /\ SumOf(Stored(f), S) \in Nat
         /\ IsFiniteSet(Units(Least(f), S)) /\ SumOf(Least(f), S) \in Nat
         /\ IsFiniteSet(Units(Finals(f), S)) /\ SumOf(Finals(f), S) \in Nat
         /\ SumOver(f) = SumOf(Counts(f), Workers) /\ FinalOver(f) = SumOf(Finals(f), Workers)
<1> DEFINE c == Counts(f)
           t == Stored(f)
           l == Least(f)
           e == Finals(f)
<1>1. \A w \in S : c[w] \in Nat /\ t[w] \in Nat /\ l[w] \in Nat /\ e[w] \in Nat
  BY ColumnsAre
<1> HIDE DEF c, t, l, e
<1>2. /\ IsFiniteSet(Units(c, S)) /\ SumOf(c, S) \in Nat
      /\ IsFiniteSet(Units(t, S)) /\ SumOf(t, S) \in Nat
      /\ IsFiniteSet(Units(l, S)) /\ SumOf(l, S) \in Nat
      /\ IsFiniteSet(Units(e, S)) /\ SumOf(e, S) \in Nat
  BY <1>1, FiniteOn
<1>3. SumOver(f) = SumOf(Counts(f), Workers) /\ FinalOver(f) = SumOf(Finals(f), Workers)
  BY DEF SumOver, Counts, FinalOver, Finals
<1> QED
  BY <1>2, <1>3 DEF c, t, l, e

\* The sums of counters that grow.
LEMMA CountsGrow ==
  ASSUME Types, Types', NEW f \in Fields, NEW S \in SUBSET Workers,
         \A w \in Workers : \A g \in Fields : count[w][g] <= count'[w][g]
  PROVE  /\ SumOf(Counts(f), S) <= SumOf(Counts(f)', S)
         /\ SumOf(Counts(f), S) \in Nat /\ SumOf(Counts(f)', S) \in Nat
<1> DEFINE old == Counts(f)
           new == Counts(f)'
<1>1. \A w \in Workers : old[w] \in Nat /\ new[w] \in Nat /\ old[w] <= new[w]
  BY DEF Counts, Types
<1> HIDE DEF old, new
<1>2. IsFiniteSet(Units(new, S)) /\ SumOf(new, S) \in Nat /\ SumOf(old, S) \in Nat
  BY <1>1, FiniteOn
<1>3. SumOf(old, S) <= SumOf(new, S)
  BY <1>1, <1>2, SumMonotone
<1> QED
  BY <1>2, <1>3 DEF old, new

LEMMA ScannedIs ==
  ASSUME Types, NEW p \in Callers
  PROVE  /\ Scanned(p) \in SUBSET Workers
         /\ call[p].pc # "use" => call[p].w \notin Scanned(p)
         /\ call[p].pc = "use" => Scanned(p) = Workers
         /\ call[p].pc # "use" /\ call[p].w = 1 => Scanned(p) = {}
<1>1. call[p].w \in 1 .. Conns /\ Conns \in Nat
  BY CallFields, LiveStatsAssumption DEF Workers
<1> QED
  BY <1>1 DEF Scanned, Workers

LEMMA ReportedInit ==
  ASSUME Init, Types
  PROVE  Reported
<1>1. \A f \in Fields : Zero[f] = 0
  BY DEF Zero
<1>2. /\ call["results"].pc = "wait" /\ call["results"].sum = Zero
      /\ \A p \in Callers : /\ call[p].w = 1 /\ call[p].field = "bad"
                            /\ call[p].pc \in {"wait", "end"}
      /\ ~verbose => call["display"].pc = "end"
      /\ \A w \in Workers : stats[w] = Zero
      /\ shown = Zero /\ ~stopped /\ \A w \in Workers : ~returned[w]
  BY DEF Init, Callers
<1>3. AtStart /\ Loops /\ Frozen
  BY <1>2 DEF AtStart, Loops, Frozen
<1>4. StatsBehind
  <2>1. \A w \in Workers : \A f \in Fields : stats[w][f] <= count[w][f]
    BY <1>1, <1>2 DEF Types
  <2> QED
    BY <1>2, <2>1 DEF StatsBehind
<1>5. Undisturbed
  BY <1>2 DEF Undisturbed
<1>6. ResultsSum /\ ResultsInv
  BY <1>2 DEF ResultsSum, InPass, ResultsInv, NeverOverstated, Returned
<1>7. ShownInv /\ ShownBelow
  <2>1. ~InPass("display")
    BY <1>2, CallersAre DEF InPass
  <2>2. \A f \in Fields : /\ SumOver(f) \in Nat /\ SumOf(Stored(f), Workers) \in Nat
                          /\ shown[f] = 0
    BY <1>1, <1>2, ColumnSums
  <2> QED
    BY <2>1, <2>2 DEF ShownInv, ShownBelow
<1> QED
  BY <1>3, <1>4, <1>5, <1>6, <1>7 DEF Reported

\* The workers' counters grow; once they have returned, only those of workers that
\* were cut off do.
LEMMA WorkerSteps ==
  ASSUME Types, Loops, Frozen, NEW w \in Workers, WorkerStep(w)
  PROVE  /\ UNCHANGED <<verbose, parallel, stopped, final, latency, callVars>>
         /\ \A v \in Workers : \A f \in Fields : count[v][f] <= count'[v][f]
         /\ stopped => UNCHANGED <<left, returned>>
         /\ stopped /\ ~CutOff => count' = count
<1> DEFINE Inside == Fail(w) \/ Answer(w) \/ \E t \in Latency[w] : Send(w, t)
<1>1. \A v \in Workers : \A f \in Fields : count[v][f] \in Nat
  BY DEF Types
<1>2. UNCHANGED <<verbose, parallel, stopped, final, latency, callVars>>
  BY DEF WorkerStep, Begin, Fail, Answer, Send, Quit, Finish, runVars, readerVars
<1>3. ASSUME NEW f \in Fields, count' = [count EXCEPT ![w][f] = @ + 1]
      PROVE  \A v \in Workers : \A g \in Fields : count[v][g] <= count'[v][g]
  <2>1. /\ count'[w][f] = count[w][f] + 1
        /\ \A v \in Workers : \A g \in Fields :
             <<v, g>> # <<w, f>> => count'[v][g] = count[v][g]
    BY <1>3, CountGrowsType
  <2> QED
    BY <1>1, <2>1
<1>4. \/ count' = [count EXCEPT ![w]["bad"] = @ + 1]
      \/ count' = [count EXCEPT ![w]["ok"] = @ + 1]
      \/ count' = count
  BY DEF WorkerStep, Begin, Fail, Answer, Send, Quit, Finish
<1>5. \A v \in Workers : \A f \in Fields : count[v][f] <= count'[v][f]
  BY <1>1, <1>3, <1>4 DEF Fields
<1>6. ASSUME stopped PROVE Inside
  <2>1. returned[w]
    BY <1>6 DEF Frozen, AllDone
  <2> QED
    BY <2>1 DEF WorkerStep, Begin, Quit, Finish
<1>7. Inside => UNCHANGED <<left, returned>> /\ (running[w] > 0 \/ held[w] > 0)
  BY DEF Fail, Answer, Send
<1>8. ASSUME stopped, ~CutOff PROVE FALSE
  <2>1. returned[w] /\ (parallel => ~(left[w] > 0)) /\ left[w] \in Nat
    BY <1>8 DEF Frozen, AllDone, CutOff, Types
  <2>2. Idle(w)
    BY <2>1 DEF Loops
  <2> QED
    BY <1>6, <1>7, <1>8, <2>2 DEF Idle
<1> QED
  BY <1>2, <1>5, <1>6, <1>7, <1>8

\* A loop returns with nothing in flight, or is cut off.
LEMMA LoopsWorker ==
  ASSUME Types, Loops, NEW w \in Workers, WorkerStep(w)
  PROVE  Loops'
<1>1. /\ running \in [Workers -> Nat] /\ held \in [Workers -> Nat]
      /\ left \in [Workers -> Nat] /\ returned \in [Workers -> BOOLEAN]
  BY DEF Types
<1>2. /\ parallel' = parallel
      /\ \A v \in Workers : v # w => /\ running'[v] = running[v] /\ held'[v] = held[v]
                                      /\ left'[v] = left[v] /\ returned'[v] = returned[v]
  BY <1>1 DEF WorkerStep, Begin, Fail, Answer, Send, Quit, Finish, runVars
<1>3. \A v \in Workers : returned[v] /\ (parallel => left[v] = 0) =>
                           running[v] = 0 /\ held[v] = 0
  BY DEF Loops, Idle
<1>4. returned'[w] /\ (parallel => left'[w] = 0) => running'[w] = 0 /\ held'[w] = 0
  <2>1. CASE Begin(w)
    BY <1>1, <2>1 DEF Begin
  <2>2. CASE Fail(w) \/ Answer(w) \/ \E t \in Latency[w] : Send(w, t)
    <3>1. left' = left /\ returned' = returned /\ (running[w] > 0 \/ held[w] > 0)
      BY <2>2 DEF Fail, Answer, Send
    <3> QED
      BY <1>3, <3>1
  <2>3. CASE Quit(w)
    <3>1. UNCHANGED <<left, running, held>> /\ left[w] > 0 /\ (parallel \/ Idle(w))
      BY <2>3 DEF Quit
    <3> QED
      BY <3>1 DEF Idle
  <2>4. CASE Finish(w)
    <3>1. UNCHANGED <<left, running, held>> /\ Idle(w)
      BY <2>4 DEF Finish, Waited
    <3> QED
      BY <3>1 DEF Idle
  <2> QED
    BY <2>1, <2>2, <2>3, <2>4 DEF WorkerStep
<1>5. \A v \in Workers : returned'[v] /\ (parallel => left'[v] = 0) =>
                           running'[v] = 0 /\ held'[v] = 0
  BY <1>2, <1>3, <1>4
<1> QED
  BY <1>2, <1>5 DEF Loops, Idle

\* The steps that do not call Stats().
LEMMA ReportedFrame ==
  ASSUME Types, Types', Reported, Loops',
         UNCHANGED <<verbose, parallel, stopped, final, callVars>>,
         \A v \in Workers : \A f \in Fields : count[v][f] <= count'[v][f],
         stopped => UNCHANGED <<left, returned>>,
         stopped /\ ~CutOff => count' = count,
         latency.max \in Nat, latency'.max \in Nat, latency.max <= latency'.max
  PROVE  Reported'
<1> USE DEF Reported, callVars
<1>1. AtStart'
  BY DEF AtStart
<1>2. CutOff' = CutOff
  BY DEF CutOff
<1>3. \A w \in Workers : \A f \in Fields :
        /\ stats[w][f] \in Nat /\ final[w][f] \in Nat
        /\ count[w][f] \in Nat /\ count'[w][f] \in Nat
  BY DEF Types
<1>4. Frozen'
  <2>1. AllDone /\ stopped => AllDone'
    BY DEF AllDone
  <2>2. stopped => \A w \in Workers : \A f \in Fields : final[w][f] <= count'[w][f]
    BY <1>3 DEF Frozen
  <2> QED
    BY <1>2, <2>1, <2>2 DEF Frozen
<1>5. StatsBehind'
  <2>1. \A p \in Callers : /\ call[p].val \in Nat /\ call[p].w \in Workers
                            /\ call[p].field \in Fields
    BY CallFields
  <2>2. \A w \in Workers : \A f \in Fields : stats'[w][f] <= count'[w][f]
    BY <1>3 DEF StatsBehind
  <2>3. \A p \in Callers :
          call'[p].pc = "store" => call'[p].val <= count'[call'[p].w][call'[p].field]
    BY <1>3, <2>1 DEF StatsBehind
  <2> QED
    BY <2>2, <2>3 DEF StatsBehind
<1>6. Undisturbed'
  BY DEF Undisturbed
<1>7. \A f \in Fields : \A S \in SUBSET Workers :
        /\ SumOf(Counts(f), S) <= SumOf(Counts(f)', S)
        /\ SumOf(Counts(f), S) \in Nat /\ SumOf(Counts(f)', S) \in Nat
  BY CountsGrow
<1>8. \A f \in Fields : /\ SumOver(f) <= SumOver(f)' /\ FinalOver(f)' = FinalOver(f)
                         /\ SumOver(f) \in Nat /\ SumOver(f)' \in Nat
  <2>1. \A f \in Fields : /\ SumOver(f) = SumOf(Counts(f), Workers)
                           /\ SumOver(f)' = SumOf(Counts(f)', Workers)
    BY DEF SumOver, Counts
  <2> QED
    BY <1>7, <2>1 DEF FinalOver
<1>9. /\ \A p \in Callers : /\ Scanned(p) \in SUBSET Workers /\ Scanned(p)' = Scanned(p)
                             /\ InPass(p)' = InPass(p)
                             /\ \A f \in Fields : call[p].sum[f] \in Nat
      /\ \A f \in Fields : results.sum[f] \in Nat /\ shown[f] \in Nat
  <2>1. \A p \in Callers : Scanned(p) \in SUBSET Workers /\ call[p].sum \in [Fields -> Nat]
    BY ScannedIs, CallFields
  <2>2. \A p \in Callers : Scanned(p)' = Scanned(p) /\ InPass(p)' = InPass(p)
    BY DEF Scanned, InPass
  <2>3. results.sum \in [Fields -> Nat] /\ shown \in [Fields -> Nat]
    BY DEF Types
  <2> QED
    BY <2>1, <2>2, <2>3
<1>10. ResultsSum'
  <2> SUFFICES ASSUME InPass("results"), NEW f \in Fields
               PROVE  /\ call["results"].sum[f] <= SumOf(Counts(f)', Scanned("results"))
                      /\ ~verbose => SumOf(Finals(f), Scanned("results")) <= call["results"].sum[f]
    BY <1>9, CallersAre DEF ResultsSum, Finals
  <2>1. /\ call["results"].sum[f] <= SumOf(Counts(f), Scanned("results"))
        /\ ~verbose => SumOf(Finals(f), Scanned("results")) <= call["results"].sum[f]
    BY DEF ResultsSum
  <2> QED
    BY <1>7, <1>9, <2>1, CallersAre
<1>11. ResultsInv'
  <2>1. CASE Returned
    <3>1. results' = results /\ stopped /\ (~CutOff => count' = count)
      BY <2>1 DEF Returned, Frozen
    <3>2. NeverOverstated'
      <4> SUFFICES ASSUME NEW f \in Fields
                   PROVE  /\ results.sum[f] <= SumOver(f)'
                          /\ ~verbose => results.sum[f] >= FinalOver(f)
                          /\ ~verbose /\ ~CutOff => results.sum[f] = SumOver(f)'
        BY <1>2, <1>8, <3>1 DEF NeverOverstated
      <4>1. /\ results.sum[f] <= SumOver(f)
            /\ ~verbose => results.sum[f] >= FinalOver(f)
            /\ ~verbose /\ ~CutOff => results.sum[f] = SumOver(f)
        BY <2>1 DEF ResultsInv, NeverOverstated
      <4>2. ~CutOff => SumOver(f)' = SumOver(f)
        BY <3>1 DEF SumOver
      <4> QED
        BY <1>8, <1>9, <4>1, <4>2
    <3>3. ~verbose /\ ~CutOff => results.total <= latency'.max * results.sum["ok"]
      <4> SUFFICES ASSUME ~verbose, ~CutOff
                   PROVE  results.total <= latency'.max * results.sum["ok"]
        OBVIOUS
      <4> DEFINE n == results.sum["ok"]
                 t == results.total
                 m == latency.max
                 x == latency'.max
      <4>1. n \in Nat /\ t \in Nat /\ t <= m * n /\ m \in Nat /\ x \in Nat /\ m <= x
        BY <2>1 DEF ResultsInv, Types, Fields
      <4> HIDE DEF n, t, m, x
      <4>2. n * m <= n * x
        BY <4>1
      <4>3. n * m = m * n /\ n * x = x * n /\ m * n \in Nat /\ x * n \in Nat
        BY <4>1
      <4>4. t <= x * n
        BY <4>1, <4>2, <4>3
      <4> QED
        BY <4>4 DEF n, t, x
    <3> QED
      BY <1>2, <3>1, <3>2, <3>3 DEF ResultsInv
  <2>2. CASE ~Returned
    BY <2>2 DEF ResultsInv, NeverOverstated, Returned
  <2> QED
    BY <2>1, <2>2
<1>12. ShownBelow'
  <2> SUFFICES ASSUME NEW f \in Fields
               PROVE  /\ shown[f] <= SumOver(f)'
                      /\ InPass("display") =>
                           call["display"].sum[f] <= SumOf(Counts(f)', Scanned("display"))
    BY <1>9, CallersAre DEF ShownBelow
  <2>1. /\ shown[f] <= SumOver(f)
        /\ InPass("display") => call["display"].sum[f] <= SumOf(Counts(f), Scanned("display"))
    BY DEF ShownBelow
  <2> QED
    BY <1>7, <1>8, <1>9, <2>1, CallersAre
<1>13. ~CutOff => ShownInv'
  <2>1. \A f \in Fields : Stored(f)' = Stored(f) /\ Least(f)' = Least(f)
    BY DEF Stored, Least
  <2>2. \A f \in Fields : shown'[f] <= SumOver(f)'
    BY <1>12 DEF ShownBelow
  <2> QED
    BY <1>9, <2>1, <2>2, CallersAre DEF ShownInv
<1> QED
  BY <1>1, <1>2, <1>4, <1>5, <1>6, <1>10, <1>11, <1>12, <1>13

\* The steps of ComputeResults and of the display.
CallerStep ==
  \/ DisplayTick \/ Show \/ DisplayStops \/ WorkersDone \/ Return
  \/ \E p \in Callers : StatsStep(p)

LEMMA CallerSteps ==
  ASSUME CallerStep
  PROVE  /\ UNCHANGED <<verbose, parallel, workerVars, samples, readerVars, latency>>
         /\ UNCHANGED <<count, left, running, held, returned>>
         /\ ~WorkersDone => UNCHANGED <<stopped, final>>
  BY DEF CallerStep, DisplayTick, Show, DisplayStops, WorkersDone, Return, StatsStep,
         Load, Store, Copy, runVars, workerVars, readerVars

LEMMA AtStartCaller ==
  ASSUME Types, AtStart, CallerStep
  PROVE  AtStart'
<1>1. /\ \A p \in Callers : call[p].pc \in {"wait", "use"} => call[p].w = 1 /\ call[p].field = "bad"
      /\ call["results"].pc = "wait" => call["results"].sum = Zero
  BY DEF AtStart
<1> SUFFICES /\ \A p \in Callers : call'[p].pc \in {"wait", "use"} =>
                                     call'[p].w = 1 /\ call'[p].field = "bad"
             /\ call'["results"].pc = "wait" => call'["results"].sum = Zero
  BY DEF AtStart
<1>3. CASE DisplayTick
  BY <1>1, <1>3, TickIs, CallersAre
<1>4. CASE Show
  BY <1>1, <1>4, ToIs, CallersAre DEF Show
<1>5. CASE DisplayStops
  BY <1>1, <1>5, ToIs, CallersAre DEF DisplayStops
<1>6. CASE WorkersDone
  BY <1>1, <1>6, ToIs, CallersAre DEF WorkersDone
<1>7. CASE Return
  BY <1>1, <1>7, ToIs, CallersAre DEF Return
<1>8. ASSUME NEW p \in Callers, StatsStep(p)
      PROVE  /\ \A q \in Callers : call'[q].pc \in {"wait", "use"} =>
                                     call'[q].w = 1 /\ call'[q].field = "bad"
             /\ call'["results"].pc = "wait" => call'["results"].sum = Zero
  <2>1. CASE Load(p)
    BY <1>1, <2>1, LoadIs, CallersAre
  <2>2. CASE Store(p)
    BY <1>1, <2>2, StoreIs, CallersAre
  <2>3. CASE Copy(p)
    <3>1. /\ call[p].pc = "copy" /\ call'[p].field = "bad"
          /\ (call'[p].pc = "use" /\ call'[p].w = 1) \/ call'[p].pc = "load"
          /\ \A q \in Callers : q # p => call'[q] = call[q]
      <4>1. CASE call[p].w = Conns
        BY <2>3, <4>1, CopyIs
      <4>2. CASE call[p].w # Conns
        BY <2>3, <4>2, CopyIs
      <4> QED
        BY <4>1, <4>2
    <3> QED
      BY <1>1, <3>1, CallersAre
  <2> QED
    BY <1>8, <2>1, <2>2, <2>3 DEF StatsStep
<1> QED
  BY <1>3, <1>4, <1>5, <1>6, <1>7, <1>8, Zenon DEF CallerStep

\* A step of the callers other than WorkersDone leaves ComputeResults waiting or
\* leaves it at work.
LEMMA WaitingSame ==
  ASSUME Types, CallerStep, ~WorkersDone
  PROVE  call'["results"].pc = "wait" <=> call["results"].pc = "wait"
<1>1. CASE DisplayTick
  BY <1>1, TickIs, CallersAre
<1>2. CASE Show
  BY <1>2, ToIs, CallersAre DEF Show
<1>3. CASE DisplayStops
  BY <1>3, ToIs, CallersAre DEF DisplayStops
<1>4. CASE Return
  BY <1>4, ToIs, CallersAre DEF Return
<1>5. ASSUME NEW p \in Callers, StatsStep(p)
      PROVE  call'["results"].pc = "wait" <=> call["results"].pc = "wait"
  <2>1. CASE Load(p)
    BY <2>1, LoadIs, CallersAre
  <2>2. CASE Store(p)
    BY <2>2, StoreIs, CallersAre
  <2>3. CASE Copy(p)
    BY <2>3, CopyIs, CallersAre
  <2> QED
    BY <1>5, <2>1, <2>2, <2>3 DEF StatsStep
<1> QED
  BY <1>1, <1>2, <1>3, <1>4, <1>5 DEF CallerStep

\* When the last worker has returned, its counters are the final ones.
LEMMA FrozenCaller ==
  ASSUME Types, Loops, Frozen, CallerStep
  PROVE  Loops' /\ Frozen' /\ (CutOff => CutOff')
<1>1. /\ UNCHANGED <<count, left, running, held, returned, parallel>>
      /\ ~WorkersDone => UNCHANGED <<stopped, final>>
  BY CallerSteps
<1>2. Loops'
  BY <1>1 DEF Loops, Idle
<1>3. CASE WorkersDone
  <2>1. /\ stopped' = TRUE /\ final' = count /\ AllDone
        /\ call'["results"].pc = "load"
    BY <1>3, ToIs, CallersAre DEF WorkersDone
  <2>2. \A w \in Workers : \A f \in Fields : final'[w][f] <= count'[w][f]
    <3>1. \A w \in Workers : \A f \in Fields : count[w][f] \in Nat
      BY DEF Types
    <3> QED
      BY <1>1, <2>1, <3>1
  <2>3. AllDone'
    BY <1>1, <2>1 DEF AllDone
  <2>4. CutOff => CutOff'
    BY <1>1, <2>1 DEF CutOff
  <2> QED
    BY <1>1, <1>2, <2>1, <2>2, <2>3, <2>4 DEF Frozen
<1>4. CASE ~WorkersDone
  <2>1. call'["results"].pc = "wait" <=> call["results"].pc = "wait"
    BY <1>4, WaitingSame
  <2>2. CutOff' = CutOff /\ AllDone' = AllDone
    BY <1>1, <1>4 DEF CutOff, AllDone
  <2> QED
    BY <1>1, <1>2, <1>4, <2>1, <2>2 DEF Frozen
<1> QED
  BY <1>3, <1>4

LEMMA StatsCaller ==
  ASSUME Types, AtStart, Frozen, StatsBehind, Undisturbed, CallerStep
  PROVE  StatsBehind' /\ Undisturbed'
<1> DEFINE r == call["results"]
           Behind(t, c, e) ==
             /\ \A w \in Workers : \A f \in Fields : t[w][f] <= count[w][f]
             /\ \A p \in Callers : c[p].pc = "store" => c[p].val <= count[c[p].w][c[p].field]
             /\ c["results"].pc = "store" =>
                  e[c["results"].w][c["results"].field] <= c["results"].val
           Alone(t, c, e) ==
             ~verbose =>
               /\ c["display"].pc = "end"
               /\ c["results"].pc \in {"load", "store"} /\ c["results"].field = "ok" =>
                    e[c["results"].w]["bad"] <= t[c["results"].w]["bad"]
               /\ c["results"].pc = "copy" =>
                    \A f \in Fields : e[c["results"].w][f] <= t[c["results"].w][f]
<1>1. Behind(stats, call, final) /\ Alone(stats, call, final)
  BY DEF StatsBehind, Undisturbed
<1>2. /\ \A w \in Workers : \A f \in Fields : stats[w][f] \in Nat /\ count[w][f] \in Nat
      /\ \A w \in Workers : \A f \in Fields : final[w][f] \in Nat
      /\ \A p \in Callers : /\ call[p].w \in Workers /\ call[p].field \in Fields
                            /\ count[call[p].w][call[p].field] \in Nat
  <2>1. \A w \in Workers : \A f \in Fields :
          stats[w][f] \in Nat /\ count[w][f] \in Nat /\ final[w][f] \in Nat
    BY DEF Types
  <2> QED
    BY <2>1, CallFields
<1>3. "bad" \in Fields /\ "ok" \in Fields /\ \A f \in Fields : f = "bad" \/ f = "ok"
  BY DEF Fields
<1> SUFFICES Behind(stats', call', final') /\ Alone(stats', call', final')
  BY CallerSteps DEF StatsBehind, Undisturbed
<1>4. CASE DisplayTick
  BY <1>1, <1>4, TickIs, CallersAre DEF DisplayTick, runVars
<1>5. CASE Show
  BY <1>1, <1>5, ToIs, CallersAre DEF Show, runVars
<1>6. CASE DisplayStops
  BY <1>1, <1>6, ToIs, CallersAre DEF DisplayStops, runVars
<1>7. CASE WorkersDone
  <2>1. r.field = "bad"
    BY <1>7, CallersAre DEF WorkersDone, AtStart
  <2> QED
    BY <1>1, <1>7, <2>1, ToIs, CallersAre DEF WorkersDone
<1>8. CASE Return
  BY <1>1, <1>8, ToIs, CallersAre DEF Return, runVars
<1>9. ASSUME NEW p \in Callers, StatsStep(p)
      PROVE  Behind(stats', call', final') /\ Alone(stats', call', final')
  <2>1. CASE Load(p)
    <3>1. stats' = stats /\ final' = final
      BY <2>1 DEF Load, runVars
    <3>2. Behind(stats', call', final')
      <4>1. p = "results" => final[call[p].w][call[p].field] <= count[call[p].w][call[p].field]
        <5>1. ASSUME p = "results" PROVE stopped
          BY <2>1, <5>1 DEF Load, Frozen
        <5> QED
          BY <1>2, <5>1 DEF Frozen
      <4> QED
        BY <1>1, <1>2, <2>1, <3>1, <4>1, LoadIs, CallersAre
    <3>3. Alone(stats', call', final')
      BY <1>1, <2>1, <3>1, LoadIs, CallersAre
    <3> QED
      BY <3>2, <3>3
  <2>2. CASE Store(p)
    <3>1. call[p].val <= count[call[p].w][call[p].field] /\ final' = final
      BY <1>1, <2>2, StoreIs DEF Store, runVars
    <3>2. Behind(stats', call', final')
      <4>1. \A w \in Workers : \A f \in Fields : stats'[w][f] <= count[w][f]
        BY <1>1, <1>2, <2>2, <3>1, StoreIs
      <4>2. call'[p].pc # "store" /\ \A q \in Callers : q # p => call'[q] = call[q]
        BY <2>2, StoreIs
      <4> QED
        BY <1>1, <3>1, <4>1, <4>2, CallersAre
    <3>3. Alone(stats', call', final')
      <4> SUFFICES ASSUME ~verbose PROVE Alone(stats', call', final')
        OBVIOUS
      <4>1. p = "results"
        BY <1>1, <2>2, StoreIs, CallersAre
      <4>2. call'["display"] = call["display"]
        BY <2>2, <4>1, StoreIs, CallersAre
      <4>3. /\ call'["results"].w = r.w /\ call'["results"].field = "ok"
            /\ call'["results"].pc = (IF r.field = "bad" THEN "load" ELSE "copy")
            /\ final[r.w][r.field] <= stats'[r.w][r.field]
            /\ \A f \in Fields : f # r.field => stats'[r.w][f] = stats[r.w][f]
        BY <1>1, <1>2, <2>2, <4>1, StoreIs, CallersAre
      <4>4. r.field = "ok" => final[r.w]["bad"] <= stats[r.w]["bad"]
        BY <1>1, <2>2, <4>1, StoreIs
      <4>5. r.field \in Fields
        BY <1>2, CallersAre
      <4> QED
        BY <1>1, <1>3, <3>1, <4>2, <4>3, <4>4, <4>5
    <3> QED
      BY <3>2, <3>3
  <2>3. CASE Copy(p)
    <3>1. stats' = stats /\ final' = final
      BY <2>3 DEF Copy, runVars
    <3>2. Behind(stats', call', final')
      BY <1>1, <2>3, <3>1, CopyIs, CallersAre
    <3>3. Alone(stats', call', final')
      BY <1>1, <2>3, <3>1, CopyIs, CallersAre
    <3> QED
      BY <3>2, <3>3
  <2> QED
    BY <1>9, <2>1, <2>2, <2>3 DEF StatsStep
<1> QED
  BY <1>4, <1>5, <1>6, <1>7, <1>8, <1>9, Zenon DEF CallerStep

\* ComputeResults adds up what the workers, all done, have counted.
LEMMA ResultsCaller ==
  ASSUME Types, AtStart, Frozen, StatsBehind, Undisturbed, ResultsSum, CallerStep
  PROVE  ResultsSum'
<1> DEFINE Sum(c, S) ==
             \A f \in Fields : /\ c.sum[f] <= SumOf(Counts(f), S)
                               /\ ~verbose => SumOf(Finals(f)', S) <= c.sum[f]
           r == call["results"]
<1>1. \A f \in Fields : Counts(f)' = Counts(f)
  BY CallerSteps DEF Counts
<1>2. ASSUME InPass("results") PROVE Sum(r, Scanned("results")) /\ final' = final
  <2>1. ~WorkersDone
    BY <1>2 DEF InPass, WorkersDone
  <2>2. final' = final
    BY <2>1, CallerSteps
  <2> QED
    BY <1>2, <2>2 DEF ResultsSum, Finals
<1> SUFFICES ASSUME InPass("results")' PROVE Sum(call'["results"], Scanned("results")')
  BY <1>1, CallerSteps DEF ResultsSum
<1>3. CASE call'["results"] = call["results"]
  BY <1>2, <1>3 DEF InPass, Scanned
<1>4. CASE WorkersDone
  <2>1. /\ r.sum = Zero /\ r.w = 1
        /\ call'["results"].pc = "load" /\ call'["results"].w = 1
        /\ call'["results"].sum = Zero
    <3>1. r.pc = "wait" /\ call' = [call EXCEPT !["results"] = [@ EXCEPT !.pc = "load"]]
      BY <1>4 DEF WorkersDone
    <3>2. r.sum = Zero /\ r.w = 1
      BY <3>1, CallersAre DEF AtStart
    <3> QED
      BY <3>1, <3>2, ToIs, CallersAre
  <2>2. Scanned("results")' = {}
    BY <2>1 DEF Scanned
  <2>3. \A f \in Fields : Zero[f] = 0 /\ SumOf(Counts(f), {}) = 0 /\ SumOf(Finals(f)', {}) = 0
    BY SumEmpty DEF Zero
  <2> QED
    BY <2>1, <2>2, <2>3
<1>5. CASE Return
  BY <1>5, ToIs, CallersAre DEF Return, InPass
<1>6. CASE Load("results")
  <2>1. /\ call'["results"].sum = r.sum /\ call'["results"].w = r.w
        /\ call'["results"].pc = "store" /\ r.pc = "load"
    BY <1>6, LoadIs, CallersAre
  <2> QED
    BY <1>2, <2>1 DEF InPass, Scanned
<1>7. CASE Store("results")
  <2>1. /\ call'["results"].sum = r.sum /\ call'["results"].w = r.w
        /\ call'["results"].pc \in {"load", "copy"} /\ r.pc = "store"
    BY <1>7, StoreIs, CallersAre
  <2> QED
    BY <1>2, <2>1 DEF InPass, Scanned
<1>8. CASE Copy("results")
  <2> DEFINE S == Scanned("results")
  <2>1. /\ r.pc = "copy" /\ r.w \in Workers /\ r.w \notin S /\ S \in SUBSET Workers
        /\ Sum(r, S) /\ \A f \in Fields : Finals(f)' = Finals(f)
    <3>1. r.pc = "copy"
      BY <1>8, CopyIs, CallersAre
    <3>2. Sum(r, S) /\ final' = final
      BY <1>2, <3>1 DEF InPass
    <3> QED
      BY <3>1, <3>2, CallFields, CallersAre, ScannedIs DEF Finals
  <2>2. Scanned("results")' = S \cup {r.w}
    <3>1. r.w \in 1 .. Conns /\ Conns \in Nat /\ S = 1 .. r.w - 1
      BY <2>1, LiveStatsAssumption DEF Scanned, Workers
    <3>2. CASE r.w = Conns
      <4>1. Scanned("results")' = 1 .. Conns
        BY <1>8, <3>2, CopyIs, CallersAre DEF Scanned, Workers
      <4> QED
        BY <3>1, <3>2, <4>1
    <3>3. CASE r.w # Conns
      <4>1. call'["results"].pc = "load" /\ call'["results"].w = r.w + 1
        BY <1>8, <3>3, CopyIs, CallersAre
      <4>2. Scanned("results")' = 1 .. r.w + 1 - 1
        BY <3>1, <4>1 DEF Scanned
      <4> QED
        BY <3>1, <4>2
    <3> QED
      BY <3>2, <3>3
  <2>3. \A f \in Fields : call'["results"].sum[f] = r.sum[f] + stats[r.w][f]
    <3>1. call'["results"].sum = [f \in Fields |-> r.sum[f] + stats[r.w][f]]
      BY <1>8, CopyIs, CallersAre
    <3> QED
      BY <3>1
  <2>4. \A f \in Fields : /\ r.sum[f] \in Nat /\ stats[r.w][f] \in Nat /\ count[r.w][f] \in Nat
                          /\ stats[r.w][f] <= count[r.w][f] /\ final[r.w][f] \in Nat
                          /\ ~verbose => final[r.w][f] <= stats[r.w][f]
    <3>1. \A f \in Fields : final[r.w][f] \in Nat
      BY <2>1, ColumnsAre
    <3> QED
      BY <2>1, <3>1, CallFields, CallersAre DEF StatsBehind, Undisturbed
  <2> HIDE DEF S
  <2>5. ASSUME NEW f \in Fields
        PROVE  /\ SumOf(Counts(f), S) \in Nat
               /\ SumOf(Counts(f), S \cup {r.w}) = SumOf(Counts(f), S) + count[r.w][f]
               /\ SumOf(Finals(f), S) \in Nat
               /\ SumOf(Finals(f), S \cup {r.w}) = SumOf(Finals(f), S) + final[r.w][f]
    <3> DEFINE c == Counts(f)
               e == Finals(f)
               w == r.w
    <3>1. /\ w \notin S /\ IsFiniteSet(Units(c, S)) /\ SumOf(c, S) \in Nat
          /\ c[w] \in Nat /\ c[w] = count[r.w][f]
          /\ IsFiniteSet(Units(e, S)) /\ SumOf(e, S) \in Nat
          /\ e[w] \in Nat /\ e[w] = final[r.w][f]
      BY <2>1, ColumnSums, ColumnsAre
    <3> HIDE DEF c, e, w
    <3>2. SumOf(c, S \cup {w}) = SumOf(c, S) + c[w] /\ SumOf(e, S \cup {w}) = SumOf(e, S) + e[w]
      BY <3>1, SumAdd
    <3> QED
      BY <3>1, <3>2 DEF c, e, w
  <2>6. ASSUME NEW f \in Fields
        PROVE  /\ call'["results"].sum[f] <= SumOf(Counts(f), S \cup {r.w})
               /\ ~verbose => SumOf(Finals(f), S \cup {r.w}) <= call'["results"].sum[f]
    <3>1. /\ r.sum[f] <= SumOf(Counts(f), S)
          /\ ~verbose => SumOf(Finals(f), S) <= r.sum[f]
      BY <2>1
    <3>2. /\ r.sum[f] \in Nat /\ stats[r.w][f] \in Nat /\ count[r.w][f] \in Nat
          /\ final[r.w][f] \in Nat
          /\ stats[r.w][f] <= count[r.w][f]
          /\ ~verbose => final[r.w][f] <= stats[r.w][f]
      BY <2>4
    <3>3. /\ SumOf(Counts(f), S) \in Nat
          /\ SumOf(Counts(f), S \cup {r.w}) = SumOf(Counts(f), S) + count[r.w][f]
          /\ SumOf(Finals(f), S) \in Nat
          /\ SumOf(Finals(f), S \cup {r.w}) = SumOf(Finals(f), S) + final[r.w][f]
          /\ call'["results"].sum[f] = r.sum[f] + stats[r.w][f]
      BY <2>3, <2>5
    <3>4. r.sum[f] + stats[r.w][f] <= SumOf(Counts(f), S) + count[r.w][f]
      BY <3>1, <3>2, <3>3
    <3>5. ~verbose => SumOf(Finals(f), S) + final[r.w][f] <= r.sum[f] + stats[r.w][f]
      BY <3>1, <3>2, <3>3
    <3> QED
      BY <3>3, <3>4, <3>5
  <2> QED
    BY <2>1, <2>2, <2>6
<1>9. \/ call'["results"] = call["results"]
      \/ WorkersDone \/ Return \/ Load("results") \/ Store("results") \/ Copy("results")
  <2>1. DisplayTick \/ Show \/ DisplayStops => call'["results"] = call["results"]
    BY TickIs, ToIs, CallersAre DEF Show, DisplayStops
  <2>2. \A p \in Callers : StatsStep(p) => \/ call'["results"] = call["results"]
                                           \/ p = "results"
    <3> SUFFICES ASSUME NEW p \in Callers, StatsStep(p), p # "results"
                 PROVE  call'["results"] = call["results"]
      OBVIOUS
    <3>1. Load(p) => call'["results"] = call["results"]
      BY LoadIs, CallersAre
    <3>2. Store(p) => call'["results"] = call["results"]
      BY StoreIs, CallersAre
    <3>3. Copy(p) => call'["results"] = call["results"]
      BY CopyIs, CallersAre
    <3> QED
      BY <3>1, <3>2, <3>3 DEF StatsStep
  <2> QED
    BY <2>1, <2>2 DEF CallerStep, StatsStep
<1> QED
  BY <1>3, <1>4, <1>5, <1>6, <1>7, <1>8, <1>9

\* What it returns is the sum; the average is over it.
LEMMA ResultsReturn ==
  ASSUME Types, EverySample, LatencyInv, Frozen, ResultsSum, ResultsInv, CallerStep
  PROVE  ResultsInv'
<1>1. \A f \in Fields : SumOver(f)' = SumOver(f)
  BY CallerSteps DEF SumOver
<1>2. CASE Return
  <2> DEFINE sum == call["results"].sum
  <2>1. /\ results'.sum = sum
        /\ results'.total = (IF sum["ok"] > 0 THEN latency.total ELSE 0)
        /\ call["results"].pc = "use"
    BY <1>2 DEF Return, Types
  <2>2. /\ stopped /\ CutOff' = CutOff /\ verbose' = verbose /\ latency' = latency
        /\ \A f \in Fields : FinalOver(f)' = FinalOver(f)
    BY <1>2, <2>1, CallerSteps DEF Return, runVars, workerVars, CutOff, FinalOver, Frozen
  <2>3. ASSUME NEW f \in Fields
        PROVE  /\ sum[f] \in Nat /\ sum[f] <= SumOver(f) /\ SumOver(f) \in Nat
               /\ ~verbose => FinalOver(f) <= sum[f] /\ FinalOver(f) \in Nat
    <3>1. /\ SumOver(f) = SumOf(Counts(f), Workers) /\ FinalOver(f) = SumOf(Finals(f), Workers)
          /\ SumOf(Counts(f), Workers) \in Nat /\ SumOf(Finals(f), Workers) \in Nat
      BY ColumnSums
    <3>2. Scanned("results") = Workers /\ InPass("results") /\ sum \in [Fields -> Nat]
      BY <2>1, ScannedIs, CallFields, CallersAre DEF InPass
    <3>3. /\ sum[f] <= SumOf(Counts(f), Workers)
          /\ ~verbose => SumOf(Finals(f), Workers) <= sum[f]
      BY <3>2 DEF ResultsSum
    <3> QED
      BY <3>1, <3>2, <3>3
  <2>4. ASSUME NEW f \in Fields, ~verbose, ~CutOff PROVE sum[f] = SumOver(f)
    <3>1. final = count
      BY <2>2, <2>4 DEF Frozen
    <3>2. FinalOver(f) = SumOver(f)
      BY <3>1 DEF FinalOver, SumOver
    <3> HIDE DEF sum
    <3> QED
      BY <2>3, <2>4, <3>2
  <2>5. NeverOverstated'
    <3>1. \A f \in Fields : ~verbose => sum[f] >= FinalOver(f)
      <4> HIDE DEF sum
      <4> QED
        BY <2>3
    <3> QED
      BY <1>1, <2>1, <2>2, <2>3, <2>4, <3>1 DEF NeverOverstated
  <2>6. ~verbose /\ ~CutOff => results'.total <= latency.max * sum["ok"]
    <3> SUFFICES ASSUME ~verbose, ~CutOff PROVE results'.total <= latency.max * sum["ok"]
      OBVIOUS
    <3> DEFINE n == sum["ok"]
               m == latency.max
               done == Totalled
    <3>1. n = SumOver("ok") /\ n \in Nat
      BY <2>3, <2>4 DEF Fields
    <3>2. m \in Nat /\ latency.total \in Nat /\ latency.total <= m * done
      BY DEF Types, LatencyInv
    <3>3. done \in Nat /\ done <= n
      BY <3>1, SumsAre DEF Totalled, EverySample, LatencyInv, Fields
    <3> HIDE DEF n, m, done, sum
    <3>4. m * done <= m * n /\ m * done \in Nat /\ m * n \in Nat
      BY <3>1, <3>2, <3>3
    <3> QED
      BY <2>1, <3>1, <3>2, <3>4 DEF n, m
  <2> QED
    BY <2>1, <2>2, <2>5, <2>6 DEF ResultsInv
<1>3. CASE ~Return
  <2>1. results' = results /\ (Returned' => Returned)
    <3>1. results' = results
      BY <1>3 DEF CallerStep, DisplayTick, Show, DisplayStops, WorkersDone, StatsStep,
                  Load, Store, Copy
    <3>2. DisplayTick \/ Show \/ DisplayStops \/ WorkersDone => (Returned' => Returned)
      BY TickIs, ToIs, CallersAre DEF Show, DisplayStops, WorkersDone, Returned
    <3>3. \A p \in Callers : StatsStep(p) => (Returned' => Returned)
      BY LoadIs, StoreIs, CopyIs, CallersAre DEF StatsStep, Returned
    <3> QED
      BY <1>3, <3>1, <3>2, <3>3 DEF CallerStep
  <2>2. ASSUME Returned
        PROVE  /\ CutOff' = CutOff /\ verbose' = verbose /\ latency' = latency
               /\ \A f \in Fields : FinalOver(f)' = FinalOver(f)
    <3>1. ~WorkersDone
      BY <2>2 DEF Returned, WorkersDone
    <3>2. UNCHANGED <<stopped, final, left, parallel, verbose, latency>>
      BY <3>1, CallerSteps
    <3> QED
      BY <3>2 DEF CutOff, FinalOver
  <2>3. CASE Returned
    <3>1. NeverOverstated'
      BY <1>1, <2>1, <2>2, <2>3 DEF ResultsInv, NeverOverstated
    <3> QED
      BY <2>1, <2>2, <2>3, <3>1 DEF ResultsInv
  <2>4. CASE ~Returned
    BY <2>1, <2>4 DEF ResultsInv, NeverOverstated
  <2> QED
    BY <2>3, <2>4
<1> QED
  BY <1>2, <1>3

-------------------------------------------------------------------------------
(* The display. *)

\* What the display still has to add up does not shrink when a value is stored.
LEMMA ShownStore ==
  ASSUME Types, Types', Frozen, ~CutOff, StatsBehind, ShownInv, NEW p \in Callers, Store(p)
  PROVE  ShownInv'
<1> DEFINE d == call["display"]
<1>1. /\ call[p].pc = "store" /\ stats'[call[p].w][call[p].field] = call[p].val
      /\ call[p].w \in Workers /\ call[p].field \in Fields /\ call[p].val \in Nat
      /\ \A w \in Workers : \A f \in Fields :
           ~(w = call[p].w /\ f = call[p].field) => stats'[w][f] = stats[w][f]
      /\ \A w \in Workers : \A f \in Fields : /\ stats[w][f] \in Nat /\ stats'[w][f] \in Nat
                                              /\ stats[w][f] <= count[w][f]
                                              /\ count[w][f] \in Nat
  <2>1. \A w \in Workers : \A f \in Fields : /\ stats[w][f] \in Nat /\ stats'[w][f] \in Nat
                                             /\ count[w][f] \in Nat
    BY DEF Types
  <2>2. \A w \in Workers : \A f \in Fields : stats[w][f] <= count[w][f]
    BY DEF StatsBehind
  <2> QED
    BY <2>1, <2>2, StoreIs, CallFields
<1>2. shown' = shown /\ d.val \in Nat /\ d.sum \in [Fields -> Nat]
  BY CallFields, CallersAre DEF Store
<1>3. /\ InPass("display")' = InPass("display") /\ Scanned("display")' = Scanned("display")
      /\ call'["display"].sum = d.sum
      /\ InPass("display") => d.pc # "use" \/ p = "results"
  <2>1. CASE p = "display"
    <3>1. /\ d.pc = "store" /\ call'["display"].pc \in {"load", "copy"}
          /\ call'["display"].w = d.w /\ call'["display"].sum = d.sum
      BY <2>1, StoreIs
    <3> QED
      BY <3>1 DEF InPass, Scanned
  <2>2. CASE p = "results"
    <3>1. call'["display"] = d
      BY <2>2, StoreIs, CallersAre
    <3> QED
      BY <2>2, <3>1 DEF InPass, Scanned
  <2> QED
    BY <2>1, <2>2, CallersAre
\* ComputeResults stores the final counts, the display where it has not scanned.
<1>4. ASSUME NEW w \in Workers, NEW f \in Fields, p = "results"
      PROVE  stats[w][f] <= stats'[w][f]
  <2>1. call[p].val = count[call[p].w][call[p].field]
    <3>1. final = count
      BY <1>1, <1>4 DEF Frozen
    <3>2. /\ call[p].val <= count[call[p].w][call[p].field]
          /\ final[call[p].w][call[p].field] <= call[p].val
      BY <1>1, <1>4 DEF StatsBehind
    <3> QED
      BY <1>1, <3>1, <3>2
  <2>2. CASE w = call[p].w /\ f = call[p].field
    BY <1>1, <2>1, <2>2
  <2>3. CASE ~(w = call[p].w /\ f = call[p].field)
    BY <1>1, <2>3
  <2> QED
    BY <2>2, <2>3
<1>5. ASSUME NEW f \in Fields, NEW w \in Scanned("display")
      PROVE  stats[w][f] <= stats'[w][f]
  <2>1. w \in Workers
    BY ScannedIs, CallersAre
  <2>2. CASE p = "display"
    <3>1. w # call[p].w
      BY <1>1, <2>2, ScannedIs
    <3> QED
      BY <1>1, <2>1, <3>1
  <2>3. CASE p = "results"
    BY <1>4, <2>1, <2>3
  <2> QED
    BY <2>2, <2>3, CallersAre
<1>6. ASSUME NEW f \in Fields, NEW w \in Workers
      PROVE  Least(f)[w] \in Nat /\ Least(f)'[w] \in Nat /\ Least(f)[w] <= Least(f)'[w]
  <2>1. Least(f)[w] = (IF d.pc = "store" /\ d.w = w /\ d.field = f /\ d.val < stats[w][f]
                         THEN d.val ELSE stats[w][f])
    BY DEF Least
  <2>2. CASE p = "display"
    <3>1. call'["display"].pc # "store"
      BY <1>1, <2>2, StoreIs
    <3>2. Least(f)'[w] = stats'[w][f]
      BY <3>1 DEF Least
    <3>3. CASE w = d.w /\ f = d.field
      <4>1. stats'[w][f] = d.val /\ d.pc = "store"
        BY <1>1, <2>2, <3>3
      <4> QED
        BY <1>1, <1>2, <2>1, <3>2, <3>3, <4>1
    <3>4. CASE ~(w = d.w /\ f = d.field)
      <4>1. stats'[w][f] = stats[w][f]
        BY <1>1, <2>2, <3>4
      <4> QED
        BY <1>1, <2>1, <3>2, <3>4, <4>1
    <3> QED
      BY <3>3, <3>4
  <2>3. CASE p = "results"
    <3>1. call'["display"] = d
      BY <2>3, StoreIs, CallersAre
    <3>2. Least(f)'[w] = (IF d.pc = "store" /\ d.w = w /\ d.field = f /\ d.val < stats'[w][f]
                            THEN d.val ELSE stats'[w][f])
      BY <3>1 DEF Least
    <3>3. stats[w][f] <= stats'[w][f]
      BY <1>4, <2>3
    <3> QED
      BY <1>1, <1>2, <2>1, <3>2, <3>3
  <2> QED
    BY <2>2, <2>3, CallersAre
<1>7. ASSUME NEW f \in Fields
      PROVE  /\ SumOver(f)' = SumOver(f)
             /\ InPass("display") =>
                  /\ d.sum[f] <= SumOf(Stored(f)', Scanned("display"))
                  /\ shown[f] <= d.sum[f] + SumOf(Least(f)', Workers \ Scanned("display"))
             /\ ~InPass("display") => shown[f] <= SumOf(Stored(f)', Workers)
  <2> DEFINE S == Scanned("display")
             old == Stored(f)
             new == Stored(f)'
             low == Least(f)
             lift == Least(f)'
  <2>1. S \in SUBSET Workers /\ shown[f] \in Nat /\ d.sum[f] \in Nat
    BY <1>2, ScannedIs, CallersAre DEF Types
  <2>2. /\ \A w \in Workers : old[w] \in Nat /\ new[w] \in Nat
        /\ \A w \in S : old[w] <= new[w]
        /\ p = "results" => \A w \in Workers : old[w] <= new[w]
    BY <1>1, <1>4, <1>5, <2>1 DEF Stored
  <2>3. \A w \in Workers : low[w] \in Nat /\ lift[w] \in Nat /\ low[w] <= lift[w]
    BY <1>6
  <2>4. SumOver(f)' = SumOver(f)
    BY DEF Store, SumOver, workerVars
  <2>5. /\ InPass("display") => /\ d.sum[f] <= SumOf(old, S)
                                /\ shown[f] <= d.sum[f] + SumOf(low, Workers \ S)
        /\ ~InPass("display") => shown[f] <= SumOf(old, Workers)
    BY DEF ShownInv
  <2>6. ~InPass("display") => p = "results"
    BY <1>1, CallersAre DEF InPass
  <2> HIDE DEF S, old, new, low, lift, d
  <2>7. SumOf(old, S) <= SumOf(new, S) /\ SumOf(old, S) \in Nat /\ SumOf(new, S) \in Nat
    <3>1. \A w \in S : old[w] \in Nat /\ new[w] \in Nat /\ old[w] <= new[w]
      BY <2>1, <2>2
    <3>2. IsFiniteSet(Units(new, S))
      BY <2>1, <3>1, FiniteOn
    <3> QED
      BY <3>1, <3>2, SumMonotone, SumType
  <2>8. /\ SumOf(low, Workers \ S) <= SumOf(lift, Workers \ S)
        /\ SumOf(low, Workers \ S) \in Nat /\ SumOf(lift, Workers \ S) \in Nat
    <3> DEFINE T == Workers \ S
    <3>1. T \in SUBSET Workers /\ \A w \in T : low[w] \in Nat /\ lift[w] \in Nat /\ low[w] <= lift[w]
      BY <2>3
    <3> HIDE DEF T
    <3>2. IsFiniteSet(Units(lift, T))
      BY <3>1, FiniteOn
    <3>3. SumOf(low, T) <= SumOf(lift, T) /\ SumOf(low, T) \in Nat /\ SumOf(lift, T) \in Nat
      BY <3>1, <3>2, SumMonotone, SumType
    <3> QED
      BY <3>3 DEF T
  <2>9. p = "results" => /\ SumOf(old, Workers) <= SumOf(new, Workers)
                         /\ SumOf(old, Workers) \in Nat /\ SumOf(new, Workers) \in Nat
    <3> SUFFICES ASSUME p = "results"
                 PROVE  /\ SumOf(old, Workers) <= SumOf(new, Workers)
                        /\ SumOf(old, Workers) \in Nat /\ SumOf(new, Workers) \in Nat
      OBVIOUS
    <3>1. IsFiniteSet(Units(new, Workers))
      BY <2>2, FiniteOn
    <3> QED
      BY <2>2, <3>1, SumMonotone, SumType
  <2>10. InPass("display") => d.sum[f] <= SumOf(new, S)
    BY <2>1, <2>5, <2>7
  <2>11. InPass("display") => shown[f] <= d.sum[f] + SumOf(lift, Workers \ S)
    BY <2>1, <2>5, <2>8
  <2>12. ~InPass("display") => shown[f] <= SumOf(new, Workers)
    BY <2>1, <2>5, <2>6, <2>9
  <2> QED
    BY <2>4, <2>10, <2>11, <2>12 DEF S, new, lift
<1>8. \A f \in Fields : shown[f] <= SumOver(f)
  BY DEF ShownInv
<1> HIDE DEF d
<1> QED
  BY <1>2, <1>3, <1>7, <1>8 DEF ShownInv, d

\* The display adds what it has just stored, or what ComputeResults has.
LEMMA ShownCopy ==
  ASSUME Types, ShownInv, Copy("display")
  PROVE  ShownInv'
<1> DEFINE d == call["display"]
           S == Scanned("display")
           w == d.w
<1>1. /\ d.pc = "copy" /\ w \in Workers /\ w \notin S /\ S \in SUBSET Workers
      /\ UNCHANGED <<stats, count, shown>>
  BY CopyIs, CallFields, CallersAre, ScannedIs DEF Copy, workerVars
<1>2. Scanned("display")' = S \cup {w} /\ InPass("display") /\ InPass("display")'
  <2>1. w \in 1 .. Conns /\ Conns \in Nat /\ S = 1 .. w - 1
    BY <1>1, LiveStatsAssumption DEF Scanned, Workers
  <2>2. CASE w = Conns
    <3>1. Scanned("display")' = 1 .. Conns /\ InPass("display")'
      BY <2>2, CopyIs, CallersAre DEF Scanned, Workers, InPass
    <3> QED
      BY <1>1, <2>1, <2>2, <3>1 DEF InPass
  <2>3. CASE w # Conns
    <3>1. call'["display"].pc = "load" /\ call'["display"].w = w + 1
      BY <2>3, CopyIs, CallersAre
    <3>2. Scanned("display")' = 1 .. w + 1 - 1 /\ InPass("display")'
      BY <2>1, <3>1 DEF Scanned, InPass
    <3> QED
      BY <1>1, <2>1, <3>2 DEF InPass
  <2> QED
    BY <2>2, <2>3
<1>3. \A f \in Fields : call'["display"].sum[f] = d.sum[f] + stats[w][f]
  <2>1. call'["display"].sum = [f \in Fields |-> d.sum[f] + stats[w][f]]
    BY CopyIs, CallersAre
  <2> QED
    BY <2>1
<1>4. call'["display"].pc # "store"
  BY CopyIs, CallersAre
<1>5. ASSUME NEW f \in Fields
      PROVE  /\ shown'[f] <= SumOver(f)'
             /\ call'["display"].sum[f] <= SumOf(Stored(f)', S \cup {w})
             /\ shown'[f] <= call'["display"].sum[f]
                               + SumOf(Least(f)', Workers \ (S \cup {w}))
  <2> DEFINE t == Stored(f)
             l == Least(f)
             T == Workers \ S
  <2>1. Stored(f)' = t /\ Least(f)' = l /\ SumOver(f)' = SumOver(f)
    BY <1>1, <1>4 DEF Stored, Least, SumOver
  <2>2. /\ d.sum[f] <= SumOf(t, S) /\ shown[f] <= d.sum[f] + SumOf(l, T)
        /\ shown[f] <= SumOver(f)
    BY <1>2 DEF ShownInv
  <2>3. /\ t[w] = stats[w][f] /\ l[w] = stats[w][f] /\ stats[w][f] \in Nat
        /\ d.sum[f] \in Nat /\ shown[f] \in Nat
    <3>1. stats[w][f] \in Nat /\ shown[f] \in Nat
      BY <1>1 DEF Types
    <3>2. d.sum[f] \in Nat
      BY CallFields, CallersAre
    <3> QED
      BY <1>1, <3>1, <3>2 DEF Stored, Least
  <2>4. /\ IsFiniteSet(Units(t, S)) /\ SumOf(t, S) \in Nat
        /\ IsFiniteSet(Units(l, T)) /\ w \in T
    BY <1>1, ColumnSums
  <2> HIDE DEF t, l, T, S, d, w
  <2>5. SumOf(t, S \cup {w}) = SumOf(t, S) + t[w]
    BY <1>1, <2>3, <2>4, SumAdd
  <2>6. SumOf(l, T \ {w}) \in Nat /\ SumOf(l, T) = SumOf(l, T \ {w}) + l[w]
    BY <2>3, <2>4, SumRemove
  <2>7. T \ {w} = Workers \ (S \cup {w})
    BY DEF T
  <2>8. d.sum[f] + stats[w][f] <= SumOf(t, S) + stats[w][f]
    BY <2>2, <2>3, <2>4
  <2>9. shown[f] <= d.sum[f] + stats[w][f] + SumOf(l, T \ {w})
    BY <2>2, <2>3, <2>6
  <2> QED
    BY <1>1, <1>3, <2>1, <2>2, <2>3, <2>5, <2>7, <2>8, <2>9
<1> HIDE DEF S, d, w
<1> QED
  BY <1>2, <1>5 DEF ShownInv

\* The steps that the display's sums do not see.
LEMMA ShownFrame ==
  ASSUME ShownInv, UNCHANGED <<count, stats, shown>>,
         InPass("display")' = InPass("display"), Scanned("display")' = Scanned("display"),
         call'["display"].sum = call["display"].sum,
         \A f \in Fields : Least(f)' = Least(f)
  PROVE  ShownInv'
<1>1. \A f \in Fields : SumOver(f)' = SumOver(f) /\ Stored(f)' = Stored(f)
  BY DEF SumOver, Stored
<1> QED
  BY <1>1 DEF ShownInv

\* Only Show changes what is shown, to a sum that is not behind it.
LEMMA ShownCaller ==
  ASSUME Types, Types', AtStart, Frozen, ~CutOff, StatsBehind, ShownInv, CallerStep
  PROVE  /\ ShownInv'
         /\ \A f \in Fields : shown[f] <= shown'[f] /\ shown'[f] <= SumOver(f)
<1> DEFINE d == call["display"]
<1>1. \A f \in Fields : /\ SumOver(f) \in Nat /\ shown[f] \in Nat /\ shown[f] <= SumOver(f)
                        /\ d.sum[f] \in Nat
  <2>1. \A f \in Fields : SumOver(f) \in Nat
    BY SumsAre
  <2>2. \A f \in Fields : shown[f] \in Nat
    BY DEF Types
  <2>3. \A f \in Fields : d.sum[f] \in Nat
    BY CallFields, CallersAre
  <2> QED
    BY <2>1, <2>2, <2>3 DEF ShownInv
<1>2. CASE Show
  <2>1. /\ d.pc = "use" /\ shown' = d.sum /\ UNCHANGED <<count, stats>>
        /\ call'["display"].pc = "wait"
    BY <1>2, ToIs, CallersAre DEF Show, workerVars
  <2>2. InPass("display") /\ ~InPass("display")' /\ Scanned("display") = Workers
    BY <2>1, ScannedIs, CallersAre DEF InPass
  <2>3. ASSUME NEW f \in Fields
        PROVE  /\ shown[f] <= shown'[f] /\ shown'[f] <= SumOver(f)
               /\ shown'[f] <= SumOf(Stored(f), Workers)
    <3> DEFINE c == Counts(f)
               t == Stored(f)
    <3>1. /\ \A w \in Workers : c[w] \in Nat /\ t[w] \in Nat /\ t[w] <= c[w]
          /\ IsFiniteSet(Units(c, Workers)) /\ SumOf(c, Workers) \in Nat
          /\ SumOf(t, Workers) \in Nat /\ SumOver(f) = SumOf(c, Workers)
      <4>1. \A w \in Workers : c[w] = count[w][f] /\ t[w] = stats[w][f]
                               /\ c[w] \in Nat /\ t[w] \in Nat
        BY ColumnsAre
      <4>2. \A w \in Workers : stats[w][f] <= count[w][f]
        BY DEF StatsBehind
      <4>3. /\ IsFiniteSet(Units(c, Workers)) /\ SumOf(c, Workers) \in Nat
            /\ SumOf(t, Workers) \in Nat /\ SumOver(f) = SumOf(c, Workers)
        BY ColumnSums
      <4> QED
        BY <4>1, <4>2, <4>3
    <3>2. /\ d.sum[f] <= SumOf(t, Workers)
          /\ shown[f] <= d.sum[f] + SumOf(Least(f), Workers \ Workers)
      BY <2>2 DEF ShownInv
    <3> HIDE DEF c, t
    <3>3. SumOf(t, Workers) <= SumOf(c, Workers)
      BY <3>1, SumMonotone
    <3>4. SumOf(Least(f), Workers \ Workers) = 0
      BY SumEmpty
    <3>5. shown[f] <= d.sum[f]
      BY <1>1, <3>2, <3>4
    <3>6. d.sum[f] <= SumOver(f)
      BY <1>1, <3>1, <3>2, <3>3
    <3> QED
      BY <2>1, <3>2, <3>5, <3>6 DEF t
  <2>4. \A f \in Fields : SumOver(f)' = SumOver(f) /\ Stored(f)' = Stored(f)
    BY <2>1 DEF SumOver, Stored
  <2>5. ShownInv'
    BY <2>2, <2>3, <2>4 DEF ShownInv
  <2> QED
    BY <2>3, <2>5
<1>3. CASE DisplayTick
  <2>1. /\ d.pc = "wait" /\ d.w = 1 /\ UNCHANGED <<count, stats, shown>>
        /\ call'["display"].pc = "load" /\ call'["display"].w = 1
        /\ call'["display"].sum = Zero
    <3>1. d.pc = "wait" /\ UNCHANGED <<count, stats, shown>>
      BY <1>3 DEF DisplayTick, workerVars
    <3>2. d.w = 1
      BY <3>1, CallersAre DEF AtStart
    <3> QED
      BY <1>3, <3>1, <3>2, TickIs
  <2>2. /\ ~InPass("display") /\ InPass("display")' /\ Scanned("display")' = {}
        /\ \A f \in Fields : Zero[f] = 0
    BY <2>1 DEF InPass, Scanned, Zero
  <2>3. \A f \in Fields : SumOver(f)' = SumOver(f) /\ Stored(f)' = Stored(f)
    BY <2>1 DEF SumOver, Stored
  <2>4. \A f \in Fields : Least(f)' = Stored(f)
    BY <2>1 DEF Least, Stored
  <2>5. ASSUME NEW f \in Fields
        PROVE  /\ Zero[f] <= SumOf(Stored(f), {})
               /\ shown[f] <= Zero[f] + SumOf(Stored(f), Workers \ {})
    <3>1. SumOf(Stored(f), {}) = 0 /\ Workers \ {} = Workers
      BY SumEmpty
    <3>2. shown[f] <= SumOf(Stored(f), Workers) /\ SumOf(Stored(f), Workers) \in Nat
      BY <2>2, ColumnSums DEF ShownInv
    <3> QED
      BY <1>1, <2>2, <3>1, <3>2
  <2>6. ShownInv'
    BY <1>1, <2>1, <2>2, <2>3, <2>4, <2>5 DEF ShownInv
  <2> QED
    BY <1>1, <2>1, <2>6
<1>4. CASE DisplayStops
  <2>1. /\ d.pc = "wait" /\ UNCHANGED <<count, stats, shown>>
        /\ call'["display"].pc = "end" /\ call'["display"].w = d.w
        /\ call'["display"].sum = d.sum
    BY <1>4, ToIs, CallersAre DEF DisplayStops, workerVars
  <2>2. InPass("display")' = InPass("display") /\ Scanned("display")' = Scanned("display")
    BY <2>1 DEF InPass, Scanned
  <2>3. \A f \in Fields : Least(f)' = Least(f)
    BY <2>1 DEF Least
  <2> QED
    BY <1>1, <2>1, <2>2, <2>3, ShownFrame
<1>5. ASSUME call'["display"] = d, UNCHANGED <<count, stats, shown>>
      PROVE  ShownInv' /\ \A f \in Fields : shown[f] <= shown'[f] /\ shown'[f] <= SumOver(f)
  <2>1. InPass("display")' = InPass("display") /\ Scanned("display")' = Scanned("display")
    BY <1>5 DEF InPass, Scanned
  <2>2. \A f \in Fields : Least(f)' = Least(f)
    BY <1>5 DEF Least
  <2> QED
    BY <1>1, <1>5, <2>1, <2>2, ShownFrame
<1>6. CASE WorkersDone \/ Return
  BY <1>5, <1>6, ToIs, CallersAre DEF WorkersDone, Return, workerVars
<1>7. CASE Load("display")
  <2>1. /\ d.pc = "load" /\ UNCHANGED <<count, stats, shown>>
        /\ call'["display"].pc = "store" /\ call'["display"].w = d.w
        /\ call'["display"].field = d.field
        /\ call'["display"].val = count[d.w][d.field] /\ call'["display"].sum = d.sum
    BY <1>7, LoadIs, CallersAre DEF Load, workerVars
  <2>2. InPass("display")' = InPass("display") /\ Scanned("display")' = Scanned("display")
    BY <2>1 DEF InPass, Scanned
  <2>3. ASSUME NEW f \in Fields PROVE Least(f)' = Least(f)
    <3>1. \A w \in Workers : stats[w][f] <= count[w][f] /\ stats[w][f] \in Nat
                             /\ count[w][f] \in Nat
      BY DEF StatsBehind, Types
    <3>2. \A w \in Workers : ~(d.w = w /\ d.field = f /\ count[d.w][d.field] < stats[w][f])
      BY <3>1
    <3>3. Least(f)' = [w \in Workers |-> stats[w][f]]
      BY <2>1, <3>2 DEF Least
    <3>4. Least(f) = [w \in Workers |-> stats[w][f]]
      BY <2>1 DEF Least
    <3> QED
      BY <3>3, <3>4
  <2> QED
    BY <1>1, <2>1, <2>2, <2>3, ShownFrame
<1>8. CASE Load("results") \/ Copy("results")
  <2>1. UNCHANGED <<count, stats, shown>>
    BY <1>8 DEF Load, Copy, workerVars
  <2>2. Load("results") => call'["display"] = d
    BY LoadIs, CallersAre
  <2>3. Copy("results") => call'["display"] = d
    BY CopyIs, CallersAre
  <2> QED
    BY <1>5, <1>8, <2>1, <2>2, <2>3
<1>9. ASSUME NEW p \in Callers, Store(p)
      PROVE  ShownInv' /\ \A f \in Fields : shown[f] <= shown'[f] /\ shown'[f] <= SumOver(f)
  <2>1. shown' = shown
    BY <1>9 DEF Store
  <2> QED
    BY <1>1, <1>9, <2>1, ShownStore
<1>10. CASE Copy("display")
  <2>1. shown' = shown
    BY <1>10 DEF Copy
  <2> QED
    BY <1>1, <1>10, <2>1, ShownCopy
<1> QED
  BY <1>2, <1>3, <1>4, <1>6, <1>7, <1>8, <1>9, <1>10, CallersAre DEF CallerStep, StatsStep

\* Cut off or not, the display adds up and shows no more than was counted.
LEMMA BelowCaller ==
  ASSUME Types, AtStart, StatsBehind, ShownBelow, CallerStep
  PROVE  /\ ShownBelow'
         /\ \A f \in Fields : shown'[f] <= SumOver(f)
<1> DEFINE d == call["display"]
           S == Scanned("display")
           Sum(c, T) == \A f \in Fields : c.sum[f] <= SumOf(Counts(f), T)
<1>1. \A f \in Fields : SumOver(f)' = SumOver(f) /\ Counts(f)' = Counts(f)
  BY CallerSteps DEF SumOver, Counts
<1>2. /\ \A f \in Fields : shown[f] <= SumOver(f)
      /\ InPass("display") => Sum(d, S)
  BY DEF ShownBelow
<1> SUFFICES /\ \A f \in Fields : shown'[f] <= SumOver(f)
             /\ InPass("display")' => Sum(call'["display"], Scanned("display")')
  BY <1>1 DEF ShownBelow
<1>3. CASE Show
  <2>1. d.pc = "use" /\ shown' = d.sum /\ call'["display"].pc = "wait"
    BY <1>3, ToIs, CallersAre DEF Show
  <2>2. InPass("display") /\ ~InPass("display")' /\ S = Workers
    BY <2>1, ScannedIs, CallersAre DEF InPass
  <2>3. \A f \in Fields : SumOver(f) = SumOf(Counts(f), Workers)
    BY DEF SumOver, Counts
  <2> QED
    BY <1>2, <2>1, <2>2, <2>3
<1>4. CASE DisplayTick
  <2>1. /\ shown' = shown /\ call'["display"].pc = "load" /\ call'["display"].w = 1
        /\ call'["display"].sum = Zero
    <3>1. d.pc = "wait" /\ shown' = shown
      BY <1>4 DEF DisplayTick
    <3>2. d.w = 1
      BY <3>1, CallersAre DEF AtStart
    <3> QED
      BY <1>4, <3>1, <3>2, TickIs
  <2>2. Scanned("display")' = {}
    BY <2>1 DEF Scanned
  <2>3. \A f \in Fields : Zero[f] = 0 /\ SumOf(Counts(f), {}) = 0
    BY SumEmpty DEF Zero
  <2> QED
    BY <1>2, <2>1, <2>2, <2>3
<1>5. CASE Copy("display")
  <2> DEFINE w == d.w
  <2>1. /\ d.pc = "copy" /\ w \in Workers /\ w \notin S /\ S \in SUBSET Workers
        /\ shown' = shown
    BY <1>5, CopyIs, CallFields, CallersAre, ScannedIs DEF Copy
  <2>2. Scanned("display")' = S \cup {w} /\ InPass("display")
    <3>1. w \in 1 .. Conns /\ Conns \in Nat /\ S = 1 .. w - 1
      BY <2>1, LiveStatsAssumption DEF Scanned, Workers
    <3>2. CASE w = Conns
      <4>1. Scanned("display")' = 1 .. Conns
        BY <1>5, <3>2, CopyIs, CallersAre DEF Scanned, Workers
      <4> QED
        BY <2>1, <3>1, <3>2, <4>1 DEF InPass
    <3>3. CASE w # Conns
      <4>1. call'["display"].pc = "load" /\ call'["display"].w = w + 1
        BY <1>5, <3>3, CopyIs, CallersAre
      <4>2. Scanned("display")' = 1 .. w + 1 - 1
        BY <3>1, <4>1 DEF Scanned
      <4> QED
        BY <2>1, <3>1, <4>2 DEF InPass
    <3> QED
      BY <3>2, <3>3
  <2>3. \A f \in Fields : call'["display"].sum[f] = d.sum[f] + stats[w][f]
    <3>1. call'["display"].sum = [f \in Fields |-> d.sum[f] + stats[w][f]]
      BY <1>5, CopyIs, CallersAre
    <3> QED
      BY <3>1
  <2>4. ASSUME NEW f \in Fields
        PROVE  call'["display"].sum[f] <= SumOf(Counts(f), S \cup {w})
    <3> DEFINE c == Counts(f)
    <3>1. /\ IsFiniteSet(Units(c, S)) /\ SumOf(c, S) \in Nat
          /\ c[w] \in Nat /\ stats[w][f] \in Nat /\ stats[w][f] <= c[w]
          /\ d.sum[f] \in Nat /\ d.sum[f] <= SumOf(c, S)
      <4>1. IsFiniteSet(Units(c, S)) /\ SumOf(c, S) \in Nat
        BY <2>1, ColumnSums
      <4>2. c[w] = count[w][f] /\ c[w] \in Nat /\ stats[w][f] \in Nat
        BY <2>1, ColumnsAre
      <4>3. stats[w][f] <= count[w][f]
        BY <2>1 DEF StatsBehind
      <4>4. d.sum[f] \in Nat
        BY CallFields, CallersAre
      <4> QED
        BY <1>2, <2>2, <4>1, <4>2, <4>3, <4>4
    <3> HIDE DEF c, S, d, w
    <3>2. SumOf(c, S \cup {w}) = SumOf(c, S) + c[w]
      BY <2>1, <3>1, SumAdd
    <3> QED
      BY <2>3, <3>1, <3>2 DEF c
  <2> QED
    BY <1>2, <2>1, <2>2, <2>4
<1>6. ASSUME shown' = shown, call'["display"].sum = d.sum,
             InPass("display")' => InPass("display") /\ Scanned("display")' = S
      PROVE  /\ \A f \in Fields : shown'[f] <= SumOver(f)
             /\ InPass("display")' => Sum(call'["display"], Scanned("display")')
  BY <1>2, <1>6
<1>7. CASE DisplayStops
  <2>1. shown' = shown /\ call'["display"].sum = d.sum /\ call'["display"].pc = "end"
    BY <1>7, ToIs, CallersAre DEF DisplayStops
  <2>2. ~InPass("display")'
    BY <2>1 DEF InPass
  <2> QED
    BY <1>6, <2>1, <2>2
<1>8. CASE WorkersDone \/ Return \/ Load("results") \/ Store("results") \/ Copy("results")
  <2>1. shown' = shown
    BY <1>8 DEF WorkersDone, Return, Load, Store, Copy
  <2>2. call'["display"] = d
    <3>1. WorkersDone \/ Return => call'["display"] = d
      BY ToIs, CallersAre DEF WorkersDone, Return
    <3>2. Load("results") => call'["display"] = d
      BY LoadIs, CallersAre
    <3>3. Store("results") => call'["display"] = d
      BY StoreIs, CallersAre
    <3>4. Copy("results") => call'["display"] = d
      BY CopyIs, CallersAre
    <3> QED
      BY <1>8, <3>1, <3>2, <3>3, <3>4
  <2>3. InPass("display")' = InPass("display") /\ Scanned("display")' = S
    BY <2>2 DEF InPass, Scanned
  <2> QED
    BY <1>6, <2>1, <2>2, <2>3
<1>9. CASE Load("display") \/ Store("display")
  <2>1. shown' = shown
    BY <1>9 DEF Load, Store
  <2>2. /\ d.pc \in {"load", "store"} /\ call'["display"].pc \in {"load", "store", "copy"}
        /\ call'["display"].w = d.w /\ call'["display"].sum = d.sum
    BY <1>9, LoadIs, StoreIs, CallersAre
  <2>3. InPass("display")' = InPass("display") /\ Scanned("display")' = S
    BY <2>2 DEF InPass, Scanned
  <2> QED
    BY <1>6, <2>1, <2>2, <2>3
<1> QED
  BY <1>3, <1>4, <1>5, <1>7, <1>8, <1>9, CallersAre DEF CallerStep, StatsStep

-------------------------------------------------------------------------------
(* The invariant, and what follows from it. *)

LEMMA LiveInvInit == Init => LiveInv
  BY TypesInit, CountedInit, ReportedInit DEF LiveInv

\* With the invariant, what a step may do to what is shown.
Grows ==
  \A f \in Fields :
    /\ shown'[f] <= SumOver(f)
    /\ CutOff \/ shown[f] <= shown'[f]

LEMMA LiveInductive ==
  ASSUME LiveInv, [Next]_vars
  PROVE  LiveInv' /\ Grows
<1> USE DEF LiveInv
<1>1. Types'
  BY TypesInductive
<1>2. /\ \A v \in Workers : \A f \in Fields : count[v][f] <= count[v][f]
      /\ latency.max \in Nat /\ latency'.max \in Nat /\ latency.max <= latency.max
      /\ \A f \in Fields : shown[f] <= shown[f]
      /\ \A f \in Fields : shown[f] <= SumOver(f)
  <2>1. \A v \in Workers : \A f \in Fields : count[v][f] \in Nat
    BY DEF Types
  <2>2. latency.max \in Nat /\ latency'.max \in Nat /\ \A f \in Fields : shown[f] \in Nat
    BY <1>1 DEF Types
  <2> QED
    BY <2>1, <2>2 DEF Reported, ShownBelow
<1>3. ASSUME UNCHANGED callVars PROVE Grows
  BY <1>2, <1>3 DEF Grows, callVars
<1>4. CASE Cancel \/ UNCHANGED vars
  <2>1. UNCHANGED <<verbose, parallel, stopped, final, left, running, held, returned, count,
                    samples, readerVars, latency, callVars>>
    BY <1>4 DEF Cancel, vars, runVars, workerVars, readerVars
  <2>2. Counted'
    BY <2>1, CountedFrame
  <2>3. Loops'
    BY <2>1 DEF Reported, Loops, Idle
  <2>4. Reported'
    BY <1>1, <1>2, <2>1, <2>3, ReportedFrame
  <2> QED
    BY <1>1, <1>3, <2>1, <2>2, <2>4
<1>5. ASSUME NEW w \in Workers, WorkerStep(w) PROVE LiveInv' /\ Grows
  <2>1. /\ UNCHANGED <<verbose, parallel, stopped, final, latency, callVars>>
        /\ \A v \in Workers : \A f \in Fields : count[v][f] <= count'[v][f]
        /\ stopped => UNCHANGED <<left, returned>>
        /\ stopped /\ ~CutOff => count' = count
    BY <1>5, WorkerSteps DEF Reported
  <2>2. Counted' /\ Loops'
    BY <1>5, CountedWorker, LoopsWorker DEF Reported
  <2>3. Reported'
    BY <1>1, <1>2, <2>1, <2>2, ReportedFrame
  <2> QED
    BY <1>1, <1>3, <2>1, <2>2, <2>3
<1>6. CASE ReaderStep
  <2>1. Counted' /\ latency.max <= latency'.max /\ UNCHANGED <<runVars, workerVars, callVars>>
    BY <1>6, CountedReader
  <2>2. UNCHANGED <<verbose, parallel, stopped, final, left, running, held, returned, count, callVars>>
    BY <2>1 DEF runVars, workerVars
  <2>3. Loops'
    BY <2>2 DEF Reported, Loops, Idle
  <2>4. Reported'
    BY <1>1, <1>2, <2>1, <2>2, <2>3, ReportedFrame
  <2> QED
    BY <1>1, <1>3, <2>1, <2>2, <2>4
<1>7. CASE CallerStep
  <2>1. Counted'
    BY <1>7, CallerSteps, CountedFrame
  <2>2. AtStart' /\ Loops' /\ Frozen' /\ (CutOff => CutOff')
    BY <1>7, AtStartCaller, FrozenCaller DEF Reported
  <2>3. StatsBehind' /\ Undisturbed'
    BY <1>7, StatsCaller DEF Reported
  <2>4. ResultsSum' /\ ResultsInv'
    BY <1>7, ResultsCaller, ResultsReturn DEF Reported, Counted
  <2>5. ShownBelow' /\ \A f \in Fields : shown'[f] <= SumOver(f)
    BY <1>7, BelowCaller DEF Reported
  <2>6. ASSUME ~CutOff
        PROVE  ShownInv' /\ \A f \in Fields : shown[f] <= shown'[f]
    BY <1>1, <1>7, <2>6, ShownCaller DEF Reported
  <2> QED
    BY <1>1, <2>1, <2>2, <2>3, <2>4, <2>5, <2>6 DEF Reported, Grows
<1> QED
  BY <1>4, <1>5, <1>6, <1>7, Zenon DEF Next, CallerStep

LEMMA LiveInvariant == Spec => []LiveInv
<1>1. LiveInv /\ [Next]_vars => LiveInv'
  BY LiveInductive
<1> QED
  BY LiveInvInit, <1>1, PTL DEF Spec

\* Types: the channel of samples keeps its capacity, and what is counted stays
\* a number.
THEOREM LiveStatsTypeCorrect == Spec => []TypeOK
<1>1. LiveInv => TypeOK
  <2> SUFFICES ASSUME Types PROVE TypeOK
    BY DEF LiveInv
  <2>1. /\ {verbose, parallel, ctxDone, stopped} \subseteq BOOLEAN
        /\ {left, running, held} \subseteq [Workers -> Nat]
        /\ {shown, results.sum} \subseteq [Fields -> Nat]
    BY DEF Types
  <2>2. /\ reader.pc \in {"select", "max", "min", "total", "end"}
        /\ reader.rps \in Nat /\ reader.t \in Latencies \cup {0}
        /\ \A v \in {rps.max, rps.min, latency.max, latency.min, latency.total} : v \in Nat
        /\ results.total \in Nat
    BY DEF Types
  <2>3. \A p \in Callers :
          /\ call[p].pc \in {"wait", "load", "store", "copy", "use", "end"}
          /\ call[p].w \in Workers /\ call[p].field \in Fields /\ call[p].val \in Nat
          /\ call[p].sum \in [Fields -> Nat]
    BY CallFields
  <2> QED
    BY <2>1, <2>2, <2>3 DEF Types, TypeOK
<1> QED
  BY <1>1, LiveInvariant, PTL

\* The results never claim a request that was not made; without a display they
\* miss none that was counted when the last worker returned, and none at all
\* unless the user cut parallel workers off (Stats in worker.go, ComputeResults,
\* the return of Run in worker-fixed-reqs.go).
THEOREM LiveStatsNeverOverstated == Spec => []NeverOverstated
<1>1. LiveInv => NeverOverstated
  BY DEF LiveInv, Reported, ResultsInv
<1> QED
  BY <1>1, LiveInvariant, PTL

\* The average latency never exceeds the maximum, whatever sample calcReqStats
\* is busy with when ComputeResults reads the total, as long as there is no
\* display and no parallel worker was cut off; the minimum never does.
THEOREM LiveStatsAverageWithinMax == Spec => []AverageWithinMax
<1>1. LiveInv => AverageWithinMax
  BY DEF LiveInv, Counted, LatencyInv, Reported, ResultsInv, AverageWithinMax
<1> QED
  BY <1>1, LiveInvariant, PTL

\* The extremes of the requests per second are those of whole seconds, and no
\* answer is in two of them (calcReqStats).
THEOREM LiveStatsRpsOfWholeSeconds == Spec => []RpsOfWholeSeconds
<1>1. LiveInv => RpsOfWholeSeconds
  <2> SUFFICES ASSUME Types, Counted PROVE RpsOfWholeSeconds
    BY DEF LiveInv
  <2> DEFINE n == Len(seconds)
             All == {seconds[k] : k \in DOMAIN seconds} \cup {0}
             Silent == {k \in 1 .. n : seconds[k] = 0} \cup {0}
  <2>1. n \in Nat /\ DOMAIN seconds = 1 .. n /\ \A k \in 1 .. n : seconds[k] \in Nat
    BY LenProperties, ElementOfSeq DEF Types
  <2>2. SumOver("ok") >= reader.rps + SumOf(seconds, DOMAIN seconds)
    <3>1. /\ SumOf(held, Workers) \in Nat /\ Len(samples) \in Nat
          /\ reader.rps \in Nat /\ Seconds \in Nat
          /\ SumOver("ok") = SumOf(held, Workers) + Len(samples) + reader.rps + Seconds
      BY SumsAre DEF Counted, EverySample
    <3>2. SumOver("ok") >= reader.rps + Seconds
      BY <3>1
    <3> QED
      BY <3>2 DEF Seconds
  <2>3. rps.max = Max(All)
    <3>1. All \in SUBSET Nat /\ rps.max \in All /\ \A x \in All : x <= rps.max
      <4>1. rps.max \in Nat
        BY DEF Types
      <4>2. rps.max = 0 \/ \E k \in 1 .. n : seconds[k] = rps.max
        BY DEF Counted, RpsMaxInv
      <4>3. \A k \in 1 .. n : seconds[k] <= rps.max
        BY DEF Counted, RpsMaxInv
      <4> QED
        BY <2>1, <4>1, <4>2, <4>3
    <3> HIDE DEF All
    <3> QED
      BY <3>1, MaxIs
  <2>4. PICK s \in 0 .. n :
          /\ s > 0 => seconds[s] = 0
          /\ \A k \in s + 1 .. n : seconds[k] # 0
          /\ s = n => rps.min = 0
          /\ s # n => \E k \in s + 1 .. n : seconds[k] = rps.min
          /\ \A k \in s + 1 .. n : rps.min <= seconds[k]
    BY DEF Counted, RpsMinInv, SilentLast
  <2>5. LastSilent = s
    <3>1. \A x : x \in Silent <=> x = 0 \/ (x \in 1 .. n /\ seconds[x] = 0)
      OBVIOUS
    <3>2. s = 0 \/ (s \in 1 .. n /\ seconds[s] = 0)
      <4>1. s = 0 \/ (s \in 1 .. n /\ s > 0)
        BY <2>1
      <4>2. s > 0 => seconds[s] = 0
        BY <2>4
      <4> QED
        BY <4>1, <4>2
    <3>3. \A x : x = 0 \/ (x \in 1 .. n /\ seconds[x] = 0) => x \in Nat /\ x <= s
      <4> SUFFICES ASSUME NEW x, x = 0 \/ (x \in 1 .. n /\ seconds[x] = 0)
                   PROVE  x \in Nat /\ x <= s
        OBVIOUS
      <4>1. x \in s + 1 .. n => seconds[x] # 0
        BY <2>4
      <4> QED
        BY <2>1, <4>1
    <3>4. Silent \in SUBSET Nat /\ s \in Silent /\ \A x \in Silent : x <= s
      <4> HIDE DEF Silent
      <4> QED
        BY <3>1, <3>2, <3>3
    <3>5. Max(Silent) = s
      <4> HIDE DEF Silent
      <4> QED
        BY <3>4, MaxIs
    <3> QED
      BY <3>5 DEF LastSilent
  <2>6. SinceSilent = {seconds[k] : k \in s + 1 .. n}
    BY <2>5 DEF SinceSilent
  <2>7. rps.min = IF SinceSilent = {} THEN 0 ELSE Min(SinceSilent)
    <3>1. CASE s = n
      <4>1. s + 1 .. n = {}
        BY <2>1, <3>1
      <4>2. SinceSilent = {}
        BY <2>6, <4>1
      <4> QED
        BY <2>4, <3>1, <4>2
    <3>2. CASE s # n
      <4>1. \A k \in s + 1 .. n : k \in 1 .. n
        BY <2>1
      <4>2. /\ SinceSilent \in SUBSET Nat /\ rps.min \in SinceSilent
            /\ \A x \in SinceSilent : rps.min <= x
        BY <2>1, <2>4, <2>6, <3>2, <4>1
      <4>3. Min(SinceSilent) = rps.min
        BY <4>2, MinIs
      <4> QED
        BY <4>2, <4>3
    <3> QED
      BY <3>1, <3>2
  <2> QED
    BY <2>2, <2>3, <2>7 DEF RpsOfWholeSeconds
<1> QED
  BY <1>1, LiveInvariant, PTL

\* The progress bar never runs ahead of the counters, and never moves back
\* unless parallel workers were cut off (displayProgress, Stats in worker.go).
THEOREM LiveStatsShownGrows == Spec => ShownGrows
<1>1. LiveInv /\ [Next]_vars => [Grows]_shown
  BY LiveInductive
<1>2. [][Grows]_shown => ShownGrows
  BY DEF ShownGrows, Grows
<1> QED
  BY <1>1, <1>2, LiveInvariant, PTL DEF Spec
===============================================================================
