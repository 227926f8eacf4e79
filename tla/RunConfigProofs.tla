----------------------------- MODULE RunConfigProofs -----------------------------
(***************************************************************************)
(* What a configuration that Validate accepted gives to the workers, for   *)
(* every duration, target and number of connections.                       *)
(***************************************************************************)
EXTENDS RunConfig, SumsProofs, SequenceTheorems

\* The share of the k-th connection.
ShareOf(k) ==
  conf.ReqTarget \div conf.Conns + (IF k <= conf.ReqTarget % conf.Conns THEN 1 ELSE 0)

WorkerOf(k) ==
  [kind       |-> KindOf(conf),
   target     |-> ShareOf(k),
   middleware |-> sendJWT /\ KindOf(conf) # "FixedTime"]

\* Past the first Validate the configuration is an accepted one.
Accepted ==
  pc \in {"run", "prepare", "deal", "released", "running", "panicked"} =>
    Accepts(conf) /\ sendJWT = HasJwts(conf)

\* A run whose connections are too many ends before it has a worker.
Dealing == pc \in {"deal", "released", "running"} \/ (pc = "panicked" /\ Countable(conf))

\* The loop has dealt the remainder out to the first connections.
Dealt ==
  Dealing =>
    /\ Countable(conf)
    /\ Len(workers) <= conf.Conns
    /\ remainder = IF conf.ReqTarget % conf.Conns > Len(workers)
                     THEN (conf.ReqTarget % conf.Conns) - Len(workers) ELSE 0
    /\ \A k \in 1 .. Len(workers) : workers[k] = WorkerOf(k)
    /\ reqEvery \in IF conf.Duration = 0 THEN {0}
                    ELSE IF conf.ReqTarget = 0 THEN Undefined
                    ELSE {Pace(conf)}

AllThere ==
  /\ pc \in {"config", "run", "prepare"} => workers = <<>>
  /\ Dealing /\ pc # "deal" => Len(workers) = conf.Conns
  /\ pc = "running" => \A k \in DOMAIN workers : ~(Period(workers[k].kind) <= 0)
  /\ pc = "panicked" /\ Countable(conf) => WorkersPanic \/ DisplayPanics

RunInv == TypeOK /\ Accepted /\ Dealt /\ AllThere

-------------------------------------------------------------------------------
(* Arithmetic. *)

LEMMA DivMod ==
  ASSUME NEW n \in Nat, NEW k \in Nat \ {0}
  PROVE  /\ n \div k \in Nat /\ n % k \in Nat
         /\ n % k < k
         /\ n = k * (n \div k) + (n % k)
  BY SMT

\* A product of naturals is not less than one of smaller ones.
LEMMA ProductMonotone ==
  ASSUME NEW a \in Nat, NEW b \in Nat, NEW c \in Nat, a <= b
  PROVE  c * a <= c * b
  BY SMT

\* A number that fits a slice keeps its value as a signed one.
LEMMA SignedIs ==
  ASSUME NEW n \in 0 .. Word - 1, n <= MaxSlice
  PROVE  Signed(n, Word) = n
<1>1. Word \in Nat \ {0} /\ MaxSlice \in Nat /\ 2 * MaxSlice < Word
  BY RunConfigAssumption
<1>2. n % Word = n
  <2> DEFINE q == n \div Word
             r == n % Word
  <2>1. q \in Nat /\ r \in Nat /\ n = Word * q + r
    BY <1>1, DivMod
  <2> HIDE DEF q, r
  <2>2. Word * q \in Nat /\ Word * q < Word
    BY <1>1, <2>1
  <2>3. ASSUME q # 0 PROVE FALSE
    <3>1. Word * 1 <= Word * q
      BY <1>1, <2>1, <2>3, ProductMonotone
    <3> QED
      BY <1>1, <2>2, <3>1
  <2>4. Word * q = 0
    BY <1>1, <2>3
  <2>5. n = r
    BY <2>1, <2>4
  <2> QED
    BY <2>5 DEF r
<1> QED
  BY <1>1, <1>2 DEF Signed

\* An accepted configuration that make can take has connections, and a request
\* for each of them if it has a target.
LEMMA AcceptedConf ==
  ASSUME conf \in Confs, Accepts(conf), Countable(conf)
  PROVE  /\ conf.Conns \in Nat \ {0}
         /\ conf.ReqTarget \in Nat
         /\ conf.Duration \in Int
         /\ conf.ReqTarget # 0 => conf.Conns <= conf.ReqTarget
         /\ conf.ReqTarget = 0 => conf.Duration # 0 /\ ~HasJwts(conf)
<1>1. /\ conf.Conns \in 0 .. Word - 1 /\ conf.ReqTarget \in Int
      /\ conf.Duration \in Int
  BY RunConfigAssumption DEF Confs
<1>2. conf.Conns \in Nat
  BY <1>1
<1>3. Signed(conf.Conns, Word) = conf.Conns
  BY <1>1, SignedIs DEF Countable
<1> QED
  BY <1>1, <1>2, <1>3 DEF Accepts, RequestPerConn, JwtsCounted

LEMMA KindIs ==
  /\ KindOf(conf) \in Kinds
  /\ KindOf(conf) = "FixedReqs" <=> conf.Duration = 0 /\ conf.ReqTarget # 0
  /\ KindOf(conf) = "FixedTime" <=> conf.Duration # 0 /\ conf.ReqTarget = 0
  BY DEF KindOf, Kinds

LEMMA PeriodIs ==
  /\ Period("FixedReqs") = 1
  /\ Period("FixedTime") = conf.Duration
  /\ Period("FixedTimeRequests") = reqEvery
  BY DEF Period

-------------------------------------------------------------------------------
(* The invariant. *)

LEMMA RunInvInit == Init => RunInv
<1> SUFFICES ASSUME Init PROVE RunInv
  OBVIOUS
<1>1. workers \in Seq([kind : Kinds, target : Nat, middleware : BOOLEAN])
  BY EmptySeq DEF Init
<1>2. pc = "config" /\ workers = <<>> /\ conf \in Confs
  BY DEF Init
<1>3. TypeOK
  <2>1. sendJWT \in BOOLEAN
    BY DEF Init
  <2>2. remainder \in Nat /\ reqEvery \in Int
    BY DEF Init
  <2> QED
    BY <1>1, <1>2, <2>1, <2>2 DEF TypeOK
<1>4. Accepted /\ Dealt
  BY <1>2, Zenon DEF Accepted, Dealt, Dealing
<1>5. AllThere
  BY <1>2 DEF AllThere, Dealing
<1> QED
  BY <1>3, <1>4, <1>5 DEF RunInv

LEMMA RunInvValidate ==
  ASSUME RunInv, Validate
  PROVE  RunInv'
<1> USE DEF RunInv
<1>1. HasJwts(conf) \in BOOLEAN
  BY DEF TypeOK, Confs, HasJwts
<1> QED
  BY <1>1 DEF Validate, TypeOK, Accepted, Dealt, Dealing, AllThere, Accepts, HasJwts,
              RequestPerConn, JwtsCounted

LEMMA RunInvPrepare ==
  ASSUME RunInv, Prepare
  PROVE  RunInv'
<1> USE DEF RunInv
<1>1. Accepts(conf) /\ conf \in Confs /\ workers = <<>>
  BY DEF Prepare, Accepted, TypeOK, AllThere
<1>2. CASE pc' = "failed"
  BY <1>2 DEF Prepare, TypeOK, Accepted, Dealt, Dealing, AllThere
<1>3. CASE pc' = "panicked"
  <2>1. /\ ~Countable(conf) /\ pc = "prepare"
        /\ UNCHANGED <<conf, sendJWT, workers, remainder, reqEvery>>
    BY <1>3 DEF Prepare
  <2>2. ~Countable(conf)'
    BY <2>1 DEF Countable
  <2>3. TypeOK'
    BY <1>3, <2>1 DEF TypeOK
  <2>4. Accepted'
    BY <1>3, <2>1 DEF Accepted, Accepts, HasJwts, RequestPerConn, JwtsCounted
  <2>5. ~Dealing'
    BY <1>3, <2>2 DEF Dealing
  <2> QED
    BY <1>3, <2>2, <2>3, <2>4, <2>5 DEF Dealt, AllThere
<1>4. CASE pc' \notin {"failed", "panicked"}
  <2> DEFINE paces == IF conf.Duration = 0 THEN {0}
                      ELSE IF conf.ReqTarget = 0 THEN Undefined
                      ELSE {Pace(conf)}
  <2>1. /\ pc = "prepare" /\ pc' = "deal" /\ UNCHANGED <<conf, sendJWT, workers>>
        /\ remainder' = conf.ReqTarget % conf.Conns /\ reqEvery' \in paces
        /\ Countable(conf)
    BY <1>4 DEF Prepare
  <2>2. /\ conf.ReqTarget % conf.Conns \in Nat
        /\ conf.Conns \in Nat \ {0} /\ conf.ReqTarget \in Nat /\ conf.Duration \in Int
    BY <1>1, <2>1, AcceptedConf, DivMod
  <2>3. paces \subseteq Int
    <3>1. CASE conf.ReqTarget = 0
      BY <3>1 DEF Undefined
    <3>2. CASE conf.ReqTarget # 0
      <4>1. conf.Duration * conf.Conns \in Int /\ (-conf.Duration) * conf.Conns \in Int
        BY <2>2
      <4>2. Pace(conf) \in Int
        BY <2>2, <3>2, <4>1 DEF Pace
      <4> QED
        BY <3>2, <4>2
    <3> QED
      BY <3>1, <3>2
  <2> HIDE DEF paces
  <2>4. Len(workers) = 0
    BY <1>1, EmptySeq
  <2>5. TypeOK'
    BY <2>1, <2>2, <2>3 DEF TypeOK
  <2>6. Accepted'
    BY <2>1 DEF Prepare, Accepted, Accepts, HasJwts, RequestPerConn, JwtsCounted
  <2>7. Dealt'
    <3>1. Len(workers) <= conf.Conns
      BY <2>2, <2>4
    <3>2. remainder' = IF conf.ReqTarget % conf.Conns > Len(workers)
                         THEN (conf.ReqTarget % conf.Conns) - Len(workers) ELSE 0
      BY <2>1, <2>2, <2>4
    <3>3. 1 .. Len(workers) = {}
      BY <2>4
    <3> QED
      BY <2>1, <3>1, <3>2, <3>3 DEF Dealt, Countable, Pace, paces
  <2>8. AllThere'
    BY <2>1 DEF AllThere, Dealing
  <2> QED
    BY <2>5, <2>6, <2>7, <2>8
<1> QED
  BY <1>2, <1>3, <1>4

LEMMA RunInvDeal ==
  ASSUME RunInv, Deal
  PROVE  RunInv'
<1> USE DEF RunInv
<1>1. CASE pc' = "failed"
  BY <1>1 DEF Deal, TypeOK, Accepted, Dealt, Dealing, AllThere
<1>2. CASE pc' # "failed"
  <2> DEFINE n == Len(workers)
             r == conf.ReqTarget % conf.Conns
             Worker == [kind : Kinds, target : Nat, middleware : BOOLEAN]
  <2>1. /\ pc = "deal" /\ pc' = pc /\ n < conf.Conns
        /\ UNCHANGED <<conf, sendJWT, reqEvery>>
        /\ workers' = Append(workers, NewWorker(conf))
        /\ remainder' = IF remainder > 0 THEN remainder - 1 ELSE remainder
    BY <1>2 DEF Deal, RemainderLeft
  <2>2. /\ conf.Conns \in Nat \ {0} /\ conf.ReqTarget \in Nat
        /\ r \in Nat /\ conf.ReqTarget \div conf.Conns \in Nat
    BY <2>1, AcceptedConf, DivMod DEF Accepted, Dealt, Dealing, TypeOK
  <2>3. workers \in Seq(Worker) /\ n \in Nat
    BY LenProperties DEF TypeOK
  <2>4. remainder = IF r > n THEN r - n ELSE 0
    BY <2>1 DEF Dealt, Dealing
  <2>5. remainder > 0 <=> n + 1 <= r
    BY <2>2, <2>3, <2>4
  <2>6. NewWorker(conf) = WorkerOf(n + 1)
    <3>1. (IF remainder > 0 THEN 1 ELSE 0) = (IF n + 1 <= r THEN 1 ELSE 0)
      BY <2>5
    <3> QED
      BY <3>1, Zenon DEF NewWorker, WorkerOf, ShareOf
  <2>7. NewWorker(conf) \in Worker
    <3>1. conf.ReqTarget \div conf.Conns + (IF remainder > 0 THEN 1 ELSE 0) \in Nat
      BY <2>2
    <3>2. (sendJWT /\ KindOf(conf) # "FixedTime") \in BOOLEAN
      OBVIOUS
    <3> QED
      BY <3>1, <3>2, KindIs DEF NewWorker
  <2> HIDE DEF Worker, r
  <2>8. /\ workers' \in Seq(Worker) /\ Len(workers') = n + 1
        /\ workers'[n + 1] = NewWorker(conf)
        /\ \A k \in 1 .. n : workers'[k] = workers[k]
    BY <2>1, <2>3, <2>7, AppendProperties
  <2>9. remainder' = IF r > n + 1 THEN r - (n + 1) ELSE 0
    BY <2>1, <2>2, <2>3, <2>4
  <2>10. \A k \in 1 .. n + 1 : workers'[k] = WorkerOf(k)
    <3>1. \A k \in 1 .. n : workers[k] = WorkerOf(k)
      BY <2>1 DEF Dealt, Dealing
    <3>2. \A k \in 1 .. n + 1 : k \in 1 .. n \/ k = n + 1
      BY <2>3
    <3> QED
      BY <2>6, <2>8, <3>1, <3>2, Zenon
  <2>11. TypeOK'
    <3>1. remainder' \in Nat
      BY <2>2, <2>3, <2>9
    <3> QED
      BY <2>1, <2>8, <3>1 DEF TypeOK, Worker
  <2>12. Accepted'
    BY <2>1 DEF Accepted, Accepts, HasJwts, RequestPerConn, JwtsCounted
  <2>13. Dealt'
    <3>1. Len(workers') <= conf.Conns
      BY <2>1, <2>2, <2>3, <2>8
    <3>2. \A k \in 1 .. Len(workers') : WorkerOf(k)' = WorkerOf(k)
      BY <2>1 DEF WorkerOf, ShareOf, KindOf
    <3>3. \A k \in 1 .. Len(workers') : workers'[k] = WorkerOf(k)'
      BY <2>8, <2>10, <3>2
    <3>4. remainder' = IF r > Len(workers') THEN r - Len(workers') ELSE 0
      BY <2>8, <2>9
    <3>5. Countable(conf)
      BY <2>1 DEF Dealt, Dealing
    <3> QED
      BY <2>1, <3>1, <3>3, <3>4, <3>5 DEF Dealt, Dealing, Countable, Pace, r
  <2>14. AllThere'
    BY <2>1 DEF AllThere, Dealing
  <2> QED
    BY <2>11, <2>12, <2>13, <2>14
<1> QED
  BY <1>1, <1>2

LEMMA RunInvStart ==
  ASSUME RunInv, Release \/ StartLoops \/ UNCHANGED vars
  PROVE  RunInv'
<1> USE DEF RunInv
<1>1. UNCHANGED <<conf, sendJWT, reqEvery, remainder, workers>>
  BY DEF Release, StartLoops, vars
<1>2. /\ pc \in {"deal", "released"} /\ pc' \in {"released", "running", "panicked"}
      \/ pc' = pc
  BY DEF Release, StartLoops, vars
<1>3. TypeOK'
  BY <1>1, <1>2 DEF TypeOK
<1>4. Accepted'
  BY <1>1, <1>2 DEF Accepted, Accepts, HasJwts, RequestPerConn, JwtsCounted
<1>5. Dealt'
  <2>1. Dealing' => Dealing
    BY <1>1, <1>2 DEF Dealing, Countable
  <2> QED
    BY <1>1, <2>1 DEF Dealt, Countable, WorkerOf, ShareOf, KindOf, Pace
<1>6. AllThere'
  BY <1>1 DEF Release, StartLoops, vars, AllThere, Dealing, Countable, Period,
              WorkersPanic, DisplayPanics
<1> QED
  BY <1>3, <1>4, <1>5, <1>6

LEMMA RunInductive ==
  ASSUME RunInv, [Next]_vars
  PROVE  RunInv'
  BY RunInvValidate, RunInvPrepare, RunInvDeal, RunInvStart DEF Next

LEMMA RunInvariant == Spec => []RunInv
  BY RunInvInit, RunInductive, PTL DEF Spec

-------------------------------------------------------------------------------
(* The theorems. *)

\* What a released worker is made of.
LEMMA Released ==
  ASSUME RunInv, pc = "running" \/ (pc = "panicked" /\ Countable(conf))
  PROVE  /\ conf \in Confs /\ Accepts(conf) /\ Countable(conf) /\ sendJWT = HasJwts(conf)
         /\ DOMAIN workers = 1 .. conf.Conns
         /\ \A k \in DOMAIN workers : /\ workers[k].kind = KindOf(conf)
                                      /\ workers[k].target = ShareOf(k)
                                      /\ workers[k].middleware =
                                           (sendJWT /\ KindOf(conf) # "FixedTime")
<1>1. Len(workers) = conf.Conns /\ DOMAIN workers = 1 .. Len(workers)
  BY LenProperties DEF RunInv, AllThere, Dealing, TypeOK
<1>2. \A k \in 1 .. Len(workers) : workers[k] = WorkerOf(k)
  BY DEF RunInv, Dealt, Dealing
<1>3. DOMAIN workers = 1 .. conf.Conns
  BY <1>1
<1>4. conf \in Confs /\ Accepts(conf) /\ Countable(conf) /\ sendJWT = HasJwts(conf)
  BY DEF RunInv, Accepted, Dealt, Dealing, TypeOK
<1>5. \A k : /\ WorkerOf(k).kind = KindOf(conf)
             /\ WorkerOf(k).target = ShareOf(k)
             /\ WorkerOf(k).middleware = (sendJWT /\ KindOf(conf) # "FixedTime")
  BY DEF WorkerOf
<1>6. \A k \in DOMAIN workers : workers[k] = WorkerOf(k)
  BY <1>1, <1>2
<1> QED
  BY <1>3, <1>4, <1>5, <1>6

\* Types: remainderReqs never goes below zero.
THEOREM RunConfigTypeCorrect == Spec => []TypeOK
<1>1. RunInv => TypeOK
  BY DEF RunInv
<1> QED
  BY <1>1, RunInvariant, PTL

\* The shares of the workers add up to the target, whatever the remainder, and
\* none of those that count requests is left without one (handleReqs).
THEOREM RunConfigSharesAddUp == Spec => []SharesAddUp
<1>1. RunInv => SharesAddUp
  <2> SUFFICES ASSUME RunInv, pc = "running"
      PROVE /\ SumOf([k \in DOMAIN workers |-> Given(k)], DOMAIN workers) = conf.ReqTarget
            /\ \A k, m \in DOMAIN workers : Given(k) <= Given(m) + 1
            /\ \A k \in DOMAIN workers : workers[k].kind # "FixedTime" => Given(k) > 0
    BY DEF SharesAddUp
  <2>1. /\ Accepts(conf) /\ Countable(conf) /\ conf \in Confs /\ DOMAIN workers = 1 .. conf.Conns
        /\ \A k \in DOMAIN workers : workers[k].kind = KindOf(conf) /\ Given(k) = ShareOf(k)
    BY Released DEF Given
  <2>2. /\ conf.Conns \in Nat \ {0} /\ conf.ReqTarget \in Nat
        /\ conf.ReqTarget # 0 => conf.Conns <= conf.ReqTarget
        /\ conf.ReqTarget = 0 => conf.Duration # 0
    BY <2>1, AcceptedConf
  <2> DEFINE q == conf.ReqTarget \div conf.Conns
             r == conf.ReqTarget % conf.Conns
             given == [k \in DOMAIN workers |-> Given(k)]
  <2>3. /\ q \in Nat /\ r \in Nat /\ r < conf.Conns
        /\ conf.ReqTarget = conf.Conns * q + r
    BY <2>2, DivMod
  <2>4. \A k \in 1 .. conf.Conns :
          given[k] = conf.ReqTarget \div conf.Conns
                       + (IF k <= conf.ReqTarget % conf.Conns THEN 1 ELSE 0)
    BY <2>1 DEF ShareOf
  <2>5. SumOf(given, DOMAIN workers) = conf.ReqTarget
    <3> HIDE DEF given
    <3>1. SumOf(given, 1 .. conf.Conns) = conf.ReqTarget
      BY <2>2, <2>4, SharesSum
    <3> QED
      BY <2>1, <3>1
  <2>6. \A k \in DOMAIN workers : Given(k) \in {q, q + 1}
    BY <2>1, <2>3 DEF ShareOf
  <2>7. ASSUME conf.ReqTarget # 0 PROVE q > 0
    <3> HIDE DEF q, r
    <3>1. SUFFICES ASSUME q = 0 PROVE FALSE
      BY <2>3
    <3>2. conf.ReqTarget = r
      BY <2>2, <2>3, <3>1
    <3> QED
      BY <2>2, <2>3, <2>7, <3>2
  <2>8. KindOf(conf) # "FixedTime" => conf.ReqTarget # 0
    BY <2>2, KindIs
  <2> HIDE DEF q, r
  <2>9. \A k, m \in DOMAIN workers : Given(k) <= Given(m) + 1
    BY <2>3, <2>6
  <2>10. \A k \in DOMAIN workers : workers[k].kind # "FixedTime" => Given(k) > 0
    BY <2>1, <2>3, <2>6, <2>7, <2>8
  <2> QED
    BY <2>5, <2>9, <2>10
<1> QED
  BY <1>1, RunInvariant, PTL

\* A run that is asked to send JWTs gets workers that all send them (Validate
\* and NewWorker agree).
THEOREM RunConfigJwtsNeverIgnored == Spec => []JwtsNeverIgnored
<1>1. RunInv => JwtsNeverIgnored
  <2> SUFFICES ASSUME RunInv, pc = "running", HasJwts(conf), NEW k \in DOMAIN workers
               PROVE  workers[k].middleware
    BY DEF JwtsNeverIgnored
  <2>1. /\ Accepts(conf) /\ Countable(conf) /\ conf \in Confs /\ sendJWT = HasJwts(conf)
        /\ workers[k].middleware = (sendJWT /\ KindOf(conf) # "FixedTime")
    BY Released
  <2>2. KindOf(conf) # "FixedTime"
    BY <2>1, AcceptedConf, KindIs
  <2> QED
    BY <2>1, <2>2
<1> QED
  BY <1>1, RunInvariant, PTL

\* The pace of an accepted configuration with a time and a target.
LEMMA PaceIs ==
  ASSUME NEW D \in Int, NEW C \in Nat \ {0}, NEW R \in Nat \ {0}, NEW p,
         p = IF D < 0 THEN -((-D * C) \div R) ELSE (D * C) \div R
  PROVE  /\ p \in Int
         /\ D < 0 => p <= 0
         /\ D >= 0 => p \in Nat /\ p * R <= D * C
         /\ D >= 0 => (p <= 0 <=> D * C < R)
<1>1. CASE D < 0
  <2> DEFINE m == (-D) * C
  <2>1. m \in Nat
    BY <1>1
  <2>2. -D * C = m
    BY <1>1
  <2> HIDE DEF m
  <2>3. m \div R \in Nat
    BY <2>1, DivMod
  <2>4. p = -(m \div R)
    BY <1>1, <2>2
  <2> HIDE DEF m
  <2> QED
    BY <1>1, <2>3, <2>4
<1>2. CASE D >= 0
  <2> DEFINE m == D * C
  <2>1. m \in Nat
    BY <1>2
  <2> HIDE DEF m
  <2>2. p = m \div R
    BY <1>2 DEF m
  <2>3. /\ p \in Nat /\ m % R \in Nat /\ m % R < R
        /\ m = R * p + (m % R)
    BY <2>1, <2>2, DivMod
  <2>4. R * p = p * R /\ p * R \in Nat
    BY <2>3
  <2>5. p * R <= m
    BY <2>1, <2>3, <2>4
  <2>6. p <= 0 => m < R
    <3> SUFFICES ASSUME p <= 0 PROVE m < R
      OBVIOUS
    <3>1. p = 0
      BY <2>3
    <3>2. R * p = 0
      BY <3>1
    <3> QED
      BY <2>1, <2>3, <3>2
  <2>7. m < R => p <= 0
    <3> SUFFICES ASSUME m < R, p # 0 PROVE FALSE
      BY <2>3
    <3>1. 1 * R <= p * R
      <4>1. R * 1 <= R * p
        BY <2>3, ProductMonotone
      <4> QED
        BY <2>4, <4>1
    <3> QED
      BY <2>1, <2>4, <2>5, <3>1
  <2> QED
    BY <1>2, <2>3, <2>5, <2>6, <2>7 DEF m
<1> QED
  BY <1>1, <1>2

\* Whole periods of all but the last request fit in the duration.
LEMMA AllButLastFit ==
  ASSUME NEW D \in Nat, NEW C \in Nat \ {0}, NEW R \in Nat \ {0}, NEW p \in Nat \ {0},
         NEW g \in Nat,
         p * R <= D * C, (g - 1) * C < R
  PROVE  p * (g - 1) < D
<1>1. CASE g = 0
  <2>1. p * (g - 1) = -p
    BY <1>1
  <2> QED
    BY <2>1
<1>2. CASE g # 0
  <2> DEFINE n == g - 1
  <2>1. n \in Nat
    BY <1>2
  <2>2. n * C < R
    OBVIOUS
  <2> HIDE DEF n
  <2>3. n * C \in Nat /\ p * n \in Nat
    BY <2>1
  <2>4. p * (n * C) < p * R
    <3> DEFINE m == n * C
    <3>1. m \in Nat /\ m < R
      BY <2>2, <2>3
    <3> HIDE DEF m
    <3>2. m + 1 <= R /\ m + 1 \in Nat
      BY <3>1
    <3>3. p * (m + 1) <= p * R
      BY <3>2, ProductMonotone
    <3>4. p * (m + 1) = p * m + p
      BY <3>1
    <3>5. p * m \in Nat /\ p * R \in Nat
      BY <3>1
    <3>6. p * m < p * R
      BY <3>3, <3>4, <3>5
    <3> QED
      BY <3>6 DEF m
  <2>5. p * (n * C) = (p * n) * C
    BY <2>1
  <2>6. SUFFICES ASSUME D <= p * n PROVE FALSE
    BY <2>3 DEF n
  <2>7. C * D <= C * (p * n)
    BY <2>3, <2>6, ProductMonotone
  <2>8. C * D = D * C /\ C * (p * n) = (p * n) * C
    BY <2>3
  <2>9. D * C \in Nat /\ (p * n) * C \in Nat /\ p * R \in Nat
    BY <2>3
  <2> QED
    BY <2>4, <2>5, <2>7, <2>8, <2>9
<1> QED
  BY <1>1, <1>2

\* All requests of a share but the last one take less than the whole target.
LEMMA ShareButOne ==
  ASSUME NEW C \in Nat \ {0}, NEW R \in Nat \ {0}, NEW k \in Nat \ {0}, NEW g,
         g = R \div C + (IF k <= R % C THEN 1 ELSE 0)
  PROVE  g \in Nat /\ (g - 1) * C < R
<1> DEFINE q == R \div C
           r == R % C
<1>1. q \in Nat /\ r \in Nat /\ r < C /\ R = C * q + r
  BY DivMod
<1> HIDE DEF q, r
<1>2. g = q + (IF k <= r THEN 1 ELSE 0)
  BY DEF q, r
<1>3. C * q = q * C /\ q * C \in Nat /\ (q - 1) * C = q * C - C
  BY <1>1
<1>4. CASE k <= r
  <2>1. g = q + 1 /\ r > 0
    BY <1>1, <1>2, <1>4
  <2>2. g - 1 = q
    BY <1>1, <2>1
  <2>3. q * C < R
    BY <1>1, <1>3, <2>1
  <2> QED
    BY <1>1, <2>1, <2>2, <2>3
<1>5. CASE ~(k <= r)
  <2>1. g = q
    BY <1>1, <1>2, <1>5
  <2>2. q * C - C < R
    BY <1>1, <1>3
  <2> QED
    BY <1>1, <1>3, <2>1, <2>2
<1> QED
  BY <1>4, <1>5

\* At most the last request of a worker with a time and a target is due after
\* its deadline (the pace that handleReqs computes in a float).
THEOREM RunConfigLastAloneIsLate == Spec => []LastAloneIsLate
<1>1. RunInv => LastAloneIsLate
  <2> SUFFICES ASSUME RunInv, pc = "running", NEW k \in DOMAIN workers,
                      workers[k].kind = "FixedTimeRequests"
               PROVE  reqEvery * (Given(k) - 1) < conf.Duration
    BY DEF LastAloneIsLate
  <2>1. /\ Accepts(conf) /\ Countable(conf) /\ conf \in Confs /\ DOMAIN workers = 1 .. conf.Conns
        /\ KindOf(conf) = "FixedTimeRequests" /\ Given(k) = ShareOf(k)
    BY Released DEF Given
  <2>2. /\ conf.Conns \in Nat \ {0} /\ conf.ReqTarget \in Nat /\ conf.Duration \in Int
        /\ conf.ReqTarget = 0 => conf.Duration # 0
    BY <2>1, AcceptedConf
  <2>3. conf.ReqTarget # 0 /\ conf.Duration # 0
    BY <2>1, <2>2, KindIs
  <2>4. reqEvery = Pace(conf)
    BY <2>3 DEF RunInv, Dealt, Dealing
  <2>5. ~(reqEvery <= 0)
    BY PeriodIs DEF RunInv, AllThere
  <2> DEFINE D == conf.Duration
             C == conf.Conns
             R == conf.ReqTarget
             g == Given(k)
  <2>6. k \in Nat \ {0}
    BY <2>1, <2>2
  <2>7. g \in Nat /\ (g - 1) * C < R
    <3>1. g = R \div C + (IF k <= R % C THEN 1 ELSE 0)
      BY <2>1 DEF ShareOf
    <3>2. C \in Nat \ {0} /\ R \in Nat \ {0}
      BY <2>2, <2>3
    <3> HIDE DEF g, C, R
    <3> QED
      BY <2>6, <3>1, <3>2, ShareButOne
  <2>8. /\ D < 0 => reqEvery <= 0
        /\ D >= 0 => reqEvery \in Nat /\ reqEvery * R <= D * C
    <3>1. reqEvery = IF D < 0 THEN -((-D * C) \div R) ELSE (D * C) \div R
      BY <2>4 DEF Pace
    <3>2. D \in Int /\ C \in Nat \ {0} /\ R \in Nat \ {0}
      BY <2>2, <2>3
    <3> HIDE DEF D, C, R
    <3> QED
      BY <3>1, <3>2, PaceIs
  <2>9. D \in Int /\ C \in Nat \ {0} /\ R \in Nat \ {0}
    BY <2>2, <2>3
  <2>10. reqEvery * (g - 1) < D
    <3> HIDE DEF D, C, R, g
    <3>1. D \in Nat /\ reqEvery \in Nat \ {0} /\ reqEvery * R <= D * C
      BY <2>5, <2>8, <2>9
    <3> QED
      BY <2>7, <2>9, <3>1, AllButLastFit
  <2> QED
    BY <2>10
<1> QED
  BY <1>1, RunInvariant, PTL

\* When the first ticker of a worker is one that time.NewTicker does not make.
LEMMA NoPeriod ==
  ASSUME RunInv, pc = "running" \/ (pc = "panicked" /\ Countable(conf))
  PROVE  WorkersPanic <=> TinyPace
<1>1. /\ Accepts(conf) /\ Countable(conf) /\ conf \in Confs
      /\ DOMAIN workers = 1 .. conf.Conns
      /\ \A k \in DOMAIN workers : workers[k].kind = KindOf(conf)
  BY Released
<1>2. /\ conf.Conns \in Nat \ {0} /\ conf.ReqTarget \in Nat /\ conf.Duration \in Int
      /\ conf.ReqTarget = 0 => conf.Duration # 0
  BY <1>1, AcceptedConf
<1>3. WorkersPanic <=> Period(KindOf(conf)) <= 0
  <2>1. 1 \in DOMAIN workers
    BY <1>1, <1>2
  <2> QED
    BY <1>1, <2>1, Zenon DEF WorkersPanic
<1>4. CASE KindOf(conf) = "FixedReqs"
  <2>1. conf.Duration = 0
    BY <1>4, KindIs
  <2>2. ~(Period(KindOf(conf)) <= 0)
    BY <1>4, PeriodIs
  <2> QED
    BY <1>3, <2>1, <2>2 DEF TinyPace
<1>5. CASE KindOf(conf) = "FixedTime"
  <2>1. conf.ReqTarget = 0 /\ conf.Duration # 0 /\ Period(KindOf(conf)) = conf.Duration
    BY <1>5, KindIs, PeriodIs
  <2>2. conf.Duration > 0 => conf.Duration * conf.Conns >= 0
    BY <1>2
  <2> QED
    BY <1>2, <1>3, <2>1, <2>2 DEF TinyPace
<1>6. CASE KindOf(conf) = "FixedTimeRequests"
  <2>1. conf.ReqTarget # 0 /\ conf.Duration # 0 /\ Period(KindOf(conf)) = reqEvery
    BY <1>2, <1>6, KindIs, PeriodIs
  <2>2. reqEvery = Pace(conf)
    BY <2>1 DEF RunInv, Dealt, Dealing
  <2> DEFINE D == conf.Duration
             C == conf.Conns
             R == conf.ReqTarget
  <2>3. reqEvery = IF D < 0 THEN -((-D * C) \div R) ELSE (D * C) \div R
    BY <2>2 DEF Pace
  <2>4. D \in Int /\ C \in Nat \ {0} /\ R \in Nat \ {0} /\ D # 0
    BY <1>2, <2>1
  <2>5. /\ D < 0 => reqEvery <= 0
        /\ D >= 0 => (reqEvery <= 0 <=> D * C < R)
    <3> HIDE DEF D, C, R
    <3> QED
      BY <2>3, <2>4, PaceIs
  <2>6. TinyPace <=> D < 0 \/ (D > 0 /\ D * C < R)
    BY Zenon DEF TinyPace
  <2>7. WorkersPanic <=> reqEvery <= 0
    BY <1>3, <2>1
  <2> DEFINE m == D * C
  <2> HIDE DEF m
  <2>8. D >= 0 => (reqEvery <= 0 <=> m < R)
    BY <2>5 DEF m
  <2>9. TinyPace <=> D < 0 \/ (D > 0 /\ m < R)
    BY <2>6 DEF m
  <2> HIDE DEF D, C, R
  <2> QED
    BY <2>4, <2>5, <2>7, <2>8, <2>9
<1> QED
  BY <1>4, <1>5, <1>6, KindIs DEF Kinds

\* The causes for which an accepted configuration still crashes the program, and
\* that none but the display's ticker lets it get as far as a request
\* (handleReqs, time.NewTicker).
THEOREM RunConfigPanicCauses == Spec => []PanicCauses
<1>1. RunInv => PanicCauses
  <2> SUFFICES ASSUME RunInv PROVE PanicCauses
    OBVIOUS
  <2>1. conf.Conns \in Int /\ MaxSlice \in Int /\ conf.VerboseTicker \in Int
    <3>1. conf \in Confs
      BY DEF RunInv, TypeOK
    <3>2. conf.Conns \in 0 .. Word - 1 /\ conf.VerboseTicker \in Tickers
      BY <3>1, RunConfigAssumption DEF Confs
    <3>3. MaxSlice \in Nat
      BY RunConfigAssumption
    <3>4. conf.VerboseTicker \in Int
      BY <3>2, RunConfigAssumption
    <3>5. conf.Conns \in Int
      BY <3>2
    <3> QED
      BY <3>3, <3>4, <3>5
  <2>2. Signed(conf.Conns, CounterWord) \in Int
    BY <2>1, RunConfigAssumption DEF Signed
  <2>3. TooManyConns <=> ~Countable(conf)
    BY <2>1, <2>2 DEF TooManyConns, Countable
  <2>4. ASSUME pc = "panicked", Countable(conf)
        PROVE  TinyPace \/ (conf.Verbose /\ conf.VerboseTicker < 0)
    <3>1. WorkersPanic \/ DisplayPanics
      BY <2>4 DEF RunInv, AllThere
    <3>2. WorkersPanic => TinyPace
      BY <2>4, NoPeriod
    <3>3. conf.VerboseTicker # 0
      BY <2>4, Released DEF Accepts
    <3>4. DisplayPanics => conf.Verbose /\ conf.VerboseTicker < 0
      BY <2>1, <3>3 DEF DisplayPanics
    <3> QED
      BY <3>1, <3>2, <3>4
  <2>5. ASSUME pc = "running" PROVE ~TooManyConns /\ ~TinyPace
    <3>1. ~WorkersPanic
      BY <2>5 DEF RunInv, AllThere, WorkersPanic
    <3>2. Countable(conf)
      BY <2>5, Released
    <3> QED
      BY <2>3, <2>5, <3>1, <3>2, NoPeriod
  <2> QED
    BY <2>3, <2>4, <2>5 DEF PanicCauses
<1> QED
  BY <1>1, RunInvariant, PTL

\* What the modules of the workers and of the wrapper ask of their constants in their
\* assumptions: a connection at least; a request for each of them, and the shares of
\* handleReqs, where requests are counted; a time, and a ticker that time.NewTicker
\* makes, where it is limited.
ConstantsAssumed ==
  pc = "running" =>
    /\ conf.Conns \in Nat \ {0} /\ conf.ReqTarget \in Nat
    /\ DOMAIN workers = 1 .. conf.Conns
    /\ \A k \in DOMAIN workers :
         /\ workers[k].kind # "FixedTime" =>
              conf.Conns <= conf.ReqTarget /\ Given(k) = ShareOf(k) /\ Given(k) \in Nat \ {0}
         /\ workers[k].kind # "FixedReqs" => conf.Duration \in Nat \ {0}
         /\ workers[k].kind = "FixedTimeRequests" => reqEvery \in Nat \ {0}

\* No configuration that gets as far as running workers escapes the assumptions under
\* which those workers, and the wrapper, are modelled and proved correct (Validate,
\* handleReqs and NewWorker against assumptions of the other modules).
THEOREM RunConfigMeetsAssumptions == Spec => []ConstantsAssumed
<1>1. RunInv => ConstantsAssumed
  <2> SUFFICES ASSUME RunInv, pc = "running"
               PROVE  ConstantsAssumed
    BY DEF ConstantsAssumed
  <2>1. /\ Accepts(conf) /\ Countable(conf) /\ conf \in Confs /\ DOMAIN workers = 1 .. conf.Conns
        /\ \A k \in DOMAIN workers : workers[k].kind = KindOf(conf) /\ Given(k) = ShareOf(k)
    BY Released DEF Given
  <2>2. /\ conf.Conns \in Nat \ {0} /\ conf.ReqTarget \in Nat /\ conf.Duration \in Int
        /\ conf.ReqTarget # 0 => conf.Conns <= conf.ReqTarget
        /\ conf.ReqTarget = 0 => conf.Duration # 0
    BY <2>1, AcceptedConf
  <2>3. ASSUME NEW k \in DOMAIN workers, workers[k].kind # "FixedTime"
        PROVE  conf.Conns <= conf.ReqTarget /\ Given(k) = ShareOf(k) /\ Given(k) \in Nat \ {0}
    <3>1. conf.ReqTarget # 0
      BY <2>1, <2>2, <2>3, KindIs
    <3>2. conf.ReqTarget \div conf.Conns \in Nat \ {0}
      <4> DEFINE q == conf.ReqTarget \div conf.Conns
                 r == conf.ReqTarget % conf.Conns
      <4>1. /\ q \in Nat /\ r \in Nat /\ r < conf.Conns
            /\ conf.ReqTarget = conf.Conns * q + r
        BY <2>2, DivMod
      <4> HIDE DEF q, r
      <4>2. ASSUME q = 0 PROVE FALSE
        <5>1. conf.ReqTarget = r
          BY <2>2, <4>1, <4>2
        <5> QED
          BY <2>2, <3>1, <4>1, <5>1
      <4> QED
        BY <4>1, <4>2 DEF q
    <3>3. ShareOf(k) \in Nat \ {0}
      BY <3>2 DEF ShareOf
    <3> QED
      BY <2>1, <2>2, <3>1, <3>3
  <2>4. ASSUME NEW k \in DOMAIN workers, workers[k].kind = "FixedTimeRequests"
        PROVE  reqEvery \in Nat \ {0} /\ conf.Duration \in Nat \ {0}
    <3>1. conf.ReqTarget # 0 /\ conf.Duration # 0
      BY <2>1, <2>2, <2>4, KindIs
    <3>2. reqEvery = Pace(conf) /\ ~ (reqEvery <= 0)
      BY <2>4, <3>1, PeriodIs DEF RunInv, Dealt, Dealing, AllThere
    <3> DEFINE D == conf.Duration
               C == conf.Conns
               R == conf.ReqTarget
    <3>3. reqEvery = IF D < 0 THEN -((-D * C) \div R) ELSE (D * C) \div R
      BY <3>2 DEF Pace
    <3>4. D \in Int /\ C \in Nat \ {0} /\ R \in Nat \ {0} /\ D # 0
      BY <2>2, <3>1
    <3> HIDE DEF D, C, R
    <3>5. /\ reqEvery \in Int
          /\ D < 0 => reqEvery <= 0
          /\ D >= 0 => reqEvery \in Nat
      BY <3>3, <3>4, PaceIs
    <3>6. reqEvery \in Nat \ {0} /\ D \in Nat \ {0}
      BY <3>2, <3>4, <3>5
    <3> QED
      BY <3>6 DEF D
  <2>5. ASSUME NEW k \in DOMAIN workers, workers[k].kind # "FixedReqs"
        PROVE  conf.Duration \in Nat \ {0}
    <3>1. CASE workers[k].kind = "FixedTime"
      <4>1. ~ (conf.Duration <= 0)
        BY <3>1, PeriodIs DEF RunInv, AllThere
      <4> QED
        BY <2>2, <4>1
    <3>2. CASE workers[k].kind = "FixedTimeRequests"
      BY <2>4, <3>2
    <3> QED
      BY <2>1, <2>5, <3>1, <3>2, KindIs DEF Kinds
  <2> QED
    BY <2>1, <2>2, <2>3, <2>4, <2>5 DEF ConstantsAssumed
<1> QED
  BY <1>1, RunInvariant, PTL
===============================================================================
