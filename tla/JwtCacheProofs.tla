---------------------------- MODULE JwtCacheProofs ----------------------------
(***************************************************************************)
(* The JWT cache: what holds however many processes use its file; what a   *)
(* run that is alone can rely on; and what the file's lines are worth, as  *)
(* long as no two runs are ever there at the same time, whatever crashes,  *)
(* or none crashes, however many are there.                                *)
(***************************************************************************)
EXTENDS JwtCache, SumsProofs, SequenceTheorems

-------------------------------------------------------------------------------
(* Types. *)

Cell == {"zeros", "newline", "count", "first", "next", "rest"} \X Nat

Contents == Seq(Cell)

Jobs == UNION {[S -> Nat \ {0}] : S \in SUBSET Cpus}

Saving == {"tokens", "count", "newline"}

Generating == {"collect"} \cup Saving

Opened == {"read", "remove", "get"} \cup Generating

RunType ==
  [pc : {"open", "ended"} \cup Opened, tag : Nat, req : Amounts \cup {0},
   alone : BOOLEAN, retrying : BOOLEAN, fd : Nat, mem : Nat,
   jobs : Jobs, saving : Nat, at : Nat]

Types ==
  /\ disk \in Seq(Contents)
  /\ dir \in 0 .. Len(disk)
  /\ run \in [Procs -> RunType]
  /\ runs \in Nat /\ shared \in BOOLEAN /\ crashes \in Nat /\ others \in Nat
  /\ runs <= MaxRuns /\ crashes + others <= MaxMishaps
  /\ \A p \in Procs :
       /\ run[p].fd <= Len(disk)
       /\ run[p].pc \in Opened => run[p].fd # 0

-------------------------------------------------------------------------------
(* Files. *)

LEMMA MaxOfTwo ==
  ASSUME NEW a \in Int, NEW b \in Int
  PROVE  Max({a, b}) = IF a >= b THEN a ELSE b
  BY DEF Max

LEMMA MinOfTwo ==
  ASSUME NEW a \in Int, NEW b \in Int
  PROVE  Min({a, b}) = IF a <= b THEN a ELSE b
  BY DEF Min

LEMMA CellTypes ==
  /\ Zeros \in Cell /\ Newline \in Cell
  /\ \A n \in Nat : Count(n) \in Cell
  BY DEF Zeros, Newline, Count, Cell

\* A write changes the cells it covers and leaves the others.
LEMMA WriteAtIs ==
  ASSUME NEW f \in Contents, NEW cells \in Contents, NEW at \in Nat
  PROVE  /\ WriteAt(f, cells, at) \in Contents
         /\ Len(WriteAt(f, cells, at)) =
              IF Len(f) >= at + Len(cells) THEN Len(f) ELSE at + Len(cells)
         /\ \A k \in 1 .. Len(WriteAt(f, cells, at)) :
              WriteAt(f, cells, at)[k] =
                IF k - at \in 1 .. Len(cells) THEN cells[k - at]
                ELSE IF k <= Len(f) THEN f[k] ELSE Zeros
<1> DEFINE n == IF Len(f) >= at + Len(cells) THEN Len(f) ELSE at + Len(cells)
           cell(k) == IF k - at \in 1 .. Len(cells) THEN cells[k - at]
                      ELSE IF k <= Len(f) THEN f[k] ELSE Zeros
<1>1. Max({Len(f), at + Len(cells)}) = n
  BY MaxOfTwo DEF Contents
<1>2. n \in Nat
  BY DEF Contents
<1>3. DOMAIN cells = 1 .. Len(cells)
  BY DEF Contents
<1>4. WriteAt(f, cells, at) = [k \in 1 .. n |-> cell(k)]
  BY <1>1, <1>3 DEF WriteAt
<1>5. \A k \in 1 .. n : cell(k) \in Cell
  <2> SUFFICES ASSUME NEW k \in 1 .. n PROVE cell(k) \in Cell
    OBVIOUS
  <2>1. k \in Nat \ {0}
    BY <1>2
  <2> QED
    BY <2>1, CellTypes DEF Contents
<1> HIDE DEF n, cell
<1>6. [k \in 1 .. n |-> cell(k)] \in Seq(Cell)
  BY <1>2, <1>5
<1>7. Len([k \in 1 .. n |-> cell(k)]) = n
  BY <1>2
<1> QED
  BY <1>4, <1>6, <1>7 DEF Contents, n, cell

\* Cells that could be the tokens of a save, or the beginning of them: every fourth
\* is a newline, with a JWT before it.
AreTokens(cells, tag) ==
  /\ \A i \in 1 .. Len(cells) : cells[i] = Newline => i % 4 = 0
  /\ \A j \in Nat \ {0} : 4 * j <= Len(cells) =>
       /\ cells[4 * j - 3] = <<"first", tag>> /\ cells[4 * j - 2] = <<"next", tag>>
       /\ cells[4 * j - 1] = <<"rest", tag>> /\ cells[4 * j] = Newline

LEMMA TokensAre ==
  ASSUME NEW tag \in Nat, NEW n \in Nat
  PROVE  /\ Tokens(tag, n) \in Contents
         /\ Len(Tokens(tag, n)) = 4 * n
         /\ AreTokens(Tokens(tag, n), tag)
<1> DEFINE one == Append(Jwt(tag), Newline)
<1>1. /\ one[1] = <<"first", tag>> /\ one[2] = <<"next", tag>>
      /\ one[3] = <<"rest", tag>> /\ one[4] = Newline
  BY DEF Jwt
<1>2. \A i \in 1 .. 4 : one[i] \in Cell /\ (one[i] = Newline => i = 4)
  <2>1. <<"first", tag>> \in Cell /\ <<"next", tag>> \in Cell /\ <<"rest", tag>> \in Cell
    BY DEF Cell
  <2>2. Newline # <<"first", tag>> /\ Newline # <<"next", tag>> /\ Newline # <<"rest", tag>>
    BY DEF Newline
  <2> HIDE DEF one
  <2>3. \A i \in 1 .. 4 : i = 1 \/ i = 2 \/ i = 3 \/ i = 4
    OBVIOUS
  <2> QED
    BY <1>1, <2>1, <2>2, <2>3, CellTypes
<1> HIDE DEF one
<1> DEFINE cells == Tokens(tag, n)
<1>3. cells = [k \in 1 .. 4 * n |-> one[((k - 1) % 4) + 1]]
  BY DEF Tokens, one
<1> HIDE DEF cells
<1>4. \A k \in 1 .. 4 * n : ((k - 1) % 4) + 1 \in 1 .. 4
  OBVIOUS
<1>5. \A k \in 1 .. 4 * n : one[((k - 1) % 4) + 1] \in Cell
  BY <1>2, <1>4
<1>6. 4 * n \in Nat
  OBVIOUS
<1>7. cells \in Contents /\ Len(cells) = 4 * n
  BY <1>3, <1>5, <1>6 DEF Contents
<1>8. ASSUME NEW i \in 1 .. Len(cells), cells[i] = Newline PROVE i % 4 = 0
  <2>1. i \in 1 .. 4 * n /\ one[((i - 1) % 4) + 1] = Newline
    BY <1>3, <1>7, <1>8
  <2>2. ((i - 1) % 4) + 1 = 4
    BY <1>2, <1>4, <2>1
  <2> QED
    BY <2>1, <2>2
<1>9. ASSUME NEW j \in Nat \ {0}, 4 * j <= Len(cells)
      PROVE  /\ cells[4 * j - 3] = one[1] /\ cells[4 * j - 2] = one[2]
             /\ cells[4 * j - 1] = one[3] /\ cells[4 * j] = one[4]
  <2>1. /\ 4 * j - 3 \in 1 .. 4 * n /\ ((4 * j - 3 - 1) % 4) + 1 = 1
        /\ 4 * j - 2 \in 1 .. 4 * n /\ ((4 * j - 2 - 1) % 4) + 1 = 2
        /\ 4 * j - 1 \in 1 .. 4 * n /\ ((4 * j - 1 - 1) % 4) + 1 = 3
        /\ 4 * j \in 1 .. 4 * n /\ ((4 * j - 1) % 4) + 1 = 4
    BY <1>7, <1>9
  <2> QED
    BY <1>3, <2>1
<1> QED
  BY <1>1, <1>7, <1>8, <1>9 DEF AreTokens, cells

LEMMA TokensCutShort ==
  ASSUME NEW cells \in Contents, NEW tag, AreTokens(cells, tag), NEW k \in 0 .. Len(cells)
  PROVE  /\ SubSeq(cells, 1, k) \in Contents /\ Len(SubSeq(cells, 1, k)) = k
         /\ AreTokens(SubSeq(cells, 1, k), tag)
<1> DEFINE some == SubSeq(cells, 1, k)
<1>1. cells \in Seq(Cell) /\ Len(cells) \in Nat /\ k \in Nat /\ k <= Len(cells)
  BY DEF Contents
<1>2. some \in Seq(Cell) /\ Len(some) = k /\ \A i \in 1 .. k : some[i] = cells[i]
  BY <1>1
<1> HIDE DEF some
<1>3. ASSUME NEW i \in 1 .. k, some[i] = Newline PROVE i % 4 = 0
  BY <1>1, <1>2, <1>3 DEF AreTokens
<1>4. ASSUME NEW j \in Nat \ {0}, 4 * j <= k
      PROVE  /\ some[4 * j - 3] = <<"first", tag>> /\ some[4 * j - 2] = <<"next", tag>>
             /\ some[4 * j - 1] = <<"rest", tag>> /\ some[4 * j] = Newline
  <2>1. /\ 4 * j - 3 \in 1 .. k /\ 4 * j - 2 \in 1 .. k
        /\ 4 * j - 1 \in 1 .. k /\ 4 * j \in 1 .. k /\ 4 * j <= Len(cells)
    BY <1>1, <1>4
  <2> QED
    BY <1>2, <2>1 DEF AreTokens
<1> QED
  BY <1>2, <1>3, <1>4 DEF AreTokens, some, Contents

LEMMA CountedIs ==
  ASSUME NEW f \in Contents
  PROVE  Counted(f) \in Nat
<1>1. CASE f = <<>>
  BY <1>1 DEF Counted
<1>2. CASE f # <<>>
  <2>1. f[1] \in Cell
    BY <1>2 DEF Contents
  <2> QED
    BY <2>1 DEF Counted, Cell
<1> QED
  BY <1>1, <1>2

\* A write that does not begin at byte 0 leaves the count as it is.
LEMMA CountedWriteBehind ==
  ASSUME NEW f \in Contents, NEW cells \in Contents, NEW at \in Nat \ {0}
  PROVE  Counted(WriteAt(f, cells, at)) = Counted(f)
<1> DEFINE g == WriteAt(f, cells, at)
<1>1. /\ g \in Seq(Cell)
      /\ Len(g) = IF Len(f) >= at + Len(cells) THEN Len(f) ELSE at + Len(cells)
      /\ \A k \in 1 .. Len(g) :
           g[k] = IF k - at \in 1 .. Len(cells) THEN cells[k - at]
                  ELSE IF k <= Len(f) THEN f[k] ELSE Zeros
  BY WriteAtIs DEF Contents
<1> HIDE DEF g
<1>2. Len(f) \in Nat /\ Len(cells) \in Nat /\ Len(g) \in Nat
  BY <1>1 DEF Contents
<1>3. ~ (1 - at \in 1 .. Len(cells)) /\ 1 <= Len(g)
  BY <1>1, <1>2
<1>4. g # <<>>
  BY <1>1, <1>3
<1>5. ASSUME f = <<>> PROVE Counted(g) = Counted(f)
  <2>1. g[1] = Zeros
    BY <1>1, <1>2, <1>3, <1>5
  <2> QED
    BY <2>1, <1>5, <1>4 DEF Counted, Zeros
<1>6. ASSUME f # <<>> PROVE Counted(g) = Counted(f)
  <2>1. Len(f) >= 1
    BY <1>6 DEF Contents
  <2>2. g[1] = f[1]
    BY <1>1, <1>2, <1>3, <2>1
  <2> QED
    BY <2>2, <1>4, <1>6 DEF Counted
<1> QED
  BY <1>5, <1>6 DEF g

\* A write of nothing at byte 0 changes nothing.
LEMMA WriteNothing ==
  ASSUME NEW f \in Contents
  PROVE  WriteAt(f, <<>>, 0) = f
<1>1. <<>> \in Contents /\ Len(<<>>) = 0
  BY DEF Contents
<1> DEFINE g == WriteAt(f, <<>>, 0)
<1>2. /\ g \in Contents
      /\ Len(g) = IF Len(f) >= 0 + Len(<<>>) THEN Len(f) ELSE 0 + Len(<<>>)
      /\ \A k \in 1 .. Len(g) :
           g[k] = IF k - 0 \in 1 .. Len(<<>>) THEN <<>>[k - 0]
                  ELSE IF k <= Len(f) THEN f[k] ELSE Zeros
  BY <1>1, WriteAtIs
<1> HIDE DEF g
<1>3. f \in Seq(Cell) /\ g \in Seq(Cell) /\ Len(f) \in Nat
  BY <1>2 DEF Contents
<1>4. Len(g) = Len(f) /\ \A k \in 1 .. Len(f) : g[k] = f[k]
  BY <1>1, <1>2, <1>3
<1>5. g = f
  BY <1>3, <1>4, SeqEqual
<1> QED
  BY <1>5 DEF g

\* The header counts what it says.
LEMMA CountedHeader ==
  ASSUME NEW f \in Contents, NEW n \in Nat
  PROVE  Counted(WriteAt(f, <<Count(n), Zeros>>, 0)) = n
<1> DEFINE cells == <<Count(n), Zeros>>
           g == WriteAt(f, cells, 0)
<1>1. cells \in Contents /\ Len(cells) = 2 /\ cells[1] = Count(n)
  BY CellTypes DEF Contents
<1> HIDE DEF cells
<1>2. /\ g \in Contents
      /\ Len(g) = IF Len(f) >= 0 + Len(cells) THEN Len(f) ELSE 0 + Len(cells)
      /\ \A k \in 1 .. Len(g) :
           g[k] = IF k - 0 \in 1 .. Len(cells) THEN cells[k - 0]
                  ELSE IF k <= Len(f) THEN f[k] ELSE Zeros
  BY <1>1, WriteAtIs, 0 \in Nat, ZenonT(60)
<1> HIDE DEF g
<1>3. g \in Seq(Cell) /\ Len(f) \in Nat /\ Len(g) >= 2
  BY <1>1, <1>2 DEF Contents
<1>4. g[1] = Count(n) /\ g # <<>>
  BY <1>1, <1>2, <1>3
<1>5. Counted(g) = n
  BY <1>4 DEF Counted, Count
<1> QED
  BY <1>5 DEF g, cells

-------------------------------------------------------------------------------
(* Batches. *)

LEMMA NoJobs == <<>> \in Jobs /\ DOMAIN <<>> = {}
<1>1. DOMAIN <<>> = {}
  OBVIOUS
<1>2. <<>> \in [{} -> Nat \ {0}]
  OBVIOUS
<1> QED
  BY <1>1, <1>2 DEF Jobs

LEMMA JobsAre ==
  ASSUME NEW jobs \in Jobs
  PROVE  /\ DOMAIN jobs \subseteq Cpus
         /\ \A k \in DOMAIN jobs : jobs[k] \in Nat \ {0}
         /\ IsFiniteSet(Units(jobs, DOMAIN jobs))
         /\ SumOf(jobs, DOMAIN jobs) \in Nat
<1>1. DOMAIN jobs \subseteq Cpus /\ \A k \in DOMAIN jobs : jobs[k] \in Nat \ {0}
  BY DEF Jobs
<1>2. IsFiniteSet(Cpus)
  BY FS_Interval, JwtCacheAssumption, 1 \in Int, NumCPU \in Int DEF Cpus
<1>3. IsFiniteSet(DOMAIN jobs)
  BY <1>1, <1>2, FS_Subset
<1>4. IsFiniteSet(Units(jobs, DOMAIN jobs))
  BY <1>1, <1>3, FiniteUnits
<1> QED
  BY <1>1, <1>4, SumType

\* The shares of a batch add up to it.
LEMMA SharesAddUp ==
  ASSUME NEW n \in Nat, NEW f, \A k \in Cpus : f[k] = Share(n, k)
  PROVE  IsFiniteSet(Units(f, Cpus)) /\ SumOf(f, Cpus) = n
<1> DEFINE q == n \div NumCPU
           r == n % NumCPU
           even == [k \in Cpus |-> q]
<1>0. NumCPU \in Nat \ {0}
  BY JwtCacheAssumption
<1>1. q \in Nat /\ r \in Nat /\ n = (NumCPU * q) + r
  BY <1>0
<1>2. IsFiniteSet(Cpus) /\ Cardinality(Cpus) = NumCPU
  <2>1. /\ IsFiniteSet(1 .. NumCPU)
        /\ Cardinality(1 .. NumCPU) = IF 1 > NumCPU THEN 0 ELSE NumCPU - 1 + 1
    BY <1>0, FS_Interval, 1 \in Int, NumCPU \in Int
  <2>2. (IF 1 > NumCPU THEN 0 ELSE NumCPU - 1 + 1) = NumCPU
    BY <1>0
  <2> QED
    BY <2>1, <2>2 DEF Cpus
<1>3. 1 \in Cpus
  BY <1>0 DEF Cpus
<1>4. /\ f[1] = q + r
      /\ \A k \in Cpus : k # 1 => f[k] = q
  BY <1>0, <1>1, <1>3 DEF Share
<1> HIDE DEF q, r
<1>5. \A k \in Cpus : even[k] = q
  OBVIOUS
<1> HIDE DEF even
<1>6. IsFiniteSet(Units(even, Cpus)) /\ SumOf(even, Cpus) = NumCPU * q
  BY <1>1, <1>2, <1>5, SumConstant
<1>7. even[1] \in Nat /\ f[1] \in Nat /\ \A k \in Cpus : k # 1 => f[k] = even[k]
  BY <1>1, <1>3, <1>4, <1>5
<1>8. /\ IsFiniteSet(Units(f, Cpus))
      /\ SumOf(f, Cpus) = SumOf(even, Cpus) + f[1] - even[1]
  BY <1>3, <1>6, <1>7, SumChange
<1> QED
  BY <1>0, <1>1, <1>3, <1>4, <1>5, <1>6, <1>8

\* Skipping the empty shares does not change the sum.
LEMMA SumSupport ==
  ASSUME NEW S, NEW T \in SUBSET S, NEW f, NEW g,
         \A x \in T : g[x] = f[x], \A x \in S \ T : f[x] = 0
  PROVE  SumOf(g, T) = SumOf(f, S)
<1>1. Units(g, T) = Units(f, S)
  <2>1. \A x \in S : x \in T \/ 1 .. f[x] = {}
    OBVIOUS
  <2> QED
    BY <2>1 DEF Units
<1> QED
  BY <1>1 DEF SumOf

LEMMA ReqIsNat ==
  ASSUME NEW r \in RunType
  PROVE  r.req \in Nat
<1>1. r.req \in Amounts \cup {0}
  BY DEF RunType
<1>2. Amounts \subseteq Nat /\ 0 \in Nat
  BY JwtCacheAssumption
<1> QED
  BY <1>1, <1>2

LEMMA LimitIs ==
  ASSUME NEW r \in RunType, ~ (r.mem >= r.req)
  PROVE  Limit(r) \in Nat /\ Limit(r) <= r.req - r.mem
<1>1. r.req \in Nat /\ r.mem \in Nat /\ BatchSize \in Nat
  BY ReqIsNat, JwtCacheAssumption DEF RunType
<1>2. r.req - r.mem \in Int /\ BatchSize \in Int
  BY <1>1
<1> QED
  BY <1>1, <1>2, MinOfTwo DEF Limit

\* The next batch, if there is one, never makes more than what is lacking.
LEMMA BatchGenSaveIs ==
  ASSUME NEW r \in RunType
  PROVE  LET b == BatchGenSave(r) IN
         /\ b \in RunType
         /\ b.pc = IF r.mem >= r.req THEN "get" ELSE "collect"
         /\ b.tag = r.tag /\ b.req = r.req /\ b.alone = r.alone
         /\ b.retrying = r.retrying /\ b.fd = r.fd /\ b.mem = r.mem
         /\ b.saving = r.saving /\ b.at = r.at
         /\ b.pc = "collect" => b.mem + SumOf(b.jobs, DOMAIN b.jobs) <= b.req
<1> DEFINE b == BatchGenSave(r)
<1>1. CASE r.mem >= r.req
  <2>1. b = [r EXCEPT !.pc = "get"]
    BY <1>1 DEF BatchGenSave
  <2> QED
    BY <1>1, <2>1 DEF RunType, Opened
<1>2. CASE ~ (r.mem >= r.req)
  <2> DEFINE some == {c \in Cpus : Share(Limit(r), c) # 0}
             jobs == [k \in some |-> Share(Limit(r), k)]
             all  == [k \in Cpus |-> Share(Limit(r), k)]
  <2>1. b = [r EXCEPT !.pc = "collect", !.jobs = jobs]
    BY <1>2 DEF BatchGenSave
  <2>2. Limit(r) \in Nat /\ Limit(r) <= r.req - r.mem
    BY <1>2, LimitIs
  <2>3. SumOf(all, Cpus) = Limit(r)
    BY <2>2, SharesAddUp
  <2>4. SumOf(jobs, some) = SumOf(all, Cpus)
    <3>1. some \in SUBSET Cpus /\ \A x \in some : jobs[x] = all[x]
      OBVIOUS
    <3>2. \A x \in Cpus \ some : all[x] = 0
      OBVIOUS
    <3> HIDE DEF some, jobs, all
    <3> QED
      BY <3>1, <3>2, SumSupport
  <2>5. jobs \in Jobs /\ DOMAIN jobs = some
    <3>1. \A k \in Cpus : Share(Limit(r), k) \in Nat
      BY <2>2, JwtCacheAssumption DEF Share
    <3>2. some \in SUBSET Cpus /\ jobs \in [some -> Nat \ {0}] /\ DOMAIN jobs = some
      BY <3>1
    <3> HIDE DEF some, jobs
    <3> QED
      BY <3>2 DEF Jobs
  <2> HIDE DEF some, jobs, all
  <2>6. b \in RunType
    BY <2>1, <2>5 DEF RunType, Opened, Generating
  <2>7. /\ b.pc = "collect" /\ b.jobs = jobs
        /\ b.tag = r.tag /\ b.req = r.req /\ b.alone = r.alone
        /\ b.retrying = r.retrying /\ b.fd = r.fd /\ b.mem = r.mem
        /\ b.saving = r.saving /\ b.at = r.at
    BY <2>1 DEF RunType
  <2>8. r.mem \in Nat /\ r.req \in Nat
    BY ReqIsNat DEF RunType
  <2> HIDE DEF b
  <2>9. b.mem + SumOf(b.jobs, DOMAIN b.jobs) <= b.req
    BY <2>2, <2>3, <2>4, <2>5, <2>7, <2>8
  <2> QED
    BY <1>2, <2>6, <2>7, <2>9 DEF b
<1> QED
  BY <1>1, <1>2

-------------------------------------------------------------------------------
(* What each step does to the runs. *)

\* Only the run of p changes, and it keeps what it is about.
Others(p) == \A q \in Procs : q # p => run'[q] = run[q]

Same(p) ==
  /\ run'[p].tag = run[p].tag /\ run'[p].req = run[p].req
  /\ run'[p].alone = run[p].alone

LEMMA NoRunIs ==
  /\ NoRun \in RunType
  /\ NoRun.pc = "ended" /\ NoRun.saving = 0 /\ NoRun.fd = 0 /\ NoRun.alone = TRUE
<1>1. <<>> \in Jobs
  BY NoJobs
<1> QED
  BY <1>1 DEF NoRun, RunType

LEMMA RunBecomes ==
  ASSUME run \in [Procs -> RunType], NEW p \in Procs, NEW r \in RunType,
         run' = [run EXCEPT ![p] = r]
  PROVE  run' \in [Procs -> RunType] /\ run'[p] = r /\ Others(p)
  BY DEF Others

LEMMA EndDoes ==
  ASSUME Types, NEW p \in Procs, End(p)
  PROVE  run' \in [Procs -> RunType] /\ run'[p] = NoRun /\ Others(p)
<1>1. run' = [run EXCEPT ![p] = NoRun] /\ run \in [Procs -> RunType]
  BY DEF End, Types
<1> QED
  BY <1>1, NoRunIs, RunBecomes

LEMMA GotoDoes ==
  ASSUME Types, NEW p \in Procs, NEW pc \in {"open", "ended"} \cup Opened, Goto(p, pc)
  PROVE  /\ run' \in [Procs -> RunType] /\ Others(p) /\ Same(p)
         /\ run'[p].pc = pc
         /\ run'[p].fd = run[p].fd /\ run'[p].mem = run[p].mem /\ run'[p].at = run[p].at
         /\ run'[p].jobs = run[p].jobs /\ run'[p].saving = run[p].saving
<1> DEFINE r == [run[p] EXCEPT !.pc = pc]
<1>1. run[p] \in RunType /\ run \in [Procs -> RunType]
  BY DEF Types
<1>2. run' = [run EXCEPT ![p] = r]
  BY <1>1 DEF Goto
<1>3. r \in RunType
  BY <1>1 DEF RunType
<1>4. /\ r.pc = pc /\ r.fd = run[p].fd /\ r.mem = run[p].mem /\ r.at = run[p].at
      /\ r.jobs = run[p].jobs /\ r.saving = run[p].saving
      /\ r.tag = run[p].tag /\ r.req = run[p].req /\ r.alone = run[p].alone
  BY <1>1 DEF RunType
<1> HIDE DEF r
<1> QED
  BY <1>1, <1>2, <1>3, <1>4, RunBecomes DEF Same

LEMMA StartRunDoes ==
  ASSUME Types, NEW p \in Procs, NEW n \in Amounts, StartRun(p, n)
  PROVE  /\ run' \in [Procs -> RunType]
         /\ run'[p].pc = "open" /\ run'[p].saving = 0 /\ run'[p].fd = 0
         /\ run'[p].req = n /\ run'[p].tag = runs + 1 /\ runs < MaxRuns
         /\ shared' = (shared \/ \E q \in Procs : Active(q))
         /\ run'[p].alone <=> \A q \in Procs : q # p => ~Active(q)
         /\ \A q \in Procs : q # p =>
              /\ run'[q] = IF Active(q) THEN [run[q] EXCEPT !.alone = FALSE] ELSE run[q]
              /\ run'[q].pc = run[q].pc /\ run'[q].fd = run[q].fd
              /\ run'[q].mem = run[q].mem /\ run'[q].saving = run[q].saving
              /\ run'[q].jobs = run[q].jobs /\ run'[q].req = run[q].req
              /\ run'[q].at = run[q].at /\ run'[q].tag = run[q].tag
              /\ run'[q].alone => run[q].alone /\ ~Active(q)
<1> DEFINE beside == {q \in Procs : Active(q)}
           new == [NoRun EXCEPT !.pc = "open", !.tag = runs', !.req = n,
                                !.alone = beside = {}]
           old(q) == IF q \in beside THEN [run[q] EXCEPT !.alone = FALSE] ELSE run[q]
<1>1. run' = [q \in Procs |-> IF q = p THEN new ELSE old(q)]
  BY DEF StartRun
<1>2. ~Active(p) /\ runs' = runs + 1 /\ runs \in Nat /\ runs < MaxRuns
  BY DEF StartRun, Types
<1>3. /\ new \in RunType /\ new.pc = "open" /\ new.saving = 0 /\ new.fd = 0
      /\ new.req = n /\ new.alone = (beside = {}) /\ new.tag = runs + 1
  <2>1. NoRun \in RunType /\ NoRun.saving = 0 /\ NoRun.fd = 0
    BY NoRunIs
  <2>2. (beside = {}) \in BOOLEAN /\ runs' \in Nat /\ n \in Amounts \cup {0}
    BY <1>2
  <2> HIDE DEF beside
  <2> QED
    BY <1>2, <2>1, <2>2 DEF RunType
<1>4. \A q \in Procs :
        /\ old(q) \in RunType
        /\ old(q).pc = run[q].pc /\ old(q).fd = run[q].fd
        /\ old(q).mem = run[q].mem /\ old(q).saving = run[q].saving
        /\ old(q).jobs = run[q].jobs /\ old(q).req = run[q].req
        /\ old(q).at = run[q].at /\ old(q).tag = run[q].tag
        /\ old(q).alone => run[q].alone /\ q \notin beside
  <2> SUFFICES ASSUME NEW q \in Procs
               PROVE  /\ old(q) \in RunType
                      /\ old(q).pc = run[q].pc /\ old(q).fd = run[q].fd
                      /\ old(q).mem = run[q].mem /\ old(q).saving = run[q].saving
                      /\ old(q).jobs = run[q].jobs /\ old(q).req = run[q].req
                      /\ old(q).at = run[q].at /\ old(q).tag = run[q].tag
                      /\ old(q).alone => run[q].alone /\ q \notin beside
    OBVIOUS
  <2>1. run[q] \in RunType
    BY DEF Types
  <2>2. CASE q \in beside
    BY <2>1, <2>2 DEF RunType
  <2>3. CASE q \notin beside
    BY <2>1, <2>3 DEF RunType
  <2> QED
    BY <2>2, <2>3
<1>5. beside = {} <=> \A q \in Procs : q # p => ~Active(q)
  BY <1>2
<1>6. \A q \in Procs : q \in beside <=> Active(q)
  OBVIOUS
<1>a. shared' = (shared \/ \E q \in Procs : Active(q))
  BY DEF StartRun, Types
<1>7. \A q \in Procs : old(q) = IF Active(q) THEN [run[q] EXCEPT !.alone = FALSE] ELSE run[q]
  BY <1>6
<1> HIDE DEF new, old, beside
<1>8. run'[p] = new /\ \A q \in Procs : q # p => run'[q] = old(q)
  BY <1>1
<1>9. run' \in [Procs -> RunType]
  BY <1>1, <1>3, <1>4
<1>10. ASSUME NEW q \in Procs, q # p
       PROVE  /\ run'[q] = IF Active(q) THEN [run[q] EXCEPT !.alone = FALSE] ELSE run[q]
              /\ run'[q].pc = run[q].pc /\ run'[q].fd = run[q].fd
              /\ run'[q].mem = run[q].mem /\ run'[q].saving = run[q].saving
              /\ run'[q].jobs = run[q].jobs /\ run'[q].req = run[q].req
              /\ run'[q].at = run[q].at /\ run'[q].tag = run[q].tag
              /\ run'[q].alone => run[q].alone /\ ~Active(q)
  <2>1. run'[q] = old(q)
    BY <1>8, <1>10
  <2> QED
    BY <2>1, <1>4, <1>6, <1>7
<1>11. run'[p].alone <=> \A q \in Procs : q # p => ~Active(q)
  BY <1>3, <1>5, <1>8
<1> QED
  BY <1>2, <1>3, <1>a, <1>8, <1>9, <1>10, <1>11

LEMMA OpenDoes ==
  ASSUME Types, NEW p \in Procs, Open(p)
  PROVE  /\ run' \in [Procs -> RunType] /\ Others(p) /\ Same(p)
         /\ run'[p].pc = "read" /\ run'[p].fd = dir' /\ run'[p].saving = run[p].saving
         /\ disk' \in Seq(Contents) /\ Len(disk') >= Len(disk)
         /\ dir' \in 1 .. Len(disk') /\ (dir # 0 => dir' = dir)
         /\ \A f \in 1 .. Len(disk) : disk'[f] = disk[f]
         /\ \A f \in 1 .. Len(disk') : f > Len(disk) => disk'[f] = <<>>
         /\ dir = 0 => dir' > Len(disk)
<1>1. /\ disk' \in Seq(Contents) /\ Len(disk') >= Len(disk)
      /\ dir' \in 1 .. Len(disk') /\ (dir # 0 => dir' = dir)
      /\ \A f \in 1 .. Len(disk) : disk'[f] = disk[f]
      /\ \A f \in 1 .. Len(disk') : f > Len(disk) => disk'[f] = <<>>
      /\ dir = 0 => dir' > Len(disk)
  <2>1. CASE dir = 0
    <3>1. disk' = Append(disk, <<>>) /\ dir' = Len(disk')
      BY <2>1 DEF Open
    <3>2. <<>> \in Contents /\ disk \in Seq(Contents)
      BY DEF Contents, Types
    <3> QED
      BY <2>1, <3>1, <3>2
  <2>2. CASE dir # 0
    BY <2>2 DEF Open, Types
  <2> QED
    BY <2>1, <2>2
<1> DEFINE r == [run[p] EXCEPT !.pc = "read", !.fd = dir']
<1>2. run[p] \in RunType /\ run \in [Procs -> RunType]
  BY DEF Types
<1>3. run' = [run EXCEPT ![p] = r]
  BY <1>2 DEF Open
<1>4. dir' \in Nat
  BY <1>1
<1>5. /\ r \in RunType /\ r.pc = "read" /\ r.fd = dir' /\ r.saving = run[p].saving
      /\ r.tag = run[p].tag /\ r.req = run[p].req /\ r.alone = run[p].alone
  BY <1>2, <1>4 DEF RunType, Opened
<1> HIDE DEF r
<1>6. run' \in [Procs -> RunType] /\ run'[p] = r /\ Others(p)
  BY <1>2, <1>3, <1>5, RunBecomes
<1> QED
  BY <1>1, <1>5, <1>6 DEF Same

LEMMA FileIs ==
  ASSUME Types, NEW p \in Procs, run[p].pc \in Opened
  PROVE  /\ run[p].fd \in 1 .. Len(disk) /\ DOMAIN disk = 1 .. Len(disk)
         /\ File(p) \in Contents /\ File(p) = disk[run[p].fd]
<1>1. /\ run[p].fd \in Nat /\ run[p].fd # 0 /\ run[p].fd <= Len(disk)
      /\ disk \in Seq(Contents)
  BY DEF Types, RunType
<1> QED
  BY <1>1 DEF File

LEMMA ReadDoes ==
  ASSUME Types, NEW p \in Procs, Read(p), run[p].saving = 0
  PROVE  /\ run' \in [Procs -> RunType] /\ Others(p) /\ Same(p)
         /\ run'[p].mem = Counted(File(p)) /\ run'[p].saving = 0
         /\ run'[p].fd = run[p].fd
         /\ \/ run'[p].pc = "get" /\ run'[p].mem >= run'[p].req
            \/ /\ run'[p].pc = "collect"
               /\ run'[p].mem + SumOf(run'[p].jobs, DOMAIN run'[p].jobs) <= run'[p].req
         /\ UNCHANGED <<disk, dir, runs, shared, crashes, others>>
<1> DEFINE r == [run[p] EXCEPT !.mem = Counted(File(p))]
           b == BatchGenSave(r)
<1>1. run[p] \in RunType /\ run \in [Procs -> RunType]
  BY DEF Types
<1>2. Counted(File(p)) \in Nat
  BY FileIs, CountedIs DEF Read, Opened
<1>3. /\ r \in RunType /\ r.mem = Counted(File(p)) /\ r.saving = 0 /\ r.fd = run[p].fd
      /\ r.tag = run[p].tag /\ r.req = run[p].req /\ r.alone = run[p].alone
  BY <1>1, <1>2 DEF RunType
<1>4. run' = [run EXCEPT ![p] = b] /\ UNCHANGED <<disk, dir, runs, shared, crashes, others>>
  BY DEF Read
<1> HIDE DEF r
<1>5. /\ b \in RunType
      /\ b.pc = IF r.mem >= r.req THEN "get" ELSE "collect"
      /\ b.tag = r.tag /\ b.req = r.req /\ b.alone = r.alone /\ b.fd = r.fd /\ b.mem = r.mem
      /\ b.saving = r.saving
      /\ b.pc = "collect" => b.mem + SumOf(b.jobs, DOMAIN b.jobs) <= b.req
  BY <1>3, BatchGenSaveIs
<1> HIDE DEF b
<1>6. run' \in [Procs -> RunType] /\ run'[p] = b /\ Others(p)
  BY <1>1, <1>4, <1>5, RunBecomes
<1> QED
  BY <1>3, <1>4, <1>5, <1>6 DEF Same

LEMMA BatchDoneDoes ==
  ASSUME Types, NEW p \in Procs, BatchDone(p)
  PROVE  /\ run' \in [Procs -> RunType] /\ Others(p) /\ Same(p)
         /\ run'[p].mem = run[p].mem /\ run'[p].saving = run[p].saving
         /\ run'[p].fd = run[p].fd
         /\ \/ run'[p].pc = "get" /\ run'[p].mem >= run'[p].req
            \/ /\ run'[p].pc = "collect"
               /\ run'[p].mem + SumOf(run'[p].jobs, DOMAIN run'[p].jobs) <= run'[p].req
         /\ UNCHANGED <<disk, dir, runs, shared, crashes, others>>
<1> DEFINE b == BatchGenSave(run[p])
<1>1. run[p] \in RunType /\ run \in [Procs -> RunType] /\ run[p].req \in Nat
  BY ReqIsNat DEF Types
<1>2. UNCHANGED <<disk, dir, runs, shared, crashes, others>>
  BY DEF BatchDone
<1>3. CASE AllGenerated(p)
  <2>1. Goto(p, "get") /\ "get" \in {"open", "ended"} \cup Opened
    BY <1>3 DEF BatchDone, Opened
  <2> HIDE DEF b
  <2>2. /\ run' \in [Procs -> RunType] /\ Others(p) /\ Same(p)
        /\ run'[p].pc = "get"
        /\ run'[p].fd = run[p].fd /\ run'[p].mem = run[p].mem
        /\ run'[p].saving = run[p].saving
    BY <2>1, GotoDoes
  <2>3. run[p].mem >= run[p].req
    BY <1>1, <1>3 DEF AllGenerated
  <2> QED
    BY <1>2, <2>2, <2>3 DEF Same
<1>4. CASE ~AllGenerated(p)
  <2>1. run' = [run EXCEPT ![p] = b]
    BY <1>4 DEF BatchDone
  <2>2. /\ b \in RunType
        /\ b.pc = IF run[p].mem >= run[p].req THEN "get" ELSE "collect"
        /\ b.tag = run[p].tag /\ b.req = run[p].req /\ b.alone = run[p].alone /\ b.fd = run[p].fd
        /\ b.mem = run[p].mem /\ b.saving = run[p].saving
        /\ b.pc = "collect" => b.mem + SumOf(b.jobs, DOMAIN b.jobs) <= b.req
    BY <1>1, BatchGenSaveIs
  <2> HIDE DEF b
  <2>3. run' \in [Procs -> RunType] /\ run'[p] = b /\ Others(p)
    BY <1>1, <2>1, <2>2, RunBecomes
  <2> QED
    BY <1>2, <2>2, <2>3 DEF Same
<1> QED
  BY <1>3, <1>4

LEMMA EndOfIs ==
  ASSUME NEW f \in Contents
  PROVE  /\ EndOf(f) \in Nat \ {0} /\ EndOf(f) >= Len(f) /\ Len(f) \in Nat
         /\ f # <<>> => EndOf(f) = Len(f)
<1>1. Len(f) \in Nat /\ (f # <<>> => Len(f) # 0) /\ Len(<<>>) = 0
  BY DEF Contents
<1> QED
  BY <1>1 DEF EndOf

LEMMA CollectDoes ==
  ASSUME Types, NEW p \in Procs, NEW k \in Cpus, Collect(p, k)
  PROVE  /\ run' \in [Procs -> RunType] /\ Others(p) /\ Same(p)
         /\ run'[p].pc = "tokens" /\ run'[p].mem = run[p].mem /\ run'[p].fd = run[p].fd
         /\ run'[p].at = EndOf(File(p)) /\ run'[p].saving # 0
         /\ SumOf(run[p].jobs, DOMAIN run[p].jobs) =
              SumOf(run'[p].jobs, DOMAIN run'[p].jobs) + run'[p].saving
<1> DEFINE jobs == run[p].jobs
           rest == [c \in DOMAIN jobs \ {k} |-> jobs[c]]
           r == [run[p] EXCEPT !.pc = "tokens", !.saving = jobs[k],
                               !.at = EndOf(File(p)), !.jobs = rest]
<1>1. run[p] \in RunType /\ run \in [Procs -> RunType] /\ jobs \in Jobs
  BY DEF Types, RunType
<1>2. k \in DOMAIN jobs /\ run[p].pc = "collect"
  BY DEF Collect
<1>3. EndOf(File(p)) \in Nat
  BY <1>2, FileIs, EndOfIs DEF Opened, Generating
<1>4. run' = [run EXCEPT ![p] = r]
  BY <1>1 DEF Collect
<1> HIDE DEF jobs
<1>5. /\ DOMAIN jobs \subseteq Cpus /\ \A c \in DOMAIN jobs : jobs[c] \in Nat \ {0}
      /\ IsFiniteSet(Units(jobs, DOMAIN jobs))
  BY <1>1, JobsAre
<1>6. rest \in Jobs /\ DOMAIN rest = DOMAIN jobs \ {k}
  <2>1. DOMAIN jobs \ {k} \in SUBSET Cpus /\ rest \in [DOMAIN jobs \ {k} -> Nat \ {0}]
    BY <1>5
  <2> HIDE DEF rest
  <2> QED
    BY <2>1 DEF Jobs
<1>7. SumOf(jobs, DOMAIN jobs) = SumOf(rest, DOMAIN rest) + jobs[k]
  <2>1. SumOf(jobs, DOMAIN jobs) = SumOf(jobs, DOMAIN jobs \ {k}) + jobs[k]
    BY <1>2, <1>5, SumRemove
  <2>2. SumOf(jobs, DOMAIN jobs \ {k}) = SumOf(rest, DOMAIN jobs \ {k})
    <3>1. \A c \in DOMAIN jobs \ {k} : jobs[c] = rest[c]
      OBVIOUS
    <3> HIDE DEF rest
    <3> QED
      BY <3>1, SumSame
  <2> QED
    BY <1>6, <2>1, <2>2
<1> HIDE DEF rest
<1>8. jobs[k] \in Nat \ {0}
  BY <1>2, <1>5
<1>9. /\ r \in RunType /\ r.pc = "tokens" /\ r.mem = run[p].mem /\ r.fd = run[p].fd
      /\ r.at = EndOf(File(p)) /\ r.jobs = rest /\ r.saving = jobs[k]
      /\ r.tag = run[p].tag /\ r.req = run[p].req /\ r.alone = run[p].alone
  BY <1>1, <1>3, <1>6, <1>8 DEF RunType, Opened, Generating, Saving
<1> HIDE DEF r
<1>10. run' \in [Procs -> RunType] /\ run'[p] = r /\ Others(p)
  BY <1>1, <1>4, <1>9, RunBecomes
<1> QED
  BY <1>7, <1>8, <1>9, <1>10 DEF Same, jobs

(* What the writes do to the files. *)

\* Only p's file changes, to g.
FileBecomes(p, g) ==
  /\ disk' \in Seq(Contents) /\ Len(disk') = Len(disk)
  /\ disk'[run[p].fd] = g
  /\ \A f \in 1 .. Len(disk) : f # run[p].fd => disk'[f] = disk[f]

LEMMA WriteDoes ==
  ASSUME Types, NEW p \in Procs, run[p].pc \in Opened,
         NEW cells \in Contents, NEW at \in Nat, Write(p, cells, at)
  PROVE  FileBecomes(p, WriteAt(File(p), cells, at))
<1> DEFINE g == WriteAt(File(p), cells, at)
<1>1. run[p].fd \in 1 .. Len(disk) /\ File(p) \in Contents
  BY FileIs
<1>2. g \in Contents
  BY <1>1, WriteAtIs
<1>3. disk' = [disk EXCEPT ![run[p].fd] = g] /\ disk \in Seq(Contents)
  BY DEF Write, Types
<1> HIDE DEF g
<1>4. disk' \in Seq(Contents) /\ Len(disk') = Len(disk)
  BY <1>1, <1>2, <1>3
<1>5. /\ disk'[run[p].fd] = g
      /\ \A f \in 1 .. Len(disk) : f # run[p].fd => disk'[f] = disk[f]
  BY <1>1, <1>3
<1> QED
  BY <1>4, <1>5 DEF FileBecomes, g

LEMMA RunValues ==
  ASSUME Types, NEW p \in Procs
  PROVE  /\ run[p].tag \in Nat /\ run[p].req \in Nat /\ run[p].mem \in Nat
         /\ run[p].saving \in Nat /\ run[p].at \in Nat /\ run[p].fd \in Nat
         /\ run[p].jobs \in Jobs /\ run[p] \in RunType /\ run \in [Procs -> RunType]
         /\ NewCount(p) \in Nat /\ NewCount(p) = run[p].mem + run[p].saving
<1>1. run[p] \in RunType /\ run \in [Procs -> RunType]
  BY DEF Types
<1>2. run[p].req \in Nat
  BY <1>1, ReqIsNat
<1> QED
  BY <1>1, <1>2 DEF RunType, NewCount

LEMMA NewTokensAre ==
  ASSUME Types, NEW p \in Procs
  PROVE  /\ NewTokens(p) \in Contents
         /\ Len(NewTokens(p)) = 4 * run[p].saving
         /\ AreTokens(NewTokens(p), run[p].tag)
  BY RunValues, TokensAre DEF NewTokens

LEMMA SaveTokensDoes ==
  ASSUME Types, NEW p \in Procs, SaveTokens(p)
  PROVE  /\ run' \in [Procs -> RunType] /\ Others(p) /\ Same(p)
         /\ run'[p].pc = "count"
         /\ run'[p].fd = run[p].fd /\ run'[p].mem = run[p].mem
         /\ run'[p].jobs = run[p].jobs /\ run'[p].saving = run[p].saving
         /\ FileBecomes(p, WriteAt(File(p), NewTokens(p), run[p].at))
         /\ UNCHANGED <<dir, runs, shared, crashes, others>>
<1>1. /\ run[p].pc \in Opened /\ Write(p, NewTokens(p), run[p].at)
      /\ Goto(p, "count") /\ "count" \in {"open", "ended"} \cup Opened
      /\ UNCHANGED <<dir, runs, shared, crashes, others>>
  BY DEF SaveTokens, Opened, Generating, Saving
<1>2. FileBecomes(p, WriteAt(File(p), NewTokens(p), run[p].at))
  BY <1>1, NewTokensAre, RunValues, WriteDoes
<1> QED
  BY <1>1, <1>2, GotoDoes

LEMMA SaveCountDoes ==
  ASSUME Types, NEW p \in Procs, SaveCount(p)
  PROVE  /\ run' \in [Procs -> RunType] /\ Others(p) /\ Same(p)
         /\ run'[p].pc = "newline"
         /\ run'[p].fd = run[p].fd /\ run'[p].mem = run[p].mem
         /\ run'[p].jobs = run[p].jobs /\ run'[p].saving = run[p].saving
         /\ FileBecomes(p, WriteAt(File(p), <<Count(NewCount(p)), Zeros>>, 0))
         /\ UNCHANGED <<dir, runs, shared, crashes, others>>
<1>1. /\ run[p].pc \in Opened /\ Write(p, <<Count(NewCount(p)), Zeros>>, 0)
      /\ Goto(p, "newline") /\ "newline" \in {"open", "ended"} \cup Opened
      /\ UNCHANGED <<dir, runs, shared, crashes, others>>
  BY DEF SaveCount, Opened, Generating, Saving
<1>2. <<Count(NewCount(p)), Zeros>> \in Contents
  BY RunValues, CellTypes DEF Contents
<1>3. 0 \in Nat
  OBVIOUS
<1>4. FileBecomes(p, WriteAt(File(p), <<Count(NewCount(p)), Zeros>>, 0))
  BY <1>1, <1>2, <1>3, WriteDoes
<1> QED
  BY <1>1, <1>4, GotoDoes

LEMMA SaveNewlineDoes ==
  ASSUME Types, NEW p \in Procs, SaveNewline(p)
  PROVE  /\ run' \in [Procs -> RunType] /\ Others(p) /\ Same(p)
         /\ run'[p].pc = "collect"
         /\ run'[p].fd = run[p].fd /\ run'[p].mem = NewCount(p)
         /\ run'[p].jobs = run[p].jobs /\ run'[p].saving = 0
         /\ FileBecomes(p, WriteAt(File(p), <<Newline>>, 2))
         /\ UNCHANGED <<dir, runs, shared, crashes, others>>
<1> DEFINE n == NewCount(p)
           r == [run[p] EXCEPT !.pc = "collect", !.mem = n, !.saving = 0, !.at = 0]
<1>1. /\ run[p].pc \in Opened /\ Write(p, <<Newline>>, 2)
      /\ UNCHANGED <<dir, runs, shared, crashes, others>>
  BY DEF SaveNewline, Opened, Generating, Saving
<1>2. <<Newline>> \in Contents
  BY CellTypes DEF Contents
<1>3. 2 \in Nat
  OBVIOUS
<1>4. FileBecomes(p, WriteAt(File(p), <<Newline>>, 2))
  BY <1>1, <1>2, <1>3, WriteDoes
<1>5. n \in Nat /\ run[p] \in RunType /\ run \in [Procs -> RunType]
  BY RunValues
<1>6. run' = [run EXCEPT ![p] = r]
  BY <1>5 DEF SaveNewline
<1> HIDE DEF n
<1>7. /\ r \in RunType /\ r.pc = "collect" /\ r.mem = n /\ r.fd = run[p].fd
      /\ r.jobs = run[p].jobs /\ r.saving = 0
      /\ r.tag = run[p].tag /\ r.req = run[p].req /\ r.alone = run[p].alone
  BY <1>5 DEF RunType, Opened, Generating
<1> HIDE DEF r
<1>8. run' \in [Procs -> RunType] /\ run'[p] = r /\ Others(p)
  BY <1>5, <1>6, <1>7, RunBecomes
<1> QED
  BY <1>1, <1>4, <1>7, <1>8 DEF Same, n

\* A crash leaves the disk alone, or the beginning of the tokens in p's file.
LEMMA CrashDoes ==
  ASSUME Types, NEW p \in Procs, Crash(p)
  PROVE  /\ run' \in [Procs -> RunType] /\ Others(p) /\ run'[p] = NoRun
         /\ \/ disk' = disk
            \/ /\ run[p].pc = "tokens"
               /\ \E cells \in Contents :
                    /\ AreTokens(cells, run[p].tag)
                    /\ FileBecomes(p, WriteAt(File(p), cells, run[p].at))
         /\ crashes' = crashes + 1 /\ crashes + others < MaxMishaps
         /\ UNCHANGED <<dir, runs, shared, others>>
<1>1. /\ End(p) /\ crashes' = crashes + 1 /\ crashes + others < MaxMishaps
      /\ UNCHANGED <<dir, runs, shared, others>>
  BY DEF Crash, CanMishap
<1>2. \/ disk' = disk
      \/ /\ run[p].pc = "tokens"
         /\ \E cells \in Contents :
              /\ AreTokens(cells, run[p].tag)
              /\ FileBecomes(p, WriteAt(File(p), cells, run[p].at))
  <2>1. CASE run[p].pc # "tokens"
    BY <2>1 DEF Crash
  <2>2. CASE run[p].pc = "tokens"
    <3>1. PICK k \in 0 .. Len(NewTokens(p)) - 1 :
            Write(p, SubSeq(NewTokens(p), 1, k), IF k = 0 THEN 0 ELSE run[p].at)
      BY <2>2 DEF Crash
    <3> DEFINE cells == SubSeq(NewTokens(p), 1, k)
    <3>2. NewTokens(p) \in Seq(Cell) /\ Len(NewTokens(p)) \in Nat
      BY NewTokensAre DEF Contents
    <3>3. cells \in Contents /\ AreTokens(cells, run[p].tag)
      <4>1. k \in 0 .. Len(NewTokens(p))
        BY <3>2
      <4> QED
        BY <4>1, NewTokensAre, TokensCutShort
    <3>4. run[p].pc \in Opened /\ run[p].at \in Nat
      BY <2>2, RunValues DEF Opened, Generating, Saving
    <3>5. CASE k = 0
      <4>1. cells = <<>>
        BY <3>2, <3>5
      <4>2. Write(p, <<>>, 0) /\ File(p) \in Contents
        BY <3>1, <3>4, <3>5, <4>1, FileIs
      <4>3. disk' = [disk EXCEPT ![run[p].fd] = File(p)]
        BY <4>2, WriteNothing DEF Write
      <4>4. disk \in Seq(Contents) /\ run[p].fd \in 1 .. Len(disk)
        BY <3>4, FileIs DEF Types
      <4> QED
        BY <4>3, <4>4 DEF File
    <3>6. CASE k # 0
      <4> HIDE DEF cells
      <4>1. Write(p, cells, run[p].at)
        BY <3>1, <3>6 DEF cells
      <4> QED
        BY <2>2, <3>3, <3>4, <4>1, WriteDoes
    <3> QED
      BY <3>5, <3>6
  <2> QED
    BY <2>1, <2>2
<1> QED
  BY <1>1, <1>2, EndDoes

LEMMA CorruptDoes ==
  ASSUME Types, NEW p \in Procs, Corrupt(p)
  PROVE  /\ run' \in [Procs -> RunType] /\ Others(p)
         /\ \/ run'[p] = NoRun
            \/ /\ run'[p].pc = "remove" /\ Same(p)
               /\ run'[p].fd = run[p].fd /\ run'[p].saving = run[p].saving
         /\ UNCHANGED <<disk, dir, runs, shared, crashes, others>>
<1>1. "remove" \in {"open", "ended"} \cup Opened
  BY DEF Opened
<1> QED
  BY <1>1, EndDoes, GotoDoes DEF Corrupt

LEMMA RemoveFileDoes ==
  ASSUME Types, NEW p \in Procs, RemoveFile(p)
  PROVE  /\ run' \in [Procs -> RunType] /\ Others(p)
         /\ \/ run'[p] = NoRun
            \/ /\ run'[p].pc = "open" /\ Same(p)
               /\ run'[p].fd = run[p].fd /\ run'[p].saving = run[p].saving
         /\ dir' = 0
         /\ UNCHANGED <<disk, runs, shared, crashes, others>>
<1> DEFINE r == [run[p] EXCEPT !.pc = "open", !.retrying = TRUE]
<1>1. dir' = 0 /\ UNCHANGED <<disk, runs, shared, crashes, others>>
  BY DEF RemoveFile
<1>2. CASE dir = 0
  BY <1>1, <1>2, EndDoes DEF RemoveFile
<1>3. CASE dir # 0
  <2>1. run[p] \in RunType /\ run \in [Procs -> RunType]
    BY RunValues
  <2>2. run' = [run EXCEPT ![p] = r]
    BY <1>3, <2>1 DEF RemoveFile
  <2>3. /\ r \in RunType /\ r.pc = "open" /\ r.fd = run[p].fd
        /\ r.saving = run[p].saving
        /\ r.tag = run[p].tag /\ r.req = run[p].req /\ r.alone = run[p].alone
    BY <2>1 DEF RunType
  <2> HIDE DEF r
  <2>4. run' \in [Procs -> RunType] /\ run'[p] = r /\ Others(p)
    BY <2>1, <2>2, <2>3, RunBecomes
  <2> QED
    BY <1>1, <2>3, <2>4 DEF Same
<1> QED
  BY <1>2, <1>3

-------------------------------------------------------------------------------
(* Types, and batches that add up, in every behaviour. *)

\* What a run has, what it is saving and what its workers still make are together
\* no more than it was asked for, which is something.
Fits(r) ==
  /\ r.pc \in Generating => r.mem + r.saving + SumOf(r.jobs, DOMAIN r.jobs) <= r.req
  /\ r.pc \in Saving <=> r.saving # 0
  /\ r.pc = "get" => r.mem >= r.req
  /\ r.pc # "ended" => r.req \in Amounts /\ r.tag \in 1 .. MaxRuns

Batches == \A p \in Procs : Fits(run[p])

CacheInv == Types /\ Batches

LEMMA MoreFiles ==
  ASSUME Types, NEW p \in Procs, run' \in [Procs -> RunType], Others(p),
         disk' \in Seq(Contents), Len(disk') >= Len(disk), dir' \in 0 .. Len(disk'),
         run'[p].fd <= Len(disk'), run'[p].pc \in Opened => run'[p].fd # 0,
         runs' = runs, shared' = shared, crashes' \in Nat, others' \in Nat, crashes' + others' <= MaxMishaps
  PROVE  Types'
<1>1. \A q \in Procs : /\ run'[q].fd <= Len(disk')
                       /\ run'[q].pc \in Opened => run'[q].fd # 0
  <2> SUFFICES ASSUME NEW q \in Procs, q # p
               PROVE  /\ run'[q].fd <= Len(disk')
                      /\ run'[q].pc \in Opened => run'[q].fd # 0
    OBVIOUS
  <2>1. run'[q] = run[q] /\ run[q].fd <= Len(disk) /\ run[q].fd \in Nat
        /\ (run[q].pc \in Opened => run[q].fd # 0)
    BY RunValues DEF Others, Types
  <2>2. Len(disk) \in Nat /\ Len(disk') \in Nat
    BY DEF Types
  <2> QED
    BY <2>1, <2>2
<1> QED
  BY <1>1 DEF Types

\* Ending a run cannot disturb anything.
LEMMA EndedTypes ==
  ASSUME Types, NEW p \in Procs, run' \in [Procs -> RunType], Others(p),
         run'[p] = NoRun, disk' \in Seq(Contents), Len(disk') = Len(disk),
         dir' \in 0 .. Len(disk), runs' = runs, shared' = shared,
         crashes' \in Nat, others' \in Nat, crashes' + others' <= MaxMishaps
  PROVE  Types'
<1>1. run'[p].fd = 0 /\ run'[p].pc = "ended" /\ "ended" \notin Opened
  BY NoRunIs DEF Opened, Generating, Saving
<1>2. Len(disk) \in Nat
  BY DEF Types
<1> QED
  BY <1>1, <1>2, MoreFiles

LEMMA TypesStep ==
  ASSUME Types, Batches, [Next]_vars
  PROVE  Types'
<1>0. /\ disk \in Seq(Contents) /\ Len(disk) \in Nat /\ dir \in 0 .. Len(disk)
      /\ runs \in Nat /\ crashes \in Nat /\ others \in Nat
      /\ runs <= MaxRuns /\ crashes + others <= MaxMishaps
      /\ MaxRuns \in Nat /\ MaxMishaps \in Nat
  BY JwtCacheAssumption DEF Types
<1>1. CASE UNCHANGED vars
  BY <1>1 DEF Types, vars
<1>2. CASE ClearCache
  BY <1>0, <1>2 DEF ClearCache, CanMishap, Types
<1>3. ASSUME NEW p \in Procs, NEW n \in Amounts, StartRun(p, n) PROVE Types'
  <2>1. /\ runs' = runs + 1 /\ runs < MaxRuns
        /\ UNCHANGED <<disk, dir, crashes, others>>
    BY <1>3 DEF StartRun
  <2>2. run' \in [Procs -> RunType]
    BY <1>3, StartRunDoes
  <2>3. \A q \in Procs : /\ run'[q].fd <= Len(disk)
                         /\ run'[q].pc \in Opened => run'[q].fd # 0
    <3>1. run'[p].pc = "open" /\ run'[p].fd = 0 /\ "open" \notin Opened
      BY <1>3, StartRunDoes DEF Opened, Generating, Saving
    <3>2. \A q \in Procs : q # p => run'[q].pc = run[q].pc /\ run'[q].fd = run[q].fd
      BY <1>3, StartRunDoes
    <3> QED
      BY <1>0, <3>1, <3>2 DEF Types
  <2>4. shared' \in BOOLEAN
    <3>1. shared' = (shared \/ \E q \in Procs : Active(q))
      BY <1>3, StartRunDoes
    <3> QED
      BY <3>1
  <2> QED
    BY <1>0, <2>1, <2>2, <2>3, <2>4 DEF Types
<1>4. ASSUME NEW p \in Procs, Open(p) PROVE Types'
  <2>1. UNCHANGED <<runs, shared, crashes, others>>
    BY <1>4 DEF Open
  <2>2. /\ run' \in [Procs -> RunType] /\ Others(p)
        /\ run'[p].fd = dir'
        /\ disk' \in Seq(Contents) /\ Len(disk') >= Len(disk)
        /\ dir' \in 1 .. Len(disk')
    BY <1>4, OpenDoes
  <2>3. Len(disk') \in Nat
    BY <2>2
  <2> QED
    BY <1>0, <2>1, <2>2, <2>3, MoreFiles
<1>5. ASSUME NEW p \in Procs, UNCHANGED disk, dir' \in 0 .. Len(disk),
             run' \in [Procs -> RunType], Others(p), run'[p].fd = run[p].fd,
             run'[p].pc \in Opened => run[p].pc \in Opened,
             runs' = runs, shared' = shared, crashes' \in Nat, others' \in Nat, crashes' + others' <= MaxMishaps
      PROVE  Types'
  <2>1. run[p].fd <= Len(disk) /\ (run[p].pc \in Opened => run[p].fd # 0)
    BY DEF Types
  <2>2. /\ disk' = disk /\ disk' \in Seq(Contents) /\ Len(disk') >= Len(disk)
        /\ dir' \in 0 .. Len(disk') /\ run'[p].fd <= Len(disk')
        /\ run'[p].pc \in Opened => run'[p].fd # 0
    BY <1>0, <1>5, <2>1
  <2> QED
    BY <1>5, <2>2, MoreFiles
<1>6. ASSUME NEW p \in Procs, NEW g, FileBecomes(p, g), UNCHANGED dir,
             run' \in [Procs -> RunType], Others(p), run'[p].fd = run[p].fd,
             run[p].pc \in Opened, UNCHANGED <<runs, shared, crashes, others>>
      PROVE  Types'
  <2>1. run[p].fd <= Len(disk) /\ (run[p].pc \in Opened => run[p].fd # 0)
    BY DEF Types
  <2>2. disk' \in Seq(Contents) /\ Len(disk') = Len(disk)
    BY <1>6 DEF FileBecomes
  <2> QED
    BY <1>0, <1>6, <2>1, <2>2, MoreFiles
<1>7. ASSUME NEW p \in Procs, Read(p) PROVE Types'
  <2>1. run[p].pc \in Opened /\ run[p].saving = 0
    BY <1>7 DEF Read, Opened, Batches, Fits, Saving
  <2> QED
    BY <1>0, <1>5, <1>7, <2>1, ReadDoes
<1>8. ASSUME NEW p \in Procs, Corrupt(p) PROVE Types'
  <2>1. run[p].pc \in Opened
    BY <1>8 DEF Corrupt, Opened
  <2> QED
    BY <1>0, <1>5, <1>8, <2>1, CorruptDoes, EndedTypes
<1>9. ASSUME NEW p \in Procs, RemoveFile(p) PROVE Types'
  <2>1. run[p].pc \in Opened
    BY <1>9 DEF RemoveFile, Opened
  <2> QED
    BY <1>0, <1>5, <1>9, <2>1, RemoveFileDoes, EndedTypes
<1>10. ASSUME NEW p \in Procs, NEW k \in Cpus, Collect(p, k) PROVE Types'
  <2>1. run[p].pc \in Opened /\ UNCHANGED <<disk, dir, runs, shared, crashes, others>>
    BY <1>10 DEF Collect, Opened, Generating
  <2> QED
    BY <1>0, <1>5, <1>10, <2>1, CollectDoes
<1>11. ASSUME NEW p \in Procs, BatchDone(p) PROVE Types'
  <2>1. run[p].pc \in Opened
    BY <1>11 DEF BatchDone, Opened, Generating
  <2> QED
    BY <1>0, <1>5, <1>11, <2>1, BatchDoneDoes
<1>12. ASSUME NEW p \in Procs, SaveTokens(p) PROVE Types'
  <2>1. run[p].pc \in Opened
    BY <1>12 DEF SaveTokens, Opened, Generating, Saving
  <2> QED
    BY <1>6, <1>12, <2>1, SaveTokensDoes
<1>13. ASSUME NEW p \in Procs, SaveCount(p) PROVE Types'
  <2>1. run[p].pc \in Opened
    BY <1>13 DEF SaveCount, Opened, Generating, Saving
  <2> QED
    BY <1>6, <1>13, <2>1, SaveCountDoes
<1>14. ASSUME NEW p \in Procs, SaveNewline(p) PROVE Types'
  <2>1. run[p].pc \in Opened
    BY <1>14 DEF SaveNewline, Opened, Generating, Saving
  <2> QED
    BY <1>6, <1>14, <2>1, SaveNewlineDoes
<1>15. ASSUME NEW p \in Procs, Retrieve(p) PROVE Types'
  <2>1. End(p) /\ UNCHANGED <<disk, dir, runs, shared, crashes, others>>
    BY <1>15 DEF Retrieve
  <2> QED
    BY <1>0, <2>1, EndDoes, EndedTypes
<1>16. ASSUME NEW p \in Procs, OpenFails(p) \/ GiveUp(p) PROVE Types'
  <2>1. /\ End(p) /\ UNCHANGED <<disk, dir, runs, shared, crashes>>
        /\ others' = others + 1 /\ crashes + others < MaxMishaps
    BY <1>16 DEF OpenFails, GiveUp, CanMishap
  <2> QED
    BY <1>0, <2>1, EndDoes, EndedTypes
<1>17. ASSUME NEW p \in Procs, Crash(p) PROVE Types'
  <2>1. /\ run' \in [Procs -> RunType] /\ Others(p) /\ run'[p] = NoRun
        /\ crashes' = crashes + 1 /\ crashes + others < MaxMishaps
        /\ UNCHANGED <<dir, runs, shared, others>>
    BY <1>17, CrashDoes
  <2>2. disk' \in Seq(Contents) /\ Len(disk') = Len(disk)
    BY <1>0, <1>17, CrashDoes DEF FileBecomes
  <2> QED
    BY <1>0, <2>1, <2>2, EndedTypes
<1> QED
  BY <1>1, <1>2, <1>3, <1>4, <1>7, <1>8, <1>9, <1>10, <1>11, <1>12, <1>13, <1>14,
     <1>15, <1>16, <1>17 DEF Next, RunStep

LEMMA FitsStep ==
  ASSUME Types, Batches, NEW p \in Procs, RunStep(p)
  PROVE  Fits(run'[p]) /\ Others(p)
<1> USE DEF Opened, Generating, Saving, Same
<1>0. Fits(run[p])
  BY DEF Batches
<1>1. Fits(NoRun)
  BY NoRunIs DEF Fits
<1>2. CASE Open(p)
  BY <1>0, <1>2, OpenDoes DEF Open, Fits
<1>3. CASE Read(p)
  <2>1. run[p].saving = 0
    BY <1>0, <1>3 DEF Read, Fits
  <2>2. /\ run'[p].saving = 0 /\ Others(p) /\ run'[p].req = run[p].req
        /\ run'[p].tag = run[p].tag
        /\ \/ run'[p].pc = "get" /\ run'[p].mem >= run'[p].req
           \/ /\ run'[p].pc = "collect"
              /\ run'[p].mem + SumOf(run'[p].jobs, DOMAIN run'[p].jobs) <= run'[p].req
        /\ run'[p] \in RunType
    BY <1>3, <2>1, ReadDoes
  <2>3. run'[p].mem \in Nat
    BY <2>2 DEF RunType
  <2> QED
    BY <1>0, <1>3, <2>2, <2>3 DEF Fits, Read
<1>4. CASE Corrupt(p)
  BY <1>0, <1>1, <1>4, CorruptDoes DEF Corrupt, Fits
<1>5. CASE RemoveFile(p)
  BY <1>0, <1>1, <1>5, RemoveFileDoes DEF RemoveFile, Fits
<1>6. ASSUME NEW k \in Cpus, Collect(p, k) PROVE Fits(run'[p]) /\ Others(p)
  <2>1. /\ run'[p] \in RunType /\ Others(p) /\ run'[p].req = run[p].req
        /\ run'[p].tag = run[p].tag /\ run'[p].saving # 0
        /\ run'[p].pc = "tokens" /\ run'[p].mem = run[p].mem
        /\ SumOf(run[p].jobs, DOMAIN run[p].jobs) =
             SumOf(run'[p].jobs, DOMAIN run'[p].jobs) + run'[p].saving
    BY <1>6, CollectDoes DEF Same
  <2>2. /\ run[p].saving = 0
        /\ run[p].mem + 0 + SumOf(run[p].jobs, DOMAIN run[p].jobs) <= run[p].req
    BY <1>0, <1>6 DEF Collect, Fits
  <2>3. run'[p].mem \in Nat /\ run'[p].saving \in Nat /\ run'[p].jobs \in Jobs /\ run'[p].req \in Nat
    BY <2>1, ReqIsNat DEF RunType
  <2>4. SumOf(run'[p].jobs, DOMAIN run'[p].jobs) \in Nat
    BY <2>3, JobsAre
  <2>5. run'[p].mem + run'[p].saving + SumOf(run'[p].jobs, DOMAIN run'[p].jobs)
          <= run'[p].req
    BY <2>1, <2>2, <2>3, <2>4
  <2> QED
    BY <1>0, <1>6, <2>1, <2>5 DEF Fits, Collect
<1>7. CASE BatchDone(p)
  <2>1. run[p].saving = 0
    BY <1>0, <1>7 DEF BatchDone, Fits
  <2>2. /\ run'[p].saving = 0 /\ Others(p) /\ run'[p] \in RunType
        /\ run'[p].req = run[p].req /\ run'[p].tag = run[p].tag
        /\ \/ run'[p].pc = "get" /\ run'[p].mem >= run'[p].req
           \/ /\ run'[p].pc = "collect"
              /\ run'[p].mem + SumOf(run'[p].jobs, DOMAIN run'[p].jobs) <= run'[p].req
    BY <1>7, <2>1, BatchDoneDoes
  <2>3. run'[p].mem \in Nat
    BY <2>2 DEF RunType
  <2> QED
    BY <1>0, <1>7, <2>2, <2>3 DEF Fits, BatchDone
<1>8. CASE SaveTokens(p)
  BY <1>0, <1>8, SaveTokensDoes DEF SaveTokens, Fits, Same
<1>9. CASE SaveCount(p)
  BY <1>0, <1>9, SaveCountDoes DEF SaveCount, Fits, Same
<1>10. CASE SaveNewline(p)
  <2>1. /\ Others(p) /\ run'[p].req = run[p].req /\ run'[p].tag = run[p].tag
        /\ run'[p].pc = "collect"
        /\ run'[p].mem = run[p].mem + run[p].saving
        /\ run'[p].jobs = run[p].jobs /\ run'[p].saving = 0
    BY <1>10, SaveNewlineDoes, RunValues DEF Same
  <2>2. run[p].mem + run[p].saving + SumOf(run[p].jobs, DOMAIN run[p].jobs) <= run[p].req
    BY <1>0, <1>10 DEF SaveNewline, Fits
  <2>3. run[p].mem \in Nat /\ run[p].saving \in Nat
    BY RunValues
  <2> QED
    BY <1>0, <1>10, <2>1, <2>2, <2>3 DEF Fits, SaveNewline
<1>11. CASE Retrieve(p)
  BY <1>1, <1>11, EndDoes DEF Retrieve
<1> QED
  BY <1>2, <1>3, <1>4, <1>5, <1>6, <1>7, <1>8, <1>9, <1>10, <1>11 DEF RunStep

LEMMA BatchesStep ==
  ASSUME Types, Batches, [Next]_vars
  PROVE  Batches'
<1>1. ASSUME NEW p \in Procs, Fits(run'[p]), Others(p) PROVE Batches'
  BY <1>1 DEF Batches, Others
<1>2. CASE UNCHANGED run
  BY <1>2 DEF Batches
<1>3. ASSUME NEW p \in Procs, RunStep(p) PROVE Batches'
  BY <1>1, <1>3, FitsStep
<1>4. ASSUME NEW p \in Procs, End(p) PROVE Batches'
  BY <1>1, <1>4, EndDoes, NoRunIs DEF Fits, Generating, Saving
<1>5. ASSUME NEW p \in Procs, NEW n \in Amounts, StartRun(p, n) PROVE Batches'
  <2>1. Fits(run'[p])
    <3>1. /\ run'[p].pc = "open" /\ run'[p].saving = 0 /\ run'[p].req = n
          /\ run'[p].tag = runs + 1 /\ runs < MaxRuns
      BY <1>5, StartRunDoes
    <3>2. runs \in Nat /\ MaxRuns \in Nat
      BY JwtCacheAssumption DEF Types
    <3> QED
      BY <3>1, <3>2 DEF Fits, Generating, Saving
  <2>2. ASSUME NEW q \in Procs, q # p PROVE Fits(run'[q])
    <3>1. /\ run'[q].pc = run[q].pc /\ run'[q].mem = run[q].mem
          /\ run'[q].saving = run[q].saving /\ run'[q].jobs = run[q].jobs
          /\ run'[q].req = run[q].req /\ run'[q].tag = run[q].tag
      BY <1>5, <2>2, StartRunDoes, ZenonT(60)
    <3>2. Fits(run[q])
      BY DEF Batches
    <3> QED
      BY <3>1, <3>2 DEF Fits
  <2> QED
    BY <2>1, <2>2 DEF Batches
<1> QED
  BY <1>2, <1>3, <1>4, <1>5
     DEF Next, vars, ClearCache, OpenFails, GiveUp, Crash

LEMMA CacheInvInit == Init => CacheInv
<1> SUFFICES ASSUME Init PROVE CacheInv
  OBVIOUS
<1>1. \A p \in Procs : run[p] = NoRun
  BY DEF Init
<1>2. run \in [Procs -> RunType]
  BY <1>1, NoRunIs DEF Init
<1>3. Types
  <2>1. "ended" \notin Opened /\ MaxRuns \in Nat /\ MaxMishaps \in Nat
    BY JwtCacheAssumption DEF Opened, Generating, Saving
  <2>2. shared \in BOOLEAN
    BY DEF Init
  <2> QED
    BY <1>1, <1>2, <2>1, <2>2, NoRunIs DEF Init, Types
<1>4. Batches
  BY <1>1, NoRunIs DEF Batches, Fits, Generating, Saving
<1> QED
  BY <1>3, <1>4 DEF CacheInv

LEMMA CacheInvStep == CacheInv /\ [Next]_vars => CacheInv'
  BY TypesStep, BatchesStep DEF CacheInv

LEMMA CacheInvAlways == Spec => []CacheInv
  BY CacheInvInit, CacheInvStep, PTL DEF Spec

\* The files and the runs' variables keep their types, however many processes use
\* the cache and whatever crashes.
THEOREM JwtCacheTypeCorrect == Spec => []TypeOK
<1>1. CacheInv => TypeOK
  <2> SUFFICES ASSUME Types PROVE TypeOK
    BY DEF CacheInv
  <2>1. \A f \in DOMAIN disk : \A k \in DOMAIN disk[f] : disk[f][k] \in Cell
    BY DEF Types, Contents
  <2>2. ASSUME NEW p \in Procs
        PROVE  /\ run[p].pc \in {"open", "ended"} \cup Opened
               /\ run[p].req \in Amounts \cup {0}
               /\ {run[p].tag, run[p].mem, run[p].saving, run[p].at} \subseteq Nat
               /\ \A k \in DOMAIN run[p].jobs : k \in Cpus /\ run[p].jobs[k] \in Nat
               /\ {run[p].alone, run[p].retrying} \subseteq BOOLEAN
               /\ run[p].fd \in 0 .. Len(disk)
    <3>1. run[p] \in RunType /\ run[p].jobs \in Jobs
      BY RunValues
    <3>2. \A k \in DOMAIN run[p].jobs : k \in Cpus /\ run[p].jobs[k] \in Nat
      BY <3>1, JobsAre
    <3>3. run[p].fd \in 0 .. Len(disk)
      BY RunValues DEF Types
    <3> QED
      BY <3>1, <3>2, <3>3 DEF RunType
  <2> QED
    BY <2>1, <2>2 DEF TypeOK, Types, Cell, Opened, Generating, Saving
<1> QED
  BY <1>1, CacheInvAlways, PTL

\* A run generates the JWTs it lacks and not one more (batchGenSave): neither the
\* remainders of the batches nor another process's writes add one.
THEOREM JwtCacheNeverOvergenerates == Spec => []NeverOvergenerates
<1>1. CacheInv => NeverOvergenerates
  <2> SUFFICES ASSUME Types, Batches, NEW p \in Procs
               PROVE  /\ run[p].saving > 0 => NewCount(p) <= run[p].req
                      /\ run[p].pc = "get" => run[p].mem >= run[p].req
    BY DEF CacheInv, NeverOvergenerates
  <2>1. /\ run[p].mem \in Nat /\ run[p].saving \in Nat /\ run[p].req \in Nat
        /\ run[p].jobs \in Jobs /\ NewCount(p) = run[p].mem + run[p].saving
    BY RunValues
  <2>2. SumOf(run[p].jobs, DOMAIN run[p].jobs) \in Nat
    BY <2>1, JobsAre
  <2>3. Fits(run[p])
    BY DEF Batches
  <2>4. run[p].saving > 0 =>
          run[p].mem + run[p].saving + SumOf(run[p].jobs, DOMAIN run[p].jobs) <= run[p].req
    BY <2>1, <2>3 DEF Fits, Generating
  <2>5. run[p].pc = "get" => run[p].mem >= run[p].req
    BY <2>3 DEF Fits
  <2> QED
    BY <2>1, <2>2, <2>4, <2>5
<1> QED
  BY <1>1, CacheInvAlways, PTL

-------------------------------------------------------------------------------
(* What a run that is alone can rely on: the file that has the cache's name, if
   there still is one, is its own, with the count that it knows. *)

Undisturbed(p) ==
  /\ \A q \in Procs : Active(q) => q = p
  /\ run[p].pc # "open" => dir = 0 \/ dir = run[p].fd
  /\ run[p].pc = "remove" => Cached = 0
  /\ run[p].pc \in {"collect", "tokens", "count", "get"} =>
       run[p].mem = Counted(File(p))
  /\ run[p].pc = "newline" => NewCount(p) = Counted(File(p))
  /\ run[p].pc = "tokens" => run[p].at = EndOf(File(p))

AloneInv == \A p \in Procs : Active(p) /\ run[p].alone => Undisturbed(p)

\* The count the cache has is the count of p's file, as long as p is undisturbed.
LEMMA CachedIs ==
  ASSUME Types
  PROVE  Cached \in Nat
<1>1. CASE dir = 0
  BY <1>1 DEF Cached
<1>2. CASE dir # 0
  <2>1. disk[dir] \in Contents
    BY <1>2 DEF Types
  <2> QED
    BY <1>2, <2>1, CountedIs DEF Cached
<1> QED
  BY <1>1, <1>2

\* A write that keeps or raises the count of p's file.
LEMMA WriteKeepsCount ==
  ASSUME Types, NEW p \in Procs, run[p].pc \in Opened, dir = 0 \/ dir = run[p].fd,
         NEW g, FileBecomes(p, g), UNCHANGED dir, Counted(File(p)) <= Counted(g)
  PROVE  Cached <= Cached'
<1>1. run[p].fd # 0 /\ disk'[run[p].fd] = g /\ File(p) = disk[run[p].fd]
  BY FileIs DEF FileBecomes
<1> QED
  BY <1>1 DEF Cached

LEMMA StepMovesOne ==
  ASSUME NEW p \in Procs, RunStep(p) \/ OpenFails(p) \/ GiveUp(p) \/ Crash(p)
  PROVE  Active(p)
  BY DEF RunStep, Open, Read, Corrupt, RemoveFile, Collect, BatchDone, SaveTokens,
         SaveCount, SaveNewline, Retrieve, OpenFails, GiveUp, Crash, Active

LEMMA OneActive ==
  ASSUME NEW p \in Procs, \A q \in Procs : Active(q) => q = p, Others(p)
  PROVE  \A q \in Procs : Active(q)' => q = p
  BY DEF Active, Others

\* What one step of a run that is alone does to what it relies on.
LEMMA UndisturbedStep ==
  ASSUME CacheInv, NEW p \in Procs, Undisturbed(p), RunStep(p)
  PROVE  /\ Active(p)' => Undisturbed(p)'
         /\ Cached <= Cached'
<1> USE DEF CacheInv
<1>0. Cached \in Nat
  BY CachedIs
<1>a. Others(p) /\ \A q \in Procs : Active(q)' => q = p
  BY FitsStep, OneActive DEF Undisturbed
<1>b. run[p].saving \in Nat /\ run[p].mem \in Nat /\ NewCount(p) = run[p].mem + run[p].saving
  BY RunValues
<1>c. Fits(run[p])
  BY DEF Batches
<1>d. ~ Active(p)' <=> run'[p].pc = "ended"
  BY DEF Active
<1>e. ASSUME UNCHANGED <<disk, dir>>
      PROVE  Cached' = Cached
  BY <1>e DEF Cached
<1>f. ASSUME run'[p].fd = run[p].fd PROVE File(p)' = disk'[run[p].fd]
  BY <1>f DEF File
<1>1. CASE Open(p)
  <2>1. /\ run'[p].pc = "read" /\ run'[p].fd = dir'
        /\ dir' \in 1 .. Len(disk') /\ (dir # 0 => dir' = dir)
        /\ \A f \in 1 .. Len(disk) : disk'[f] = disk[f]
    BY <1>1, OpenDoes
  <2>2. Cached <= Cached'
    <3>1. CASE dir = 0
      <4>1. disk'[dir'] = <<>>
        BY <1>1, <2>1, <3>1, OpenDoes
      <4> QED
        BY <2>1, <3>1, <4>1 DEF Cached, Counted
    <3>2. CASE dir # 0
      <4>1. dir' = dir /\ disk'[dir] = disk[dir]
        BY <2>1, <3>2 DEF Types
      <4>2. Cached' = Cached
        BY <4>1 DEF Cached
      <4> QED
        BY <1>0, <4>2
    <3> QED
      BY <3>1, <3>2
  <2> QED
    BY <1>a, <2>1, <2>2 DEF Undisturbed
<1>2. CASE Read(p)
  <2>1. run[p].pc = "read" /\ run[p].saving = 0
    BY <1>2, <1>c DEF Read, Fits, Saving
  <2>2. /\ run'[p].pc \in {"get", "collect"} /\ run'[p].mem = Counted(File(p))
        /\ run'[p].fd = run[p].fd /\ UNCHANGED <<disk, dir>>
    BY <1>2, <2>1, ReadDoes
  <2>3. File(p)' = File(p)
    BY <1>f, <2>2 DEF File
  <2> QED
    BY <1>0, <1>a, <1>e, <2>1, <2>2, <2>3 DEF Undisturbed
<1>3. CASE Corrupt(p)
  <2>1. run[p].pc = "read" /\ ~Readable(File(p)) /\ UNCHANGED <<disk, dir>>
    BY <1>3 DEF Corrupt
  <2>2. Cached' = 0 /\ Cached = 0
    <3>1. Counted(File(p)) = 0
      BY <2>1 DEF Readable, Counted
    <3>2. dir = 0 \/ dir = run[p].fd
      BY <2>1 DEF Undisturbed
    <3> QED
      BY <1>e, <2>1, <3>1, <3>2 DEF Cached, File
  <2>3. \/ run'[p] = NoRun
        \/ run'[p].pc = "remove" /\ run'[p].fd = run[p].fd
    BY <1>3, CorruptDoes
  <2> QED
    BY <1>a, <1>d, <2>1, <2>2, <2>3, NoRunIs DEF Undisturbed
<1>4. CASE RemoveFile(p)
  <2>1. Cached = 0
    BY <1>4 DEF RemoveFile, Undisturbed
  <2>2. dir' = 0 /\ (run'[p] = NoRun \/ run'[p].pc = "open")
    BY <1>4, RemoveFileDoes
  <2>3. Cached' = 0
    BY <2>2 DEF Cached
  <2> QED
    BY <1>a, <1>d, <2>1, <2>2, <2>3, NoRunIs DEF Undisturbed
<1>5. ASSUME NEW k \in Cpus, Collect(p, k)
      PROVE  (Active(p)' => Undisturbed(p)') /\ Cached <= Cached'
  <2>1. run[p].pc = "collect" /\ UNCHANGED <<disk, dir>>
    BY <1>5 DEF Collect
  <2>2. /\ run'[p].pc = "tokens" /\ run'[p].mem = run[p].mem /\ run'[p].fd = run[p].fd
        /\ run'[p].at = EndOf(File(p))
    BY <1>5, CollectDoes
  <2>3. File(p)' = File(p)
    BY <1>f, <2>1, <2>2 DEF File
  <2> QED
    BY <1>0, <1>a, <1>e, <2>1, <2>2, <2>3 DEF Undisturbed
<1>6. CASE BatchDone(p)
  <2>1. run[p].pc = "collect"
    BY <1>6 DEF BatchDone
  <2>2. /\ run'[p].pc \in {"get", "collect"} /\ run'[p].mem = run[p].mem
        /\ run'[p].fd = run[p].fd /\ UNCHANGED <<disk, dir>>
    BY <1>6, BatchDoneDoes
  <2>3. File(p)' = File(p)
    BY <1>f, <2>2 DEF File
  <2> QED
    BY <1>0, <1>a, <1>e, <2>1, <2>2, <2>3 DEF Undisturbed
<1>7. CASE SaveTokens(p)
  <2>1. run[p].pc = "tokens" /\ run[p].pc \in Opened
    BY <1>7 DEF SaveTokens, Opened, Generating, Saving
  <2>2. /\ run'[p].pc = "count" /\ run'[p].fd = run[p].fd /\ run'[p].mem = run[p].mem
        /\ FileBecomes(p, WriteAt(File(p), NewTokens(p), run[p].at)) /\ UNCHANGED dir
    BY <1>7, SaveTokensDoes
  <2> DEFINE g == WriteAt(File(p), NewTokens(p), run[p].at)
  <2>3. Counted(g) = Counted(File(p)) /\ Counted(g) \in Nat
    <3>1. File(p) \in Contents /\ run[p].at \in Nat \ {0}
      BY <2>1, FileIs, EndOfIs DEF Undisturbed
    <3> QED
      BY <3>1, NewTokensAre, CountedWriteBehind, CountedIs
  <2> HIDE DEF g
  <2>4. File(p)' = g
    BY <1>f, <2>2 DEF FileBecomes, g
  <2>5. Cached <= Cached'
    <3>1. FileBecomes(p, g) /\ Counted(File(p)) <= Counted(g) /\ (dir = 0 \/ dir = run[p].fd)
      BY <2>1, <2>2, <2>3 DEF g, Undisturbed
    <3> QED
      BY <2>1, <2>2, <3>1, WriteKeepsCount
  <2> QED
    BY <1>a, <2>1, <2>2, <2>3, <2>4, <2>5 DEF Undisturbed
<1>8. CASE SaveCount(p)
  <2>1. run[p].pc = "count" /\ run[p].pc \in Opened
    BY <1>8 DEF SaveCount, Opened, Generating, Saving
  <2>2. /\ run'[p].pc = "newline" /\ run'[p].fd = run[p].fd /\ run'[p].mem = run[p].mem
        /\ run'[p].saving = run[p].saving
        /\ FileBecomes(p, WriteAt(File(p), <<Count(NewCount(p)), Zeros>>, 0))
        /\ UNCHANGED dir
    BY <1>8, SaveCountDoes
  <2> DEFINE g == WriteAt(File(p), <<Count(NewCount(p)), Zeros>>, 0)
  <2>3. Counted(g) = NewCount(p)
    <3>1. File(p) \in Contents /\ NewCount(p) \in Nat
      BY <2>1, FileIs, RunValues
    <3> QED
      BY <3>1, CountedHeader
  <2> HIDE DEF g
  <2>4. File(p)' = g /\ NewCount(p)' = NewCount(p)
    BY <1>f, <2>2 DEF FileBecomes, g, NewCount
  <2>5. Cached <= Cached'
    <3>1. FileBecomes(p, g) /\ Counted(File(p)) <= Counted(g) /\ (dir = 0 \/ dir = run[p].fd)
      BY <1>b, <2>1, <2>2, <2>3 DEF g, Undisturbed
    <3> QED
      BY <2>1, <2>2, <3>1, WriteKeepsCount
  <2> QED
    BY <1>a, <2>1, <2>2, <2>3, <2>4, <2>5 DEF Undisturbed
<1>9. CASE SaveNewline(p)
  <2>1. run[p].pc = "newline" /\ run[p].pc \in Opened
    BY <1>9 DEF SaveNewline, Opened, Generating, Saving
  <2>2. /\ run'[p].pc = "collect" /\ run'[p].fd = run[p].fd /\ run'[p].mem = NewCount(p)
        /\ FileBecomes(p, WriteAt(File(p), <<Newline>>, 2)) /\ UNCHANGED dir
    BY <1>9, SaveNewlineDoes
  <2> DEFINE g == WriteAt(File(p), <<Newline>>, 2)
  <2>3. Counted(g) = Counted(File(p)) /\ Counted(g) \in Nat
    <3>1. File(p) \in Contents /\ <<Newline>> \in Contents /\ 2 \in Nat \ {0}
      BY <2>1, FileIs, CellTypes DEF Contents
    <3> QED
      BY <3>1, CountedWriteBehind, CountedIs
  <2> HIDE DEF g
  <2>4. File(p)' = g
    BY <1>f, <2>2 DEF FileBecomes, g
  <2>5. Cached <= Cached'
    <3>1. FileBecomes(p, g) /\ Counted(File(p)) <= Counted(g) /\ (dir = 0 \/ dir = run[p].fd)
      BY <2>1, <2>2, <2>3 DEF g, Undisturbed
    <3> QED
      BY <2>1, <2>2, <3>1, WriteKeepsCount
  <2> QED
    BY <1>a, <2>1, <2>2, <2>3, <2>4, <2>5 DEF Undisturbed
<1>10. CASE Retrieve(p)
  <2>1. run'[p] = NoRun /\ UNCHANGED <<disk, dir>>
    BY <1>10, EndDoes DEF Retrieve
  <2> QED
    BY <1>0, <1>d, <1>e, <2>1, NoRunIs
<1> QED
  BY <1>1, <1>2, <1>3, <1>4, <1>5, <1>6, <1>7, <1>8, <1>9, <1>10 DEF RunStep

\* A crash of a run that is alone does not disturb the count.
LEMMA CrashKeepsCount ==
  ASSUME CacheInv, NEW p \in Procs, Undisturbed(p), Crash(p)
  PROVE  Cached <= Cached'
<1> USE DEF CacheInv
<1>0. Cached \in Nat /\ UNCHANGED dir
  BY CachedIs, CrashDoes
<1>1. CASE disk' = disk
  BY <1>0, <1>1 DEF Cached
<1>2. CASE disk' # disk
  <2>1. PICK cells \in Contents : /\ run[p].pc = "tokens"
                                  /\ FileBecomes(p, WriteAt(File(p), cells, run[p].at))
    BY <1>2, CrashDoes
  <2>2. run[p].pc \in Opened
    BY <2>1 DEF Opened, Generating, Saving
  <2> DEFINE g == WriteAt(File(p), cells, run[p].at)
  <2>3. Counted(g) = Counted(File(p)) /\ Counted(g) \in Nat
    <3>1. File(p) \in Contents /\ run[p].at \in Nat \ {0}
      BY <2>1, <2>2, FileIs, EndOfIs DEF Undisturbed
    <3> QED
      BY <3>1, CountedWriteBehind, CountedIs
  <2> HIDE DEF g
  <2>4. FileBecomes(p, g) /\ Counted(File(p)) <= Counted(g) /\ (dir = 0 \/ dir = run[p].fd)
    BY <2>1, <2>3 DEF g, Undisturbed
  <2> QED
    BY <1>0, <2>2, <2>4, WriteKeepsCount
<1> QED
  BY <1>1, <1>2

LEMMA StepKeepsAlone ==
  ASSUME CacheInv, NEW p \in Procs, RunStep(p)
  PROVE  Active(p)' => run'[p].alone = run[p].alone
<1> USE DEF CacheInv
<1>1. Same(p) \/ run'[p] = NoRun
  <2>1. CASE Open(p)
    BY <2>1, OpenDoes
  <2>2. CASE Read(p)
    <3>1. run[p].saving = 0
      BY <2>2 DEF Read, Batches, Fits, Saving
    <3> QED
      BY <2>2, <3>1, ReadDoes
  <2>3. CASE Corrupt(p)
    BY <2>3, CorruptDoes
  <2>4. CASE RemoveFile(p)
    BY <2>4, RemoveFileDoes
  <2>5. CASE \E k \in Cpus : Collect(p, k)
    BY <2>5, CollectDoes
  <2>6. CASE BatchDone(p)
    BY <2>6, BatchDoneDoes
  <2>7. CASE SaveTokens(p)
    BY <2>7, SaveTokensDoes
  <2>8. CASE SaveCount(p)
    BY <2>8, SaveCountDoes
  <2>9. CASE SaveNewline(p)
    BY <2>9, SaveNewlineDoes
  <2>10. CASE Retrieve(p)
    BY <2>10, EndDoes DEF Retrieve
  <2> QED
    BY <2>1, <2>2, <2>3, <2>4, <2>5, <2>6, <2>7, <2>8, <2>9, <2>10 DEF RunStep
<1> QED
  BY <1>1, NoRunIs DEF Same, Active

LEMMA AloneInvStep ==
  ASSUME CacheInv, AloneInv, [Next]_vars
  PROVE  AloneInv'
<1>1. CASE UNCHANGED vars
  BY <1>1 DEF AloneInv, Undisturbed, Active, Cached, File, NewCount, vars
<1>2. CASE ClearCache
  <2>1. dir' = 0 /\ UNCHANGED <<disk, run>>
    BY <1>2 DEF ClearCache
  <2> QED
    BY <2>1 DEF AloneInv, Undisturbed, Active, Cached, File, NewCount
<1>3. ASSUME NEW p \in Procs, NEW n \in Amounts, StartRun(p, n) PROVE AloneInv'
  <2>1. /\ run'[p].pc = "open"
        /\ run'[p].alone <=> \A q \in Procs : q # p => ~Active(q)
        /\ \A q \in Procs : q # p => run'[q].pc = run[q].pc
        /\ \A q \in Procs : q # p => (run'[q].alone => ~Active(q))
    <3>1. /\ run'[p].pc = "open"
          /\ run'[p].alone <=> \A q \in Procs : q # p => ~Active(q)
      BY <1>3, StartRunDoes DEF CacheInv
    <3>2. ASSUME NEW q \in Procs, q # p
          PROVE  run'[q].pc = run[q].pc /\ (run'[q].alone => ~Active(q))
      BY <1>3, <3>2, StartRunDoes DEF CacheInv
    <3> QED
      BY <3>1, <3>2
  <2> SUFFICES ASSUME NEW q \in Procs, Active(q)', run'[q].alone
               PROVE  Undisturbed(q)'
    BY DEF AloneInv
  <2>2. q = p
    BY <2>1 DEF Active
  <2>3. \A r \in Procs : Active(r)' => r = p
    BY <2>1, <2>2 DEF Active
  <2> QED
    BY <2>1, <2>2, <2>3 DEF Undisturbed
<1>4. ASSUME NEW p \in Procs, Active(p), Others(p),
             Active(p)' /\ run'[p].alone /\ run[p].alone /\ Undisturbed(p)
               => Undisturbed(p)',
             Active(p)' => run'[p].alone = run[p].alone
      PROVE  AloneInv'
  <2> SUFFICES ASSUME NEW q \in Procs, Active(q)', run'[q].alone
               PROVE  Undisturbed(q)'
    BY DEF AloneInv
  <2>1. CASE q = p
    BY <1>4, <2>1 DEF AloneInv
  <2>2. CASE q # p
    <3>1. Active(q) /\ run[q].alone
      BY <1>4, <2>2 DEF Others, Active
    <3>2. Undisturbed(q)
      BY <3>1 DEF AloneInv
    <3> QED
      BY <1>4, <2>2, <3>2 DEF Undisturbed
  <2> QED
    BY <2>1, <2>2
<1>5. ASSUME NEW p \in Procs, RunStep(p) PROVE AloneInv'
  <2>1. Active(p) /\ Others(p)
    BY <1>5, StepMovesOne, FitsStep DEF CacheInv
  <2>2. Active(p)' => run'[p].alone = run[p].alone
    BY <1>5, StepKeepsAlone
  <2>3. Undisturbed(p) /\ Active(p)' => Undisturbed(p)'
    BY <1>5, UndisturbedStep
  <2> QED
    BY <1>4, <2>1, <2>2, <2>3
<1>6. ASSUME NEW p \in Procs, OpenFails(p) \/ GiveUp(p) \/ Crash(p) PROVE AloneInv'
  <2>1. Active(p) /\ End(p)
    BY <1>6, StepMovesOne DEF OpenFails, GiveUp, Crash
  <2>2. Others(p) /\ ~ (Active(p)')
    BY <2>1, EndDoes, NoRunIs DEF CacheInv, Active
  <2> QED
    BY <1>4, <2>1, <2>2
<1> QED
  BY <1>1, <1>2, <1>3, <1>5, <1>6 DEF Next

LEMMA AloneInvInit == Init => AloneInv
  BY NoRunIs DEF Init, AloneInv, Active

LEMMA AloneAlways == Spec => [](CacheInv /\ AloneInv)
<1>1. Init => CacheInv /\ AloneInv
  BY CacheInvInit, AloneInvInit
<1>2. CacheInv /\ AloneInv /\ [Next]_vars => (CacheInv /\ AloneInv)'
  BY CacheInvStep, AloneInvStep
<1> QED
  BY <1>1, <1>2, PTL DEF Spec

\* What was once counted stays, whatever crashes, fails or is recovered, as long
\* as no run has had another beside it and nobody clears the cache: save raises
\* the count, and the corrupt file that Generate removes counts for nothing.
THEOREM JwtCacheCountedStays == Spec => CountedStays
<1> DEFINE Loss == \/ others' # others
                   \/ \E p \in Procs : Active(p) /\ ~run[p].alone
<1>1. ASSUME CacheInv, AloneInv, Next PROVE Cached <= Cached' \/ Loss
  <2>0. Cached \in Nat
    BY <1>1, CachedIs DEF CacheInv
  <2>1. ASSUME NEW p \in Procs, Active(p) PROVE Undisturbed(p) \/ Loss
    BY <1>1, <2>1 DEF AloneInv
  <2>2. CASE ClearCache
    BY <1>1, <2>2 DEF ClearCache, CacheInv, Types
  <2>3. ASSUME NEW p \in Procs, NEW n \in Amounts, StartRun(p, n)
        PROVE  Cached <= Cached'
    <3>1. disk' = disk /\ dir' = dir
      BY <2>3 DEF StartRun
    <3>2. Cached' = Cached
      BY <3>1 DEF Cached
    <3> QED
      BY <2>0, <3>2
  <2>4. ASSUME NEW p \in Procs, RunStep(p) PROVE Cached <= Cached' \/ Loss
    <3>1. Active(p)
      BY <2>4, StepMovesOne
    <3> HIDE DEF Loss
    <3> QED
      BY <1>1, <2>1, <2>4, <3>1, UndisturbedStep
  <2>5. ASSUME NEW p \in Procs, OpenFails(p) \/ GiveUp(p) PROVE Loss
    BY <1>1, <2>5 DEF OpenFails, GiveUp, CacheInv, Types
  <2>6. ASSUME NEW p \in Procs, Crash(p) PROVE Cached <= Cached' \/ Loss
    <3>1. Active(p)
      BY <2>6, StepMovesOne
    <3> HIDE DEF Loss
    <3> QED
      BY <1>1, <2>1, <2>6, <3>1, CrashKeepsCount
  <2> HIDE DEF Loss
  <2> QED
    BY <1>1, <2>2, <2>3, <2>4, <2>5, <2>6 DEF Next, Loss
<1>2. ASSUME CacheInv, AloneInv, [Next]_vars PROVE [Cached <= Cached' \/ Loss]_vars
  BY <1>1, <1>2
<1>3. (CacheInv /\ AloneInv) /\ [Next]_vars
        => [\/ Cached <= Cached'
            \/ others' # others
            \/ \E p \in Procs : Active(p) /\ ~run[p].alone]_vars
  BY <1>2
<1> QED
  BY <1>3, AloneAlways, PTL DEF Spec, CountedStays

-------------------------------------------------------------------------------
(* Lines, as long as no two runs were there at the same time, whatever crashed. *)

OneAtATime == \A p, q \in Procs : Active(p) /\ Active(q) => p = q

\* The newlines after the header's.
Later(f) == {k \in Ends(f) : k >= 4}

LEMMA EndsAre ==
  ASSUME NEW f \in Contents
  PROVE  /\ \A k : k \in Ends(f) <=> k \in 1 .. Len(f) /\ f[k] = Newline
         /\ IsFiniteSet(Ends(f)) /\ Cardinality(Ends(f)) \in Nat
         /\ IsFiniteSet(Later(f)) /\ Cardinality(Later(f)) \in Nat
         /\ Later(f) \subseteq Ends(f)
<1>1. Len(f) \in Nat /\ DOMAIN f = 1 .. Len(f)
  BY DEF Contents
<1>2. IsFiniteSet(1 .. Len(f))
  BY <1>1, FS_Interval, 1 \in Int, Len(f) \in Int
<1>3. \A k : k \in Ends(f) <=> k \in 1 .. Len(f) /\ f[k] = Newline
  BY <1>1 DEF Ends
<1>4. Ends(f) \subseteq 1 .. Len(f) /\ Later(f) \subseteq Ends(f)
  BY <1>3 DEF Later
<1>5. IsFiniteSet(Ends(f))
  BY <1>2, <1>4, FS_Subset
<1>6. IsFiniteSet(Later(f))
  BY <1>4, <1>5, FS_Subset
<1> QED
  BY <1>3, <1>4, <1>5, <1>6, FS_CardinalityType

\* What bufio.ScanLines yields has a line for each newline, at least.
LEMMA LinesAre ==
  ASSUME NEW f \in Contents
  PROVE  /\ Len(Lines(f)) \in Nat /\ Len(Lines(f)) >= Cardinality(Ends(f))
         /\ \E S : Lines(f) \in Seq(S)
<1> DEFINE n == Cardinality(Ends(f)) + IF EndsInLine(f) THEN 1 ELSE 0
           end(k) == CHOOSE e \in Ends(f) \cup {0, Len(f) + 1} :
                       Cardinality({x \in Ends(f) \cup {0} : x < e}) = k
           line(k) == SubSeq(f, end(k - 1) + 1, end(k) - 1)
           S == {line(k) : k \in 1 .. n}
<1>1. n \in Nat /\ n >= Cardinality(Ends(f))
  BY EndsAre
<1>2. Lines(f) = [k \in 1 .. n |-> line(k)]
  BY DEF Lines
<1>3. \A k \in 1 .. n : line(k) \in S
  OBVIOUS
<1> HIDE DEF n, line, S
<1>4. [k \in 1 .. n |-> line(k)] \in Seq(S) /\ Len([k \in 1 .. n |-> line(k)]) = n
  BY <1>1, <1>3
<1> QED
  BY <1>1, <1>2, <1>4

\* Newlines that a write does not cover stay.
LEMMA EndsKept ==
  ASSUME NEW f \in Contents, NEW cells \in Contents, NEW at \in Nat,
         NEW k \in Ends(f), ~ (k - at \in 1 .. Len(cells))
  PROVE  k \in Ends(WriteAt(f, cells, at))
<1> DEFINE g == WriteAt(f, cells, at)
<1>1. /\ g \in Contents
      /\ Len(g) = IF Len(f) >= at + Len(cells) THEN Len(f) ELSE at + Len(cells)
      /\ \A i \in 1 .. Len(g) :
           g[i] = IF i - at \in 1 .. Len(cells) THEN cells[i - at]
                  ELSE IF i <= Len(f) THEN f[i] ELSE Zeros
  BY WriteAtIs
<1> HIDE DEF g
<1>2. k \in 1 .. Len(f) /\ f[k] = Newline /\ Len(f) \in Nat /\ Len(cells) \in Nat
  BY EndsAre DEF Contents
<1>3. k \in 1 .. Len(g)
  BY <1>1, <1>2
<1>4. g[k] = Newline
  BY <1>1, <1>2, <1>3
<1>5. k \in Ends(g)
  BY <1>1, <1>3, <1>4, EndsAre
<1> QED
  BY <1>5 DEF g

LEMMA LaterKept ==
  ASSUME NEW f \in Contents, NEW cells \in Contents, NEW at \in Nat,
         at >= Len(f) \/ at + Len(cells) <= 3
  PROVE  Cardinality(Later(f)) <= Cardinality(Later(WriteAt(f, cells, at)))
<1>1. WriteAt(f, cells, at) \in Contents
  BY WriteAtIs
<1>2. Len(f) \in Nat /\ Len(cells) \in Nat
  BY DEF Contents
<1>3. Later(f) \subseteq Later(WriteAt(f, cells, at))
  <2> SUFFICES ASSUME NEW k \in Later(f) PROVE k \in Later(WriteAt(f, cells, at))
    OBVIOUS
  <2>1. k \in Ends(f) /\ k >= 4 /\ k \in 1 .. Len(f)
    BY EndsAre DEF Later
  <2>2. ~ (k - at \in 1 .. Len(cells))
    BY <1>2, <2>1
  <2>3. k \in Ends(WriteAt(f, cells, at))
    BY <2>1, <2>2, EndsKept
  <2> QED
    BY <2>1, <2>3 DEF Later
<1> QED
  BY <1>1, <1>3, EndsAre, FS_Subset

\* n points, four apart.
LEMMA EveryFourth ==
  ASSUME NEW at \in Nat, NEW n \in Nat
  PROVE  LET new == {at + 4 * j : j \in 1 .. n}
         IN  IsFiniteSet(new) /\ Cardinality(new) = n
<1> DEFINE new == {at + 4 * j : j \in 1 .. n}
           nth == [j \in 1 .. n |-> at + 4 * j]
<1>1. nth \in Bijection(1 .. n, new)
  <2>1. nth \in [1 .. n -> new]
    OBVIOUS
  <2>2. \A i, j \in 1 .. n : nth[i] = nth[j] => i = j
    OBVIOUS
  <2>3. \A x \in new : \E j \in 1 .. n : nth[j] = x
    OBVIOUS
  <2> HIDE DEF nth, new
  <2> QED
    BY <2>1, <2>2, <2>3 DEF Bijection, Injection, Surjection, IsInjective
<1>2. ExistsBijection(1 .. n, new)
  BY <1>1 DEF ExistsBijection
<1> HIDE DEF new
<1>3. IsFiniteSet(1 .. n)
  BY FS_Interval, 1 \in Int, n \in Int
<1>4. IsFiniteSet(new)
  BY <1>2, <1>3, FS_Bijection
<1>5. Cardinality(new) = n
  BY <1>2, FS_CountingElements
<1> QED
  BY <1>4, <1>5 DEF new

\* A save that appends adds a line for each of its tokens.
LEMMA LaterGrows ==
  ASSUME NEW f \in Contents, NEW cells \in Contents, NEW n \in Nat,
         Len(cells) = 4 * n, \A j \in 1 .. n : cells[4 * j] = Newline
  PROVE  Cardinality(Later(f)) + n <= Cardinality(Later(WriteAt(f, cells, EndOf(f))))
<1> DEFINE at == EndOf(f)
           g == WriteAt(f, cells, at)
           new == {at + 4 * j : j \in 1 .. n}
<1>1. at \in Nat \ {0} /\ at >= Len(f) /\ Len(f) \in Nat
  BY EndOfIs
<1> HIDE DEF at
<1>2. /\ g \in Contents
      /\ Len(g) = IF Len(f) >= at + Len(cells) THEN Len(f) ELSE at + Len(cells)
      /\ \A i \in 1 .. Len(g) :
           g[i] = IF i - at \in 1 .. Len(cells) THEN cells[i - at]
                  ELSE IF i <= Len(f) THEN f[i] ELSE Zeros
  BY <1>1, WriteAtIs
<1>3. IsFiniteSet(new) /\ Cardinality(new) = n
  BY <1>1, EveryFourth
<1>4. Later(f) \cap new = {}
  <2>1. \A k \in Later(f) : k <= Len(f) /\ k \in Int
    <3>1. Later(f) \subseteq 1 .. Len(f)
      BY EndsAre
    <3> QED
      BY <1>1, <3>1
  <2>2. \A k \in new : k > Len(f)
    BY <1>1
  <2> HIDE DEF new
  <2> QED
    BY <1>1, <2>1, <2>2
<1>5. Later(f) \subseteq Later(g)
  <2> SUFFICES ASSUME NEW k \in Later(f) PROVE k \in Later(g)
    OBVIOUS
  <2> HIDE DEF g, new
  <2>1. k \in Ends(f) /\ k >= 4 /\ k \in 1 .. Len(f)
    BY <1>1, EndsAre DEF Later
  <2>2. ~ (k - at \in 1 .. Len(cells))
    BY <1>1, <2>1
  <2>3. k \in Ends(g)
    BY <1>1, <2>1, <2>2, EndsKept DEF g
  <2> QED
    BY <2>1, <2>3 DEF Later
<1> HIDE DEF g
<1>6. new \subseteq Later(g)
  <2> SUFFICES ASSUME NEW j \in 1 .. n PROVE at + 4 * j \in Later(g)
    OBVIOUS
  <2> DEFINE k == at + 4 * j
  <2>1. k - at = 4 * j /\ 4 * j \in 1 .. 4 * n /\ k >= 4 /\ k <= at + 4 * n /\ k \in Nat \ {0}
    BY <1>1
  <2> HIDE DEF k
  <2>2. k \in 1 .. Len(g)
    BY <1>1, <1>2, <2>1
  <2>3. g[k] = cells[4 * j]
    BY <1>2, <2>1, <2>2
  <2>4. k \in Ends(g)
    BY <1>2, <2>2, <2>3, EndsAre
  <2> QED
    BY <2>1, <2>4 DEF Later, k
<1> HIDE DEF new
<1>7. /\ IsFiniteSet(Later(f) \cup new)
      /\ Cardinality(Later(f) \cup new) = Cardinality(Later(f)) + n
  BY <1>3, <1>4, EndsAre, UnitsJoin
<1>8. Cardinality(Later(f) \cup new) <= Cardinality(Later(g))
  BY <1>2, <1>5, <1>6, EndsAre, FS_Subset
<1> QED
  BY <1>7, <1>8 DEF g, at

AllAlone == \A p \in Procs : Active(p) => run[p].alone

\* The count of every file, and the one that is about to be written, is covered by
\* its newlines.
Covered ==
  /\ \A f \in 1 .. Len(disk) : Counted(disk[f]) <= Cardinality(Later(disk[f]))
  /\ \A p \in Procs : run[p].pc = "count" => NewCount(p) <= Cardinality(Later(File(p)))

LoneLines == AllAlone /\ Covered

LinesInv == ~shared => OneAtATime /\ LoneLines

\* Two runs at the same time are never forgotten, and one at a time stays one as
\* long as none begins beside another.
LEMMA OneAtATimeStep ==
  ASSUME CacheInv, ~shared => OneAtATime, [Next]_vars, ~shared'
  PROVE  ~shared /\ OneAtATime'
<1> USE DEF CacheInv
<1>1. CASE UNCHANGED <<run, shared>>
  BY <1>1 DEF OneAtATime, Active
<1>2. ASSUME NEW p \in Procs, NEW n \in Amounts, StartRun(p, n)
      PROVE  ~shared /\ OneAtATime'
  <2>1. shared' = (shared \/ \E q \in Procs : Active(q))
    BY <1>2, StartRunDoes
  <2>2. ~shared /\ \A q \in Procs : ~Active(q)
    BY <2>1
  <2>3. \A q \in Procs : q # p => run'[q].pc = run[q].pc
    BY <1>2, StartRunDoes, ZenonT(60)
  <2>4. \A q \in Procs : Active(q)' => q = p
    BY <2>2, <2>3 DEF Active
  <2> QED
    BY <2>2, <2>4 DEF OneAtATime
<1>3. ASSUME NEW p \in Procs, Active(p), Others(p), shared' = shared
      PROVE  ~shared /\ OneAtATime'
  <2>1. ~shared /\ OneAtATime
    BY <1>3
  <2>2. \A q \in Procs : Active(q)' => q = p
    BY <1>3, <2>1 DEF OneAtATime, Active, Others
  <2> QED
    BY <2>1, <2>2 DEF OneAtATime
<1>4. ASSUME NEW p \in Procs, RunStep(p) PROVE ~shared /\ OneAtATime'
  <2>1. shared' = shared
    BY <1>4 DEF RunStep, Open, Read, Corrupt, RemoveFile, Collect, BatchDone,
                SaveTokens, SaveCount, SaveNewline, Retrieve
  <2> QED
    BY <1>3, <1>4, <2>1, StepMovesOne, FitsStep
<1>5. ASSUME NEW p \in Procs, OpenFails(p) \/ GiveUp(p) \/ Crash(p)
      PROVE  ~shared /\ OneAtATime'
  <2>1. Active(p) /\ End(p) /\ shared' = shared
    BY <1>5, StepMovesOne DEF OpenFails, GiveUp, Crash
  <2> QED
    BY <1>3, <2>1, EndDoes
<1> QED
  BY <1>1, <1>2, <1>4, <1>5 DEF Next, vars, ClearCache

LEMMA AllAloneStep ==
  ASSUME CacheInv, AllAlone, OneAtATime', [Next]_vars
  PROVE  AllAlone'
<1>1. CASE UNCHANGED run
  BY <1>1 DEF AllAlone, Active
<1>2. ASSUME NEW p \in Procs, NEW n \in Amounts, StartRun(p, n) PROVE AllAlone'
  <2>1. /\ run'[p].pc = "open"
        /\ run'[p].alone <=> \A q \in Procs : q # p => ~Active(q)
    BY <1>2, StartRunDoes DEF CacheInv
  <2>2. ASSUME NEW q \in Procs, q # p PROVE run'[q].pc = run[q].pc
    BY <1>2, <2>2, StartRunDoes DEF CacheInv
  <2>3. ASSUME NEW q \in Procs, Active(q)' PROVE q = p
    BY <2>1, <2>3 DEF OneAtATime, Active
  <2>4. \A q \in Procs : q # p => ~Active(q)
    BY <2>2, <2>3 DEF Active
  <2> QED
    BY <2>1, <2>3, <2>4 DEF AllAlone
<1>3. ASSUME NEW p \in Procs, Active(p), Others(p),
             Active(p)' => run'[p].alone = run[p].alone
      PROVE  AllAlone'
  BY <1>3 DEF AllAlone, Active, Others
<1>4. ASSUME NEW p \in Procs, RunStep(p) PROVE AllAlone'
  BY <1>3, <1>4, StepMovesOne, StepKeepsAlone, FitsStep DEF CacheInv
<1>5. ASSUME NEW p \in Procs, OpenFails(p) \/ GiveUp(p) \/ Crash(p) PROVE AllAlone'
  <2>1. Active(p) /\ End(p)
    BY <1>5, StepMovesOne DEF OpenFails, GiveUp, Crash
  <2>2. Others(p) /\ ~ (Active(p)')
    BY <2>1, EndDoes, NoRunIs DEF CacheInv, Active
  <2> QED
    BY <1>3, <2>1, <2>2
<1> QED
  BY <1>1, <1>2, <1>4, <1>5 DEF Next, vars, ClearCache

\* Steps that write in p's file.
LEMMA OneFile ==
  ASSUME Types, Covered, NEW p \in Procs, run[p].pc \in Opened,
         NEW g, FileBecomes(p, g), Counted(g) <= Cardinality(Later(g)),
         \A q \in Procs : run'[q].pc = "count" => NewCount(q)' <= Cardinality(Later(g))
                                                  /\ q = p /\ run'[p].fd = run[p].fd
  PROVE  Covered'
<1>1. /\ run[p].fd \in 1 .. Len(disk) /\ Len(disk') = Len(disk)
      /\ disk'[run[p].fd] = g
      /\ \A f \in 1 .. Len(disk) : f # run[p].fd => disk'[f] = disk[f]
  BY FileIs DEF FileBecomes
<1>2. \A f \in 1 .. Len(disk') : Counted(disk'[f]) <= Cardinality(Later(disk'[f]))
  BY <1>1 DEF Covered
<1>3. \A q \in Procs : run'[q].pc = "count" => NewCount(q)' <= Cardinality(Later(File(q)'))
  BY <1>1 DEF File
<1> QED
  BY <1>2, <1>3 DEF Covered

LEMMA CoveredStep ==
  ASSUME CacheInv, LoneLines, NEW p \in Procs, Undisturbed(p), RunStep(p)
  PROVE  Covered'
<1> USE DEF CacheInv, LoneLines
<1>0. \A q \in Procs : q # p => run[q].pc = "ended" /\ run'[q].pc = "ended"
  BY FitsStep DEF Undisturbed, Active, Others
<1>1. ASSUME UNCHANGED disk, run'[p].pc # "count" PROVE Covered'
  <2>1. \A q \in Procs : run'[q].pc # "count"
    BY <1>0, <1>1
  <2> QED
    BY <1>1, <2>1 DEF Covered
<1>3. CASE Open(p)
  <2>1. /\ run'[p].pc = "read"
        /\ disk' \in Seq(Contents) /\ Len(disk') >= Len(disk)
        /\ \A f \in 1 .. Len(disk) : disk'[f] = disk[f]
        /\ \A f \in 1 .. Len(disk') : f > Len(disk) => disk'[f] = <<>>
    BY <1>3, OpenDoes DEF Open
  <2>2. Counted(<<>>) = 0 /\ Cardinality(Later(<<>>)) \in Nat
    <3>1. <<>> \in Contents
      BY DEF Contents
    <3>2. Cardinality(Later(<<>>)) \in Nat
      BY <3>1, EndsAre
    <3>3. Counted(<<>>) = 0
      BY DEF Counted
    <3> QED
      BY <3>2, <3>3
  <2>3. Len(disk) \in Nat /\ Len(disk') \in Nat
    BY <2>1 DEF Types
  <2>4. \A f \in 1 .. Len(disk') : Counted(disk'[f]) <= Cardinality(Later(disk'[f]))
    <3> SUFFICES ASSUME NEW f \in 1 .. Len(disk')
                 PROVE  Counted(disk'[f]) <= Cardinality(Later(disk'[f]))
      OBVIOUS
    <3>1. CASE f <= Len(disk)
      BY <2>1, <2>3, <3>1 DEF Covered
    <3>2. CASE ~ (f <= Len(disk))
      <4>1. disk'[f] = <<>>
        BY <2>1, <2>3, <3>2
      <4> QED
        BY <2>2, <4>1
    <3> QED
      BY <3>1, <3>2
  <2>5. \A q \in Procs : run'[q].pc # "count"
    BY <1>0, <2>1
  <2> QED
    BY <2>4, <2>5 DEF Covered
<1>4. CASE Read(p)
  <2>1. run[p].pc = "read" /\ run[p].saving = 0
    BY <1>4 DEF Read, Batches, Fits, Saving
  <2> QED
    BY <1>1, <1>4, <2>1, ReadDoes
<1>5. CASE Corrupt(p)
  BY <1>1, <1>5, CorruptDoes, NoRunIs DEF Corrupt
<1>6. CASE RemoveFile(p)
  BY <1>1, <1>6, RemoveFileDoes, NoRunIs DEF RemoveFile
<1>7. ASSUME NEW k \in Cpus, Collect(p, k) PROVE Covered'
  BY <1>1, <1>7, CollectDoes DEF Collect
<1>8. CASE BatchDone(p)
  BY <1>1, <1>8, BatchDoneDoes DEF BatchDone
<1>9. CASE Retrieve(p)
  BY <1>1, <1>9, EndDoes, NoRunIs DEF Retrieve
<1>11. CASE SaveTokens(p)
  <2>1. run[p].pc = "tokens" /\ run[p].pc \in Opened /\ run[p].at = EndOf(File(p))
    BY <1>11 DEF SaveTokens, Opened, Generating, Saving, Undisturbed
  <2> DEFINE f == File(p)
             n == run[p].saving
             g == WriteAt(f, NewTokens(p), EndOf(f))
  <2>2. /\ run'[p].pc = "count" /\ run'[p].fd = run[p].fd /\ run'[p].mem = run[p].mem
        /\ run'[p].saving = run[p].saving /\ FileBecomes(p, g)
    BY <1>11, <2>1, SaveTokensDoes
  <2>3. /\ f \in Contents /\ NewTokens(p) \in Contents /\ n \in Nat /\ run[p].mem \in Nat
        /\ EndOf(f) \in Nat \ {0} /\ EndOf(f) >= Len(f) /\ Len(f) \in Nat
    BY <2>1, FileIs, NewTokensAre, RunValues, EndOfIs
  <2>4. Counted(g) = Counted(f) /\ Counted(f) = run[p].mem
    BY <2>1, <2>3, CountedWriteBehind DEF Undisturbed
  <2>5. Cardinality(Later(f)) + n <= Cardinality(Later(g))
    <3>1. Len(NewTokens(p)) = 4 * n /\ AreTokens(NewTokens(p), run[p].tag)
      BY NewTokensAre
    <3>2. \A j \in 1 .. n : NewTokens(p)[4 * j] = Newline
      BY <2>3, <3>1 DEF AreTokens
    <3> QED
      BY <2>3, <3>1, <3>2, LaterGrows
  <2>6. Counted(f) <= Cardinality(Later(f))
    BY <2>1, FileIs DEF Covered
  <2>7. g \in Contents /\ Cardinality(Later(f)) \in Nat /\ Cardinality(Later(g)) \in Nat
    BY <2>3, WriteAtIs, EndsAre
  <2> HIDE DEF f, g, n
  <2>9. Counted(g) <= Cardinality(Later(g)) /\ run[p].mem + n <= Cardinality(Later(g))
    BY <2>3, <2>4, <2>5, <2>6, <2>7
  <2>10. NewCount(p)' <= Cardinality(Later(g))
    BY <2>2, <2>9 DEF NewCount, n
  <2> QED
    BY <1>0, <2>1, <2>2, <2>9, <2>10, OneFile
<1>12. CASE SaveCount(p)
  <2>1. run[p].pc = "count" /\ run[p].pc \in Opened
    BY <1>12 DEF SaveCount, Opened, Generating, Saving
  <2> DEFINE f == File(p)
             cells == <<Count(NewCount(p)), Zeros>>
             g == WriteAt(f, cells, 0)
  <2>2. /\ run'[p].pc = "newline" /\ run'[p].fd = run[p].fd
        /\ FileBecomes(p, g)
    BY <1>12, SaveCountDoes
  <2>3. f \in Contents /\ NewCount(p) \in Nat /\ cells \in Contents /\ Len(cells) = 2
    BY <2>1, FileIs, RunValues, CellTypes DEF Contents
  <2>4. Counted(g) = NewCount(p)
    BY <2>3, CountedHeader
  <2> HIDE DEF cells
  <2>5. Cardinality(Later(f)) <= Cardinality(Later(g))
    <3>1. 0 + Len(cells) <= 3 /\ 0 \in Nat
      BY <2>3
    <3> QED
      BY <2>3, <3>1, LaterKept, ZenonT(30)
  <2>6. g \in Contents /\ Cardinality(Later(f)) \in Nat /\ Cardinality(Later(g)) \in Nat
    BY <2>3, WriteAtIs, EndsAre
  <2>7. NewCount(p) <= Cardinality(Later(f))
    BY <2>1 DEF Covered
  <2> HIDE DEF f, g
  <2>8. Counted(g) <= Cardinality(Later(g))
    BY <2>3, <2>4, <2>5, <2>6, <2>7
  <2>9. \A q \in Procs : run'[q].pc # "count"
    BY <1>0, <2>2
  <2> QED
    BY <2>1, <2>2, <2>8, <2>9, OneFile
<1>13. CASE SaveNewline(p)
  <2>1. run[p].pc = "newline" /\ run[p].pc \in Opened
    BY <1>13 DEF SaveNewline, Opened, Generating, Saving
  <2> DEFINE f == File(p)
             g == WriteAt(f, <<Newline>>, 2)
  <2>2. /\ run'[p].pc = "collect" /\ run'[p].fd = run[p].fd
        /\ FileBecomes(p, g)
    BY <1>13, SaveNewlineDoes
  <2>3. /\ f \in Contents /\ <<Newline>> \in Contents /\ 2 \in Nat \ {0}
        /\ Len(<<Newline>>) = 1 /\ <<Newline>>[1] = Newline
    BY <2>1, FileIs, CellTypes DEF Contents
  <2>4. Counted(g) = Counted(f)
    BY <2>3, CountedWriteBehind
  <2>5. Cardinality(Later(f)) <= Cardinality(Later(g))
    <3>1. 2 + Len(<<Newline>>) <= 3 /\ 2 \in Nat
      BY <2>3
    <3> QED
      BY <2>3, <3>1, LaterKept, ZenonT(30)
  <2>6. g \in Contents /\ Cardinality(Later(f)) \in Nat /\ Cardinality(Later(g)) \in Nat
        /\ Counted(f) \in Nat
    BY <2>3, WriteAtIs, EndsAre, CountedIs
  <2>7. Counted(f) <= Cardinality(Later(f))
    BY <2>1, FileIs DEF Covered
  <2> HIDE DEF f, g
  <2>9. Counted(g) <= Cardinality(Later(g))
    BY <2>4, <2>5, <2>6, <2>7
  <2>10. \A q \in Procs : run'[q].pc # "count"
    BY <1>0, <2>2
  <2> QED
    BY <2>1, <2>2, <2>9, <2>10, OneFile
<1> QED
  BY <1>3, <1>4, <1>5, <1>6, <1>7, <1>8, <1>9, <1>11, <1>12, <1>13 DEF RunStep

LEMMA LoneLinesStep ==
  ASSUME CacheInv, AloneInv, LoneLines, OneAtATime', [Next]_vars
  PROVE  LoneLines'
<1> USE DEF CacheInv
<1>0. AllAlone' /\ AllAlone /\ Covered
  BY AllAloneStep DEF LoneLines
<1>1. ASSUME NEW p \in Procs, Active(p) PROVE Undisturbed(p)
  BY <1>0, <1>1 DEF AloneInv, AllAlone
<1>2. CASE UNCHANGED vars
  BY <1>0, <1>2 DEF LoneLines, Covered, File, NewCount, vars
<1>3. CASE ClearCache
  BY <1>0, <1>3 DEF ClearCache, LoneLines, Covered, File, NewCount
<1>4. ASSUME NEW p \in Procs, NEW n \in Amounts, StartRun(p, n) PROVE LoneLines'
  <2>1. run'[p].pc = "open" /\ ~Active(p) /\ UNCHANGED <<disk, crashes>>
    BY <1>4, StartRunDoes DEF StartRun
  <2>2. ASSUME NEW q \in Procs, q # p PROVE run[q].pc = "ended" /\ run'[q].pc = "ended"
    <3>1. run'[q].pc = run[q].pc
      BY <1>4, <2>2, StartRunDoes
    <3>2. Active(p)'
      BY <2>1 DEF Active
    <3> QED
      BY <2>2, <3>1, <3>2 DEF OneAtATime, Active
  <2>3. \A q \in Procs : run'[q].pc # "count"
    BY <2>1, <2>2 DEF Active
  <2> QED
    BY <1>0, <2>1, <2>3 DEF LoneLines, Covered
<1>5. ASSUME NEW p \in Procs, RunStep(p) PROVE LoneLines'
  <2>1. Undisturbed(p)
    BY <1>1, <1>5, StepMovesOne
  <2> QED
    BY <1>0, <1>5, <2>1, CoveredStep DEF LoneLines
<1>6. ASSUME NEW p \in Procs, Active(p), End(p)
      PROVE  /\ \A q \in Procs : run'[q].pc = "ended"
             /\ \A q \in Procs : q # p => run[q].pc = "ended"
  <2>1. Undisturbed(p)
    BY <1>1, <1>6
  <2> QED
    BY <1>6, <2>1, EndDoes, NoRunIs DEF Undisturbed, Active, Others
<1>7. ASSUME NEW p \in Procs, OpenFails(p) \/ GiveUp(p) PROVE LoneLines'
  <2>1. Active(p) /\ End(p) /\ UNCHANGED disk
    BY <1>7 DEF OpenFails, GiveUp, Active
  <2>2. \A q \in Procs : run'[q].pc # "count"
    BY <1>6, <2>1
  <2> QED
    BY <1>0, <2>1, <2>2 DEF LoneLines, Covered
<1>8. ASSUME NEW p \in Procs, Crash(p) PROVE LoneLines'
  <2>1. Active(p) /\ End(p) /\ Undisturbed(p)
    BY <1>1, <1>8, StepMovesOne DEF Crash
  <2>2. \A q \in Procs : run'[q].pc # "count"
    BY <1>6, <2>1
  <2>3. Covered'
    <3>1. CASE disk' = disk
      BY <1>0, <2>2, <3>1 DEF Covered
    <3>2. CASE disk' # disk
      <4>1. PICK cells \in Contents : /\ run[p].pc = "tokens"
                                      /\ FileBecomes(p, WriteAt(File(p), cells, run[p].at))
        BY <1>8, <3>2, CrashDoes
      <4> DEFINE f == File(p)
                 g == WriteAt(f, cells, run[p].at)
      <4>2. /\ run[p].pc \in Opened /\ run[p].at = EndOf(f)
        BY <2>1, <4>1 DEF Opened, Generating, Saving, Undisturbed
      <4>3. f \in Contents /\ run[p].at \in Nat \ {0} /\ run[p].at >= Len(f)
        BY <4>2, FileIs, EndOfIs
      <4>4. Counted(g) = Counted(f) /\ Counted(f) \in Nat
        BY <4>3, CountedWriteBehind, CountedIs
      <4>5. Cardinality(Later(f)) <= Cardinality(Later(g))
        BY <4>3, LaterKept
      <4>6. Counted(f) <= Cardinality(Later(f))
        BY <1>0, <4>2, FileIs DEF Covered
      <4>7. Cardinality(Later(f)) \in Nat /\ Cardinality(Later(g)) \in Nat
        BY <4>3, WriteAtIs, EndsAre
      <4> HIDE DEF f, g
      <4>8. FileBecomes(p, g) /\ Counted(g) <= Cardinality(Later(g))
        BY <4>1, <4>4, <4>5, <4>6, <4>7 DEF f, g
      <4> QED
        BY <1>0, <2>2, <4>2, <4>8, OneFile
    <3> QED
      BY <3>1, <3>2
  <2> QED
    BY <1>0, <2>3 DEF LoneLines
<1> QED
  BY <1>2, <1>3, <1>4, <1>5, <1>7, <1>8 DEF Next

LEMMA LinesInvStep ==
  ASSUME CacheInv, AloneInv, LinesInv, [Next]_vars
  PROVE  LinesInv'
<1> SUFFICES ASSUME ~shared' PROVE OneAtATime' /\ LoneLines'
  BY DEF LinesInv
<1>1. ~shared /\ OneAtATime'
  BY OneAtATimeStep DEF LinesInv
<1> QED
  BY <1>1, LoneLinesStep DEF LinesInv

LEMMA LinesInvInit == Init => LinesInv
  BY NoRunIs
     DEF Init, LinesInv, LoneLines, OneAtATime, AllAlone, Covered, Active

LEMMA LinesAlways == Spec => [](CacheInv /\ AloneInv /\ LinesInv)
<1>1. Init => LinesInv
  BY LinesInvInit
<1>2. (CacheInv /\ AloneInv) /\ LinesInv /\ [Next]_vars => LinesInv'
  BY LinesInvStep
<1> QED
  BY <1>1, <1>2, AloneAlways, PTL DEF Spec

-------------------------------------------------------------------------------
(* Which cells are which line. *)

Starts(f) == Ends(f) \cup {0}

Places(f) == Ends(f) \cup {0, Len(f) + 1}

\* How many lines have begun before a place.
Rank(f, e) == Cardinality({x \in Starts(f) : x < e})

EndAt(f, k) == CHOOSE e \in Places(f) : Rank(f, e) = k

LEMMA PlacesAre ==
  ASSUME NEW f \in Contents
  PROVE  /\ Len(f) \in Nat /\ Ends(f) \subseteq 1 .. Len(f)
         /\ Starts(f) \subseteq 0 .. Len(f) /\ Places(f) = Starts(f) \cup {Len(f) + 1}
         /\ IsFiniteSet(Starts(f)) /\ IsFiniteSet(Places(f))
         /\ Cardinality(Starts(f)) = Cardinality(Ends(f)) + 1
         /\ Cardinality(Places(f)) = Cardinality(Ends(f)) + 2
<1>1. /\ Len(f) \in Nat /\ Ends(f) \subseteq 1 .. Len(f)
      /\ IsFiniteSet(Ends(f)) /\ Cardinality(Ends(f)) \in Nat
  BY EndsAre DEF Contents
<1>2. 0 \notin Ends(f) /\ Len(f) + 1 \notin Starts(f) /\ Starts(f) \subseteq 0 .. Len(f)
  BY <1>1 DEF Starts
<1>3. IsFiniteSet(Starts(f)) /\ Cardinality(Starts(f)) = Cardinality(Ends(f)) + 1
  BY <1>1, <1>2, FS_AddElement DEF Starts
<1>4. Places(f) = Starts(f) \cup {Len(f) + 1}
  BY DEF Starts, Places
<1>5. IsFiniteSet(Places(f)) /\ Cardinality(Places(f)) = Cardinality(Starts(f)) + 1
  BY <1>2, <1>3, <1>4, FS_AddElement
<1> QED
  BY <1>1, <1>2, <1>3, <1>4, <1>5

\* Ranks follow the places.
LEMMA RankGrows ==
  ASSUME NEW f \in Contents, NEW d \in Places(f), NEW e \in Places(f), d < e
  PROVE  Rank(f, d) < Rank(f, e)
<1> DEFINE D == {x \in Starts(f) : x < d}
           E == {x \in Starts(f) : x < e}
<1>1. /\ Len(f) \in Nat /\ Starts(f) \subseteq 0 .. Len(f)
      /\ Places(f) = Starts(f) \cup {Len(f) + 1} /\ IsFiniteSet(Starts(f))
  BY PlacesAre
<1>2. d \in Starts(f) /\ d \in Nat /\ e \in Nat
  BY <1>1
<1>3. D \subseteq E /\ d \in E /\ d \notin D
  BY <1>1, <1>2
<1>4. E \subseteq Starts(f)
  OBVIOUS
<1> HIDE DEF D, E
<1>5. IsFiniteSet(E)
  BY <1>1, <1>4, FS_Subset
<1>6. /\ Cardinality(D) <= Cardinality(E) /\ Cardinality(D) # Cardinality(E)
      /\ IsFiniteSet(D)
  BY <1>3, <1>5, FS_Subset
<1>7. Cardinality(D) \in Nat /\ Cardinality(E) \in Nat
  BY <1>5, <1>6, FS_CardinalityType
<1> QED
  BY <1>6, <1>7 DEF Rank, D, E

LEMMA RankType ==
  ASSUME NEW f \in Contents, NEW e \in Places(f)
  PROVE  /\ Rank(f, e) \in 0 .. Cardinality(Ends(f)) + 1
         /\ Rank(f, e) = 0 <=> e = 0
         /\ Rank(f, e) = Cardinality(Ends(f)) + 1 <=> e = Len(f) + 1
<1> DEFINE E == {x \in Starts(f) : x < e}
<1>1. /\ Len(f) \in Nat /\ Starts(f) \subseteq 0 .. Len(f) /\ 0 \in Starts(f)
      /\ Places(f) = Starts(f) \cup {Len(f) + 1} /\ IsFiniteSet(Starts(f))
      /\ Cardinality(Starts(f)) = Cardinality(Ends(f)) + 1
      /\ Cardinality(Ends(f)) \in Nat
  BY PlacesAre, EndsAre DEF Starts
<1>2. e \in Nat
  BY <1>1
<1>3. /\ E \subseteq Starts(f)
      /\ E = {} <=> e = 0
      /\ E = Starts(f) <=> e = Len(f) + 1
  <2>1. ASSUME e # 0 PROVE 0 \in E
    BY <1>1, <1>2, <2>1
  <2>2. ASSUME e = 0 PROVE E = {}
    BY <1>1, <2>2
  <2>3. ASSUME e = Len(f) + 1 PROVE E = Starts(f)
    BY <1>1, <2>3
  <2>4. ASSUME e # Len(f) + 1 PROVE e \in Starts(f) /\ e \notin E
    BY <1>1, <1>2, <2>4
  <2> HIDE DEF E
  <2>5. E \subseteq Starts(f)
    BY DEF E
  <2> QED
    BY <2>1, <2>2, <2>3, <2>4, <2>5
<1> HIDE DEF E
<1>4. /\ IsFiniteSet(E) /\ Cardinality(E) <= Cardinality(Starts(f))
      /\ Cardinality(E) = Cardinality(Starts(f)) => E = Starts(f)
  BY <1>1, <1>3, FS_Subset
<1>5. Cardinality(E) \in Nat /\ (Cardinality(E) = 0 <=> E = {})
  BY <1>4, FS_CardinalityType, FS_EmptySet
<1>6. Cardinality(E) \in 0 .. Cardinality(Ends(f)) + 1
  BY <1>1, <1>4, <1>5
<1> QED
  BY <1>1, <1>3, <1>4, <1>5, <1>6 DEF Rank, E

\* Every rank has its place.
LEMMA EndAtIs ==
  ASSUME NEW f \in Contents, NEW k \in 0 .. Cardinality(Ends(f)) + 1
  PROVE  EndAt(f, k) \in Places(f) /\ Rank(f, EndAt(f, k)) = k
<1> DEFINE n == Cardinality(Ends(f))
           rank == [e \in Places(f) |-> Rank(f, e)]
<1>1. /\ IsFiniteSet(Places(f)) /\ Cardinality(Places(f)) = n + 2 /\ n \in Nat
      /\ \A e \in Places(f) : e \in Nat
  BY PlacesAre, EndsAre
<1>2. rank \in [Places(f) -> 0 .. n + 1]
  BY RankType
<1>3. \A d, e \in Places(f) : rank[d] = rank[e] => d = e
  <2> SUFFICES ASSUME NEW d \in Places(f), NEW e \in Places(f), d # e
               PROVE  Rank(f, d) # Rank(f, e)
    OBVIOUS
  <2>1. d < e \/ e < d
    BY <1>1
  <2>2. Rank(f, d) \in Nat /\ Rank(f, e) \in Nat
    BY <1>1, RankType
  <2> QED
    BY <2>1, <2>2, RankGrows
<1>4. rank \in Injection(Places(f), 0 .. n + 1)
  <2> HIDE DEF rank, n
  <2> QED
    BY <1>2, <1>3 DEF Injection, IsInjective
<1>5. IsFiniteSet(0 .. n + 1) /\ Cardinality(0 .. n + 1) = n + 2
  <2>1. n + 1 \in Int /\ 0 \in Int
    BY <1>1
  <2> HIDE DEF n
  <2>2. IsFiniteSet(0 .. n + 1) /\ Cardinality(0 .. n + 1) = IF 0 > n + 1 THEN 0 ELSE n + 1 - 0 + 1
    BY <2>1, FS_Interval
  <2> QED
    BY <1>1, <2>2 DEF n
<1>6. rank \in Surjection(Places(f), 0 .. n + 1)
  <2> HIDE DEF rank, n
  <2> QED
    BY <1>1, <1>4, <1>5, FS_Injection
<1>7. \E e \in Places(f) : rank[e] = k
  <2> HIDE DEF rank
  <2> QED
    BY <1>6 DEF Surjection
<1>8. \E e \in Places(f) : Rank(f, e) = k
  BY <1>7
<1> QED
  BY <1>8 DEF EndAt

\* A line is what lies between two newlines, none between them; only the first has
\* none before it, and only a last one that has not ended none behind it.
LEMMA LineIs ==
  ASSUME NEW f \in Contents, NEW k \in 1 .. Len(Lines(f))
  PROVE  LET a == EndAt(f, k - 1)
             b == EndAt(f, k)
         IN  /\ Lines(f)[k] = SubSeq(f, a + 1, b - 1)
             /\ a \in Starts(f) /\ b \in Places(f) /\ a < b /\ Rank(f, b) = k
             /\ \A x \in Ends(f) : ~ (a < x /\ x < b)
             /\ k > 1 => a \in Ends(f)
             /\ b \in Ends(f) \/ (b = Len(f) + 1 /\ EndsInLine(f))
<1> DEFINE n == Cardinality(Ends(f))
           m == n + IF EndsInLine(f) THEN 1 ELSE 0
           line(i) == SubSeq(f, EndAt(f, i - 1) + 1, EndAt(f, i) - 1)
           a == EndAt(f, k - 1)
           b == EndAt(f, k)
<1>1. n \in Nat /\ m \in Nat /\ m <= n + 1
  BY EndsAre
<1>2. Lines(f) = [i \in 1 .. m |-> line(i)]
  BY DEF Lines, EndAt, Places, Rank, Starts
<1>3. Len(Lines(f)) = m
  <2> HIDE DEF m, line
  <2> QED
    BY <1>1, <1>2
<1>4. k \in 1 .. m /\ k \in 0 .. n + 1 /\ k - 1 \in 0 .. n + 1 /\ k - 1 <= n
  <2> HIDE DEF n
  <2>1. k \in 1 .. m /\ m \in Nat /\ m <= n + 1
    BY <1>1, <1>3
  <2> HIDE DEF m
  <2> QED
    BY <1>1, <2>1
<1>5. Lines(f)[k] = line(k)
  <2> HIDE DEF m, line
  <2> QED
    BY <1>2, <1>4
<1>6. /\ a \in Places(f) /\ Rank(f, a) = k - 1
      /\ b \in Places(f) /\ Rank(f, b) = k
  BY <1>4, EndAtIs
<1> HIDE DEF a, b
<1>7. /\ Len(f) \in Nat /\ Starts(f) \subseteq 0 .. Len(f) /\ Starts(f) = Ends(f) \cup {0}
      /\ Places(f) = Starts(f) \cup {Len(f) + 1}
  BY PlacesAre DEF Starts
<1>8. a \in Starts(f) /\ (k > 1 => a # 0)
  <2>1. /\ Rank(f, a) = 0 <=> a = 0
        /\ Rank(f, a) = n + 1 <=> a = Len(f) + 1
    BY <1>6, RankType
  <2> HIDE DEF n, m
  <2> QED
    BY <1>1, <1>4, <1>6, <1>7, <2>1
<1>9. b # 0 /\ (b = Len(f) + 1 => EndsInLine(f))
  <2>1. /\ Rank(f, b) = 0 <=> b = 0
        /\ Rank(f, b) = n + 1 <=> b = Len(f) + 1
    BY <1>6, RankType
  <2>2. m = n + 1 => EndsInLine(f)
    BY <1>1
  <2> HIDE DEF n, m
  <2> QED
    BY <1>1, <1>4, <1>6, <2>1, <2>2
<1>10. a \in Nat /\ b \in Nat
  BY <1>6, <1>7
<1>11. a < b
  <2>1. ~ (b < a)
    <3>1. b < a => Rank(f, b) < Rank(f, a)
      BY <1>6, RankGrows
    <3> HIDE DEF n, m
    <3> QED
      BY <1>4, <1>6, <3>1
  <2>2. a # b
    <3> HIDE DEF n, m
    <3> QED
      BY <1>4, <1>6
  <2> QED
    BY <1>10, <2>1, <2>2
<1>12. ASSUME NEW x \in Ends(f), a < x, x < b PROVE FALSE
  <2>1. x \in Places(f) /\ Rank(f, x) \in 0 .. n + 1
    BY RankType DEF Places
  <2>2. Rank(f, a) < Rank(f, x) /\ Rank(f, x) < Rank(f, b)
    BY <1>6, <1>12, <2>1, RankGrows
  <2> HIDE DEF n, m
  <2> QED
    BY <1>1, <1>4, <1>6, <2>1, <2>2
<1> QED
  BY <1>5, <1>6, <1>7, <1>8, <1>9, <1>11, <1>12 DEF a, b

\* The JWT before a line's newline is whole, and so is the line if it begins there.
Piece(f, e) == \E tag \in 1 .. MaxRuns : /\ f[e - 3] = <<"first", tag>>
                                         /\ f[e - 2] = <<"next", tag>>
                                         /\ f[e - 1] = <<"rest", tag>>

WholeAt(f, e) == e - 4 \in Ends(f) /\ Piece(f, e)

Bad(f) == {e \in Later(f) : ~WholeAt(f, e)}

\* What the next save will spoil: it begins in a line, or the header will.
Debt(f) == IF f # <<>> /\ f[Len(f)] = Newline THEN 0 ELSE 1

LEMMA BadIs ==
  ASSUME NEW f \in Contents
  PROVE  /\ IsFiniteSet(Bad(f)) /\ Cardinality(Bad(f)) \in Nat /\ Bad(f) \subseteq Later(f)
         /\ Debt(f) \in 0 .. 1
<1>1. Bad(f) \subseteq Later(f)
  BY DEF Bad
<1> QED
  BY <1>1, EndsAre, FS_Subset, FS_CardinalityType DEF Debt

\* A line between the newlines of a whole JWT is that JWT.
LEMMA WholeLine ==
  ASSUME NEW f \in Contents, NEW a \in Ends(f), NEW b \in Ends(f), a < b,
         \A x \in Ends(f) : ~ (a < x /\ x < b), WholeAt(f, b)
  PROVE  IsWhole(SubSeq(f, a + 1, b - 1))
<1>1. PICK tag \in 1 .. MaxRuns : /\ f[b - 3] = <<"first", tag>>
                                  /\ f[b - 2] = <<"next", tag>>
                                  /\ f[b - 1] = <<"rest", tag>>
  BY DEF WholeAt, Piece
<1>2. /\ f \in Seq(Cell) /\ Len(f) \in Nat
      /\ a \in 1 .. Len(f) /\ b \in 1 .. Len(f) /\ b - 4 \in 1 .. Len(f)
      /\ f[a] = Newline
  BY EndsAre DEF WholeAt, Contents
<1>3. a <= b - 4
  <2>1. f[b - 3] # Newline /\ f[b - 2] # Newline /\ f[b - 1] # Newline
    BY <1>1 DEF Newline
  <2>2. a # b - 3 /\ a # b - 2 /\ a # b - 1
    BY <1>2, <2>1
  <2> QED
    BY <1>2, <2>2
<1>4. a = b - 4
  BY <1>2, <1>3 DEF WholeAt
<1> DEFINE l == SubSeq(f, a + 1, b - 1)
<1>5. l \in Seq(Cell) /\ Len(l) = 3 /\ l[1] = f[b - 3] /\ l[2] = f[b - 2] /\ l[3] = f[b - 1]
  <2>1. a + 1 \in 1 .. Len(f) /\ b - 1 \in 1 .. Len(f) /\ b - 1 - (a + 1) + 1 = 3
    <3>1. a \in Int /\ b \in Int /\ 1 <= a /\ b <= Len(f) /\ Len(f) \in Int
      BY <1>2
    <3>2. b = a + 4
      BY <3>1, <1>4
    <3>3. b - 1 - (a + 1) + 1 = 3
      BY <3>1, <3>2
    <3>4. a + 1 \in 1 .. Len(f)
      BY <3>1, <3>2
    <3>5. b - 1 \in 1 .. Len(f)
      BY <3>1, <3>2
    <3> QED
      BY <3>3, <3>4, <3>5
  <2>2. /\ l \in Seq(Cell) /\ Len(l) = 3
        /\ \A i \in 1 .. 3 : l[i] = f[a + 1 + i - 1]
    BY <1>2, <2>1
  <2> HIDE DEF l
  <2>3. l[1] = f[a + 1] /\ l[2] = f[a + 2] /\ l[3] = f[a + 3]
    <3>1. /\ 1 \in 1 .. 3 /\ 2 \in 1 .. 3 /\ 3 \in 1 .. 3
          /\ a + 1 + 1 - 1 = a + 1 /\ a + 1 + 2 - 1 = a + 2 /\ a + 1 + 3 - 1 = a + 3
      BY <1>2
    <3> QED
      BY <2>2, <3>1
  <2>4. a + 1 = b - 3 /\ a + 2 = b - 2 /\ a + 3 = b - 1
    BY <1>2, <1>4
  <2> QED
    BY <2>2, <2>3, <2>4
<1> HIDE DEF l
<1>6. Jwt(tag) \in Seq(Cell) /\ Len(Jwt(tag)) = 3
      /\ Jwt(tag)[1] = <<"first", tag>> /\ Jwt(tag)[2] = <<"next", tag>>
      /\ Jwt(tag)[3] = <<"rest", tag>>
  <2>1. tag \in Nat
    BY JwtCacheAssumption
  <2>2. <<"first", tag>> \in Cell /\ <<"next", tag>> \in Cell /\ <<"rest", tag>> \in Cell
    BY <2>1 DEF Cell
  <2> QED
    BY <2>2 DEF Jwt
<1>7. \A i \in 1 .. 3 : i = 1 \/ i = 2 \/ i = 3
  OBVIOUS
<1>8. \A i \in 1 .. Len(l) : l[i] = Jwt(tag)[i]
  BY <1>1, <1>5, <1>6, <1>7
<1>9. l = Jwt(tag)
  BY <1>5, <1>6, <1>8, SeqEqual
<1> QED
  BY <1>9 DEF IsWhole, l

LEMMA SpoiltAre ==
  ASSUME NEW f \in Contents, 1 \notin Ends(f), 2 \notin Ends(f)
  PROVE  /\ Cardinality(Spoilt(JwtLines(f))) \in Nat
         /\ Cardinality(Spoilt(JwtLines(f))) <= Cardinality(Bad(f)) + Debt(f)
<1> DEFINE lines == JwtLines(f)
           bad == Spoilt(lines)
<1>0. Cardinality(Bad(f)) \in Nat /\ Debt(f) \in 0 .. 1 /\ IsFiniteSet(Bad(f))
  BY BadIs
<1>1. CASE f = <<>>
  <2>1. bad = {}
    BY <1>1 DEF JwtLines, Spoilt
  <2> HIDE DEF bad
  <2>2. Cardinality(bad) = 0
    BY <2>1, FS_EmptySet
  <2> QED
    BY <1>0, <2>2 DEF bad
<1>2. CASE f # <<>>
  <2>1. PICK S : Lines(f) \in Seq(S)
    BY LinesAre
  <2>2. Len(Lines(f)) \in Nat \ {0}
    <3>1. Len(Lines(f)) \in Nat /\ Len(Lines(f)) >= Cardinality(Ends(f))
      BY LinesAre
    <3>2. CASE EndsInLine(f)
      <4> DEFINE n == Cardinality(Ends(f)) + 1
                 line(k) == SubSeq(f, EndAt(f, k - 1) + 1, EndAt(f, k) - 1)
      <4>1. Cardinality(Ends(f)) \in Nat
        BY EndsAre
      <4>2. Lines(f) = [k \in 1 .. n |-> line(k)]
        BY <3>2 DEF Lines, EndAt, Places, Rank, Starts
      <4> HIDE DEF line
      <4>3. Len(Lines(f)) = n
        BY <4>1, <4>2
      <4> QED
        BY <4>1, <4>3
    <3>3. CASE ~EndsInLine(f)
      <4>1. f[Len(f)] = Newline /\ Len(f) \in 1 .. Len(f)
        BY <1>2, <3>3 DEF EndsInLine, Contents
      <4>2. Len(f) \in Ends(f)
        BY <4>1, EndsAre
      <4>3. Cardinality(Ends(f)) # 0 /\ Cardinality(Ends(f)) \in Nat
        BY <4>2, EndsAre, FS_EmptySet
      <4> QED
        BY <3>1, <4>3
    <3> QED
      BY <3>2, <3>3
  <2>3. lines = Tail(Lines(f))
    BY <1>2 DEF JwtLines
  <2> HIDE DEF lines
  <2>4. /\ DOMAIN lines = 1 .. Len(Lines(f)) - 1
        /\ \A k \in 1 .. Len(Lines(f)) - 1 : lines[k] = Lines(f)[k + 1]
    BY <2>1, <2>2, <2>3
  <2> DEFINE m == Len(Lines(f)) - 1
             last == IF EndsInLine(f) THEN {Len(f) + 1} ELSE {}
             at == [k \in bad |-> EndAt(f, k + 1)]
  <2>5. bad \subseteq 1 .. m /\ m \in Nat
    BY <2>2, <2>4 DEF Spoilt
  <2>6. ASSUME NEW k \in bad
        PROVE  EndAt(f, k + 1) \in Bad(f) \cup last /\ Rank(f, EndAt(f, k + 1)) = k + 1
    <3> DEFINE a == EndAt(f, k + 1 - 1)
               b == EndAt(f, k + 1)
    <3>1. k + 1 \in 1 .. Len(Lines(f)) /\ k + 1 > 1 /\ k \in 1 .. m
      BY <2>2, <2>5
    <3>2. /\ Lines(f)[k + 1] = SubSeq(f, a + 1, b - 1)
          /\ b \in Places(f) /\ a < b /\ Rank(f, b) = k + 1
          /\ \A x \in Ends(f) : ~ (a < x /\ x < b)
          /\ a \in Ends(f)
          /\ b \in Ends(f) \/ (b = Len(f) + 1 /\ EndsInLine(f))
      BY <3>1, LineIs
    <3> HIDE DEF a, b, m
    <3>3. ~IsWhole(SubSeq(f, a + 1, b - 1))
      <4>1. ~IsWhole(lines[k])
        BY <2>6 DEF Spoilt
      <4> QED
        BY <2>4, <3>1, <3>2, <4>1 DEF m
    <3>4. ASSUME b \in Ends(f) PROVE b \in Bad(f)
      <4>1. ~WholeAt(f, b)
        BY <3>2, <3>3, <3>4, WholeLine
      <4>2. a \in 1 .. Len(f) /\ b \in 1 .. Len(f) /\ a # 1 /\ a # 2 /\ Len(f) \in Nat
        BY <3>2, <3>4, EndsAre DEF Contents
      <4>3. b >= 4
        BY <3>2, <4>2
      <4> QED
        BY <3>4, <4>1, <4>3 DEF Bad, Later
    <3> QED
      BY <3>2, <3>4 DEF b
  <2>7. at \in Injection(bad, Bad(f) \cup last)
    <3> HIDE DEF bad, last
    <3>1. at \in [bad -> Bad(f) \cup last]
      BY <2>6
    <3>2. \A j, k \in bad : at[j] = at[k] => j = k
      <4> SUFFICES ASSUME NEW j \in bad, NEW k \in bad, EndAt(f, j + 1) = EndAt(f, k + 1)
                   PROVE  j = k
        OBVIOUS
      <4>1. j + 1 = k + 1
        BY <2>6
      <4> QED
        BY <2>5, <4>1
    <3> HIDE DEF at
    <3> QED
      BY <3>1, <3>2 DEF Injection, IsInjective
  <2>8. /\ IsFiniteSet(Bad(f) \cup last)
        /\ Cardinality(Bad(f) \cup last) <= Cardinality(Bad(f)) + Debt(f)
    <3>1. CASE EndsInLine(f)
      <4>1. Debt(f) = 1 /\ Bad(f) \cup last = Bad(f) \cup {Len(f) + 1}
        BY <3>1 DEF EndsInLine, Debt
      <4> HIDE DEF last
      <4>2. /\ IsFiniteSet(Bad(f) \cup last)
            /\ \/ Cardinality(Bad(f) \cup last) = Cardinality(Bad(f))
               \/ Cardinality(Bad(f) \cup last) = Cardinality(Bad(f)) + 1
        BY <1>0, <4>1, FS_AddElement
      <4> QED
        BY <1>0, <4>1, <4>2
    <3>2. CASE ~EndsInLine(f)
      <4>1. Bad(f) \cup last = Bad(f)
        BY <3>2
      <4> HIDE DEF last
      <4>2. IsFiniteSet(Bad(f) \cup last) /\ Cardinality(Bad(f) \cup last) = Cardinality(Bad(f))
        BY <1>0, <4>1
      <4> QED
        BY <1>0, <4>2
    <3> QED
      BY <3>1, <3>2
  <2> HIDE DEF at, bad, last
  <2>9. IsFiniteSet(bad) /\ Cardinality(bad) <= Cardinality(Bad(f) \cup last)
    BY <2>7, <2>8, FS_Injection
  <2>10. Cardinality(bad) \in Nat /\ Cardinality(Bad(f) \cup last) \in Nat
    BY <2>8, <2>9, FS_CardinalityType
  <2> QED
    BY <1>0, <2>8, <2>9, <2>10 DEF bad, lines
<1> QED
  BY <1>1, <1>2

-------------------------------------------------------------------------------
(* What the writes of a save do to the lines. *)

\* Where the newlines are after a save that appends, or the beginning of one.
LEMMA AppendedEnds ==
  ASSUME NEW f \in Contents, NEW cells \in Contents, NEW tag, AreTokens(cells, tag),
         NEW e \in Ends(WriteAt(f, cells, EndOf(f)))
  PROVE  \/ e \in Ends(f)
         \/ \E j \in Nat \ {0} : e = EndOf(f) + 4 * j /\ 4 * j <= Len(cells)
<1> DEFINE at == EndOf(f)
           g == WriteAt(f, cells, at)
<1>1. at \in Nat \ {0} /\ at >= Len(f) /\ Len(f) \in Nat /\ Len(cells) \in Nat
  BY EndOfIs DEF Contents
<1> HIDE DEF at
<1>2. /\ g \in Contents
      /\ Len(g) = IF Len(f) >= at + Len(cells) THEN Len(f) ELSE at + Len(cells)
      /\ \A k \in 1 .. Len(g) :
           g[k] = IF k - at \in 1 .. Len(cells) THEN cells[k - at]
                  ELSE IF k <= Len(f) THEN f[k] ELSE Zeros
  BY <1>1, WriteAtIs
<1>3. e \in 1 .. Len(g) /\ g[e] = Newline /\ e \in Nat
  BY <1>2, EndsAre DEF at
<1> HIDE DEF g
<1>4. CASE e - at \in 1 .. Len(cells)
  <2>1. cells[e - at] = Newline
    BY <1>2, <1>3, <1>4
  <2>2. (e - at) % 4 = 0
    BY <1>4, <2>1 DEF AreTokens
  <2>3. \E j \in Nat \ {0} : e - at = 4 * j
    <3> DEFINE i == e - at
    <3>1. i \in Nat \ {0} /\ i % 4 = 0
      BY <1>4, <2>2
    <3> HIDE DEF i
    <3>2. i = 4 * (i \div 4) /\ i \div 4 \in Nat \ {0}
      BY <3>1
    <3> QED
      BY <3>2 DEF i
  <2> QED
    BY <1>1, <1>3, <1>4, <2>3 DEF at
<1>5. CASE ~ (e - at \in 1 .. Len(cells))
  <2>1. g[e] = IF e <= Len(f) THEN f[e] ELSE Zeros
    BY <1>2, <1>3, <1>5
  <2>2. e <= Len(f) /\ f[e] = Newline
    BY <1>3, <2>1 DEF Zeros, Newline
  <2> QED
    BY <1>3, <2>2, EndsAre
<1> QED
  BY <1>4, <1>5

\* A save that appends spoils no line but where it begins, if what was there had not
\* ended; and when it is complete the file ends with a newline.
LEMMA AppendSpoils ==
  ASSUME NEW f \in Contents, NEW cells \in Contents, NEW tag \in 1 .. MaxRuns,
         AreTokens(cells, tag), 1 \notin Ends(f), 2 \notin Ends(f)
  PROVE  LET g == WriteAt(f, cells, EndOf(f)) IN
         /\ 1 \notin Ends(g) /\ 2 \notin Ends(g)
         /\ Cardinality(Bad(g)) <= Cardinality(Bad(f)) + Debt(f)
         /\ \A n \in Nat \ {0} : Len(cells) = 4 * n => Debt(g) = 0 /\ Len(g) >= 5
<1> DEFINE at == EndOf(f)
           g == WriteAt(f, cells, at)
<1>1. at \in Nat \ {0} /\ at >= Len(f) /\ Len(f) \in Nat /\ Len(cells) \in Nat
      /\ (f # <<>> => at = Len(f))
  BY EndOfIs DEF Contents
<1>2. ASSUME NEW e \in Ends(g), e \notin Ends(f)
      PROVE  \E j \in Nat \ {0} : e = at + 4 * j /\ 4 * j <= Len(cells)
  BY <1>2, AppendedEnds
<1> HIDE DEF at
<1>3. /\ g \in Contents
      /\ Len(g) = IF Len(f) >= at + Len(cells) THEN Len(f) ELSE at + Len(cells)
      /\ \A k \in 1 .. Len(g) :
           g[k] = IF k - at \in 1 .. Len(cells) THEN cells[k - at]
                  ELSE IF k <= Len(f) THEN f[k] ELSE Zeros
  BY <1>1, WriteAtIs
<1> HIDE DEF g
<1>4. \A k \in 1 .. Len(f) : k \in 1 .. Len(g) /\ g[k] = f[k]
  BY <1>1, <1>3
<1>5. Ends(f) \subseteq 1 .. Len(f) /\ Ends(f) \subseteq Ends(g)
  <2> SUFFICES ASSUME NEW e \in Ends(f) PROVE e \in 1 .. Len(f) /\ e \in Ends(g)
    OBVIOUS
  <2>1. e \in 1 .. Len(f) /\ f[e] = Newline
    BY EndsAre
  <2> QED
    BY <1>3, <1>4, <2>1, EndsAre
<1>6. 1 \notin Ends(g) /\ 2 \notin Ends(g)
  <2> SUFFICES ASSUME NEW e \in Ends(g), e = 1 \/ e = 2 PROVE FALSE
    OBVIOUS
  <2>1. e \notin Ends(f)
    OBVIOUS
  <2> QED
    BY <1>1, <1>2, <2>1
<1>7. ASSUME NEW j \in Nat \ {0}, 4 * j <= Len(cells)
      PROVE  at + 4 * j \in Ends(g) /\ Piece(g, at + 4 * j)
  <2>1. /\ cells[4 * j - 3] = <<"first", tag>> /\ cells[4 * j - 2] = <<"next", tag>>
        /\ cells[4 * j - 1] = <<"rest", tag>> /\ cells[4 * j] = Newline
    BY <1>7 DEF AreTokens
  <2>2. \A i \in 1 .. Len(cells) : at + i \in 1 .. Len(g) /\ g[at + i] = cells[i]
    <3> SUFFICES ASSUME NEW i \in 1 .. Len(cells)
                 PROVE  at + i \in 1 .. Len(g) /\ g[at + i] = cells[i]
      OBVIOUS
    <3> DEFINE k == at + i
    <3>1. k \in 1 .. Len(g) /\ k - at = i
      BY <1>1, <1>3
    <3> HIDE DEF k
    <3>2. g[k] = cells[i]
      BY <1>3, <3>1
    <3> QED
      BY <3>1, <3>2 DEF k
  <2>3. /\ 4 * j - 3 \in 1 .. Len(cells) /\ at + (4 * j - 3) = (at + 4 * j) - 3
        /\ 4 * j - 2 \in 1 .. Len(cells) /\ at + (4 * j - 2) = (at + 4 * j) - 2
        /\ 4 * j - 1 \in 1 .. Len(cells) /\ at + (4 * j - 1) = (at + 4 * j) - 1
        /\ 4 * j \in 1 .. Len(cells)
    BY <1>1, <1>7
  <2>4. at + 4 * j \in 1 .. Len(g) /\ g[at + 4 * j] = Newline
    BY <2>1, <2>2, <2>3
  <2>5. /\ g[(at + 4 * j) - 3] = <<"first", tag>> /\ g[(at + 4 * j) - 2] = <<"next", tag>>
        /\ g[(at + 4 * j) - 1] = <<"rest", tag>>
    BY <2>1, <2>2, <2>3
  <2> DEFINE e == at + 4 * j
  <2> HIDE DEF e
  <2>6. e \in Ends(g)
    BY <1>3, <2>4, EndsAre DEF e
  <2>7. /\ g[e - 3] = <<"first", tag>> /\ g[e - 2] = <<"next", tag>>
        /\ g[e - 1] = <<"rest", tag>>
    BY <2>5 DEF e
  <2>8. Piece(g, e)
    BY <2>7 DEF Piece
  <2> QED
    BY <2>6, <2>8 DEF e
<1> DEFINE first == IF Debt(f) = 1 THEN {at + 4} ELSE {}
<1>8. Bad(g) \subseteq Bad(f) \cup first
  <2> SUFFICES ASSUME NEW e \in Bad(g), e \notin Bad(f) PROVE e \in first
    OBVIOUS
  <2>1. e \in Ends(g) /\ e >= 4 /\ ~WholeAt(g, e)
    BY DEF Bad, Later
  <2>2. CASE e \in Ends(f)
    <3>1. WholeAt(f, e)
      BY <2>1, <2>2 DEF Bad, Later
    <3>2. e - 4 \in Ends(g) /\ e - 4 \in 1 .. Len(f) /\ e \in 1 .. Len(f)
      BY <1>5, <2>2, <3>1 DEF WholeAt
    <3>3. g[e - 3] = f[e - 3] /\ g[e - 2] = f[e - 2] /\ g[e - 1] = f[e - 1]
      <4>1. e - 3 \in 1 .. Len(f) /\ e - 2 \in 1 .. Len(f) /\ e - 1 \in 1 .. Len(f)
        BY <1>1, <3>2
      <4> QED
        BY <1>4, <4>1
    <3>4. WholeAt(g, e)
      BY <3>1, <3>2, <3>3 DEF WholeAt, Piece
    <3> QED
      BY <2>1, <3>4
  <2>3. CASE e \notin Ends(f)
    <3>1. PICK j \in Nat \ {0} : e = at + 4 * j /\ 4 * j <= Len(cells)
      BY <1>2, <2>1, <2>3
    <3>2. Piece(g, e)
      BY <1>7, <3>1
    <3>3. e - 4 \notin Ends(g)
      BY <2>1, <3>2 DEF WholeAt
    <3>4. CASE j = 1
      <4>1. e = at + 4 /\ e - 4 = at
        BY <1>1, <3>1, <3>4
      <4>2. at \notin Ends(f)
        BY <1>5, <3>3, <4>1
      <4>3. ~ (f # <<>> /\ f[Len(f)] = Newline)
        <5> SUFFICES ASSUME f # <<>>, f[Len(f)] = Newline PROVE FALSE
          OBVIOUS
        <5>1. at = Len(f) /\ at \in 1 .. Len(f)
          BY <1>1
        <5>2. at \in Ends(f)
          BY <5>1, EndsAre
        <5> QED
          BY <4>2, <5>2
      <4>4. Debt(f) = 1
        BY <4>3 DEF Debt
      <4> QED
        BY <4>1, <4>4
    <3>5. CASE j # 1
      <4>1. j - 1 \in Nat \ {0} /\ 4 * (j - 1) <= Len(cells) /\ e - 4 = at + 4 * (j - 1)
        BY <1>1, <3>1, <3>5
      <4> QED
        BY <1>7, <3>3, <4>1
    <3> QED
      BY <3>4, <3>5
  <2> QED
    BY <2>2, <2>3
<1>9. Cardinality(Bad(g)) <= Cardinality(Bad(f)) + Debt(f)
  <2>0. /\ Cardinality(Bad(f)) \in Nat /\ Debt(f) \in 0 .. 1 /\ IsFiniteSet(Bad(f))
        /\ Cardinality(Bad(g)) \in Nat /\ IsFiniteSet(Bad(g))
    BY <1>3, BadIs
  <2>1. CASE Debt(f) = 1
    <3>1. Bad(g) \subseteq Bad(f) \cup {at + 4}
      BY <1>8, <2>1
    <3>2. /\ IsFiniteSet(Bad(f) \cup {at + 4})
          /\ \/ Cardinality(Bad(f) \cup {at + 4}) = Cardinality(Bad(f))
             \/ Cardinality(Bad(f) \cup {at + 4}) = Cardinality(Bad(f)) + 1
      BY <2>0, FS_AddElement
    <3>3. Cardinality(Bad(g)) <= Cardinality(Bad(f) \cup {at + 4})
      BY <3>1, <3>2, FS_Subset
    <3> QED
      BY <2>0, <2>1, <3>2, <3>3
  <2>2. CASE Debt(f) # 1
    <3>1. Bad(g) \subseteq Bad(f)
      BY <1>8, <2>2
    <3>2. Cardinality(Bad(g)) <= Cardinality(Bad(f))
      BY <2>0, <3>1, FS_Subset
    <3> QED
      BY <2>0, <3>2
  <2> QED
    BY <2>1, <2>2
<1>10. ASSUME NEW n \in Nat \ {0}, Len(cells) = 4 * n PROVE Debt(g) = 0 /\ Len(g) >= 5
  <2>1. Len(g) = at + 4 * n /\ Len(g) >= 5
    BY <1>1, <1>3, <1>10
  <2>2. at + 4 * n \in Ends(g)
    BY <1>7, <1>10
  <2>3. g[Len(g)] = Newline /\ g # <<>>
    BY <1>3, <2>1, <2>2, EndsAre
  <2> QED
    BY <2>1, <2>3 DEF Debt
<1> QED
  BY <1>6, <1>9, <1>10 DEF g, at

\* Writing over the header of a file that has JWTs leaves what is behind it alone.
LEMMA HeaderWrite ==
  ASSUME NEW f \in Contents, NEW cells \in Contents, NEW at \in Nat,
         Len(f) >= 5, at + Len(cells) <= 3,
         \A i \in 1 .. Len(cells) : cells[i] = Newline <=> at + i = 3
  PROVE  LET g == WriteAt(f, cells, at) IN
         /\ g \in Contents /\ Len(g) = Len(f)
         /\ \A k \in 4 .. Len(f) : k \in 1 .. Len(f) /\ g[k] = f[k]
         /\ \A e : e \in Ends(g) <=> e \in 1 .. Len(f) /\ g[e] = Newline
         /\ \A e \in 1 .. 3 : e \in Ends(g) => e = 3 \/ e \in Ends(f)
         /\ 3 \in Ends(f) => 3 \in Ends(g)
<1> DEFINE g == WriteAt(f, cells, at)
<1>1. Len(f) \in Nat /\ Len(cells) \in Nat
  BY DEF Contents
<1>2. /\ g \in Contents /\ Len(g) = Len(f)
      /\ \A k \in 1 .. Len(f) :
           g[k] = IF k - at \in 1 .. Len(cells) THEN cells[k - at]
                  ELSE IF k <= Len(f) THEN f[k] ELSE Zeros
  <2>1. /\ g \in Contents
        /\ Len(g) = IF Len(f) >= at + Len(cells) THEN Len(f) ELSE at + Len(cells)
        /\ \A k \in 1 .. Len(g) :
             g[k] = IF k - at \in 1 .. Len(cells) THEN cells[k - at]
                    ELSE IF k <= Len(f) THEN f[k] ELSE Zeros
    BY WriteAtIs
  <2> HIDE DEF g
  <2>2. Len(g) = Len(f)
    BY <1>1, <2>1
  <2> QED
    BY <2>1, <2>2
<1> HIDE DEF g
<1>3. \A k \in 4 .. Len(f) : k \in 1 .. Len(f) /\ g[k] = f[k]
  BY <1>1, <1>2
<1>4. \A e : e \in Ends(g) <=> e \in 1 .. Len(f) /\ g[e] = Newline
  BY <1>2, EndsAre
<1>5. \A e : e \in Ends(f) <=> e \in 1 .. Len(f) /\ f[e] = Newline
  BY EndsAre
<1>6. \A e \in 1 .. 3 : e \in Ends(g) => e = 3 \/ e \in Ends(f)
  <2> SUFFICES ASSUME NEW e \in 1 .. 3, e \in Ends(g), e # 3 PROVE e \in Ends(f)
    OBVIOUS
  <2>1. e \in 1 .. Len(f) /\ g[e] = Newline
    BY <1>4
  <2>2. ~ (e - at \in 1 .. Len(cells))
    <3> SUFFICES ASSUME e - at \in 1 .. Len(cells) PROVE FALSE
      OBVIOUS
    <3>1. cells[e - at] = Newline
      BY <1>2, <2>1
    <3>2. at + (e - at) = 3
      BY <3>1
    <3> QED
      BY <3>2
  <2>3. f[e] = Newline
    BY <1>2, <2>1, <2>2
  <2> QED
    BY <1>5, <2>1, <2>3
<1>7. 3 \in Ends(f) => 3 \in Ends(g)
  <2> SUFFICES ASSUME 3 \in Ends(f) PROVE g[3] = Newline
    BY <1>1, <1>4
  <2>1. f[3] = Newline
    BY <1>5
  <2>2. 3 \in 1 .. Len(f)
    BY <1>1
  <2>3. CASE 3 - at \in 1 .. Len(cells)
    <3>1. at + (3 - at) = 3
      OBVIOUS
    <3>2. cells[3 - at] = Newline
      BY <2>3, <3>1
    <3> QED
      BY <1>2, <2>2, <2>3, <3>2
  <2>4. CASE ~ (3 - at \in 1 .. Len(cells))
    BY <1>2, <2>1, <2>2, <2>4
  <2> QED
    BY <2>3, <2>4
<1> QED
  BY <1>2, <1>3, <1>4, <1>6, <1>7 DEF g

\* So it spoils none of the JWTs.
LEMMA HeaderSpoilsNothing ==
  ASSUME NEW f \in Contents, NEW cells \in Contents, NEW at \in Nat,
         1 \notin Ends(f), 2 \notin Ends(f), Len(f) >= 5,
         at + Len(cells) <= 3,
         \A i \in 1 .. Len(cells) : cells[i] = Newline <=> at + i = 3
  PROVE  LET g == WriteAt(f, cells, at) IN
         /\ 1 \notin Ends(g) /\ 2 \notin Ends(g)
         /\ Cardinality(Bad(g)) <= Cardinality(Bad(f))
         /\ Debt(g) = Debt(f) /\ Len(g) = Len(f)
<1> DEFINE g == WriteAt(f, cells, at)
<1>1. Len(f) \in Nat
  BY DEF Contents
<1>2. g \in Contents /\ Len(g) = Len(f)
  BY HeaderWrite
<1>3. \A k \in 4 .. Len(f) : k \in 1 .. Len(f) /\ g[k] = f[k]
  BY HeaderWrite
<1>4. \A e : e \in Ends(g) <=> e \in 1 .. Len(f) /\ g[e] = Newline
  BY HeaderWrite
<1>6. /\ \A e \in 1 .. 3 : e \in Ends(g) => e = 3 \/ e \in Ends(f)
      /\ 3 \in Ends(f) => 3 \in Ends(g)
  BY HeaderWrite
<1> HIDE DEF g
<1>5. \A e : e \in Ends(f) <=> e \in 1 .. Len(f) /\ f[e] = Newline
  BY EndsAre
<1>7. 1 \notin Ends(g) /\ 2 \notin Ends(g)
  BY <1>6
<1>8. 3 \in Ends(f) => 3 \in Ends(g)
  BY <1>6
<1>9. Bad(g) \subseteq Bad(f)
  <2> SUFFICES ASSUME NEW e \in Bad(g) PROVE e \in Bad(f)
    OBVIOUS
  <2>1. e \in Ends(g) /\ e >= 4 /\ ~WholeAt(g, e) /\ e \in 1 .. Len(f)
    BY <1>4 DEF Bad, Later
  <2>2. e \in Ends(f)
    <3>1. e \in 4 .. Len(f)
      BY <1>1, <2>1
    <3> QED
      BY <1>3, <1>4, <1>5, <2>1, <3>1
  <2>3. ASSUME WholeAt(f, e) PROVE WholeAt(g, e)
    <3>1. e - 4 \in Ends(f) /\ Piece(f, e)
      BY <2>3 DEF WholeAt
    <3> DEFINE d == e - 4
    <3>2. d \in 3 .. Len(f) /\ e \in Int /\ e <= Len(f) /\ e = d + 4 /\ d \in Ends(f)
      <4>1. d \in 1 .. Len(f) /\ d # 1 /\ d # 2 /\ d \in Ends(f)
        BY <1>5, <3>1
      <4>2. e \in Int /\ e <= Len(f) /\ e = d + 4
        BY <1>1, <2>1
      <4> HIDE DEF d
      <4>3. d \in 3 .. Len(f)
        BY <1>1, <4>1
      <4> QED
        BY <4>1, <4>2, <4>3
    <3>3. d \in Ends(g)
      <4> HIDE DEF d
      <4>1. CASE d = 3
        BY <1>8, <3>2, <4>1
      <4>2. CASE d # 3
        <5>1. d \in 4 .. Len(f)
          BY <1>1, <3>2, <4>2
        <5> QED
          BY <1>3, <1>4, <1>5, <3>2, <5>1
      <4> QED
        BY <4>1, <4>2
    <3>4. g[e - 3] = f[e - 3] /\ g[e - 2] = f[e - 2] /\ g[e - 1] = f[e - 1]
      <4> HIDE DEF d
      <4>1. e - 3 \in 4 .. Len(f) /\ e - 2 \in 4 .. Len(f) /\ e - 1 \in 4 .. Len(f)
        BY <1>1, <3>2
      <4> QED
        BY <1>3, <4>1
    <3> QED
      BY <3>1, <3>3, <3>4 DEF WholeAt, Piece
  <2> QED
    BY <2>1, <2>2, <2>3 DEF Bad, Later
<1>10. Cardinality(Bad(g)) <= Cardinality(Bad(f))
  BY <1>9, BadIs, FS_Subset
<1>11. Debt(g) = Debt(f)
  <2>1. g[Len(f)] = f[Len(f)]
    BY <1>1, <1>3
  <2>2. f # <<>> /\ g # <<>>
    BY <1>1, <1>2
  <2> QED
    BY <1>2, <2>1, <2>2 DEF Debt
<1> QED
  BY <1>2, <1>7, <1>10, <1>11 DEF g

-------------------------------------------------------------------------------
(* Spoilt lines, as long as no two runs were there at the same time. *)

\* Every crash may have spoilt a line, or have left one that the next save will.
Sound(f, n) ==
  /\ 1 \notin Ends(f) /\ 2 \notin Ends(f)
  /\ Cardinality(Bad(f)) + Debt(f) <= n + 1

Tidy ==
  /\ \A f \in 1 .. Len(disk) : Sound(disk[f], crashes)
  /\ \A p \in Procs : run[p].pc \in {"count", "newline"} => Len(File(p)) >= 5

TidyInv == ~shared => Tidy

LEMMA SoundIs ==
  ASSUME NEW f \in Contents, NEW m \in Nat, NEW n \in Nat, m <= n, Sound(f, m)
  PROVE  Sound(f, n) /\ Cardinality(Spoilt(JwtLines(f))) <= n + 1
<1>1. /\ Cardinality(Bad(f)) + Debt(f) <= m + 1 /\ 1 \notin Ends(f) /\ 2 \notin Ends(f)
      /\ Cardinality(Bad(f)) \in Nat /\ Debt(f) \in 0 .. 1
  BY BadIs DEF Sound
<1>2. Cardinality(Bad(f)) + Debt(f) <= n + 1
  BY <1>1
<1>3. /\ Cardinality(Spoilt(JwtLines(f))) \in Nat
      /\ Cardinality(Spoilt(JwtLines(f))) <= Cardinality(Bad(f)) + Debt(f)
  BY <1>1, SpoiltAre
<1> QED
  BY <1>1, <1>2, <1>3 DEF Sound

LEMMA SoundEmpty == ASSUME NEW n \in Nat PROVE Sound(<<>>, n)
<1>1. Ends(<<>>) = {} /\ Bad(<<>>) = {} /\ Debt(<<>>) = 1
  BY DEF Ends, Bad, Later, Debt
<1> QED
  BY <1>1, FS_EmptySet DEF Sound

\* Steps that leave the files alone.
LEMMA TidySame ==
  ASSUME Types, Tidy, disk' = disk, crashes' \in Nat, crashes <= crashes',
         \A q \in Procs : run'[q].pc \notin {"count", "newline"}
  PROVE  Tidy'
<1>1. \A f \in 1 .. Len(disk) : Sound(disk[f], crashes')
  <2> SUFFICES ASSUME NEW f \in 1 .. Len(disk) PROVE Sound(disk[f], crashes')
    OBVIOUS
  <2>1. disk[f] \in Contents /\ Sound(disk[f], crashes) /\ crashes \in Nat
    BY DEF Types, Tidy
  <2> QED
    BY <2>1, SoundIs
<1> QED
  BY <1>1 DEF Tidy

\* Steps that write in p's file.
LEMMA TidyFile ==
  ASSUME Types, Tidy, NEW p \in Procs, run[p].pc \in Opened,
         NEW g, FileBecomes(p, g), Sound(g, crashes'),
         crashes' \in Nat, crashes <= crashes',
         \A q \in Procs : run'[q].pc \in {"count", "newline"} =>
           q = p /\ run'[p].fd = run[p].fd /\ Len(g) >= 5
  PROVE  Tidy'
<1>1. /\ run[p].fd \in 1 .. Len(disk) /\ Len(disk') = Len(disk)
      /\ disk'[run[p].fd] = g
      /\ \A f \in 1 .. Len(disk) : f # run[p].fd => disk'[f] = disk[f]
  BY FileIs DEF FileBecomes
<1>2. \A f \in 1 .. Len(disk') : Sound(disk'[f], crashes')
  <2> SUFFICES ASSUME NEW f \in 1 .. Len(disk') PROVE Sound(disk'[f], crashes')
    OBVIOUS
  <2>1. CASE f = run[p].fd
    BY <1>1, <2>1
  <2>2. CASE f # run[p].fd
    <3>1. disk'[f] = disk[f] /\ disk[f] \in Contents /\ Sound(disk[f], crashes)
          /\ crashes \in Nat
      BY <1>1, <2>2 DEF Types, Tidy
    <3> QED
      BY <3>1, SoundIs
  <2> QED
    BY <2>1, <2>2
<1>3. \A q \in Procs : run'[q].pc \in {"count", "newline"} => Len(File(q)') >= 5
  BY <1>1 DEF File
<1> QED
  BY <1>2, <1>3 DEF Tidy

LEMMA TidyStep ==
  ASSUME CacheInv, Tidy, NEW p \in Procs, Undisturbed(p), RunStep(p)
  PROVE  Tidy'
<1> USE DEF CacheInv
<1>0. /\ \A q \in Procs : q # p => run[q].pc = "ended" /\ run'[q].pc = "ended"
      /\ crashes \in Nat
  BY FitsStep DEF Undisturbed, Active, Others, Types
<1>1. ASSUME UNCHANGED <<disk, crashes>>, run'[p].pc \notin {"count", "newline"}
      PROVE  Tidy'
  <2>1. \A q \in Procs : run'[q].pc \notin {"count", "newline"}
    BY <1>0, <1>1
  <2>2. disk' = disk /\ crashes' \in Nat /\ crashes <= crashes'
    BY <1>0, <1>1
  <2> QED
    BY <2>1, <2>2, TidySame
<1>2. CASE Open(p)
  <2>1. /\ run'[p].pc = "read" /\ crashes' = crashes
        /\ disk' \in Seq(Contents) /\ Len(disk') >= Len(disk)
        /\ \A f \in 1 .. Len(disk) : disk'[f] = disk[f]
        /\ \A f \in 1 .. Len(disk') : f > Len(disk) => disk'[f] = <<>>
    BY <1>2, OpenDoes DEF Open
  <2>2. Len(disk) \in Nat /\ Len(disk') \in Nat
    BY <2>1 DEF Types
  <2>3. \A f \in 1 .. Len(disk') : Sound(disk'[f], crashes')
    <3> SUFFICES ASSUME NEW f \in 1 .. Len(disk') PROVE Sound(disk'[f], crashes')
      OBVIOUS
    <3>1. CASE f <= Len(disk)
      <4>1. f \in 1 .. Len(disk) /\ disk'[f] = disk[f]
        BY <2>1, <2>2, <3>1
      <4> QED
        BY <2>1, <4>1 DEF Tidy
    <3>2. CASE ~ (f <= Len(disk))
      <4>1. disk'[f] = <<>>
        BY <2>1, <2>2, <3>2
      <4> QED
        BY <1>0, <2>1, <4>1, SoundEmpty
    <3> QED
      BY <3>1, <3>2
  <2>4. \A q \in Procs : run'[q].pc \notin {"count", "newline"}
    BY <1>0, <2>1
  <2> QED
    BY <2>3, <2>4 DEF Tidy
<1>3. CASE Read(p)
  <2>1. run[p].pc = "read" /\ run[p].saving = 0
    BY <1>3 DEF Read, Batches, Fits, Saving
  <2> QED
    BY <1>1, <1>3, <2>1, ReadDoes
<1>4. CASE Corrupt(p)
  BY <1>1, <1>4, CorruptDoes, NoRunIs
<1>5. CASE RemoveFile(p)
  BY <1>1, <1>5, RemoveFileDoes, NoRunIs
<1>6. ASSUME NEW k \in Cpus, Collect(p, k) PROVE Tidy'
  BY <1>1, <1>6, CollectDoes DEF Collect
<1>7. CASE BatchDone(p)
  BY <1>1, <1>7, BatchDoneDoes
<1>8. CASE Retrieve(p)
  BY <1>1, <1>8, EndDoes, NoRunIs DEF Retrieve
<1>9. ASSUME NEW f \in Contents, run[p].pc \in Opened, f = File(p)
      PROVE  Sound(f, crashes) /\ 1 \notin Ends(f) /\ 2 \notin Ends(f)
             /\ Cardinality(Bad(f)) + Debt(f) <= crashes + 1
             /\ Cardinality(Bad(f)) \in Nat /\ Debt(f) \in 0 .. 1
  <2>1. Sound(f, crashes)
    BY <1>9, FileIs DEF Tidy
  <2> QED
    BY <2>1, BadIs DEF Sound
<1>10. CASE SaveTokens(p)
  <2> DEFINE f == File(p)
             cells == NewTokens(p)
             g == WriteAt(f, cells, EndOf(f))
  <2>1. run[p].pc = "tokens" /\ run[p].pc \in Opened /\ run[p].at = EndOf(f)
    BY <1>10 DEF SaveTokens, Opened, Generating, Saving, Undisturbed
  <2>2. /\ run'[p].pc = "count" /\ run'[p].fd = run[p].fd
        /\ FileBecomes(p, g) /\ crashes' = crashes
    BY <1>10, <2>1, SaveTokensDoes
  <2>3. f \in Contents
    BY <2>1, FileIs
  <2>4. /\ cells \in Contents /\ AreTokens(cells, run[p].tag)
        /\ Len(cells) = 4 * run[p].saving
    BY NewTokensAre
  <2>5. run[p].tag \in 1 .. MaxRuns /\ run[p].saving \in Nat \ {0}
    BY <2>1, RunValues DEF Batches, Fits, Saving
  <2>6. /\ Sound(f, crashes) /\ 1 \notin Ends(f) /\ 2 \notin Ends(f)
        /\ Cardinality(Bad(f)) + Debt(f) <= crashes + 1
        /\ Cardinality(Bad(f)) \in Nat /\ Debt(f) \in 0 .. 1
    BY <1>9, <2>1, <2>3
  <2> HIDE DEF cells, f
  <2>7. /\ 1 \notin Ends(g) /\ 2 \notin Ends(g)
        /\ Cardinality(Bad(g)) <= Cardinality(Bad(f)) + Debt(f)
        /\ Debt(g) = 0 /\ Len(g) >= 5
    BY <2>3, <2>4, <2>5, <2>6, AppendSpoils
  <2>8. g \in Contents
    BY <2>3, <2>4, EndOfIs, WriteAtIs
  <2> HIDE DEF g
  <2>9. Cardinality(Bad(g)) \in Nat
    BY <2>8, BadIs
  <2>10. Cardinality(Bad(g)) + Debt(g) <= crashes' + 1
    BY <1>0, <2>2, <2>6, <2>7, <2>9
  <2>11. Sound(g, crashes')
    BY <2>7, <2>10 DEF Sound
  <2>12. crashes' \in Nat /\ crashes <= crashes'
    BY <1>0, <2>2
  <2>13. \A q \in Procs : run'[q].pc \in {"count", "newline"} =>
           q = p /\ run'[p].fd = run[p].fd /\ Len(g) >= 5
    BY <1>0, <2>2, <2>7
  <2> QED
    BY <2>1, <2>2, <2>11, <2>12, <2>13, TidyFile
<1>11. ASSUME NEW cells \in Contents, NEW at \in Nat, at + Len(cells) <= 3,
              \A i \in 1 .. Len(cells) : cells[i] = Newline <=> at + i = 3,
              run[p].pc \in {"count", "newline"}, crashes' = crashes,
              FileBecomes(p, WriteAt(File(p), cells, at)), run'[p].fd = run[p].fd
       PROVE  Tidy'
  <2> DEFINE f == File(p)
             g == WriteAt(f, cells, at)
  <2>1. run[p].pc \in Opened /\ f \in Contents /\ Len(f) >= 5
    <3>1. run[p].pc \in Opened
      BY <1>11 DEF Opened, Generating, Saving
    <3> QED
      BY <1>11, <3>1, FileIs DEF Tidy
  <2>2. /\ Sound(f, crashes) /\ 1 \notin Ends(f) /\ 2 \notin Ends(f)
        /\ Cardinality(Bad(f)) + Debt(f) <= crashes + 1
        /\ Cardinality(Bad(f)) \in Nat /\ Debt(f) \in 0 .. 1
    BY <1>9, <2>1
  <2>3. FileBecomes(p, g)
    BY <1>11
  <2> HIDE DEF f
  <2>4. /\ 1 \notin Ends(g) /\ 2 \notin Ends(g)
        /\ Cardinality(Bad(g)) <= Cardinality(Bad(f))
        /\ Debt(g) = Debt(f) /\ Len(g) = Len(f)
    BY <1>11, <2>1, <2>2, HeaderSpoilsNothing
  <2>5. g \in Contents
    BY <2>1, <1>11, WriteAtIs
  <2> HIDE DEF g
  <2>6. Cardinality(Bad(g)) \in Nat
    BY <2>5, BadIs
  <2>7. Cardinality(Bad(g)) + Debt(g) <= crashes' + 1
    BY <1>0, <1>11, <2>2, <2>4, <2>6
  <2>8. Sound(g, crashes')
    BY <2>4, <2>7 DEF Sound
  <2>9. crashes' \in Nat /\ crashes <= crashes'
    BY <1>0, <1>11
  <2>10. \A q \in Procs : run'[q].pc \in {"count", "newline"} =>
           q = p /\ run'[p].fd = run[p].fd /\ Len(g) >= 5
    BY <1>0, <1>11, <2>1, <2>4
  <2> QED
    BY <2>1, <2>3, <2>8, <2>9, <2>10, TidyFile
<1>12. CASE SaveCount(p)
  <2> DEFINE cells == <<Count(NewCount(p)), Zeros>>
  <2>1. /\ run[p].pc = "count" /\ crashes' = crashes /\ run'[p].fd = run[p].fd
        /\ FileBecomes(p, WriteAt(File(p), cells, 0))
    BY <1>12, SaveCountDoes DEF SaveCount
  <2>2. /\ cells \in Contents /\ Len(cells) = 2
        /\ cells[1] = Count(NewCount(p)) /\ cells[2] = Zeros
    BY RunValues, CellTypes DEF Contents
  <2> HIDE DEF cells
  <2>3. cells[1] # Newline /\ cells[2] # Newline
    BY <2>2 DEF Count, Zeros, Newline
  <2>4. 0 + Len(cells) <= 3 /\ 0 \in Nat
    BY <2>2
  <2>5. \A i \in 1 .. Len(cells) : cells[i] = Newline <=> 0 + i = 3
    <3>1. \A i \in 1 .. Len(cells) : (i = 1 \/ i = 2) /\ 0 + i # 3
      BY <2>2
    <3> QED
      BY <2>3, <3>1
  <2> QED
    BY <1>11, <2>1, <2>2, <2>4, <2>5
<1>13. CASE SaveNewline(p)
  <2> DEFINE cells == <<Newline>>
  <2>1. /\ run[p].pc = "newline" /\ crashes' = crashes /\ run'[p].fd = run[p].fd
        /\ FileBecomes(p, WriteAt(File(p), cells, 2))
    BY <1>13, SaveNewlineDoes DEF SaveNewline
  <2>2. cells \in Contents /\ Len(cells) = 1 /\ cells[1] = Newline
    BY CellTypes DEF Contents
  <2> HIDE DEF cells
  <2>3. 2 + Len(cells) <= 3 /\ 2 \in Nat
    BY <2>2
  <2>4. \A i \in 1 .. Len(cells) : cells[i] = Newline <=> 2 + i = 3
    <3>1. \A i \in 1 .. Len(cells) : i = 1 /\ 2 + i = 3
      BY <2>2
    <3> QED
      BY <2>2, <3>1
  <2> QED
    BY <1>11, <2>1, <2>2, <2>3, <2>4
<1> QED
  BY <1>2, <1>3, <1>4, <1>5, <1>6, <1>7, <1>8, <1>10, <1>12, <1>13 DEF RunStep

\* A crash may cut a save short: one more line is spoilt, or will be.
LEMMA TidyCrash ==
  ASSUME CacheInv, Tidy, NEW p \in Procs, Undisturbed(p), Crash(p)
  PROVE  Tidy'
<1> USE DEF CacheInv
<1>1. /\ run'[p] = NoRun /\ Others(p) /\ crashes' = crashes + 1 /\ crashes \in Nat
      /\ crashes' \in Nat /\ crashes <= crashes'
  BY CrashDoes DEF Types
<1>2. \A q \in Procs : run'[q].pc \notin {"count", "newline"}
  BY <1>1, NoRunIs DEF Undisturbed, Active, Others
<1>3. CASE disk' = disk
  BY <1>1, <1>2, <1>3, TidySame
<1>4. CASE disk' # disk
  <2>1. PICK cells \in Contents :
          /\ run[p].pc = "tokens" /\ AreTokens(cells, run[p].tag)
          /\ FileBecomes(p, WriteAt(File(p), cells, run[p].at))
    BY <1>4, CrashDoes
  <2> DEFINE f == File(p)
             g == WriteAt(f, cells, EndOf(f))
  <2>2. run[p].pc \in Opened /\ run[p].at = EndOf(f)
    BY <2>1 DEF Opened, Generating, Saving, Undisturbed
  <2>3. f \in Contents /\ FileBecomes(p, g) /\ run[p].tag \in 1 .. MaxRuns
    BY <2>1, <2>2, FileIs DEF Batches, Fits
  <2>4. Sound(f, crashes)
    BY <2>2, FileIs DEF Tidy
  <2> HIDE DEF f
  <2>5. /\ 1 \notin Ends(f) /\ 2 \notin Ends(f)
        /\ Cardinality(Bad(f)) + Debt(f) <= crashes + 1
        /\ Cardinality(Bad(f)) \in Nat /\ Debt(f) \in 0 .. 1
    BY <2>3, <2>4, BadIs DEF Sound
  <2>6. /\ 1 \notin Ends(g) /\ 2 \notin Ends(g)
        /\ Cardinality(Bad(g)) <= Cardinality(Bad(f)) + Debt(f)
    BY <2>1, <2>3, <2>5, AppendSpoils
  <2>7. g \in Contents
    BY <2>3, EndOfIs, WriteAtIs
  <2> HIDE DEF g
  <2>8. Cardinality(Bad(g)) \in Nat /\ Debt(g) \in 0 .. 1
    BY <2>7, BadIs
  <2>9. Cardinality(Bad(g)) + Debt(g) <= crashes' + 1
    BY <1>1, <2>5, <2>6, <2>8
  <2>10. Sound(g, crashes')
    BY <2>6, <2>9 DEF Sound
  <2> QED
    BY <1>1, <1>2, <2>2, <2>3, <2>10, TidyFile
<1> QED
  BY <1>3, <1>4

LEMMA TidyInvStep ==
  ASSUME CacheInv, AloneInv, LinesInv, TidyInv, [Next]_vars
  PROVE  TidyInv'
<1> SUFFICES ASSUME ~shared' PROVE Tidy'
  BY DEF TidyInv
<1> USE DEF CacheInv
<1>0. ~shared /\ OneAtATime' /\ OneAtATime /\ AllAlone /\ Tidy /\ crashes \in Nat
  BY OneAtATimeStep DEF LinesInv, LoneLines, TidyInv, Types
<1>1. ASSUME NEW p \in Procs, Active(p) PROVE Undisturbed(p)
  BY <1>0, <1>1 DEF AloneInv, AllAlone
<1>2. CASE UNCHANGED <<disk, run, crashes>>
  BY <1>0, <1>2 DEF Tidy, File
<1>3. ASSUME NEW p \in Procs, NEW n \in Amounts, StartRun(p, n) PROVE Tidy'
  <2>1. UNCHANGED <<disk, crashes>> /\ run'[p].pc = "open"
    BY <1>3, StartRunDoes DEF StartRun
  <2>2. \A q \in Procs : Active(q)' => q = p
    BY <1>0, <2>1 DEF OneAtATime, Active
  <2>3. \A q \in Procs : run'[q].pc \notin {"count", "newline"}
    BY <2>1, <2>2 DEF Active
  <2>4. disk' = disk /\ crashes' \in Nat /\ crashes <= crashes'
    BY <1>0, <2>1
  <2> QED
    BY <1>0, <2>3, <2>4, TidySame
<1>4. ASSUME NEW p \in Procs, RunStep(p) PROVE Tidy'
  BY <1>0, <1>1, <1>4, StepMovesOne, TidyStep
<1>5. ASSUME NEW p \in Procs, OpenFails(p) \/ GiveUp(p) PROVE Tidy'
  <2>1. Active(p) /\ End(p) /\ UNCHANGED <<disk, crashes>>
    BY <1>5, StepMovesOne DEF OpenFails, GiveUp
  <2>2. \A q \in Procs : run'[q].pc \notin {"count", "newline"}
    BY <1>1, <2>1, EndDoes, NoRunIs DEF Undisturbed, Active, Others
  <2>3. disk' = disk /\ crashes' \in Nat /\ crashes <= crashes'
    BY <1>0, <2>1
  <2> QED
    BY <1>0, <2>2, <2>3, TidySame
<1>6. ASSUME NEW p \in Procs, Crash(p) PROVE Tidy'
  BY <1>0, <1>1, <1>6, StepMovesOne, TidyCrash
<1> QED
  BY <1>2, <1>3, <1>4, <1>5, <1>6 DEF Next, vars, ClearCache

LEMMA TidyInvInit == Init => TidyInv
  BY NoRunIs DEF Init, TidyInv, Tidy

-------------------------------------------------------------------------------
(* Any number of runs at the same time, as long as none crashed. *)

\* A file that was only ever written to at whole numbers of JWTs: four cells for each,
\* every one whole but the first, whose place the header shares.
GridOf(f, n) ==
  /\ Len(f) = 4 * n + 1
  /\ \A j \in 1 .. n : 4 * j + 1 \in Ends(f)
  /\ \A e \in Ends(f) : e = 3 \/ \E j \in 1 .. n : e = 4 * j + 1
  /\ \A j \in 2 .. n : Piece(f, 4 * j + 1)

Grid(f) == f = <<>> \/ \E n \in Nat : GridOf(f, n)

\* Its lines are no fewer than its JWTs, and at most one of them is spoilt.
LEMMA GridIs ==
  ASSUME NEW f \in Contents, Grid(f)
  PROVE  /\ Sound(f, 0)
         /\ \A c \in Nat : 4 * c <= Len(f) => c <= Cardinality(Later(f))
<1>0. /\ Cardinality(Bad(f)) \in Nat /\ IsFiniteSet(Bad(f))
      /\ Cardinality(Later(f)) \in Nat /\ IsFiniteSet(Later(f))
  BY BadIs, EndsAre
<1>1. CASE f = <<>>
  <2>1. Sound(f, 0)
    BY <1>1, SoundEmpty
  <2>2. Len(f) = 0
    BY <1>1
  <2> QED
    BY <1>0, <2>1, <2>2
<1>2. ASSUME NEW n \in Nat, GridOf(f, n)
      PROVE  /\ Sound(f, 0)
             /\ \A c \in Nat : 4 * c <= Len(f) => c <= Cardinality(Later(f))
  <2>1. /\ Len(f) = 4 * n + 1
        /\ \A j \in 1 .. n : 4 * j + 1 \in Ends(f)
        /\ \A e \in Ends(f) : e = 3 \/ \E j \in 1 .. n : e = 4 * j + 1
        /\ \A j \in 2 .. n : Piece(f, 4 * j + 1)
    BY <1>2 DEF GridOf
  <2>2. 1 \notin Ends(f) /\ 2 \notin Ends(f)
    BY <2>1
  <2>3. Bad(f) \subseteq {5} /\ (n = 0 => Bad(f) = {})
    <3> SUFFICES ASSUME NEW e \in Bad(f) PROVE e = 5 /\ n # 0
      OBVIOUS
    <3>1. e \in Ends(f) /\ e >= 4 /\ ~WholeAt(f, e)
      BY DEF Bad, Later
    <3>2. PICK j \in 1 .. n : e = 4 * j + 1
      BY <2>1, <3>1
    <3>3. CASE j = 1
      BY <3>2, <3>3
    <3>4. CASE j # 1
      <4>1. j \in 2 .. n /\ j - 1 \in 1 .. n /\ e - 4 = 4 * (j - 1) + 1
        BY <3>2, <3>4
      <4>2. Piece(f, e) /\ e - 4 \in Ends(f)
        BY <2>1, <3>2, <4>1
      <4> QED
        BY <3>1, <4>2 DEF WholeAt
    <3> QED
      BY <3>3, <3>4
  <2>4. Cardinality(Bad(f)) + Debt(f) <= 1
    <3>1. CASE n = 0
      <4>1. Cardinality(Bad(f)) = 0
        BY <2>3, <3>1, FS_EmptySet
      <4> QED
        BY <4>1, BadIs
    <3>2. CASE n # 0
      <4>1. Cardinality(Bad(f)) <= 1
        <5>1. IsFiniteSet({5}) /\ Cardinality({5}) = 1
          BY FS_Singleton
        <5> QED
          BY <2>3, <5>1, FS_Subset
      <4>2. 4 * n + 1 \in Ends(f)
        <5>1. n \in 1 .. n
          BY <3>2
        <5> QED
          BY <2>1, <5>1
      <4>3. f[Len(f)] = Newline /\ f # <<>>
        BY <2>1, <4>2, EndsAre
      <4>4. Debt(f) = 0
        BY <4>3 DEF Debt
      <4> QED
        BY <1>0, <4>1, <4>4
    <3> QED
      BY <3>1, <3>2
  <2>5. n <= Cardinality(Later(f))
    <3> DEFINE new == {1 + 4 * j : j \in 1 .. n}
    <3>1. IsFiniteSet(new) /\ Cardinality(new) = n
      BY EveryFourth, 1 \in Nat
    <3>2. new \subseteq Later(f)
      <4> SUFFICES ASSUME NEW j \in 1 .. n PROVE 1 + 4 * j \in Later(f)
        OBVIOUS
      <4>1. 4 * j + 1 \in Ends(f) /\ 1 + 4 * j = 4 * j + 1 /\ 1 + 4 * j >= 4
        BY <2>1
      <4> QED
        BY <4>1 DEF Later
    <3> HIDE DEF new
    <3> QED
      BY <1>0, <3>1, <3>2, FS_Subset
  <2>6. \A c \in Nat : 4 * c <= Len(f) => c <= Cardinality(Later(f))
    BY <1>0, <2>1, <2>5
  <2>7. Cardinality(Bad(f)) + Debt(f) <= 0 + 1
    BY <2>4
  <2> QED
    BY <2>2, <2>6, <2>7 DEF Sound
<1> QED
  BY <1>1, <1>2 DEF Grid

\* A save at the place where some process once saw the end keeps the grid, whatever
\* others have written there and behind it since.
LEMMA GridSave ==
  ASSUME NEW f \in Contents, Grid(f), NEW cells \in Contents, NEW tag \in 1 .. MaxRuns,
         AreTokens(cells, tag), NEW m \in Nat \ {0}, Len(cells) = 4 * m,
         NEW a \in Nat, 4 * a + 1 <= EndOf(f)
  PROVE  LET g == WriteAt(f, cells, 4 * a + 1)
         IN  Grid(g) /\ Len(g) >= Len(f) /\ Len(g) >= 4 * (a + m) + 1
<1> DEFINE at == 4 * a + 1
           g == WriteAt(f, cells, at)
<1>1. at \in Nat \ {0} /\ at <= EndOf(f) /\ Len(f) \in Nat
  BY DEF Contents
<1>2. /\ g \in Contents
      /\ Len(g) = IF Len(f) >= at + Len(cells) THEN Len(f) ELSE at + Len(cells)
      /\ \A k \in 1 .. Len(g) :
           g[k] = IF k - at \in 1 .. Len(cells) THEN cells[k - at]
                  ELSE IF k <= Len(f) THEN f[k] ELSE Zeros
  <2> HIDE DEF at
  <2> QED
    BY <1>1, WriteAtIs
<1> HIDE DEF g
<1>3. PICK n \in Nat :
        /\ a <= n
        /\ Len(f) = 4 * n + 1 \/ (Len(f) = 0 /\ n = 0)
        /\ \A j \in 1 .. n : 4 * j + 1 \in Ends(f)
        /\ \A e \in Ends(f) : e = 3 \/ \E j \in 1 .. n : e = 4 * j + 1
        /\ \A j \in 2 .. n : Piece(f, 4 * j + 1)
  <2>1. CASE f = <<>>
    <3>1. Len(f) = 0 /\ EndOf(f) = 1 /\ Ends(f) = {}
      BY <2>1 DEF EndOf, Ends
    <3>2. a <= 0 /\ 0 \in Nat /\ 1 .. 0 = {} /\ 2 .. 0 = {}
      BY <3>1
    <3> QED
      BY <3>1, <3>2
  <2>2. ASSUME NEW n \in Nat, GridOf(f, n)
        PROVE  /\ a <= n /\ Len(f) = 4 * n + 1
               /\ \A j \in 1 .. n : 4 * j + 1 \in Ends(f)
               /\ \A e \in Ends(f) : e = 3 \/ \E j \in 1 .. n : e = 4 * j + 1
               /\ \A j \in 2 .. n : Piece(f, 4 * j + 1)
    <3>1. Len(f) = 4 * n + 1
      BY <2>2 DEF GridOf
    <3>2. EndOf(f) = Len(f)
      BY <3>1 DEF EndOf
    <3> QED
      BY <2>2, <3>1, <3>2 DEF GridOf
  <2> QED
    BY <2>1, <2>2 DEF Grid
<1> DEFINE N == IF n >= a + m THEN n ELSE a + m
<1>4. N \in Nat /\ N >= n /\ N >= a + m /\ Len(g) = 4 * N + 1
  <2>1. N \in Nat /\ N >= n /\ N >= a + m
    OBVIOUS
  <2>2. Len(g) = IF Len(f) >= (4 * a + 1) + 4 * m THEN Len(f) ELSE (4 * a + 1) + 4 * m
    BY <1>2
  <2>3. a <= n /\ (Len(f) = 4 * n + 1 \/ (Len(f) = 0 /\ n = 0))
    BY <1>3
  <2>4. CASE n >= a + m
    BY <1>1, <2>2, <2>3, <2>4
  <2>5. CASE ~ (n >= a + m)
    BY <1>1, <2>2, <2>3, <2>5
  <2> QED
    BY <2>1, <2>4, <2>5
<1>5. \A k \in 1 .. Len(g) : k \in Nat /\ (k - at \in 1 .. Len(cells) <=> at < k /\ k <= 4 * (a + m) + 1)
  <2> SUFFICES ASSUME NEW k \in 1 .. Len(g)
               PROVE  k \in Nat /\ (k - at \in 1 .. Len(cells) <=> at < k /\ k <= 4 * (a + m) + 1)
    OBVIOUS
  <2> QED
    BY <1>1, <1>4
\* The JWTs of the save, and the others.
<1>6. ASSUME NEW j \in a + 1 .. a + m
      PROVE  4 * j + 1 \in Ends(g) /\ Piece(g, 4 * j + 1)
  <2> DEFINE i == j - a
             e == 4 * j + 1
  <2>1. i \in Nat \ {0} /\ 4 * i <= Len(cells)
    OBVIOUS
  <2>2. /\ cells[4 * i - 3] = <<"first", tag>> /\ cells[4 * i - 2] = <<"next", tag>>
        /\ cells[4 * i - 1] = <<"rest", tag>> /\ cells[4 * i] = Newline
    <3> HIDE DEF i
    <3> QED
      BY <2>1 DEF AreTokens
  <2>3. /\ e \in 1 .. Len(g) /\ e - 1 \in 1 .. Len(g) /\ e - 2 \in 1 .. Len(g)
        /\ e - 3 \in 1 .. Len(g)
    BY <1>4
  <2>4. /\ e - at = 4 * i /\ (e - 1) - at = 4 * i - 1
        /\ (e - 2) - at = 4 * i - 2 /\ (e - 3) - at = 4 * i - 3
    OBVIOUS
  <2>5. /\ 4 * i \in 1 .. Len(cells) /\ 4 * i - 1 \in 1 .. Len(cells)
        /\ 4 * i - 2 \in 1 .. Len(cells) /\ 4 * i - 3 \in 1 .. Len(cells)
    <3> HIDE DEF i
    <3> QED
      BY <2>1
  <2> HIDE DEF e, i, at
  <2>6. /\ g[e] = cells[4 * i] /\ g[e - 1] = cells[4 * i - 1]
        /\ g[e - 2] = cells[4 * i - 2] /\ g[e - 3] = cells[4 * i - 3]
    BY <1>2, <2>3, <2>4, <2>5
  <2>7. e \in Ends(g)
    BY <1>2, <2>2, <2>3, <2>6, EndsAre
  <2>8. Piece(g, e)
    BY <2>2, <2>6 DEF Piece
  <2> QED
    BY <2>7, <2>8 DEF e
<1>7. ASSUME NEW j \in 1 .. N, j \notin a + 1 .. a + m
      PROVE  /\ j \in 1 .. n /\ 4 * j + 1 \in Ends(g)
             /\ Piece(f, 4 * j + 1) => Piece(g, 4 * j + 1)
  <2> DEFINE e == 4 * j + 1
  <2>1. j \in 1 .. n /\ Len(f) = 4 * n + 1 /\ e \in 1 .. Len(f) /\ Len(f) <= Len(g)
    BY <1>3, <1>4, <1>7
  <2>2. \A k \in {e, e - 1, e - 2, e - 3} :
          k \in 1 .. Len(f) /\ k \in 1 .. Len(g) /\ ~ (k - at \in 1 .. Len(cells))
    BY <1>4, <1>7, <2>1
  <2>3. e \in Ends(f)
    BY <1>3, <2>1
  <2> HIDE DEF e, at
  <2>4. \A k \in {e, e - 1, e - 2, e - 3} : g[k] = f[k]
    <3> SUFFICES ASSUME NEW k \in {e, e - 1, e - 2, e - 3} PROVE g[k] = f[k]
      OBVIOUS
    <3>1. k \in 1 .. Len(g) /\ k <= Len(f) /\ ~ (k - at \in 1 .. Len(cells))
      BY <2>2
    <3> QED
      BY <1>2, <3>1
  <2>5. g[e] = f[e] /\ g[e - 1] = f[e - 1] /\ g[e - 2] = f[e - 2] /\ g[e - 3] = f[e - 3]
    BY <2>4
  <2>6. e \in Ends(g)
    BY <1>2, <2>2, <2>3, <2>5, EndsAre
  <2>7. Piece(f, e) => Piece(g, e)
    BY <2>5 DEF Piece
  <2> QED
    BY <2>1, <2>6, <2>7 DEF e
<1>8. ASSUME NEW e \in Ends(g) PROVE e = 3 \/ \E j \in 1 .. N : e = 4 * j + 1
  <2>1. e \in 1 .. Len(g) /\ g[e] = Newline
    BY <1>2, EndsAre
  <2>2. CASE e - at \in 1 .. Len(cells)
    <3>1. cells[e - at] = Newline
      BY <1>2, <2>1, <2>2
    <3>2. (e - at) % 4 = 0
      BY <2>2, <3>1 DEF AreTokens
    <3> DEFINE i == e - at
    <3>3. i \in 1 .. 4 * m /\ i % 4 = 0
      BY <2>2, <3>2
    <3>4. e = i + at
      BY <1>1, <2>1
    <3> HIDE DEF i
    <3>5. i = 4 * (i \div 4) /\ i \div 4 \in 1 .. m
      BY <3>3
    <3>6. e = 4 * (a + (i \div 4)) + 1 /\ a + (i \div 4) \in 1 .. N
      BY <1>4, <3>4, <3>5
    <3> QED
      BY <3>6
  <2>3. CASE ~ (e - at \in 1 .. Len(cells))
    <3> HIDE DEF at, N
    <3>1. g[e] = IF e <= Len(f) THEN f[e] ELSE Zeros
      BY <1>2, <2>1, <2>3
    <3>2. e <= Len(f) /\ f[e] = Newline
      BY <2>1, <3>1 DEF Zeros, Newline
    <3>3. e \in Ends(f)
      <4>1. e \in 1 .. Len(f)
        BY <1>1, <2>1, <3>2
      <4> QED
        BY <3>2, <4>1, EndsAre
    <3>4. e = 3 \/ \E j \in 1 .. n : e = 4 * j + 1
      BY <1>3, <3>3
    <3> QED
      BY <1>4, <3>4
  <2> QED
    BY <2>2, <2>3
<1>9. GridOf(g, N)
  <2>1. \A j \in 1 .. N : 4 * j + 1 \in Ends(g)
    BY <1>6, <1>7
  <2>2. \A j \in 2 .. N : Piece(g, 4 * j + 1)
    <3> SUFFICES ASSUME NEW j \in 2 .. N PROVE Piece(g, 4 * j + 1)
      OBVIOUS
    <3>1. CASE j \in a + 1 .. a + m
      BY <1>6, <3>1
    <3>2. CASE j \notin a + 1 .. a + m
      <4>1. j \in 1 .. N
        BY <1>4
      <4>2. j \in 1 .. n /\ (Piece(f, 4 * j + 1) => Piece(g, 4 * j + 1))
        BY <1>7, <3>2, <4>1
      <4>3. j \in 2 .. n
        BY <4>2
      <4> QED
        BY <1>3, <4>2, <4>3
    <3> QED
      BY <3>1, <3>2
  <2> QED
    BY <1>4, <1>8, <2>1, <2>2 DEF GridOf
<1>10. Grid(g)
  BY <1>4, <1>9 DEF Grid
<1>11. Len(g) >= Len(f) /\ Len(g) >= 4 * (a + m) + 1
  BY <1>3, <1>4
<1> QED
  BY <1>10, <1>11 DEF g, at

\* A write in the header of a file that has more leaves its JWTs alone.
LEMMA GridHeader ==
  ASSUME NEW f \in Contents, NEW cells \in Contents, NEW at \in Nat,
         Grid(f), Len(f) >= 4, at + Len(cells) <= 3,
         \A i \in 1 .. Len(cells) : cells[i] = Newline <=> at + i = 3
  PROVE  Grid(WriteAt(f, cells, at)) /\ Len(WriteAt(f, cells, at)) = Len(f)
<1> DEFINE g == WriteAt(f, cells, at)
<1>1. PICK n \in Nat : GridOf(f, n)
  <2>1. Len(<<>>) = 0
    OBVIOUS
  <2> QED
    BY <2>1 DEF Grid
<1>2. /\ Len(f) = 4 * n + 1 /\ Len(f) >= 5
      /\ \A j \in 1 .. n : 4 * j + 1 \in Ends(f)
      /\ \A e \in Ends(f) : e = 3 \/ \E j \in 1 .. n : e = 4 * j + 1
      /\ \A j \in 2 .. n : Piece(f, 4 * j + 1)
  <2>1. /\ Len(f) = 4 * n + 1
        /\ \A j \in 1 .. n : 4 * j + 1 \in Ends(f)
        /\ \A e \in Ends(f) : e = 3 \/ \E j \in 1 .. n : e = 4 * j + 1
        /\ \A j \in 2 .. n : Piece(f, 4 * j + 1)
    BY <1>1 DEF GridOf
  <2> QED
    BY <2>1
<1>3. /\ g \in Contents /\ Len(g) = Len(f)
      /\ \A k \in 4 .. Len(f) : k \in 1 .. Len(f) /\ g[k] = f[k]
      /\ \A e : e \in Ends(g) <=> e \in 1 .. Len(f) /\ g[e] = Newline
      /\ \A e \in 1 .. 3 : e \in Ends(g) => e = 3 \/ e \in Ends(f)
  BY <1>2, HeaderWrite
<1> HIDE DEF g
<1>4. \A e : e \in Ends(f) <=> e \in 1 .. Len(f) /\ f[e] = Newline
  BY EndsAre
<1>5. ASSUME NEW e \in 4 .. Len(f) PROVE e \in Ends(g) <=> e \in Ends(f)
  BY <1>3, <1>4, <1>5
<1>6. ASSUME NEW j \in 1 .. n PROVE 4 * j + 1 \in Ends(g)
  <2>1. 4 * j + 1 \in 4 .. Len(f) /\ 4 * j + 1 \in Ends(f)
    BY <1>2
  <2> QED
    BY <1>5, <2>1
<1>7. ASSUME NEW e \in Ends(g) PROVE e = 3 \/ \E j \in 1 .. n : e = 4 * j + 1
  <2>1. e \in 1 .. Len(f)
    BY <1>3
  <2>2. CASE e \in 1 .. 3
    BY <1>2, <1>3, <2>2
  <2>3. CASE e \notin 1 .. 3
    <3>1. e \in 4 .. Len(f)
      BY <1>2, <2>1, <2>3
    <3> QED
      BY <1>2, <1>5, <3>1
  <2> QED
    BY <2>2, <2>3
<1>8. ASSUME NEW j \in 2 .. n PROVE Piece(g, 4 * j + 1)
  <2>1. Piece(f, 4 * j + 1)
    BY <1>2
  <2>2. /\ 4 * j + 1 - 3 \in 4 .. Len(f) /\ 4 * j + 1 - 2 \in 4 .. Len(f)
        /\ 4 * j + 1 - 1 \in 4 .. Len(f) /\ 4 * j + 1 \in 4 .. Len(f)
    BY <1>2
  <2>3. /\ g[4 * j + 1 - 3] = f[4 * j + 1 - 3] /\ g[4 * j + 1 - 2] = f[4 * j + 1 - 2]
        /\ g[4 * j + 1 - 1] = f[4 * j + 1 - 1]
    BY <1>3, <2>2
  <2> QED
    BY <2>1, <2>3 DEF Piece
<1>9. GridOf(g, n)
  BY <1>2, <1>3, <1>6, <1>7, <1>8 DEF GridOf
<1> QED
  BY <1>3, <1>9 DEF Grid, g

\* What a run counts on has its cells in the file, and it saves at a whole number of
\* JWTs, no less than it counts, and not behind the file's end.
Placed(p) ==
  /\ run[p].pc \in Generating => 4 * run[p].mem <= Len(File(p))
  /\ run[p].pc = "tokens" =>
       \E a \in Nat : /\ run[p].at = 4 * a + 1 /\ run[p].at <= EndOf(File(p))
                      /\ run[p].mem <= a
  /\ run[p].pc \in {"count", "newline"} => 4 * NewCount(p) <= Len(File(p))

\* The header's newline is there, or somebody is about to write it.
Headed(f) ==
  \/ disk[f] = <<>>
  \/ 3 \in Ends(disk[f])
  \/ \E p \in Procs : run[p].pc \in {"count", "newline"} /\ run[p].fd = f

OnGrid(f) == Grid(disk[f]) /\ 4 * Counted(disk[f]) <= Len(disk[f]) /\ Headed(f)

Gridded == (\A f \in 1 .. Len(disk) : OnGrid(f)) /\ \A p \in Procs : Placed(p)

GridInv == crashes = 0 => Gridded

\* The other runs are where they were, and files only grow.
LEMMA PlacedKept ==
  ASSUME Types, NEW q \in Procs, Placed(q), disk' \in Seq(Contents),
         run'[q].pc = run[q].pc, run'[q].fd = run[q].fd, run'[q].mem = run[q].mem,
         run'[q].saving = run[q].saving, run'[q].at = run[q].at,
         Len(disk') >= Len(disk),
         \A f \in 1 .. Len(disk) : Len(disk'[f]) >= Len(disk[f])
  PROVE  Placed(q)'
<1>1. CASE run[q].pc \in Generating
  <2> DEFINE f == disk[run[q].fd]
             g == disk'[run[q].fd]
  <2>1. /\ run[q].fd \in 1 .. Len(disk) /\ f \in Contents /\ File(q) = f
        /\ run[q].mem \in Nat /\ run[q].at \in Nat /\ NewCount(q) \in Nat
    <3>1. run[q].pc \in Opened
      BY <1>1 DEF Opened
    <3> QED
      BY <3>1, FileIs, RunValues
  <2>2. Len(disk) \in Nat /\ Len(disk') \in Nat
    BY DEF Types
  <2>3. g \in Contents /\ File(q)' = g /\ Len(g) >= Len(f)
    <3>1. run[q].fd \in 1 .. Len(disk')
      BY <2>1, <2>2
    <3> QED
      BY <2>1, <3>1 DEF File
  <2> HIDE DEF f, g
  <2>4. Len(f) \in Nat /\ Len(g) \in Nat /\ EndOf(f) <= EndOf(g) /\ EndOf(f) \in Nat
        /\ EndOf(g) \in Nat
    <3>1. Len(f) \in Nat /\ Len(g) \in Nat /\ (f # <<>> => Len(f) >= 1) /\ Len(<<>>) = 0
      BY <2>1, <2>3 DEF Contents
    <3> QED
      BY <2>3, <3>1, EndOfIs DEF EndOf
  <2>5. NewCount(q)' = NewCount(q)
    BY DEF NewCount
  <2>6. 4 * run'[q].mem <= Len(g)
    BY <1>1, <2>1, <2>3, <2>4 DEF Placed
  <2>7. run[q].pc = "tokens" =>
          \E a \in Nat : /\ run'[q].at = 4 * a + 1 /\ run'[q].at <= EndOf(g)
                         /\ run'[q].mem <= a
    BY <2>1, <2>3, <2>4 DEF Placed
  <2>8. run[q].pc \in {"count", "newline"} => 4 * NewCount(q)' <= Len(g)
    BY <2>1, <2>3, <2>4, <2>5 DEF Placed
  <2> QED
    BY <2>3, <2>6, <2>7, <2>8 DEF Placed
<1>2. CASE run[q].pc \notin Generating
  BY <1>2 DEF Placed, Generating, Saving
<1> QED
  BY <1>1, <1>2

\* A file that nobody wrote in, while p was not in the middle of its header.
LEMMA OnGridKept ==
  ASSUME NEW f, OnGrid(f), disk'[f] = disk[f],
         NEW p \in Procs, run[p].pc \notin {"count", "newline"} \/ run[p].fd # f,
         \A q \in Procs : q # p => run'[q].pc = run[q].pc /\ run'[q].fd = run[q].fd
  PROVE  OnGrid(f)'
<1>1. Headed(f)'
  <2>1. CASE \E q \in Procs : run[q].pc \in {"count", "newline"} /\ run[q].fd = f
    <3>1. PICK q \in Procs : run[q].pc \in {"count", "newline"} /\ run[q].fd = f
      BY <2>1
    <3>2. q # p
      BY <3>1
    <3>3. run'[q].pc \in {"count", "newline"} /\ run'[q].fd = f
      BY <3>1, <3>2
    <3> QED
      BY <3>3 DEF Headed
  <2>2. CASE ~ \E q \in Procs : run[q].pc \in {"count", "newline"} /\ run[q].fd = f
    BY <2>2 DEF OnGrid, Headed
  <2> QED
    BY <2>1, <2>2
<1> QED
  BY <1>1 DEF OnGrid

\* Steps of p that write in no file.
LEMMA GridSame ==
  ASSUME Types, Gridded, NEW p \in Procs, run[p].pc \notin {"count", "newline"},
         disk' = disk,
         \A q \in Procs : q # p =>
           /\ run'[q].pc = run[q].pc /\ run'[q].fd = run[q].fd
           /\ run'[q].mem = run[q].mem /\ run'[q].saving = run[q].saving
           /\ run'[q].at = run[q].at,
         Placed(p)'
  PROVE  Gridded'
<1>1. ASSUME NEW f \in 1 .. Len(disk') PROVE OnGrid(f)'
  BY <1>1, OnGridKept DEF Gridded
<1>2. disk' \in Seq(Contents) /\ Len(disk') >= Len(disk)
      /\ \A f \in 1 .. Len(disk) : Len(disk'[f]) >= Len(disk[f])
  <2>1. disk \in Seq(Contents) /\ Len(disk) \in Nat
    BY DEF Types
  <2>2. \A f \in 1 .. Len(disk) : Len(disk[f]) \in Nat
    BY <2>1 DEF Contents
  <2> QED
    BY <2>1, <2>2
<1>3. ASSUME NEW q \in Procs, q # p PROVE Placed(q)'
  BY <1>2, <1>3, PlacedKept DEF Gridded
<1> QED
  BY <1>1, <1>3 DEF Gridded

\* Steps of p that write in its file.
LEMMA GridFile ==
  ASSUME Types, Gridded, NEW p \in Procs, run[p].pc \in Opened, Others(p),
         NEW g \in Contents, FileBecomes(p, g), Len(g) >= Len(File(p)),
         Grid(g), 4 * Counted(g) <= Len(g),
         3 \in Ends(g) \/ run'[p].pc \in {"count", "newline"},
         run'[p].fd = run[p].fd, Placed(p)'
  PROVE  Gridded'
<1> DEFINE fd == run[p].fd
<1>1. /\ fd \in 1 .. Len(disk) /\ Len(disk') = Len(disk) /\ disk' \in Seq(Contents)
      /\ disk'[fd] = g /\ File(p) = disk[fd]
      /\ \A f \in 1 .. Len(disk) : f # fd => disk'[f] = disk[f]
  BY FileIs DEF FileBecomes
<1>2. \A q \in Procs : q # p => run'[q] = run[q]
  BY DEF Others
<1>3. ASSUME NEW f \in 1 .. Len(disk') PROVE OnGrid(f)'
  <2>1. CASE f = fd
    <3>1. Headed(f)'
      BY <1>1, <2>1 DEF Headed
    <3> QED
      BY <1>1, <2>1, <3>1 DEF OnGrid
  <2>2. CASE f # fd
    <3>1. OnGrid(f) /\ disk'[f] = disk[f]
      BY <1>1, <2>2 DEF Gridded
    <3> QED
      BY <1>2, <2>2, <3>1, OnGridKept
  <2> QED
    BY <2>1, <2>2
<1>4. Len(disk') >= Len(disk) /\ \A f \in 1 .. Len(disk) : Len(disk'[f]) >= Len(disk[f])
  <2>1. Len(disk) \in Nat /\ \A f \in 1 .. Len(disk) : Len(disk[f]) \in Nat
    BY DEF Types, Contents
  <2>2. ASSUME NEW f \in 1 .. Len(disk) PROVE Len(disk'[f]) >= Len(disk[f])
    <3>1. CASE f = fd
      BY <1>1, <3>1
    <3>2. CASE f # fd
      BY <1>1, <2>1, <3>2
    <3> QED
      BY <3>1, <3>2
  <2> QED
    BY <1>1, <2>1, <2>2
<1>5. ASSUME NEW q \in Procs, q # p PROVE Placed(q)'
  <2>1. run'[q] = run[q] /\ Placed(q)
    BY <1>2, <1>5 DEF Gridded
  <2> QED
    BY <1>1, <1>4, <2>1, PlacedKept
<1> QED
  BY <1>3, <1>5 DEF Gridded

\* One step of a run.
LEMMA GridStep ==
  ASSUME CacheInv, Gridded, NEW p \in Procs, RunStep(p)
  PROVE  Gridded'
<1> USE DEF CacheInv
<1>0. /\ Others(p) /\ \A q \in Procs : q # p => run'[q] = run[q]
  BY FitsStep DEF Others
<1>1. ASSUME UNCHANGED disk, run[p].pc \notin {"count", "newline"}, Placed(p)'
      PROVE  Gridded'
  BY <1>0, <1>1, GridSame
<1>2. ASSUME run'[p].pc \notin Generating PROVE Placed(p)'
  BY <1>2 DEF Placed, Generating, Saving
<1>3. CASE Open(p)
  <2>1. /\ run[p].pc = "open" /\ run'[p].pc = "read"
        /\ disk' \in Seq(Contents) /\ Len(disk') >= Len(disk)
        /\ \A f \in 1 .. Len(disk) : disk'[f] = disk[f]
        /\ \A f \in 1 .. Len(disk') : f > Len(disk) => disk'[f] = <<>>
    BY <1>3, OpenDoes DEF Open
  <2>2. Len(disk) \in Nat /\ Len(disk') \in Nat /\ \A f \in 1 .. Len(disk) : Len(disk[f]) \in Nat
    BY <2>1 DEF Types, Contents
  <2>3. ASSUME NEW f \in 1 .. Len(disk') PROVE OnGrid(f)'
    <3>1. CASE f <= Len(disk)
      <4>1. f \in 1 .. Len(disk) /\ disk'[f] = disk[f] /\ OnGrid(f)
        BY <2>1, <2>2, <3>1 DEF Gridded
      <4>2. run[p].pc \notin {"count", "newline"}
        BY <2>1
      <4> QED
        BY <1>0, <4>1, <4>2, OnGridKept
    <3>2. CASE ~ (f <= Len(disk))
      <4>1. disk'[f] = <<>>
        BY <2>1, <2>2, <3>2
      <4>2. Grid(<<>>) /\ Counted(<<>>) = 0 /\ Len(<<>>) = 0
        BY DEF Grid, Counted
      <4> QED
        BY <4>1, <4>2 DEF OnGrid, Headed
    <3> QED
      BY <3>1, <3>2
  <2>4. \A f \in 1 .. Len(disk) : Len(disk'[f]) >= Len(disk[f])
    BY <2>1, <2>2
  <2>5. ASSUME NEW q \in Procs PROVE Placed(q)'
    <3>1. CASE q = p
      BY <1>2, <2>1, <3>1 DEF Generating, Saving
    <3>2. CASE q # p
      BY <1>0, <2>1, <2>4, <3>2, PlacedKept DEF Gridded
    <3> QED
      BY <3>1, <3>2
  <2> QED
    BY <2>3, <2>5 DEF Gridded
<1>4. CASE Read(p)
  <2>1. run[p].pc = "read" /\ run[p].saving = 0 /\ run[p].pc \in Opened
    BY <1>4 DEF Read, Batches, Fits, Saving, Opened
  <2>2. /\ run'[p].mem = Counted(File(p)) /\ run'[p].fd = run[p].fd
        /\ run'[p].pc \in {"get", "collect"} /\ disk' = disk
    BY <1>4, <2>1, ReadDoes
  <2>3. File(p)' = File(p)
    BY <2>2 DEF File
  <2>4. 4 * Counted(File(p)) <= Len(File(p))
    BY <2>1, FileIs DEF Gridded, OnGrid
  <2>5. Placed(p)'
    BY <2>2, <2>3, <2>4 DEF Placed
  <2> QED
    BY <1>1, <2>1, <2>2, <2>5
<1>5. CASE Corrupt(p)
  BY <1>1, <1>2, <1>5, CorruptDoes, NoRunIs DEF Corrupt, Generating, Saving
<1>6. CASE RemoveFile(p)
  BY <1>1, <1>2, <1>6, RemoveFileDoes, NoRunIs DEF RemoveFile, Generating, Saving
<1>7. ASSUME NEW k \in Cpus, Collect(p, k) PROVE Gridded'
  <2> DEFINE f == File(p)
  <2>1. /\ run[p].pc = "collect" /\ run[p].pc \in Opened /\ run[p].pc \in Generating
        /\ disk' = disk
    BY <1>7 DEF Collect, Opened, Generating
  <2>2. /\ run'[p].pc = "tokens" /\ run'[p].mem = run[p].mem /\ run'[p].fd = run[p].fd
        /\ run'[p].at = EndOf(f)
    BY <1>7, CollectDoes
  <2>3. f \in Contents /\ Grid(f) /\ 4 * run[p].mem <= Len(f) /\ run[p].mem \in Nat
    BY <2>1, FileIs, RunValues DEF Gridded, OnGrid, Placed
  <2>4. File(p)' = f
    BY <2>1, <2>2 DEF File
  <2> HIDE DEF f
  <2>5. \E a \in Nat : EndOf(f) = 4 * a + 1 /\ run[p].mem <= a
    <3>1. CASE f = <<>>
      <4>1. EndOf(f) = 4 * 0 + 1 /\ run[p].mem <= 0 /\ 0 \in Nat
        BY <2>3, <3>1 DEF EndOf
      <4> QED
        BY <4>1
    <3>2. CASE f # <<>>
      <4>1. PICK n \in Nat : GridOf(f, n)
        BY <2>3, <3>2 DEF Grid
      <4>2. Len(f) = 4 * n + 1 /\ EndOf(f) = Len(f)
        BY <3>2, <4>1 DEF GridOf, EndOf
      <4> QED
        BY <2>3, <4>2
    <3> QED
      BY <3>1, <3>2
  <2>6. EndOf(f) <= EndOf(f)
    BY <2>3, EndOfIs
  <2>7. Placed(p)'
    BY <2>2, <2>3, <2>4, <2>5, <2>6 DEF Placed
  <2> QED
    BY <1>1, <2>1, <2>7
<1>8. CASE BatchDone(p)
  <2>1. run[p].pc = "collect" /\ run[p].pc \in Generating
    BY <1>8 DEF BatchDone, Generating
  <2>2. /\ run'[p].mem = run[p].mem /\ run'[p].fd = run[p].fd
        /\ run'[p].pc \in {"get", "collect"} /\ disk' = disk
    BY <1>8, BatchDoneDoes
  <2>3. File(p)' = File(p) /\ 4 * run[p].mem <= Len(File(p))
    BY <2>1, <2>2 DEF File, Gridded, Placed
  <2>4. Placed(p)'
    BY <2>2, <2>3 DEF Placed
  <2> QED
    BY <1>1, <2>1, <2>2, <2>4
<1>9. CASE Retrieve(p)
  <2>1. run[p].pc = "get" /\ disk' = disk /\ run'[p] = NoRun
    BY <1>9, EndDoes DEF Retrieve
  <2> QED
    BY <1>1, <1>2, <2>1, NoRunIs DEF Generating, Saving
<1>10. CASE SaveTokens(p)
  <2> DEFINE f == File(p)
             cells == NewTokens(p)
             m == run[p].saving
             g == WriteAt(f, cells, run[p].at)
  <2>1. /\ run[p].pc = "tokens" /\ run[p].pc \in Opened /\ run[p].pc \in Saving
        /\ run[p].pc \in Generating
    BY <1>10 DEF SaveTokens, Opened, Generating, Saving
  <2>2. /\ run'[p].pc = "count" /\ run'[p].fd = run[p].fd /\ run'[p].mem = run[p].mem
        /\ run'[p].saving = run[p].saving /\ FileBecomes(p, g)
    BY <1>10, SaveTokensDoes
  <2>3. f \in Contents /\ Grid(f) /\ 4 * Counted(f) <= Len(f) /\ run[p].fd \in 1 .. Len(disk)
    BY <2>1, FileIs DEF Gridded, OnGrid
  <2>4. cells \in Contents /\ AreTokens(cells, run[p].tag) /\ Len(cells) = 4 * m
    BY NewTokensAre
  <2>5. run[p].tag \in 1 .. MaxRuns /\ m \in Nat \ {0} /\ run[p].mem \in Nat
    BY <2>1, RunValues DEF Batches, Fits
  <2>6. PICK a \in Nat : /\ run[p].at = 4 * a + 1 /\ run[p].at <= EndOf(f)
                         /\ run[p].mem <= a
    BY <2>1 DEF Gridded, Placed
  <2> HIDE DEF cells, m, f
  <2>7. Grid(g) /\ Len(g) >= Len(f) /\ Len(g) >= 4 * (a + m) + 1
    BY <2>3, <2>4, <2>5, <2>6, GridSave
  <2>8. run[p].at \in Nat \ {0}
    BY <2>6
  <2>9. g \in Contents /\ Counted(g) = Counted(f)
    BY <2>3, <2>4, <2>8, WriteAtIs, CountedWriteBehind
  <2>10. Len(f) \in Nat /\ Len(g) \in Nat /\ Counted(f) \in Nat
    BY <2>3, <2>9, CountedIs DEF Contents
  <2> HIDE DEF g
  <2>11. 4 * Counted(g) <= Len(g)
    BY <2>3, <2>7, <2>9, <2>10
  <2>12. NewCount(p)' = run[p].mem + m
    BY <2>2 DEF NewCount, m
  <2>13. File(p)' = g
    BY <2>2, <2>3 DEF File, FileBecomes
  <2>14. 4 * run'[p].mem <= Len(g) /\ 4 * NewCount(p)' <= Len(g)
    BY <2>2, <2>5, <2>6, <2>7, <2>10, <2>12
  <2>15. Placed(p)'
    BY <2>2, <2>13, <2>14 DEF Placed
  <2>16. Len(g) >= Len(File(p))
    BY <2>7 DEF f
  <2> QED
    BY <1>0, <2>1, <2>2, <2>7, <2>9, <2>11, <2>15, <2>16, GridFile
<1>11. ASSUME NEW cells \in Contents, NEW at \in Nat, at + Len(cells) <= 3,
              \A i \in 1 .. Len(cells) : cells[i] = Newline <=> at + i = 3,
              run[p].pc \in {"count", "newline"}
       PROVE  /\ run[p].pc \in Opened /\ run[p].pc \in Generating
              /\ File(p) \in Contents /\ WriteAt(File(p), cells, at) \in Contents
              /\ Grid(WriteAt(File(p), cells, at))
              /\ Len(WriteAt(File(p), cells, at)) = Len(File(p))
              /\ Len(File(p)) \in Nat /\ Len(File(p)) >= 4
              /\ 4 * run[p].mem <= Len(File(p)) /\ 4 * NewCount(p) <= Len(File(p))
              /\ 4 * Counted(File(p)) <= Len(File(p)) /\ NewCount(p) \in Nat
  <2>1. run[p].pc \in Opened /\ run[p].pc \in Generating /\ run[p].pc \in Saving
    BY <1>11 DEF Opened, Generating, Saving
  <2>2. /\ File(p) \in Contents /\ Grid(File(p))
        /\ 4 * Counted(File(p)) <= Len(File(p))
    BY <2>1, FileIs DEF Gridded, OnGrid
  <2>3. 4 * run[p].mem <= Len(File(p)) /\ 4 * NewCount(p) <= Len(File(p))
    BY <1>11, <2>1 DEF Gridded, Placed
  <2>4. /\ NewCount(p) \in Nat /\ NewCount(p) = run[p].mem + run[p].saving
        /\ run[p].mem \in Nat /\ run[p].saving \in Nat /\ run[p].saving # 0
    BY <2>1, RunValues DEF Batches, Fits
  <2>5. Len(File(p)) \in Nat
    BY <2>2 DEF Contents
  <2>6. Len(File(p)) >= 4
    BY <2>3, <2>4, <2>5
  <2> QED
    BY <1>11, <2>1, <2>2, <2>3, <2>4, <2>5, <2>6, GridHeader, WriteAtIs
<1>12. CASE SaveCount(p)
  <2> DEFINE cells == <<Count(NewCount(p)), Zeros>>
             f == File(p)
             g == WriteAt(f, cells, 0)
  <2>1. /\ run[p].pc = "count" /\ run'[p].pc = "newline" /\ run'[p].fd = run[p].fd
        /\ run'[p].mem = run[p].mem /\ run'[p].saving = run[p].saving
        /\ FileBecomes(p, g)
    BY <1>12, SaveCountDoes DEF SaveCount
  <2>2. /\ cells \in Contents /\ Len(cells) = 2
        /\ cells[1] = Count(NewCount(p)) /\ cells[2] = Zeros
    BY RunValues, CellTypes DEF Contents
  <2>3. f \in Contents => Counted(g) = NewCount(p)
    BY RunValues, CountedHeader
  <2> HIDE DEF cells
  <2>4. cells[1] # Newline /\ cells[2] # Newline
    BY <2>2 DEF Count, Zeros, Newline
  <2>5. 0 + Len(cells) <= 3 /\ 0 \in Nat
    BY <2>2
  <2>6. \A i \in 1 .. Len(cells) : cells[i] = Newline <=> 0 + i = 3
    <3>1. \A i \in 1 .. Len(cells) : (i = 1 \/ i = 2) /\ 0 + i # 3
      BY <2>2
    <3> QED
      BY <2>4, <3>1
  <2>7. /\ run[p].pc \in Opened /\ run[p].pc \in Generating
        /\ f \in Contents /\ g \in Contents
        /\ Grid(g) /\ Len(g) = Len(f) /\ Len(f) \in Nat
        /\ 4 * run[p].mem <= Len(f) /\ 4 * NewCount(p) <= Len(f)
    BY <1>11, <2>1, <2>2, <2>5, <2>6
  <2>8. run[p].fd \in 1 .. Len(disk)
    BY <2>7, FileIs
  <2> HIDE DEF f, g
  <2>9. File(p)' = g
    BY <2>1, <2>8 DEF File, FileBecomes
  <2>10. NewCount(p)' = NewCount(p)
    BY <2>1 DEF NewCount
  <2>11. Placed(p)'
    BY <2>1, <2>7, <2>9, <2>10 DEF Placed
  <2>12. Len(g) >= Len(File(p)) /\ 4 * Counted(g) <= Len(g)
    BY <2>3, <2>7 DEF f
  <2> QED
    BY <1>0, <2>1, <2>7, <2>11, <2>12, GridFile
<1>13. CASE SaveNewline(p)
  <2> DEFINE cells == <<Newline>>
             f == File(p)
             g == WriteAt(f, cells, 2)
  <2>1. /\ run[p].pc = "newline" /\ run'[p].pc = "collect" /\ run'[p].fd = run[p].fd
        /\ run'[p].mem = NewCount(p) /\ FileBecomes(p, g)
    BY <1>13, SaveNewlineDoes DEF SaveNewline
  <2>2. cells \in Contents /\ Len(cells) = 1 /\ cells[1] = Newline
    BY CellTypes DEF Contents
  <2> HIDE DEF cells
  <2>3. 2 + Len(cells) <= 3 /\ 2 \in Nat /\ 2 \in Nat \ {0}
    BY <2>2
  <2>4. \A i \in 1 .. Len(cells) : cells[i] = Newline <=> 2 + i = 3
    <3>1. \A i \in 1 .. Len(cells) : i = 1 /\ 2 + i = 3
      BY <2>2
    <3> QED
      BY <2>2, <3>1
  <2>5. /\ run[p].pc \in Opened /\ run[p].pc \in Generating
        /\ f \in Contents /\ g \in Contents
        /\ Grid(g) /\ Len(g) = Len(f) /\ Len(f) \in Nat /\ Len(f) >= 4
        /\ 4 * NewCount(p) <= Len(f) /\ 4 * Counted(f) <= Len(f)
    BY <1>11, <2>1, <2>2, <2>3, <2>4
  <2>6. run[p].fd \in 1 .. Len(disk)
    BY <2>5, FileIs
  <2>7. Counted(g) = Counted(f)
    BY <2>2, <2>3, <2>5, CountedWriteBehind
  <2>8. 3 \in Ends(g)
    <3>1. 3 \in 1 .. Len(g) /\ 3 - 2 = 1 /\ 3 - 2 \in 1 .. Len(cells)
      BY <2>2, <2>5
    <3>2. g[3] = cells[3 - 2]
      BY <2>2, <2>3, <2>5, <3>1, WriteAtIs
    <3> HIDE DEF g
    <3> QED
      BY <2>2, <2>5, <3>1, <3>2, EndsAre
  <2> HIDE DEF f, g
  <2>9. File(p)' = g
    BY <2>1, <2>6 DEF File, FileBecomes
  <2>10. Placed(p)'
    BY <2>1, <2>5, <2>9 DEF Placed
  <2>11. Len(g) >= Len(File(p)) /\ 4 * Counted(g) <= Len(g)
    BY <2>5, <2>7 DEF f
  <2> QED
    BY <1>0, <2>1, <2>5, <2>8, <2>10, <2>11, GridFile
<1> QED
  BY <1>3, <1>4, <1>5, <1>6, <1>7, <1>8, <1>9, <1>10, <1>12, <1>13 DEF RunStep

LEMMA GridInvStep ==
  ASSUME CacheInv, GridInv, [Next]_vars
  PROVE  GridInv'
<1> SUFFICES ASSUME crashes' = 0 PROVE Gridded'
  BY DEF GridInv
<1> USE DEF CacheInv
<1>1. crashes = 0 /\ Gridded /\ \A p \in Procs : ~Crash(p)
  <2>1. \A p \in Procs : ~Crash(p)
    BY DEF Crash, Types
  <2>2. crashes' = crashes
    BY <2>1 DEF Next, vars, ClearCache, StartRun, RunStep, Open, Read, Corrupt, RemoveFile,
                Collect, BatchDone, SaveTokens, SaveCount, SaveNewline, Retrieve,
                OpenFails, GiveUp
  <2> QED
    BY <2>1, <2>2 DEF GridInv
<1>2. CASE UNCHANGED <<disk, run>>
  BY <1>1, <1>2 DEF Gridded, OnGrid, Headed, Placed, File, NewCount
<1>3. ASSUME NEW p \in Procs, NEW n \in Amounts, StartRun(p, n) PROVE Gridded'
  <2>1. disk' = disk /\ run[p].pc = "ended" /\ run'[p].pc = "open"
    BY <1>3, StartRunDoes DEF StartRun, Active
  <2>2. \A q \in Procs : q # p =>
           /\ run'[q].pc = run[q].pc /\ run'[q].fd = run[q].fd
           /\ run'[q].mem = run[q].mem /\ run'[q].saving = run[q].saving
           /\ run'[q].at = run[q].at
    BY <1>3, StartRunDoes, ZenonT(60)
  <2>3. Placed(p)'
    BY <2>1 DEF Placed, Generating, Saving
  <2> QED
    BY <1>1, <2>1, <2>2, <2>3, GridSame
<1>4. ASSUME NEW p \in Procs, RunStep(p) PROVE Gridded'
  BY <1>1, <1>4, GridStep
<1>5. ASSUME NEW p \in Procs, OpenFails(p) \/ GiveUp(p) PROVE Gridded'
  <2>1. End(p) /\ disk' = disk /\ run[p].pc \notin {"count", "newline"}
    BY <1>5 DEF OpenFails, GiveUp
  <2>2. run'[p] = NoRun /\ Others(p)
    BY <2>1, EndDoes
  <2>3. Placed(p)'
    BY <2>2, NoRunIs DEF Placed, Generating, Saving
  <2> QED
    BY <1>1, <2>1, <2>2, <2>3, GridSame DEF Others
<1> QED
  BY <1>1, <1>2, <1>3, <1>4, <1>5 DEF Next, vars, ClearCache

LEMMA GridInvInit == Init => GridInv
  BY NoRunIs DEF Init, GridInv, Gridded, Placed, Generating, Saving

-------------------------------------------------------------------------------
(* What the cache is worth as long as it is used in an orderly way. *)

OrderlyInv == CacheInv /\ AloneInv /\ LinesInv /\ TidyInv /\ GridInv

LEMMA OrderlyAlways == Spec => []OrderlyInv
<1>1. Init => TidyInv /\ GridInv
  BY TidyInvInit, GridInvInit
<1>2. (CacheInv /\ AloneInv /\ LinesInv) /\ TidyInv /\ [Next]_vars => TidyInv'
  BY TidyInvStep
<1>3. (CacheInv /\ AloneInv /\ LinesInv) /\ GridInv /\ [Next]_vars => GridInv'
  BY GridInvStep
<1> QED
  BY <1>1, <1>2, <1>3, LinesAlways, PTL DEF Spec, OrderlyInv

LEMMA EnoughLines ==
  ASSUME OrderlyInv, Orderly, NEW f \in 1 .. Len(disk)
  PROVE  Counted(disk[f]) <= Cardinality(Later(disk[f]))
<1>1. CASE ~shared
  BY <1>1 DEF OrderlyInv, LinesInv, LoneLines, Covered
<1>2. CASE crashes = 0
  <2>1. disk[f] \in Contents /\ OnGrid(f)
    BY <1>2 DEF OrderlyInv, CacheInv, Types, GridInv, Gridded
  <2>2. Counted(disk[f]) \in Nat /\ Grid(disk[f]) /\ 4 * Counted(disk[f]) <= Len(disk[f])
    BY <2>1, CountedIs DEF OnGrid
  <2> QED
    BY <2>1, <2>2, GridIs
<1> QED
  BY <1>1, <1>2 DEF Orderly

\* The count that a later run will trust (newCache) never promises more JWTs than the
\* file has lines for: whatever writes of save were cut short or never done, as long
\* as no two runs were there at the same time; and however many runs write in the
\* file at the same time, as long as every write is done.
THEOREM JwtCacheCountNeverAhead == Spec => []CountNeverAhead
<1>1. OrderlyInv => CountNeverAhead
  <2> SUFFICES ASSUME OrderlyInv, Orderly, NEW f \in DOMAIN disk
               PROVE  Counted(disk[f]) <= Len(Lines(disk[f]))
    BY DEF CountNeverAhead
  <2>1. disk[f] \in Contents /\ f \in 1 .. Len(disk)
    BY DEF OrderlyInv, CacheInv, Types
  <2>2. Counted(disk[f]) <= Cardinality(Later(disk[f]))
    BY <2>1, EnoughLines
  <2>3. /\ IsFiniteSet(Ends(disk[f])) /\ Later(disk[f]) \subseteq Ends(disk[f])
        /\ Cardinality(Ends(disk[f])) \in Nat /\ Cardinality(Later(disk[f])) \in Nat
    BY <2>1, EndsAre
  <2>4. Cardinality(Later(disk[f])) <= Cardinality(Ends(disk[f]))
    BY <2>3, FS_Subset
  <2>5. Len(Lines(disk[f])) \in Nat /\ Len(Lines(disk[f])) >= Cardinality(Ends(disk[f]))
    BY <2>1, LinesAre
  <2>6. Counted(disk[f]) \in Nat
    BY <2>1, CountedIs
  <2> QED
    BY <2>2, <2>3, <2>4, <2>5, <2>6
<1> QED
  BY <1>1, OrderlyAlways, PTL

\* Every crash or failed write spoils at most one line, where the next save begins,
\* besides the first line; and runs that write over each other's JWTs spoil none, as
\* long as every write is done.
THEOREM JwtCacheSpoiltLines == Spec => []SpoiltLines
<1>1. OrderlyInv => SpoiltLines
  <2> SUFFICES ASSUME OrderlyInv, Orderly, NEW f \in DOMAIN disk
               PROVE  Cardinality(Spoilt(JwtLines(disk[f]))) <= crashes + 1
    BY DEF SpoiltLines
  <2>1. disk[f] \in Contents /\ f \in 1 .. Len(disk) /\ crashes \in Nat
    BY DEF OrderlyInv, CacheInv, Types
  <2>2. Sound(disk[f], crashes)
    <3>1. CASE ~shared
      BY <2>1, <3>1 DEF OrderlyInv, TidyInv, Tidy
    <3>2. CASE crashes = 0
      <4>1. Grid(disk[f])
        BY <2>1, <3>2 DEF OrderlyInv, GridInv, Gridded, OnGrid
      <4> QED
        BY <2>1, <3>2, <4>1, GridIs
    <3> QED
      BY <3>1, <3>2 DEF Orderly
  <2>3. crashes <= crashes
    BY <2>1
  <2> QED
    BY <2>1, <2>2, <2>3, SoundIs
<1> QED
  BY <1>1, OrderlyAlways, PTL

\* Once generation succeeded, the requests get every JWT they were promised (get,
\* retrieve), but for one after a crash that kept the newline from the file; unless
\* another run is there too, or was at a time when writes were also cut short.
THEOREM JwtCacheServedInFull == Spec => ServedInFull
<1>1. ASSUME OrderlyInv, NEW p \in Procs, Retrieve(p), run[p].alone, Orderly
      PROVE  Len(Given(p)) >= run[p].req - IF crashes > 0 THEN 1 ELSE 0
  <2> DEFINE f == File(p)
             spare == IF crashes > 0 THEN 1 ELSE 0
  <2>1. run[p].pc = "get" /\ run[p].pc \in Opened /\ Active(p)
    BY <1>1 DEF Retrieve, Opened, Active
  <2>2. Undisturbed(p) /\ Fits(run[p]) /\ Types
    BY <1>1, <2>1 DEF OrderlyInv, AloneInv, CacheInv, Batches
  <2>3. /\ f \in Contents /\ f = disk[run[p].fd] /\ run[p].fd \in 1 .. Len(disk)
        /\ crashes \in Nat
    BY <2>1, <2>2, FileIs DEF Types
  <2>4. run[p].req \in Nat \ {0}
    BY <2>1, <2>2, JwtCacheAssumption DEF Fits
  <2>5. Counted(f) >= run[p].req /\ Counted(f) \in Nat
    BY <2>1, <2>2, <2>3, CountedIs DEF Undisturbed, Fits
  <2>6. Counted(f) <= Cardinality(Later(f))
    BY <1>1, <2>3, EnoughLines
  <2>7. /\ IsFiniteSet(Ends(f)) /\ Later(f) \subseteq Ends(f) /\ IsFiniteSet(Later(f))
        /\ Cardinality(Ends(f)) \in Nat /\ Cardinality(Later(f)) \in Nat
    BY <2>3, EndsAre
  <2>8. Cardinality(Later(f)) + 1 - spare <= Cardinality(Ends(f))
    <3>1. CASE crashes > 0
      BY <2>7, <3>1, FS_Subset
    <3>2. CASE ~ (crashes > 0)
      <4>1. Gridded /\ OnGrid(run[p].fd)
        BY <1>1, <2>3, <3>2 DEF OrderlyInv, GridInv, Gridded
      <4>2. \A q \in Procs : run[q].pc \notin {"count", "newline"}
        BY <2>1, <2>2 DEF Undisturbed, Active
      <4>3. 3 \in Ends(f)
        BY <2>3, <2>4, <2>5, <4>1, <4>2 DEF OnGrid, Headed, Counted
      <4>4. 3 \notin Later(f)
        BY DEF Later
      <4>5. Cardinality(Later(f) \cup {3}) = Cardinality(Later(f)) + 1
        BY <2>7, <4>4, FS_AddElement
      <4>6. Later(f) \cup {3} \subseteq Ends(f)
        BY <2>7, <4>3
      <4>7. Cardinality(Later(f) \cup {3}) <= Cardinality(Ends(f))
        BY <2>7, <4>6, FS_Subset
      <4> QED
        BY <2>7, <3>2, <4>5, <4>7
    <3> QED
      BY <3>1, <3>2
  <2>9. PICK S : Lines(f) \in Seq(S)
    BY <2>3, LinesAre
  <2>10. Len(Lines(f)) \in Nat /\ Len(Lines(f)) >= Cardinality(Ends(f))
    BY <2>3, LinesAre
  <2>11. spare \in {0, 1}
    OBVIOUS
  <2>12. Len(Lines(f)) - 1 >= run[p].req - spare /\ Len(Lines(f)) # 0
    <3> HIDE DEF spare, f
    <3> QED
      BY <2>4, <2>5, <2>6, <2>7, <2>8, <2>10, <2>11
  <2>13. f # <<>>
    BY <2>4, <2>5 DEF Counted
  <2> DEFINE lines == Tail(Lines(f))
             n == IF run[p].req <= Len(lines) THEN run[p].req ELSE Len(lines)
  <2> HIDE DEF f
  <2>14. lines \in Seq(S) /\ Len(lines) = Len(Lines(f)) - 1
    BY <2>9, <2>10, <2>12
  <2>15. JwtLines(f) = lines
    BY <2>13 DEF JwtLines
  <2> HIDE DEF lines
  <2>16. Len(lines) \in Nat
    BY <2>14
  <2>17. Min({run[p].req, Len(lines)}) = n
    BY <2>4, <2>16, MinOfTwo
  <2>18. Given(p) = SubSeq(lines, 1, n)
    <3>1. ~ (Counted(File(p)) < run[p].req)
      BY <2>4, <2>5 DEF f
    <3>2. JwtLines(File(p)) = lines
      BY <2>15 DEF f
    <3> QED
      BY <2>17, <3>1, <3>2 DEF Given
  <2>19. n \in 0 .. Len(lines)
    BY <2>4, <2>16
  <2> HIDE DEF n
  <2>20. Len(Given(p)) = n
    BY <2>14, <2>16, <2>18, <2>19
  <2> HIDE DEF spare
  <2>21. Len(Given(p)) >= run[p].req - spare
    BY <2>4, <2>11, <2>12, <2>14, <2>16, <2>20 DEF n
  <2> QED
    BY <2>21 DEF spare
<1>2. OrderlyInv =>
        [\A p \in Procs : Retrieve(p) /\ run[p].alone /\ Orderly =>
           Len(Given(p)) >= run[p].req - IF crashes > 0 THEN 1 ELSE 0]_vars
  BY <1>1
<1> QED
  BY <1>2, OrderlyAlways, PTL DEF ServedInFull

===============================================================================
