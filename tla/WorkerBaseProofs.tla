--------------------------- MODULE WorkerBaseProofs ---------------------------
(***************************************************************************)
(* What holds of every kind of worker, whatever its loop decides: proofs   *)
(* about the steps of WorkerBase.                                          *)
(***************************************************************************)
EXTENDS WorkerBase, FiniteSetTheorems, TLAPS

\* Requests are started in order.
StartedInOrder ==
  \A w \in Workers : \A i \in Reqs : phase[w][i] = "idle" <=> i > sent[w]

\* How far a request is tells what is known of its outcome.
OutcomeKnown ==
  \A w \in Workers : \A i \in Reqs :
    /\ phase[w][i] \in {"resp", "respHeld", "sample"} => outcome[w][i] \in Codes
    /\ phase[w][i] \in {"err", "errHeld"} => outcome[w][i] \in Errs
    /\ phase[w][i] \in {"returned", "done"} => outcome[w][i] \in Codes \cup Errs

\* Each mutex has one holder at a time.
OneHolder ==
  \A w \in Workers : \A i, j \in Reqs :
    /\ phase[w][i] = "respHeld" /\ phase[w][j] = "respHeld" => i = j
    /\ phase[w][i] = "errHeld" /\ phase[w][j] = "errHeld" => i = j

\* What the holder of a mutex has loaded is still what is stored.
LoadedFresh ==
  \A w \in Workers : \A i \in Reqs :
    /\ phase[w][i] = "respHeld" => loaded[w][i] = responses[w][outcome[w][i]]
    /\ phase[w][i] = "errHeld" => loaded[w][i] = errors[w][outcome[w][i]]

Shape == TypeOK /\ StartedInOrder /\ OutcomeKnown /\ OneHolder /\ LoadedFresh

LEMMA ShapeInit == BaseInit => Shape
<1> SUFFICES ASSUME BaseInit PROVE Shape
  OBVIOUS
<1>1. TypeOK
  <2>1. /\ started \in BOOLEAN
        /\ ctxDone \in BOOLEAN
        /\ pc \in [Workers -> PCs]
    BY DEF BaseInit, PCs
  <2>2. /\ sent \in [Workers -> 0 .. MaxReqs]
        /\ completed \in [Workers -> Nat] /\ failed \in [Workers -> Nat]
        /\ parallelWg \in [Workers -> Int]
        /\ reqStats \in 0 .. StatsCap /\ received \in Nat
    BY WorkerBaseAssumption, SMT DEF BaseInit
  <2>3. phase \in [Workers -> [Reqs -> Phases]]
    BY SMT DEF BaseInit, Phases
  <2>4. outcome \in [Workers -> [Reqs -> Codes \cup Errs \cup {None}]]
    BY SMT DEF BaseInit
  <2>5. /\ loaded \in [Workers -> [Reqs -> Nat]]
        /\ responses \in [Workers -> [Codes -> Nat]]
        /\ errors \in [Workers -> [Errs -> Nat]]
    BY SMT DEF BaseInit
  <2> QED
    BY <2>1, <2>2, <2>3, <2>4, <2>5 DEF TypeOK
<1>2. StartedInOrder
  BY WorkerBaseAssumption, SMT DEF BaseInit, StartedInOrder, Reqs
<1>3. OutcomeKnown /\ OneHolder /\ LoadedFresh
  BY SMT DEF BaseInit, OutcomeKnown, OneHolder, LoadedFresh
<1> QED
  BY <1>1, <1>2, <1>3 DEF Shape

\* A stutter, and the moves of the payloader, leave the requests alone.
LEMMA ShapeOther ==
  ASSUME Shape, StartWorkers \/ Cancel \/ RecvSample \/ UNCHANGED baseVars
  PROVE  Shape'
<1> USE DEF Shape, TypeOK, StartedInOrder, OutcomeKnown, OneHolder, LoadedFresh,
            loopVars, statVars, chanVars, baseVars
<1>1. CASE StartWorkers
  BY <1>1, SMT DEF StartWorkers
<1>2. CASE Cancel
  BY <1>2, SMT DEF Cancel
<1>3. CASE RecvSample
  BY <1>3, WorkerBaseAssumption, SMT DEF RecvSample, SampleReady
<1>4. CASE UNCHANGED baseVars
  BY <1>4, SMT
<1> QED
  BY <1>1, <1>2, <1>3, <1>4

LEMMA ShapeLoop ==
  ASSUME Shape, NEW w \in Workers, LoopMove(w)
  PROVE  Shape'
<1> USE DEF Shape, TypeOK, StartedInOrder, OutcomeKnown, OneHolder, LoadedFresh,
            loopVars, statVars, chanVars, PCs
<1>1. CASE Begin(w)
  BY <1>1, SMT DEF Begin
<1>2. CASE Quit(w)
  BY <1>2, SMT DEF Quit
<1>3. CASE Drain(w)
  BY <1>3, SMT DEF Drain, WaitIfParallel
<1>4. CASE Join(w)
  BY <1>4, SMT DEF Join
<1>5. CASE Run(w)
  <2>1. sent[w] + 1 \in Reqs /\ sent[w] \in Nat /\ sent' = [sent EXCEPT ![w] = sent[w] + 1]
    BY <1>5, WorkerBaseAssumption, SMT DEF Run, Added, Reqs
  <2>2. phase' = [phase EXCEPT ![w][sent[w] + 1] = "new"]
    BY <1>5 DEF Run, Added
  <2>3. TypeOK'
    <3>1. phase' \in [Workers -> [Reqs -> Phases]]
      BY <2>1, <2>2, SMT DEF Phases
    <3>2. sent' \in [Workers -> 0 .. MaxReqs]
      BY <2>1, SMT DEF Reqs
    <3>3. parallelWg' \in [Workers -> Int]
      BY <1>5, SMT DEF Run, Added
    <3> QED
      BY <1>5, <3>1, <3>2, <3>3 DEF Run, Added
  <2>4. StartedInOrder'
    <3> SUFFICES ASSUME NEW v \in Workers, NEW i \in Reqs
                 PROVE  phase'[v][i] = "idle" <=> i > sent'[v]
      OBVIOUS
    <3>1. CASE v = w
      <4>1. i \in Nat
        BY WorkerBaseAssumption, SMT DEF Reqs
      <4>2. phase'[v][i] = IF i = sent[w] + 1 THEN "new" ELSE phase[w][i]
        BY <2>2, <3>1, SMT
      <4>3. sent'[v] = sent[w] + 1
        BY <2>1, <3>1, SMT
      <4> QED
        BY <2>1, <3>1, <4>1, <4>2, <4>3, SMT
    <3>2. CASE v # w
      BY <2>1, <2>2, <3>2, SMT
    <3> QED
      BY <3>1, <3>2
  <2>5. OutcomeKnown' /\ OneHolder' /\ LoadedFresh'
    BY <1>5, <2>1, <2>2, SMT DEF Run, Added
  <2> QED
    BY <2>3, <2>4, <2>5
<1> QED
  BY <1>1, <1>2, <1>3, <1>4, <1>5 DEF LoopMove

LEMMA ShapeRequest ==
  ASSUME Shape, NEW w \in Workers, NEW i \in Reqs, RequestStep(w, i)
  PROVE  Shape'
<1> USE DEF Shape, TypeOK, StartedInOrder, OutcomeKnown, OneHolder, LoadedFresh,
            loopVars, statVars, chanVars
<1>1. CASE NewReq(w, i)
  <2>1. CASE /\ phase' = [phase EXCEPT ![w][i] = IF UsesJwt THEN "jwt" ELSE "send"]
             /\ UNCHANGED outcome
    BY <1>1, <2>1, SMT DEF NewReq, Phases
  <2>2. CASE \E e \in ReqErrs : /\ outcome' = [outcome EXCEPT ![w][i] = e]
                                /\ phase' = [phase EXCEPT ![w][i] = "err"]
    <3>1. PICK e \in ReqErrs : /\ outcome' = [outcome EXCEPT ![w][i] = e]
                               /\ phase' = [phase EXCEPT ![w][i] = "err"]
      BY <2>2
    <3>2. e \in Errs
      BY DEF Errs
    <3> QED
      BY <1>1, <3>1, <3>2, SMT DEF NewReq, Phases
  <2> QED
    BY <1>1, <2>1, <2>2 DEF NewReq
<1>2. CASE Middleware(w, i)
  BY <1>2, SMT DEF Middleware, Phases
<1>3. CASE Do(w, i)
  <2>1. CASE \E c \in Codes : /\ outcome' = [outcome EXCEPT ![w][i] = c]
                              /\ phase' = [phase EXCEPT ![w][i] = "resp"]
    BY <1>3, <2>1, SMT DEF Do, Phases
  <2>2. CASE \E e \in DoErrs : /\ outcome' = [outcome EXCEPT ![w][i] = e]
                               /\ phase' = [phase EXCEPT ![w][i] = "err"]
    <3>1. PICK e \in DoErrs : /\ outcome' = [outcome EXCEPT ![w][i] = e]
                              /\ phase' = [phase EXCEPT ![w][i] = "err"]
      BY <2>2
    <3>2. e \in Errs
      BY DEF Errs
    <3> QED
      BY <1>3, <3>1, <3>2, SMT DEF Do, Phases
  <2> QED
    BY <1>3, <2>1, <2>2 DEF Do
<1>4. CASE LockResp(w, i)
  BY <1>4, SMT DEF LockResp, SuccessLockFree, Phases
<1>5. CASE StoreResp(w, i)
  BY <1>5, SMT DEF StoreResp, Phases
<1>6. CASE Sample(w, i)
  BY <1>6, WorkerBaseAssumption, SMT DEF Sample, Phases
<1>7. CASE LockErr(w, i)
  BY <1>7, SMT DEF LockErr, Phases
<1>8. CASE StoreErr(w, i)
  BY <1>8, SMT DEF StoreErr, OneMoreFailed, Phases
<1>9. CASE Finish(w, i)
  BY <1>9, SMT DEF Finish, Left, Phases
<1> QED
  BY <1>1, <1>2, <1>3, <1>4, <1>5, <1>6, <1>7, <1>8, <1>9 DEF RequestStep

-------------------------------------------------------------------------------
(* Sets of requests and their sizes. *)

LEMMA Grow ==
  ASSUME NEW S, IsFiniteSet(S), NEW x, x \notin S, NEW T, T = S \cup {x}
  PROVE  IsFiniteSet(T) /\ Cardinality(T) = Cardinality(S) + 1
  BY FS_AddElement

LEMMA Shrink ==
  ASSUME NEW S, IsFiniteSet(S), NEW x \in S, NEW T, T = S \ {x}
  PROVE  IsFiniteSet(T) /\ Cardinality(T) = Cardinality(S) - 1
  BY FS_RemoveElement

LEMMA FiniteReqs ==
  ASSUME NEW S \in SUBSET Reqs
  PROVE  IsFiniteSet(S) /\ Cardinality(S) \in Nat
<1>1. IsFiniteSet(Reqs)
  BY WorkerBaseAssumption, FS_Interval DEF Reqs
<1> QED
  BY <1>1, FS_Subset, FS_CardinalityType

LEMMA FiniteRequestSets ==
  ASSUME NEW w, NEW x
  PROVE  /\ IsFiniteSet(Counted(w))       /\ Cardinality(Counted(w)) \in Nat
         /\ IsFiniteSet(FailedSet(w))     /\ Cardinality(FailedSet(w)) \in Nat
         /\ IsFiniteSet(StoredResp(w, x)) /\ Cardinality(StoredResp(w, x)) \in Nat
         /\ IsFiniteSet(StoredErr(w, x))  /\ Cardinality(StoredErr(w, x)) \in Nat
         /\ IsFiniteSet(Live(w))          /\ Cardinality(Live(w)) \in Nat
<1>1. /\ Counted(w) \in SUBSET Reqs /\ FailedSet(w) \in SUBSET Reqs
      /\ StoredResp(w, x) \in SUBSET Reqs /\ StoredErr(w, x) \in SUBSET Reqs
      /\ Live(w) \in SUBSET Reqs
  BY DEF Counted, FailedSet, StoredResp, StoredErr, Live
<1> QED
  BY <1>1, FiniteReqs

\* No request's place among the counted and stored ones changes.
SetsKept ==
  \A v \in Workers :
    /\ Counted(v)' = Counted(v)
    /\ FailedSet(v)' = FailedSet(v)
    /\ \A c \in Codes : StoredResp(v, c)' = StoredResp(v, c)
    /\ \A e \in Errs : StoredErr(v, e)' = StoredErr(v, e)

LEMMA CountsKept ==
  ASSUME NoLostUpdate, SetsKept, UNCHANGED statVars
  PROVE  NoLostUpdate'
  BY DEF NoLostUpdate, SetsKept, statVars

LEMMA CountsInit == BaseInit => NoLostUpdate
<1> SUFFICES ASSUME BaseInit PROVE NoLostUpdate
  OBVIOUS
<1>1. \A w \in Workers : Counted(w) = {} /\ FailedSet(w) = {}
  BY DEF BaseInit, Counted, FailedSet
<1>2. \A w \in Workers : /\ \A c \in Codes : StoredResp(w, c) = {}
                         /\ \A e \in Errs : StoredErr(w, e) = {}
  BY DEF BaseInit, StoredResp, StoredErr
<1> QED
  BY <1>1, <1>2, FS_EmptySet DEF BaseInit, NoLostUpdate

LEMMA CountsOther ==
  ASSUME NoLostUpdate, StartWorkers \/ Cancel \/ RecvSample \/ UNCHANGED baseVars
  PROVE  NoLostUpdate'
<1>1. UNCHANGED <<phase, outcome>> /\ UNCHANGED statVars
  BY DEF StartWorkers, Cancel, RecvSample, SampleReady, baseVars, statVars
<1>2. SetsKept
  BY <1>1 DEF SetsKept, Counted, FailedSet, StoredResp, StoredErr
<1> QED
  BY <1>1, <1>2, CountsKept

LEMMA CountsLoop ==
  ASSUME Shape, NoLostUpdate, NEW w \in Workers, LoopMove(w)
  PROVE  NoLostUpdate'
<1>1. CASE Begin(w) \/ Quit(w) \/ Drain(w) \/ Join(w)
  <2>1. UNCHANGED <<phase, outcome>> /\ UNCHANGED statVars
    BY <1>1 DEF Begin, Quit, Drain, WaitIfParallel, Join, statVars
  <2>2. SetsKept
    BY <2>1 DEF SetsKept, Counted, FailedSet, StoredResp, StoredErr
  <2> QED
    BY <2>1, <2>2, CountsKept
<1>2. CASE Run(w)
  <2>1. sent[w] + 1 \in Reqs /\ phase[w][sent[w] + 1] = "idle"
    BY <1>2, WorkerBaseAssumption, SMT
    DEF Run, Added, Shape, TypeOK, StartedInOrder, Reqs
  <2>2. SetsKept
    BY <1>2, <2>1, SMT
    DEF Run, Added, Shape, TypeOK, SetsKept, Counted, FailedSet, StoredResp, StoredErr
  <2> QED
    BY <1>2, <2>2, CountsKept DEF Run, Added
<1> QED
  BY <1>1, <1>2 DEF LoopMove

\* A step that moves one request between phases in which it is neither counted
\* nor stored.
LEMMA SetsKeptBeforeCounting ==
  ASSUME NEW w \in Workers, NEW i \in Reqs,
         \A v \in Workers : \A j \in Reqs : v # w \/ j # i =>
            phase'[v][j] = phase[v][j] /\ outcome'[v][j] = outcome[v][j],
         phase[w][i] \notin {"respHeld", "sample", "returned", "done"},
         phase'[w][i] \notin {"respHeld", "sample", "returned", "done"}
  PROVE  SetsKept
<1> SUFFICES ASSUME NEW v \in Workers
             PROVE  /\ Counted(v)' = Counted(v)
                    /\ FailedSet(v)' = FailedSet(v)
                    /\ \A c \in Codes : StoredResp(v, c)' = StoredResp(v, c)
                    /\ \A e \in Errs : StoredErr(v, e)' = StoredErr(v, e)
  BY DEF SetsKept
<1>1. Counted(v)' = Counted(v)
  BY DEF Counted
<1>2. FailedSet(v)' = FailedSet(v)
  BY DEF FailedSet
<1>3. ASSUME NEW c \in Codes PROVE StoredResp(v, c)' = StoredResp(v, c)
  BY DEF StoredResp
<1>4. ASSUME NEW e \in Errs PROVE StoredErr(v, e)' = StoredErr(v, e)
  BY DEF StoredErr
<1> QED
  BY <1>1, <1>2, <1>3, <1>4

\* Steps of a request that neither count nor store.
LEMMA CountsQuietRequest ==
  ASSUME Shape, NoLostUpdate, NEW w \in Workers, NEW i \in Reqs,
         \/ NewReq(w, i) \/ Middleware(w, i) \/ Do(w, i)
         \/ Sample(w, i) \/ LockErr(w, i) \/ Finish(w, i)
  PROVE  NoLostUpdate'
<1> USE DEF Shape, TypeOK, OutcomeKnown
<1>1. CASE NewReq(w, i) \/ Do(w, i)
  <2>1. /\ \A v \in Workers : \A j \in Reqs : v # w \/ j # i =>
             phase'[v][j] = phase[v][j] /\ outcome'[v][j] = outcome[v][j]
        /\ phase[w][i] \in {"new", "send"}
        /\ phase'[w][i] \in {"jwt", "send", "resp", "err"}
        /\ UNCHANGED statVars
    BY <1>1, SMT DEF NewReq, Do, statVars
  <2>2. SetsKept
    BY <2>1, SetsKeptBeforeCounting
  <2> QED
    BY <2>1, <2>2, CountsKept
<1>2. CASE Middleware(w, i)
  <2>1. SetsKept
    BY <1>2, SMT DEF Middleware, SetsKept, Counted, FailedSet, StoredResp, StoredErr
  <2> QED
    BY <1>2, <2>1, CountsKept DEF Middleware
<1>5. CASE LockErr(w, i)
  <2>1. SetsKept
    BY <1>5, SMT DEF LockErr, SetsKept, Counted, FailedSet, StoredResp, StoredErr
  <2> QED
    BY <1>5, <2>1, CountsKept DEF LockErr
<1>3. CASE Sample(w, i)
  <2>1. outcome[w][i] \in Codes /\ outcome[w][i] \notin Errs
    BY <1>3, WorkerBaseAssumption DEF Sample
  <2>2. SetsKept
    BY <1>3, <2>1, SMT
    DEF Sample, SetsKept, Counted, FailedSet, StoredResp, StoredErr
  <2> QED
    BY <1>3, <2>2, CountsKept DEF Sample
<1>4. CASE Finish(w, i)
  <2>1. SetsKept
    BY <1>4, SMT DEF Finish, Left, SetsKept, Counted, FailedSet, StoredResp, StoredErr
  <2> QED
    BY <1>4, <2>1, CountsKept DEF Finish, Left
<1> QED
  BY <1>1, <1>2, <1>3, <1>4, <1>5

\* updateRespStats counts the request under the mutex ...
LEMMA CountsLockResp ==
  ASSUME Shape, NoLostUpdate, NEW w \in Workers, NEW i \in Reqs, LockResp(w, i)
  PROVE  NoLostUpdate'
<1> USE DEF Shape, TypeOK, OutcomeKnown, LockResp, SuccessLockFree
<1>1. /\ \A v \in Workers : v # w => Counted(v)' = Counted(v)
      /\ Counted(w)' = Counted(w) \cup {i} /\ i \notin Counted(w)
  BY SMT DEF Counted
<1>2. \A v \in Workers : FailedSet(v)' = FailedSet(v)
  BY SMT DEF FailedSet
<1>3. \A v \in Workers : \A c \in Codes : StoredResp(v, c)' = StoredResp(v, c)
  BY SMT DEF StoredResp
<1>4. \A v \in Workers : \A e \in Errs : StoredErr(v, e)' = StoredErr(v, e)
  BY SMT DEF StoredErr
<1>5. Cardinality(Counted(w)') = Cardinality(Counted(w)) + 1
  BY <1>1, FiniteRequestSets, Grow
<1>6. \A v \in Workers : completed'[v] = IF v = w THEN completed[w] + 1 ELSE completed[v]
  BY SMT
<1>7. \A v \in Workers : completed'[v] = Cardinality(Counted(v)')
  BY <1>1, <1>5, <1>6, Zenon DEF NoLostUpdate
<1> QED
  BY <1>2, <1>3, <1>4, <1>7 DEF NoLostUpdate

\* ... and stores the response code's new number: OneHolder makes the loaded
\* value the stored one still, so that the store loses nothing.
LEMMA CountsStoreResp ==
  ASSUME Shape, NoLostUpdate, NEW w \in Workers, NEW i \in Reqs, StoreResp(w, i)
  PROVE  NoLostUpdate'
<1> USE DEF Shape, TypeOK, OutcomeKnown, StoreResp
<1> PICK c : c = outcome[w][i]
  OBVIOUS
<1>1. c \in Codes /\ c \notin Errs
  BY WorkerBaseAssumption
<1>2. \A v \in Workers : Counted(v)' = Counted(v) /\ FailedSet(v)' = FailedSet(v)
  BY SMT DEF Counted, FailedSet
<1>3. \A v \in Workers : \A e \in Errs : StoredErr(v, e)' = StoredErr(v, e)
  BY <1>1, SMT DEF StoredErr
<1>4. \A v \in Workers : \A d \in Codes : v # w \/ d # c =>
        StoredResp(v, d)' = StoredResp(v, d)
  BY SMT DEF StoredResp
<1>5. StoredResp(w, c)' = StoredResp(w, c) \cup {i} /\ i \notin StoredResp(w, c)
  BY SMT DEF StoredResp
<1>6. Cardinality(StoredResp(w, c)') = Cardinality(StoredResp(w, c)) + 1
  BY <1>5, FiniteRequestSets, Grow
<1>7. \A v \in Workers : \A d \in Codes :
        responses'[v][d] = IF v = w /\ d = c THEN responses[w][c] + 1 ELSE responses[v][d]
  BY <1>1, SMT DEF LoadedFresh
<1>8. \A v \in Workers : \A d \in Codes : responses'[v][d] = Cardinality(StoredResp(v, d)')
  BY <1>1, <1>4, <1>6, <1>7 DEF NoLostUpdate
<1> QED
  BY <1>2, <1>3, <1>8 DEF NoLostUpdate

\* The same for updateErrStats, which stores and counts in one go.
LEMMA CountsStoreErr ==
  ASSUME Shape, NoLostUpdate, NEW w \in Workers, NEW i \in Reqs, StoreErr(w, i)
  PROVE  NoLostUpdate'
<1> USE DEF Shape, TypeOK, OutcomeKnown, StoreErr, OneMoreFailed
<1> PICK e : e = outcome[w][i]
  OBVIOUS
<1>1. e \in Errs /\ e \notin Codes
  BY WorkerBaseAssumption
<1>2. \A v \in Workers : Counted(v)' = Counted(v)
  BY <1>1, SMT DEF Counted
<1>3. \A v \in Workers : \A c \in Codes : StoredResp(v, c)' = StoredResp(v, c)
  BY <1>1, SMT DEF StoredResp
<1>4. /\ \A v \in Workers : v # w => FailedSet(v)' = FailedSet(v)
      /\ FailedSet(w)' = FailedSet(w) \cup {i} /\ i \notin FailedSet(w)
  BY <1>1, SMT DEF FailedSet
<1>5. /\ \A v \in Workers : \A d \in Errs : v # w \/ d # e =>
           StoredErr(v, d)' = StoredErr(v, d)
      /\ StoredErr(w, e)' = StoredErr(w, e) \cup {i} /\ i \notin StoredErr(w, e)
  BY SMT DEF StoredErr
<1>6. /\ Cardinality(FailedSet(w)') = Cardinality(FailedSet(w)) + 1
      /\ Cardinality(StoredErr(w, e)') = Cardinality(StoredErr(w, e)) + 1
  BY <1>4, <1>5, FiniteRequestSets, Grow
<1>7. \A v \in Workers : failed'[v] = IF v = w THEN failed[w] + 1 ELSE failed[v]
  BY SMT
<1>8. \A v \in Workers : failed'[v] = Cardinality(FailedSet(v)')
  BY <1>4, <1>6, <1>7, Zenon DEF NoLostUpdate
<1>9. \A v \in Workers : \A d \in Errs :
        errors'[v][d] = IF v = w /\ d = e THEN errors[w][e] + 1 ELSE errors[v][d]
  BY <1>1, SMT DEF LoadedFresh
<1>10. \A v \in Workers : \A d \in Errs : errors[v][d] = Cardinality(StoredErr(v, d))
  BY DEF NoLostUpdate
<1> HIDE DEF Shape, TypeOK, OutcomeKnown, StoreErr
<1>11. ASSUME NEW v \in Workers, NEW d \in Errs
       PROVE  errors'[v][d] = Cardinality(StoredErr(v, d)')
  <2>1. CASE v = w /\ d = e
    <3>1. errors'[w][e] = errors[w][e] + 1
      BY <1>1, <1>9
    <3>2. errors[w][e] = Cardinality(StoredErr(w, e))
      BY <1>1, <1>10
    <3>3. StoredErr(v, d)' = StoredErr(w, e)'
      BY <2>1 DEF StoredErr
    <3> QED
      BY <1>6, <2>1, <3>1, <3>2, <3>3
  <2>2. CASE v # w \/ d # e
    <3>1. errors'[v][d] = errors[v][d]
      BY <1>9, <2>2
    <3>2. StoredErr(v, d)' = StoredErr(v, d)
      BY <1>5, <2>2
    <3> QED
      BY <1>10, <3>1, <3>2
  <2> QED
    BY <2>1, <2>2
<1> QED
  BY <1>2, <1>3, <1>8, <1>11 DEF NoLostUpdate, StoreErr, OneMoreFailed

LEMMA CountsRequest ==
  ASSUME Shape, NoLostUpdate, NEW w \in Workers, NEW i \in Reqs, RequestStep(w, i)
  PROVE  NoLostUpdate'
  BY CountsQuietRequest, CountsLockResp, CountsStoreResp, CountsStoreErr DEF RequestStep

-------------------------------------------------------------------------------
(* Requests still running, the wait group that counts them, and returning. *)

\* parallelWg counts a parallel worker's running requests.
WaitGroupCounts ==
  \A w \in Workers :
    parallelWg[w] = IF Parallel THEN Cardinality(Live(w)) ELSE 0

\* A worker whose loop is not running has no requests running, except that a
\* parallel one may be waiting for them or have left them when cancelled.
QuietOutsideLoop ==
  \A w \in Workers :
    /\ pc[w] = "start" => Live(w) = {}
    /\ pc[w] = "wait" => Parallel
    /\ pc[w] = "exit" /\ Live(w) # {} => Parallel /\ ctxDone

Quiet == WaitGroupCounts /\ QuietOutsideLoop

LEMMA QuietInit == BaseInit => Quiet
<1> SUFFICES ASSUME BaseInit PROVE Quiet
  OBVIOUS
<1>1. \A w \in Workers : Live(w) = {}
  BY DEF BaseInit, Live
<1> QED
  BY <1>1, FS_EmptySet DEF BaseInit, Quiet, WaitGroupCounts, QuietOutsideLoop

LEMMA QuietOther ==
  ASSUME Quiet, StartWorkers \/ Cancel \/ RecvSample \/ UNCHANGED baseVars
  PROVE  Quiet'
<1>1. UNCHANGED <<phase, parallelWg, pc>> /\ (ctxDone => ctxDone')
  BY DEF StartWorkers, Cancel, RecvSample, SampleReady, baseVars, loopVars
<1>2. \A w \in Workers : Live(w)' = Live(w)
  BY <1>1 DEF Live
<1> QED
  BY <1>1, <1>2 DEF Quiet, WaitGroupCounts, QuietOutsideLoop

LEMMA QuietLoop ==
  ASSUME Shape, Quiet, NEW w \in Workers, LoopMove(w)
  PROVE  Quiet'
<1>1. CASE Begin(w) \/ Quit(w) \/ Drain(w) \/ Join(w)
  <2>1. /\ UNCHANGED <<phase, parallelWg, ctxDone>>
        /\ \A v \in Workers : v # w => pc'[v] = pc[v]
        /\ pc'[w] \in {"loop", "wait", "exit"}
    BY <1>1, SMT DEF Begin, Quit, Drain, WaitIfParallel, Join, Shape, TypeOK
  <2>2. \A v \in Workers : Live(v)' = Live(v)
    BY <2>1 DEF Live
  <2>3. pc'[w] = "wait" => Parallel
    BY <1>1, SMT DEF Begin, Quit, Drain, WaitIfParallel, Join, Shape, TypeOK
  <2>4. ASSUME pc'[w] = "exit", Live(w) # {} PROVE Parallel /\ ctxDone
    <3>1. CASE Begin(w)
      BY <2>4, <3>1, SMT DEF Begin, Shape, TypeOK
    <3>2. CASE Quit(w)
      BY <2>4, <3>2 DEF Quit, Ready
    <3>3. CASE Drain(w)
      BY <2>4, <3>3, SMT DEF Drain, WaitIfParallel, Ready, Shape, TypeOK
    <3>4. CASE Join(w)
      <4>1. parallelWg[w] = 0 /\ Parallel
        BY <3>4 DEF Join, Quiet, QuietOutsideLoop
      <4>2. Cardinality(Live(w)) = 0
        BY <4>1 DEF Quiet, WaitGroupCounts
      <4>3. Live(w) = {}
        BY <4>2, FiniteRequestSets, FS_EmptySet
      <4> QED
        BY <2>4, <4>3
    <3> QED
      BY <1>1, <3>1, <3>2, <3>3, <3>4
  <2> QED
    BY <2>1, <2>2, <2>3, <2>4 DEF Quiet, WaitGroupCounts, QuietOutsideLoop
<1>2. CASE Run(w)
  <2>1. sent[w] + 1 \in Reqs /\ phase[w][sent[w] + 1] = "idle"
    BY <1>2, WorkerBaseAssumption, SMT
    DEF Run, Added, Shape, TypeOK, StartedInOrder, Reqs
  <2>2. /\ \A v \in Workers : v # w => Live(v)' = Live(v)
        /\ Live(w)' = Live(w) \cup {sent[w] + 1} /\ sent[w] + 1 \notin Live(w)
    BY <1>2, <2>1, SMT DEF Run, Added, Shape, TypeOK, Live
  <2>3. Cardinality(Live(w)') = Cardinality(Live(w)) + 1
    BY <2>2, FiniteRequestSets, Grow
  <2>4. \A v \in Workers :
          parallelWg'[v] = IF v = w /\ Parallel THEN parallelWg[w] + 1 ELSE parallelWg[v]
    BY <1>2, SMT DEF Run, Added, Shape, TypeOK
  <2>5. pc[w] = "loop" /\ UNCHANGED <<pc, ctxDone>>
    BY <1>2 DEF Run, Added, loopVars
  <2>6. WaitGroupCounts'
    BY <2>2, <2>3, <2>4 DEF Quiet, WaitGroupCounts
  <2>7. QuietOutsideLoop'
    BY <2>2, <2>5 DEF Quiet, QuietOutsideLoop
  <2> QED
    BY <2>6, <2>7 DEF Quiet
<1> QED
  BY <1>1, <1>2 DEF LoopMove

LEMMA QuietRequest ==
  ASSUME Shape, Quiet, NEW w \in Workers, NEW i \in Reqs, RequestStep(w, i)
  PROVE  Quiet'
<1>1. CASE Finish(w, i)
  <2>1. /\ \A v \in Workers : v # w => Live(v)' = Live(v)
        /\ i \in Live(w) /\ Live(w)' = Live(w) \ {i}
    BY <1>1, SMT DEF Finish, Left, Shape, TypeOK, Live
  <2>2. Cardinality(Live(w)') = Cardinality(Live(w)) - 1
    BY <2>1, FiniteRequestSets, Shrink
  <2>3. \A v \in Workers :
          parallelWg'[v] = IF v = w /\ Parallel THEN parallelWg[w] - 1 ELSE parallelWg[v]
    BY <1>1, SMT DEF Finish, Left, Shape, TypeOK
  <2>4. UNCHANGED <<pc, ctxDone>>
    BY <1>1 DEF Finish, Left, loopVars
  <2>5. WaitGroupCounts'
    BY <2>1, <2>2, <2>3 DEF Quiet, WaitGroupCounts
  <2>6. QuietOutsideLoop'
    BY <2>1, <2>4 DEF Quiet, QuietOutsideLoop
  <2> QED
    BY <2>5, <2>6 DEF Quiet
<1>2. CASE ~Finish(w, i)
  <2>1. /\ \A v \in Workers : \A j \in Reqs : v # w \/ j # i => phase'[v][j] = phase[v][j]
        /\ phase[w][i] \notin {"idle", "done"}
        /\ phase'[w][i] \notin {"idle", "done"}
    BY <1>2, SMT
    DEF RequestStep, NewReq, Middleware, Do, LockResp, SuccessLockFree, StoreResp, Sample, LockErr,
        StoreErr, OneMoreFailed, Shape, TypeOK
  <2>2. UNCHANGED <<pc, ctxDone, parallelWg>>
    BY <1>2
    DEF RequestStep, NewReq, Middleware, Do, LockResp, SuccessLockFree, StoreResp, Sample, LockErr,
        StoreErr, OneMoreFailed, loopVars
  <2>3. \A v \in Workers : Live(v)' = Live(v)
    BY <2>1 DEF Live
  <2> QED
    BY <2>2, <2>3 DEF Quiet, WaitGroupCounts, QuietOutsideLoop
<1> QED
  BY <1>1, <1>2

-------------------------------------------------------------------------------
(* Latency samples. *)

LEMMA FiniteSampled == IsFiniteSet(Sampled) /\ Cardinality(Sampled) \in Nat
<1>1. IsFiniteSet(Reqs) /\ IsFiniteSet(Workers)
  BY WorkerBaseAssumption, FS_Interval DEF Reqs
<1>2. IsFiniteSet(Workers \X Reqs)
  BY <1>1, FS_Product
<1>3. Sampled \subseteq Workers \X Reqs
  BY DEF Sampled
<1> QED
  BY <1>2, <1>3, FS_Subset, FS_CardinalityType

LEMMA SamplesInit == BaseInit => SampleConservation
<1> SUFFICES ASSUME BaseInit PROVE SampleConservation
  OBVIOUS
<1>1. Sampled = {}
  BY DEF BaseInit, Sampled
<1> QED
  BY <1>1, FS_EmptySet DEF BaseInit, SampleConservation

LEMMA SamplesOther ==
  ASSUME Shape, SampleConservation,
         StartWorkers \/ Cancel \/ RecvSample \/ UNCHANGED baseVars
  PROVE  SampleConservation'
<1>1. UNCHANGED <<phase, outcome>>
  BY DEF StartWorkers, Cancel, RecvSample, SampleReady, baseVars
<1>2. Sampled' = Sampled
  BY <1>1 DEF Sampled
<1>3. reqStats' + received' = reqStats + received
  BY WorkerBaseAssumption, SMT
  DEF StartWorkers, Cancel, RecvSample, SampleReady, baseVars, chanVars, Shape, TypeOK
<1> QED
  BY <1>2, <1>3 DEF SampleConservation

LEMMA SamplesLoop ==
  ASSUME Shape, SampleConservation, NEW w \in Workers, LoopMove(w)
  PROVE  SampleConservation'
<1>1. CASE Begin(w) \/ Quit(w) \/ Drain(w) \/ Join(w)
  <2>1. UNCHANGED <<phase, outcome, reqStats, received>>
    BY <1>1 DEF Begin, Quit, Drain, WaitIfParallel, Join, chanVars
  <2> QED
    BY <2>1 DEF SampleConservation, Sampled
<1>2. CASE Run(w)
  <2>1. sent[w] + 1 \in Reqs /\ phase[w][sent[w] + 1] = "idle"
    BY <1>2, WorkerBaseAssumption, SMT
    DEF Run, Added, Shape, TypeOK, StartedInOrder, Reqs
  <2>2. /\ UNCHANGED <<outcome, reqStats, received>>
        /\ \A v \in Workers : \A j \in Reqs :
             phase'[v][j] = IF v = w /\ j = sent[w] + 1 THEN "new" ELSE phase[v][j]
    BY <1>2, <2>1, SMT DEF Run, Added, Shape, TypeOK, chanVars
  <2>3. Sampled' = Sampled
    BY <2>1, <2>2 DEF Sampled
  <2> QED
    BY <2>2, <2>3 DEF SampleConservation
<1> QED
  BY <1>1, <1>2 DEF LoopMove

\* Only Sample makes a request one whose sample has been sent.
LEMMA SamplesRequest ==
  ASSUME Shape, SampleConservation, NEW w \in Workers, NEW i \in Reqs, RequestStep(w, i)
  PROVE  SampleConservation'
<1>0. \A v \in Workers : \A j \in Reqs : v # w \/ j # i =>
        phase'[v][j] = phase[v][j] /\ outcome'[v][j] = outcome[v][j]
  BY SMT
  DEF RequestStep, NewReq, Middleware, Do, LockResp, SuccessLockFree, StoreResp, Sample, LockErr,
      StoreErr, OneMoreFailed, Finish, Left, Shape, TypeOK
<1>1. CASE Sample(w, i)
  <2>1. /\ phase[w][i] = "sample" /\ phase'[w][i] = "returned"
        /\ outcome'[w][i] = outcome[w][i] /\ outcome[w][i] \in Codes
        /\ reqStats' = reqStats + 1 /\ received' = received
    BY <1>1, SMT DEF Sample, Shape, TypeOK, OutcomeKnown
  <2>2. Sampled' = Sampled \cup {<<w, i>>} /\ <<w, i>> \notin Sampled
    BY <1>0, <2>1 DEF Sampled
  <2>3. Cardinality(Sampled') = Cardinality(Sampled) + 1
    BY <2>2, FiniteSampled, Grow
  <2>4. reqStats \in Nat /\ received \in Nat
    BY WorkerBaseAssumption, SMT DEF Shape, TypeOK
  <2> QED
    BY <2>1, <2>3, <2>4 DEF SampleConservation
<1>2. CASE ~Sample(w, i)
  <2>1. UNCHANGED <<reqStats, received>>
    BY <1>2
    DEF RequestStep, NewReq, Middleware, Do, LockResp, SuccessLockFree, StoreResp, LockErr,
        StoreErr, OneMoreFailed, Finish, Left, chanVars
  <2>2. /\ outcome'[w][i] \in Codes /\ phase'[w][i] \in {"returned", "done"}
        <=> outcome[w][i] \in Codes /\ phase[w][i] \in {"returned", "done"}
    <3>1. CASE NewReq(w, i) \/ Do(w, i)
      BY <3>1, SMT DEF NewReq, Do, Shape, TypeOK
    <3>2. CASE Middleware(w, i) \/ LockResp(w, i) \/ StoreResp(w, i) \/ LockErr(w, i)
      BY <3>2, SMT DEF Middleware, LockResp, SuccessLockFree, StoreResp, LockErr, Shape, TypeOK
    <3>3. CASE StoreErr(w, i)
      <4>1. outcome'[w][i] = outcome[w][i] /\ outcome[w][i] \in Errs
        BY <3>3, SMT DEF StoreErr, Shape, OutcomeKnown
      <4> QED
        BY <4>1, WorkerBaseAssumption
    <3>4. CASE Finish(w, i)
      BY <3>4, SMT DEF Finish, Left, Shape, TypeOK
    <3> QED
      BY <1>2, <3>1, <3>2, <3>3, <3>4 DEF RequestStep
  <2>3. Sampled' = Sampled
    BY <1>0, <2>2 DEF Sampled
  <2> QED
    BY <2>1, <2>3 DEF SampleConservation
<1> QED
  BY <1>1, <1>2

-------------------------------------------------------------------------------
(* The theorems: whatever the loops of the workers do. *)

BaseInv == Shape /\ NoLostUpdate /\ Quiet /\ SampleConservation

LEMMA BaseInvInit == BaseInit => BaseInv
  BY ShapeInit, CountsInit, QuietInit, SamplesInit DEF BaseInv

LEMMA BaseInductive ==
  ASSUME BaseInv, [BaseNext]_baseVars
  PROVE  BaseInv'
<1>1. CASE StartWorkers \/ Cancel \/ RecvSample \/ UNCHANGED baseVars
  BY <1>1, ShapeOther, CountsOther, QuietOther, SamplesOther DEF BaseInv
<1>2. ASSUME NEW w \in Workers, LoopMove(w)
      PROVE  BaseInv'
  BY <1>2, ShapeLoop, CountsLoop, QuietLoop, SamplesLoop DEF BaseInv
<1>3. ASSUME NEW w \in Workers, NEW i \in Reqs, RequestStep(w, i)
      PROVE  BaseInv'
  BY <1>3, ShapeRequest, CountsRequest, QuietRequest, SamplesRequest DEF BaseInv
<1> QED
  BY <1>1, <1>2, <1>3 DEF BaseNext

\* Types: the capacity of reqStats included.
THEOREM BaseTypeCorrect == BaseSpec => []TypeOK
<1>1. BaseInv => TypeOK
  BY DEF BaseInv, Shape
<1> QED
  BY <1>1, BaseInvInit, BaseInductive, PTL DEF BaseSpec

\* No statistics update is lost, by any kind of worker (updateRespStats and
\* updateErrStats count each request exactly once).
THEOREM BaseNoLostUpdate == BaseSpec => []NoLostUpdate
<1>1. BaseInv => NoLostUpdate
  BY DEF BaseInv
<1> QED
  BY <1>1, BaseInvInit, BaseInductive, PTL DEF BaseSpec

\* Only a cancelled worker in parallel mode returns with requests running.
THEOREM BaseReturnsQuiet == BaseSpec => []ReturnsQuiet
<1>1. BaseInv => ReturnsQuiet
  BY DEF BaseInv, Quiet, QuietOutsideLoop, ReturnsQuiet
<1> QED
  BY <1>1, BaseInvInit, BaseInductive, PTL DEF BaseSpec

\* The samples sent are those in the channel and those received: one for each
\* successful request, whatever blocks on the channel meanwhile.
THEOREM BaseSampleConservation == BaseSpec => []SampleConservation
<1>1. BaseInv => SampleConservation
  BY DEF BaseInv
<1> QED
  BY <1>1, BaseInvInit, BaseInductive, PTL DEF BaseSpec

-------------------------------------------------------------------------------
(* Accounting: what the counters say of the requests that were started. *)

LEMMA UpTo ==
  ASSUME NEW n \in Nat
  PROVE  IsFiniteSet(1 .. n) /\ Cardinality(1 .. n) = n
<1>1. IsFiniteSet(1 .. n) /\ Cardinality(1 .. n) = IF 1 > n THEN 0 ELSE n - 1 + 1
  BY FS_Interval, 1 \in Int, n \in Int
<1> QED
  BY <1>1

LEMMA AccountsAdd ==
  ASSUME BaseInv, NEW w \in Workers
  PROVE  /\ completed[w] + failed[w] = Cardinality(Counted(w) \cup FailedSet(w))
         /\ Counted(w) \cup FailedSet(w) \subseteq 1 .. sent[w]
         /\ sent[w] \in Nat
<1>1. Counted(w) \cap FailedSet(w) = {}
  BY WorkerBaseAssumption DEF Counted, FailedSet
<1>2. Cardinality(Counted(w) \cup FailedSet(w)) =
        Cardinality(Counted(w)) + Cardinality(FailedSet(w))
  <2>1. Cardinality(Counted(w) \cup FailedSet(w)) =
          Cardinality(Counted(w)) + Cardinality(FailedSet(w))
            - Cardinality(Counted(w) \cap FailedSet(w))
    BY FiniteRequestSets, FS_Union
  <2> QED
    BY <1>1, <2>1, FiniteRequestSets, FS_EmptySet
<1>3. sent[w] \in Nat
  BY WorkerBaseAssumption, SMT DEF BaseInv, Shape, TypeOK
<1>4. ASSUME NEW i \in Reqs, phase[w][i] # "idle" PROVE i \in 1 .. sent[w]
  BY <1>3, <1>4, WorkerBaseAssumption, SMT DEF BaseInv, Shape, StartedInOrder, Reqs
<1>5. Counted(w) \cup FailedSet(w) \subseteq 1 .. sent[w]
  BY <1>4 DEF Counted, FailedSet
<1> QED
  BY <1>2, <1>3, <1>5 DEF BaseInv, NoLostUpdate

\* A worker with nothing running has accounted for all it has started.
LEMMA QuietAccount ==
  ASSUME BaseInv, NEW w \in Workers, Live(w) = {}
  PROVE  completed[w] + failed[w] = sent[w]
<1>1. ASSUME NEW i \in 1 .. sent[w] PROVE i \in Counted(w) \cup FailedSet(w)
  <2>1. i \in Reqs /\ ~(i > sent[w])
    BY WorkerBaseAssumption, SMT DEF BaseInv, Shape, TypeOK, Reqs
  <2>2. phase[w][i] # "idle"
    BY <2>1 DEF BaseInv, Shape, StartedInOrder
  <2>3. phase[w][i] = "done"
    BY <2>1, <2>2 DEF Live
  <2>4. outcome[w][i] \in Codes \cup Errs
    BY <2>1, <2>3 DEF BaseInv, Shape, OutcomeKnown
  <2> QED
    BY <2>1, <2>3, <2>4 DEF Counted, FailedSet
<1>2. Counted(w) \cup FailedSet(w) = 1 .. sent[w]
  BY <1>1, AccountsAdd
<1>3. Cardinality(1 .. sent[w]) = sent[w]
  BY AccountsAdd, UpTo
<1> QED
  BY <1>2, <1>3, AccountsAdd

\* A request that is not accounted for yet leaves room in the account.
LEMMA RoomForOne ==
  ASSUME BaseInv, NEW w \in Workers, NEW i \in Reqs,
         phase[w][i] \in {"resp", "errHeld"}
  PROVE  completed[w] + failed[w] < sent[w]
<1>1. i \in 1 .. sent[w]
  BY WorkerBaseAssumption, SMT DEF BaseInv, Shape, TypeOK, StartedInOrder, Reqs
<1>2. i \notin Counted(w) \cup FailedSet(w)
  BY DEF Counted, FailedSet
<1>3. IsFiniteSet(1 .. sent[w]) /\ Cardinality(1 .. sent[w]) = sent[w]
  BY AccountsAdd, UpTo
<1>4. /\ IsFiniteSet((1 .. sent[w]) \ {i})
      /\ Cardinality((1 .. sent[w]) \ {i}) = sent[w] - 1
  BY <1>1, <1>3, FS_RemoveElement
<1>5. Counted(w) \cup FailedSet(w) \subseteq (1 .. sent[w]) \ {i}
  BY <1>2, AccountsAdd
<1>6. Cardinality(Counted(w) \cup FailedSet(w)) <= sent[w] - 1
  BY <1>4, <1>5, FS_Subset
<1>7. Cardinality(Counted(w) \cup FailedSet(w)) \in Nat
  BY <1>4, <1>5, FS_Subset, FS_CardinalityType
<1> QED
  BY <1>6, <1>7, AccountsAdd

\* A request's step is the step of a request that runs.
LEMMA StepIsLive ==
  ASSUME NEW w \in Workers, NEW i \in Reqs, RequestStep(w, i)
  PROVE  i \in Live(w) /\ UNCHANGED <<pc, sent, ctxDone>>
  BY DEF RequestStep, NewReq, Middleware, Do, LockResp, SuccessLockFree, StoreResp, Sample, LockErr,
         StoreErr, OneMoreFailed, Finish, Left, Live, loopVars

\* ... and leaves other workers' requests alone, and its own that do not run.
LEMMA LiveElsewhere ==
  ASSUME Shape, NEW w \in Workers, NEW i \in Reqs, RequestStep(w, i)
  PROVE  \A v \in Workers : v # w => Live(v)' = Live(v)
<1>1. \A v \in Workers : v # w => phase'[v] = phase[v]
  BY SMT
  DEF RequestStep, NewReq, Middleware, Do, LockResp, SuccessLockFree, StoreResp, Sample, LockErr,
      StoreErr, OneMoreFailed, Finish, Left, Shape, TypeOK
<1> QED
  BY <1>1 DEF Live

\* A worker that joined its requests, or drained without having to join any,
\* has none running.
LEMMA JoinIsQuiet ==
  ASSUME BaseInv, NEW w \in Workers, Join(w)
  PROVE  Parallel /\ Live(w) = {}
<1>1. Parallel /\ parallelWg[w] = 0
  BY DEF Join, BaseInv, Quiet, QuietOutsideLoop
<1>2. Cardinality(Live(w)) = 0
  BY <1>1 DEF BaseInv, Quiet, WaitGroupCounts
<1> QED
  BY <1>1, <1>2, FiniteRequestSets, FS_EmptySet

LEMMA DrainIsQuiet ==
  ASSUME BaseInv, NEW w \in Workers, Drain(w)
  PROVE  /\ pc'[w] \in {"wait", "exit"}
         /\ pc'[w] = "wait" <=> Parallel
         /\ pc'[w] = "exit" => Live(w) = {}
<1>1. pc'[w] = IF Parallel THEN "wait" ELSE "exit"
  BY SMT DEF Drain, WaitIfParallel, BaseInv, Shape, TypeOK
<1> QED
  BY <1>1 DEF Drain, Ready

\* A move of a worker's loop, other than to start a request, only moves it.
LEMMA OtherMoves ==
  ASSUME Shape, NEW w \in Workers, Begin(w) \/ Quit(w) \/ Drain(w) \/ Join(w)
  PROVE  /\ UNCHANGED <<started, ctxDone, sent, phase, outcome, loaded, completed,
                        failed, responses, errors, parallelWg, reqStats, received>>
         /\ \A v \in Workers : v # w => pc'[v] = pc[v]
         /\ \A v \in Workers : Live(v)' = Live(v)
<1>1. /\ UNCHANGED <<started, ctxDone, sent, phase, outcome, loaded, completed,
                     failed, responses, errors, parallelWg, reqStats, received>>
      /\ \A v \in Workers : v # w => pc'[v] = pc[v]
  BY SMT DEF Begin, Quit, Drain, WaitIfParallel, Join, Shape, TypeOK, statVars, chanVars
<1> QED
  BY <1>1 DEF Live

LEMMA RunMoves ==
  ASSUME Shape, NEW w \in Workers, Run(w)
  PROVE  /\ UNCHANGED <<started, ctxDone, pc, completed, failed>>
         /\ pc[w] = "loop"
         /\ sent'[w] = sent[w] + 1
         /\ \A v \in Workers : v # w => sent'[v] = sent[v] /\ Live(v)' = Live(v)
<1>1. /\ UNCHANGED <<started, ctxDone, pc, completed, failed>>
      /\ pc[w] = "loop"
      /\ sent'[w] = sent[w] + 1
      /\ \A v \in Workers : v # w => sent'[v] = sent[v] /\ phase'[v] = phase[v]
  BY SMT DEF Run, Added, Shape, TypeOK, loopVars, statVars
<1> QED
  BY <1>1 DEF Live

\* Counters never go back.
LEMMA AccountsGrow ==
  ASSUME Shape, [BaseNext]_baseVars, NEW v \in Workers
  PROVE  /\ completed[v] \in Nat /\ failed[v] \in Nat
         /\ completed'[v] \in Nat /\ failed'[v] \in Nat
         /\ completed[v] <= completed'[v] /\ failed[v] <= failed'[v]
<1> DEFINE Grown == /\ completed'[v] \in {completed[v], completed[v] + 1}
                    /\ failed'[v] \in {failed[v], failed[v] + 1}
<1>1. ASSUME StartWorkers \/ Cancel \/ RecvSample \/ UNCHANGED baseVars PROVE Grown
  BY <1>1 DEF StartWorkers, Cancel, RecvSample, SampleReady, baseVars, statVars
<1>2. ASSUME NEW w \in Workers, LoopMove(w) PROVE Grown
  BY <1>2 DEF LoopMove, Begin, Run, Added, Quit, Drain, WaitIfParallel, Join, statVars
<1>3. ASSUME NEW w \in Workers, NEW i \in Reqs, RequestStep(w, i) PROVE Grown
  BY <1>3, SMT
  DEF RequestStep, NewReq, Middleware, Do, LockResp, SuccessLockFree, StoreResp, Sample, LockErr,
      StoreErr, OneMoreFailed, Finish, Left, statVars, Shape, TypeOK
<1>4. Grown
  BY <1>1, <1>2, <1>3 DEF BaseNext
<1>5. completed[v] \in Nat /\ failed[v] \in Nat
  BY DEF Shape, TypeOK
<1> QED
  BY <1>4, <1>5

===============================================================================
