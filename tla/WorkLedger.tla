------------------------------ MODULE WorkLedger ------------------------------
(***************************************************************************)
(* What a worker with a request target promises to handleReqs and, through *)
(* ComputeResults, to the user: every request it is asked for is accounted *)
(* for once, as completed or failed; no more requests than the target are  *)
(* made; and it closes (returns) only when its account has reached the     *)
(* target, or the user has stopped the run.                                *)
(***************************************************************************)
EXTENDS Naturals

CONSTANTS Workers, Target

VARIABLES
  ok,       \* requests of each worker accounted as completed
  bad,      \* requests of each worker accounted as failed
  closed,   \* the worker has returned
  stopped   \* the user has stopped the run

vars == <<ok, bad, closed, stopped>>

TypeOK ==
  /\ ok \in [Workers -> Nat]
  /\ bad \in [Workers -> Nat]
  /\ closed \in [Workers -> BOOLEAN]
  /\ stopped \in BOOLEAN

Init ==
  /\ ok = [w \in Workers |-> 0]
  /\ bad = [w \in Workers |-> 0]
  /\ closed = [w \in Workers |-> FALSE]
  /\ stopped = FALSE

\* A stopped run's parallel requests may still end after their worker closed.
Open(w) == (~closed[w] \/ stopped) /\ ok[w] + bad[w] < Target[w]

Succeed(w) ==
  /\ Open(w)
  /\ ok' = [ok EXCEPT ![w] = @ + 1]
  /\ UNCHANGED <<bad, closed, stopped>>

Fail(w) ==
  /\ Open(w)
  /\ bad' = [bad EXCEPT ![w] = @ + 1]
  /\ UNCHANGED <<ok, closed, stopped>>

Close(w) ==
  /\ ~closed[w]
  /\ stopped \/ ok[w] + bad[w] = Target[w]
  /\ closed' = [closed EXCEPT ![w] = TRUE]
  /\ UNCHANGED <<ok, bad, stopped>>

Stop ==
  /\ ~stopped
  /\ stopped' = TRUE
  /\ UNCHANGED <<ok, bad, closed>>

Next == Stop \/ \E w \in Workers : Succeed(w) \/ Fail(w) \/ Close(w)

Safety == Init /\ [][Next]_vars

\* Every open worker gets on with its requests and then closes.
Proceed(w) == ~closed[w] /\ (Succeed(w) \/ Fail(w) \/ Close(w))

Spec == Safety /\ \A w \in Workers : WF_vars(Proceed(w))
===============================================================================
