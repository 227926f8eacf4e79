-------------------------- MODULE MCFixedTimeRequests --------------------------
(* One worker, two requests due at times 2 and 4 of a window of 4; room for   *)
(* one request past the target.                                               *)
EXTENDS FixedTimeRequests, TLC

CONSTANT w1

MCWorkers == {w1}
MCTarget  == w1 :> 2
===============================================================================
