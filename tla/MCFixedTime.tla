------------------------------ MODULE MCFixedTime ------------------------------
(* One worker of up to three parallel requests.                               *)
EXTENDS FixedTime

CONSTANTS w1

MCWorkers == {w1}
===============================================================================
