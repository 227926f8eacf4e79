------------------------------ MODULE MCFixedReqs ------------------------------
(* Two workers that share three requests 2 + 1, as handleReqs deals them. *)
EXTENDS FixedReqs, TLC

CONSTANTS w1, w2

MCWorkers == {w1, w2}
MCTarget  == (w1 :> 2) @@ (w2 :> 1)
===============================================================================
