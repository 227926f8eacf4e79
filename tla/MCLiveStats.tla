------------------------------ MODULE MCLiveStats ------------------------------
(* Two workers make two requests and one, one after another or in parallel, while *)
(* two or three ticks of the display's and the reader's tickers pass.             *)
EXTENDS LiveStats

MCTarget == [w \in 1 .. Conns |-> IF w = 1 THEN 2 ELSE 1]
MCLatency == [w \in 1 .. Conns |-> {2 * w - 1}]
===============================================================================
