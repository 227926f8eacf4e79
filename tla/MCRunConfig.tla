------------------------------ MODULE MCRunConfig ------------------------------
(* Signs, zeros, shares with and without a remainder, a duration shorter than  *)
(* one unit per request, a client of each sort, and words of four and of three *)
(* bits, so that some counts of connections pass their limits: 5 is negative   *)
(* in a wait group alone, 8 as a signed word alone, 15 in both.                *)
EXTENDS RunConfig

MCDurations  == {-4, 0, 1, 10}
MCReqTargets == {-1, 0, 2, 5}
MCConnCounts == (0 .. 3) \cup {5, 8, 15}
MCTickers    == {-1, 0, 1}
MCClients    == {"fasthttp", "nethttp2", "other"}
===============================================================================
