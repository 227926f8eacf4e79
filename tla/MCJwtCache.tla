------------------------------- MODULE MCJwtCache -------------------------------
(* Three runs in two processes that ask for 1 or 2 JWTs, generated in batches   *)
(* of 1 by two workers, with one crash, failure or clear-cache: an amount needs *)
(* several batches, and a batch leaves a remainder.                             *)
EXTENDS JwtCache

MCAmounts == {1, 2}
===============================================================================
