------------------------------ MODULE MCPayloader ------------------------------
(* Three requests over two connections, 2 + 1; the JWTs come from the cache, in *)
(* full or one short, or from a user's file that has to be read several times,  *)
(* or has none.                                                                 *)
EXTENDS Payloader

MCWorkers == 1 .. Conns
MCTarget  == [k \in 1 .. Conns |-> Share(k)]

FromCache == {[user |-> FALSE, lines |-> n] : n \in {2, 3}}
FromUser  == {[user |-> TRUE, lines |-> n] : n \in {0, 2}}
MCSources == FromCache \cup FromUser
FullCache == {[user |-> FALSE, lines |-> 3]}
===============================================================================
