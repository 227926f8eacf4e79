---------------------------------- MODULE Sums ----------------------------------
(***************************************************************************)
(* Sums of numbers, counted rather than folded, so that they can be        *)
(* reasoned about: f[x] stands for f[x] units of its own of each x.        *)
(***************************************************************************)
EXTENDS Integers, FiniteSets

Units(f, S) == UNION {{x} \X (1 .. f[x]) : x \in S}

\* The sum of f[x] over the x of the finite set S; f gives natural numbers.
SumOf(f, S) == Cardinality(Units(f, S))
===============================================================================
