------------------------------- MODULE SumsProofs -------------------------------
(***************************************************************************)
(* The laws of sums that the proofs of the other modules use.  A sum is    *)
(* over a set that is finite, or in which few values are not zero: what    *)
(* has to be finite are the units.                                         *)
(***************************************************************************)
EXTENDS Sums, FiniteSetTheorems, TLAPS

LEMMA UnitsAre ==
  ASSUME NEW f, NEW S
  PROVE  \A p : p \in Units(f, S) <=> \E x \in S : \E i \in 1 .. f[x] : p = <<x, i>>
  BY DEF Units

LEMMA SumType ==
  ASSUME NEW f, NEW S, IsFiniteSet(Units(f, S))
  PROVE  SumOf(f, S) \in Nat
  BY FS_CardinalityType DEF SumOf

LEMMA SumEmpty ==
  ASSUME NEW f
  PROVE  Units(f, {}) = {} /\ IsFiniteSet(Units(f, {})) /\ SumOf(f, {}) = 0
<1>1. Units(f, {}) = {}
  BY DEF Units
<1> QED
  BY <1>1, FS_EmptySet DEF SumOf

LEMMA SumZero ==
  ASSUME NEW S, NEW f, \A x \in S : f[x] = 0
  PROVE  IsFiniteSet(Units(f, S)) /\ SumOf(f, S) = 0
<1>1. Units(f, S) = {}
  BY UnitsAre
<1> QED
  BY <1>1, FS_EmptySet DEF SumOf

\* Only the values on the set matter.
LEMMA SumSame ==
  ASSUME NEW S, NEW f, NEW g, \A x \in S : f[x] = g[x]
  PROVE  Units(f, S) = Units(g, S) /\ SumOf(f, S) = SumOf(g, S)
<1>1. Units(f, S) = Units(g, S)
  BY DEF Units
<1> QED
  BY <1>1 DEF SumOf

\* The units of one element.
LEMMA UnitsOfOne ==
  ASSUME NEW x, NEW n \in Nat
  PROVE  IsFiniteSet({x} \X (1 .. n)) /\ Cardinality({x} \X (1 .. n)) = n
<1>1. IsFiniteSet({x}) /\ Cardinality({x}) = 1
  BY FS_Singleton
<1>2. IsFiniteSet(1 .. n) /\ Cardinality(1 .. n) = IF 1 > n THEN 0 ELSE n - 1 + 1
  BY FS_Interval, 1 \in Int, n \in Int
<1>3. Cardinality(1 .. n) = n
  BY <1>2
<1>4. /\ IsFiniteSet({x} \X (1 .. n))
      /\ Cardinality({x} \X (1 .. n)) = Cardinality({x}) * Cardinality(1 .. n)
  BY <1>1, <1>2, FS_Product, Zenon
<1>5. 1 * n = n
  OBVIOUS
<1> QED
  BY <1>1, <1>3, <1>4, <1>5, Zenon

\* Units that have nothing in common add up.
LEMMA UnitsJoin ==
  ASSUME NEW A, IsFiniteSet(A), NEW B, IsFiniteSet(B), A \cap B = {}
  PROVE  IsFiniteSet(A \cup B) /\ Cardinality(A \cup B) = Cardinality(A) + Cardinality(B)
<1>1. Cardinality(A \cap B) = 0
  BY FS_EmptySet
<1>2. Cardinality(A) \in Nat /\ Cardinality(B) \in Nat
  BY FS_CardinalityType
<1>3. /\ IsFiniteSet(A \cup B)
      /\ Cardinality(A \cup B) =
           Cardinality(A) + Cardinality(B) - Cardinality(A \cap B)
  BY FS_Union, Zenon
<1>4. Cardinality(A) + Cardinality(B) - 0 = Cardinality(A) + Cardinality(B)
  BY <1>2
<1> QED
  BY <1>1, <1>3, <1>4, Zenon

LEMMA SumAdd ==
  ASSUME NEW S, NEW x, x \notin S, NEW f, IsFiniteSet(Units(f, S)), f[x] \in Nat
  PROVE  /\ IsFiniteSet(Units(f, S \cup {x}))
         /\ SumOf(f, S \cup {x}) = SumOf(f, S) + f[x]
<1> DEFINE new == {x} \X (1 .. f[x])
<1>1. Units(f, S \cup {x}) = Units(f, S) \cup new
  BY DEF Units
<1>2. Units(f, S) \cap new = {}
  BY UnitsAre
<1>3. IsFiniteSet(new) /\ Cardinality(new) = f[x]
  BY UnitsOfOne
<1>4. /\ IsFiniteSet(Units(f, S) \cup new)
      /\ Cardinality(Units(f, S) \cup new) = Cardinality(Units(f, S)) + Cardinality(new)
  BY <1>2, <1>3, UnitsJoin, Zenon
<1> QED
  BY <1>1, <1>3, <1>4, Zenon DEF SumOf

LEMMA SumRemove ==
  ASSUME NEW S, NEW x \in S, NEW f, IsFiniteSet(Units(f, S)), f[x] \in Nat
  PROVE  /\ IsFiniteSet(Units(f, S \ {x}))
         /\ SumOf(f, S \ {x}) \in Nat
         /\ SumOf(f, S) = SumOf(f, S \ {x}) + f[x]
<1>1. Units(f, S \ {x}) \subseteq Units(f, S)
  BY DEF Units
<1>2. IsFiniteSet(Units(f, S \ {x}))
  BY <1>1, FS_Subset
<1>3. S = (S \ {x}) \cup {x} /\ x \notin S \ {x}
  OBVIOUS
<1>4. SumOf(f, (S \ {x}) \cup {x}) = SumOf(f, S \ {x}) + f[x]
  BY <1>2, <1>3, SumAdd
<1> QED
  BY <1>2, <1>3, <1>4, SumType

\* The sum with one value changed.
LEMMA SumChange ==
  ASSUME NEW S, NEW x \in S, NEW f, NEW g, IsFiniteSet(Units(f, S)),
         f[x] \in Nat, g[x] \in Nat, \A y \in S : y # x => g[y] = f[y]
  PROVE  /\ IsFiniteSet(Units(g, S))
         /\ SumOf(g, S) = SumOf(f, S) + g[x] - f[x]
<1> DEFINE rest == SumOf(f, S \ {x})
<1>1. /\ IsFiniteSet(Units(f, S \ {x})) /\ SumOf(f, S \ {x}) \in Nat
      /\ SumOf(f, S) = SumOf(f, S \ {x}) + f[x]
  BY SumRemove
<1>2. Units(g, S \ {x}) = Units(f, S \ {x}) /\ SumOf(g, S \ {x}) = SumOf(f, S \ {x})
  BY SumSame
<1>3. S = (S \ {x}) \cup {x} /\ x \notin S \ {x}
  OBVIOUS
<1>4. /\ IsFiniteSet(Units(g, (S \ {x}) \cup {x}))
      /\ SumOf(g, (S \ {x}) \cup {x}) = SumOf(g, S \ {x}) + g[x]
  BY <1>1, <1>2, <1>3, SumAdd
<1>5. IsFiniteSet(Units(g, S)) /\ SumOf(g, S) = rest + g[x]
  BY <1>2, <1>3, <1>4, Zenon
<1>6. rest \in Nat /\ SumOf(f, S) = rest + f[x]
  BY <1>1
<1> HIDE DEF rest
<1>7. SumOf(g, S) = SumOf(f, S) + g[x] - f[x]
  BY <1>5, <1>6
<1> QED
  BY <1>5, <1>7

LEMMA SumMonotone ==
  ASSUME NEW S, NEW f, NEW g, IsFiniteSet(Units(g, S)),
         \A x \in S : f[x] \in Nat /\ g[x] \in Nat /\ f[x] <= g[x]
  PROVE  IsFiniteSet(Units(f, S)) /\ SumOf(f, S) <= SumOf(g, S)
<1>1. \A x \in S : 1 .. f[x] \subseteq 1 .. g[x]
  OBVIOUS
<1>2. Units(f, S) \subseteq Units(g, S)
  BY <1>1 DEF Units
<1> QED
  BY <1>2, FS_Subset DEF SumOf

\* The sum of two functions: the second one's units are put above the first's.
LEMMA SumPlus ==
  ASSUME NEW S, NEW f, NEW g, NEW h, IsFiniteSet(Units(f, S)), IsFiniteSet(Units(g, S)),
         \A x \in S : f[x] \in Nat /\ g[x] \in Nat /\ h[x] = f[x] + g[x]
  PROVE  IsFiniteSet(Units(h, S)) /\ SumOf(h, S) = SumOf(f, S) + SumOf(g, S)
<1> DEFINE above == Units(h, S) \ Units(f, S)
           lift  == [p \in Units(g, S) |-> <<p[1], f[p[1]] + p[2]>>]
<1>1. \A x \in S : \A i : <<x, i>> \in above <=> i \in 1 .. h[x] /\ i \notin 1 .. f[x]
  BY UnitsAre
<1>2. \A p \in above : \E x \in S, i \in Nat : p = <<x, i>>
  BY UnitsAre
<1>3. \A x \in S : \A i : <<x, i>> \in Units(g, S) <=> i \in 1 .. g[x]
  BY UnitsAre
<1>4. \A p \in Units(g, S) : \E x \in S : \E i \in 1 .. g[x] : p = <<x, i>>
  BY UnitsAre
<1>5. ASSUME NEW x \in S, NEW i \in 1 .. g[x]
      PROVE  <<x, f[x] + i>> \in above /\ lift[<<x, i>>] = <<x, f[x] + i>>
  <2>1. f[x] + i \in 1 .. h[x] /\ f[x] + i \notin 1 .. f[x]
    OBVIOUS
  <2> QED
    BY <1>1, <1>3, <2>1
<1>6. lift \in [Units(g, S) -> above]
  <2>1. ASSUME NEW p \in Units(g, S) PROVE lift[p] \in above
    <3>1. PICK x \in S : \E i \in 1 .. g[x] : p = <<x, i>>
      BY <1>4
    <3>2. PICK i \in 1 .. g[x] : p = <<x, i>>
      BY <3>1
    <3> QED
      BY <1>5, <3>2, Zenon
  <2> QED
    BY <2>1, Zenon
<1>7. ASSUME NEW p \in Units(g, S), NEW q \in Units(g, S), lift[p] = lift[q] PROVE p = q
  <2>1. PICK x \in S : \E i \in 1 .. g[x] : p = <<x, i>>
    BY <1>4
  <2>2. PICK i \in 1 .. g[x] : p = <<x, i>>
    BY <2>1
  <2>3. PICK y \in S : \E j \in 1 .. g[y] : q = <<y, j>>
    BY <1>4
  <2>4. PICK j \in 1 .. g[y] : q = <<y, j>>
    BY <2>3
  <2>5. <<x, f[x] + i>> = <<y, f[y] + j>>
    BY <1>5, <1>7, <2>2, <2>4
  <2>6. x = y /\ i = j
    BY <2>5
  <2> QED
    BY <2>2, <2>4, <2>6
<1>8. ASSUME NEW t \in above PROVE \E p \in Units(g, S) : lift[p] = t
  <2>1. PICK x \in S, i \in Nat : t = <<x, i>>
    BY <1>2
  <2>2. i - f[x] \in 1 .. g[x] /\ f[x] + (i - f[x]) = i
    BY <1>1, <2>1
  <2>3. lift[<<x, i - f[x]>>] = <<x, f[x] + (i - f[x])>>
    BY <1>5, <2>2, Zenon
  <2> QED
    BY <1>3, <2>1, <2>2, <2>3, Zenon
<1> HIDE DEF above, lift
<1>9. ExistsBijection(Units(g, S), above)
  <2>1. lift \in Bijection(Units(g, S), above)
    BY <1>6, <1>7, <1>8 DEF Bijection, Injection, IsInjective, Surjection
  <2> QED
    BY <2>1 DEF ExistsBijection
<1>10. IsFiniteSet(above) /\ Cardinality(above) = Cardinality(Units(g, S))
  BY <1>9, FS_Bijection
<1>11. Units(h, S) = Units(f, S) \cup above /\ Units(f, S) \cap above = {}
  <2>1. \A x \in S : 1 .. f[x] \subseteq 1 .. h[x]
    OBVIOUS
  <2> QED
    BY <2>1 DEF Units, above
<1> QED
  BY <1>10, <1>11, UnitsJoin DEF SumOf

LEMMA SumConstant ==
  ASSUME NEW S, IsFiniteSet(S), NEW c \in Nat, NEW f, \A x \in S : f[x] = c
  PROVE  IsFiniteSet(Units(f, S)) /\ SumOf(f, S) = Cardinality(S) * c
<1>1. Units(f, S) = S \X (1 .. c)
  <2>1. \A x \in S : 1 .. f[x] = 1 .. c
    OBVIOUS
  <2> QED
    BY <2>1 DEF Units
<1>2. IsFiniteSet(1 .. c) /\ Cardinality(1 .. c) = IF 1 > c THEN 0 ELSE c - 1 + 1
  BY FS_Interval, 1 \in Int, c \in Int
<1>3. Cardinality(1 .. c) = c
  BY <1>2
<1>4. /\ IsFiniteSet(S \X (1 .. c))
      /\ Cardinality(S \X (1 .. c)) = Cardinality(S) * Cardinality(1 .. c)
  BY <1>2, FS_Product, Zenon
<1> QED
  BY <1>1, <1>3, <1>4, Zenon DEF SumOf

LEMMA FiniteUnits ==
  ASSUME NEW S, IsFiniteSet(S), NEW f, \A x \in S : f[x] \in Nat
  PROVE  IsFiniteSet(Units(f, S))
<1> DEFINE Parts == {{x} \X (1 .. f[x]) : x \in S}
           part  == [x \in S |-> {x} \X (1 .. f[x])]
<1>1. part \in Surjection(S, Parts)
  BY DEF Surjection
<1>2. IsFiniteSet(Parts)
  BY <1>1, FS_Surjection
<1>3. \A T \in Parts : IsFiniteSet(T)
  <2>1. \A x \in S : IsFiniteSet({x} \X (1 .. f[x]))
    BY UnitsOfOne, Zenon
  <2> QED
    BY <2>1, Zenon
<1> HIDE DEF Parts
<1>4. IsFiniteSet(UNION Parts)
  BY <1>2, <1>3, FS_UNION
<1> QED
  BY <1>4 DEF Parts, Units

\* Even shares of n, the first n % k of which take one more, add up to n.
LEMMA SharesSum ==
  ASSUME NEW k \in Nat \ {0}, NEW n \in Nat, NEW f,
         \A x \in 1 .. k : f[x] = n \div k + (IF x <= n % k THEN 1 ELSE 0)
  PROVE  IsFiniteSet(Units(f, 1 .. k)) /\ SumOf(f, 1 .. k) = n
<1> DEFINE q == n \div k
           r == n % k
           even  == [x \in 1 .. k |-> q]
           extra == [x \in 1 .. k |-> IF x <= r THEN 1 ELSE 0]
<1>1. q \in Nat /\ r \in Nat /\ r < k /\ n = (k * q) + r
  BY SMT
<1> HIDE DEF q, r
<1>2. IsFiniteSet(1 .. k) /\ Cardinality(1 .. k) = k
  <2>1. IsFiniteSet(1 .. k) /\ Cardinality(1 .. k) = IF 1 > k THEN 0 ELSE k - 1 + 1
    BY FS_Interval, 1 \in Int, k \in Int
  <2> QED
    BY <2>1
<1>3. IsFiniteSet(Units(even, 1 .. k)) /\ SumOf(even, 1 .. k) = k * q
  BY <1>1, <1>2, SumConstant
<1>4. IsFiniteSet(Units(extra, 1 .. k)) /\ SumOf(extra, 1 .. k) = r
  <2>1. Units(extra, 1 .. k) = (1 .. r) \X {1}
    <3>1. \A x \in 1 .. k : 1 .. extra[x] = IF x <= r THEN {1} ELSE {}
      <4>1. ASSUME NEW x \in 1 .. k, x <= r PROVE 1 .. extra[x] = {1}
        BY <4>1
      <4>2. ASSUME NEW x \in 1 .. k, ~(x <= r) PROVE 1 .. extra[x] = {}
        BY <4>2
      <4> QED
        BY <4>1, <4>2
    <3>2. 1 .. r = {x \in 1 .. k : x <= r}
      BY <1>1
    <3> QED
      BY <3>1, <3>2 DEF Units
  <2>2. IsFiniteSet(1 .. r) /\ Cardinality(1 .. r) = IF 1 > r THEN 0 ELSE r - 1 + 1
    BY <1>1, FS_Interval, 1 \in Int, r \in Int
  <2>3. Cardinality(1 .. r) = r
    BY <1>1, <2>2
  <2>4. IsFiniteSet({1}) /\ Cardinality({1}) = 1
    BY FS_Singleton
  <2>5. r * 1 = r
    BY <1>1
  <2>6. /\ IsFiniteSet((1 .. r) \X {1})
        /\ Cardinality((1 .. r) \X {1}) = Cardinality(1 .. r) * Cardinality({1})
    BY <2>2, <2>4, FS_Product, Zenon
  <2> QED
    BY <2>1, <2>3, <2>4, <2>5, <2>6, Zenon DEF SumOf
<1>5. \A x \in 1 .. k : /\ even[x] \in Nat /\ extra[x] \in Nat
                        /\ f[x] = even[x] + extra[x]
  BY <1>1 DEF q, r
<1> HIDE DEF even, extra
<1>6. /\ IsFiniteSet(Units(f, 1 .. k))
      /\ SumOf(f, 1 .. k) = SumOf(even, 1 .. k) + SumOf(extra, 1 .. k)
  BY <1>3, <1>4, <1>5, SumPlus, Zenon
<1> QED
  BY <1>1, <1>3, <1>4, <1>6
===============================================================================
