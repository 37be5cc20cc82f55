--------------------------- MODULE Arithmetic_proofs ---------------------------
(***************************************************************************)
(* What the theorems about the contracts rest on: lemmas about the sums of *)
(* Sums, over any finite set, and about the quotients of SafeDecimalMath,  *)
(* for any unit.                                                           *)
(***************************************************************************)
EXTENDS Sums, SafeDecimalMath, FiniteSetTheorems, FunctionTheorems,
        WellFoundedInduction, TLAPS

(* The units of one element are finite, and there are f[x] of them.        *)
LEMMA UnitsOfFinite ==
  ASSUME NEW S, NEW f \in [S -> Nat], NEW x \in S
  PROVE  IsFiniteSet(UnitsOf(f, x)) /\ Cardinality(UnitsOf(f, x)) = f[x]
<1>1. f[x] \in Nat
  OBVIOUS
<1>2. IsFiniteSet({x}) /\ Cardinality({x}) = 1
  BY FS_Singleton
<1>3. IsFiniteSet(1 .. f[x]) /\ Cardinality(1 .. f[x]) = f[x]
  BY <1>1, FS_Interval
<1>4. /\ IsFiniteSet({x} \X (1 .. f[x]))
      /\ Cardinality({x} \X (1 .. f[x])) = 1 * f[x]
  <2>1. Cardinality({x} \X (1 .. f[x])) = Cardinality({x}) * Cardinality(1 .. f[x])
    BY <1>2, <1>3, FS_Product
  <2>2. IsFiniteSet({x} \X (1 .. f[x]))
    BY <1>2, <1>3, FS_Product
  <2>3. QED
    BY <1>2, <1>3, <2>1, <2>2
<1>5. QED
  BY <1>1, <1>4 DEF UnitsOf

(* The units of a finite set of elements are finite.                       *)
LEMMA UnitsOverFinite ==
  ASSUME NEW S, IsFiniteSet(S), NEW f \in [S -> Nat], NEW T \in SUBSET S
  PROVE  IsFiniteSet(UnitsOver(f, T))
<1> DEFINE blocks == {UnitsOf(f, x) : x \in T}
           g == [x \in T |-> UnitsOf(f, x)]
<1>1. IsFiniteSet(T)
  BY FS_Subset
<1>2. g \in Surjection(T, blocks)
  BY DEF Surjection
<1>3. IsFiniteSet(blocks)
  BY <1>1, <1>2, FS_Surjection
<1>4. \A b \in blocks : IsFiniteSet(b)
  BY UnitsOfFinite
<1>5. QED
  BY <1>3, <1>4, FS_UNION DEF UnitsOver

(* A sum of naturals over a finite set is a natural.                       *)
LEMMA SumOverType ==
  ASSUME NEW S, IsFiniteSet(S), NEW f \in [S -> Nat], NEW T \in SUBSET S
  PROVE  SumOver(f, T) \in Nat
BY UnitsOverFinite, FS_CardinalityType DEF SumOver

(* One element can be split off a sum.                                     *)
LEMMA SumOverSplit ==
  ASSUME NEW S, IsFiniteSet(S), NEW f \in [S -> Nat], NEW x \in S
  PROVE  /\ SumOver(f, S) = f[x] + SumOver(f, S \ {x})
         /\ SumOver(f, S \ {x}) \in Nat
<1> DEFINE rest == UnitsOver(f, S \ {x})
           own  == UnitsOf(f, x)
<1>1. UnitsOver(f, S) = own \cup rest
  BY DEF UnitsOver
<1>2. own \cap rest = {}
  BY DEF UnitsOver, UnitsOf
<1>3. IsFiniteSet(own) /\ Cardinality(own) = f[x]
  BY UnitsOfFinite
<1>4. IsFiniteSet(rest)
  BY UnitsOverFinite
<1>5. Cardinality(own \cap rest) = 0
  BY <1>2, FS_EmptySet
<1>6. Cardinality(rest) \in Nat
  BY <1>4, FS_CardinalityType
<1>7. Cardinality(own \cup rest)
        = Cardinality(own) + Cardinality(rest) - Cardinality(own \cap rest)
  BY <1>3, <1>4, FS_Union
<1>8. f[x] \in Nat
  OBVIOUS
<1> HIDE DEF own, rest
<1>9. Cardinality(own \cup rest) = f[x] + Cardinality(rest)
  BY <1>3, <1>5, <1>6, <1>7, <1>8
<1>10. QED
  BY <1>1, <1>6, <1>9 DEF SumOver, rest

(* A sum over a set is the sum over a part of it and over the rest.        *)
LEMMA SumOverPart ==
  ASSUME NEW S, IsFiniteSet(S), NEW f \in [S -> Nat], NEW T \in SUBSET S
  PROVE  SumOver(f, S) = SumOver(f, T) + SumOver(f, S \ T)
<1> DEFINE part == UnitsOver(f, T)
           rest == UnitsOver(f, S \ T)
<1>1. UnitsOver(f, S) = part \cup rest
  BY DEF UnitsOver
<1>2. part \cap rest = {}
  BY DEF UnitsOver, UnitsOf
<1>3. IsFiniteSet(part) /\ IsFiniteSet(rest)
  BY UnitsOverFinite
<1>4. Cardinality(part \cap rest) = 0
  BY <1>2, FS_EmptySet
<1>5. Cardinality(part) \in Nat /\ Cardinality(rest) \in Nat
  BY <1>3, FS_CardinalityType
<1>6. Cardinality(part \cup rest)
        = Cardinality(part) + Cardinality(rest) - Cardinality(part \cap rest)
  BY <1>3, FS_Union
<1> HIDE DEF part, rest
<1>7. Cardinality(part \cup rest) = Cardinality(part) + Cardinality(rest)
  BY <1>4, <1>5, <1>6
<1>8. QED
  BY <1>1, <1>7 DEF SumOver, part, rest

(* A sum depends only on the elements it ranges over.                      *)
LEMMA SumOverAgree ==
  ASSUME NEW T, NEW f, NEW g, \A x \in T : f[x] = g[x]
  PROVE  SumOver(f, T) = SumOver(g, T)
BY DEF SumOver, UnitsOver, UnitsOf

(* No element exceeds the sum.                                             *)
LEMMA SumOfBound ==
  ASSUME NEW S, IsFiniteSet(S), NEW f \in [S -> Nat], NEW x \in S
  PROVE  f[x] <= SumOf(f)
<1>1. /\ SumOver(f, S) = f[x] + SumOver(f, S \ {x})
      /\ SumOver(f, S \ {x}) \in Nat
  BY SumOverSplit
<1>2. f[x] \in Nat /\ DOMAIN f = S
  OBVIOUS
<1>3. QED
  BY <1>1, <1>2 DEF SumOf

LEMMA SumOfType ==
  ASSUME NEW S, IsFiniteSet(S), NEW f \in [S -> Nat]
  PROVE  SumOf(f) \in Nat
<1>1. S \in SUBSET S
  OBVIOUS
<1>2. SumOver(f, S) \in Nat
  BY <1>1, SumOverType
<1>3. QED
  BY <1>2 DEF SumOf

(* Replacing one element changes the sum by the difference.                *)
LEMMA SumOfUpdate ==
  ASSUME NEW S, IsFiniteSet(S), NEW f \in [S -> Nat], NEW x \in S, NEW v \in Nat
  PROVE  SumOf([f EXCEPT ![x] = v]) = SumOf(f) - f[x] + v
<1> DEFINE g == [f EXCEPT ![x] = v]
<1>1. g \in [S -> Nat] /\ g[x] = v /\ f[x] \in Nat
  OBVIOUS
<1>2. SumOver(g, S \ {x}) = SumOver(f, S \ {x})
  <2>1. \A y \in S \ {x} : g[y] = f[y]
    OBVIOUS
  <2>2. QED
    BY <2>1, SumOverAgree
<1>3. DOMAIN g = S /\ DOMAIN f = S
  OBVIOUS
<1>4. /\ SumOver(f, S) = f[x] + SumOver(f, S \ {x})
      /\ SumOver(f, S \ {x}) \in Nat
  BY SumOverSplit
<1> HIDE DEF g
<1>5. SumOver(g, S) = g[x] + SumOver(g, S \ {x})
  BY <1>1, SumOverSplit
<1>6. SumOver(g, S) = SumOver(f, S) - f[x] + v
  BY <1>1, <1>2, <1>4, <1>5
<1>7. QED
  BY <1>3, <1>6 DEF SumOf, g

(* The sum of nothing but zeros is zero.                                   *)
LEMMA SumOfZero ==
  ASSUME NEW S, NEW f \in [S -> Nat], \A x \in S : f[x] = 0
  PROVE  SumOf(f) = 0
<1>1. \A x \in S : UnitsOf(f, x) = {}
  BY DEF UnitsOf
<1>2. UnitsOver(f, S) = {}
  BY <1>1 DEF UnitsOver
<1>3. QED
  BY <1>2, FS_EmptySet DEF SumOf, SumOver
(* A sum is no less than a sum of smaller terms.                           *)
LEMMA SumOfMonotone ==
  ASSUME NEW S, IsFiniteSet(S), NEW f \in [S -> Nat], NEW g \in [S -> Nat],
         \A x \in S : g[x] <= f[x]
  PROVE  SumOf(g) <= SumOf(f)
<1>1. S \in SUBSET S
  OBVIOUS
<1>2. IsFiniteSet(UnitsOver(f, S))
  BY <1>1, UnitsOverFinite
<1>3. UnitsOver(g, S) \subseteq UnitsOver(f, S)
  BY DEF UnitsOver, UnitsOf
<1>4. Cardinality(UnitsOver(g, S)) <= Cardinality(UnitsOver(f, S))
  BY <1>2, <1>3, FS_Subset
<1>5. DOMAIN f = S /\ DOMAIN g = S
  OBVIOUS
<1>6. QED
  BY <1>4, <1>5 DEF SumOf, SumOver

(* When one term falls by n and none rises, the sum falls by n at least.   *)
LEMMA SumOfFalls ==
  ASSUME NEW S, IsFiniteSet(S), NEW f \in [S -> Nat], NEW g \in [S -> Nat],
         NEW x \in S, NEW n \in Nat, g[x] + n <= f[x],
         \A y \in S \ {x} : g[y] <= f[y]
  PROVE  SumOf(g) + n <= SumOf(f)
<1> DEFINE v == g[x] + n
           h == [g EXCEPT ![x] = v]
<1>1. v \in Nat /\ g[x] \in Nat
  OBVIOUS
<1>2. h \in [S -> Nat] /\ \A y \in S : h[y] <= f[y]
  BY <1>1
<1>3. SumOf(h) = SumOf(g) - g[x] + v
  <2> HIDE DEF v
  <2>1. QED
    BY <1>1, SumOfUpdate
<1> HIDE DEF h
<1>4. SumOf(h) <= SumOf(f)
  BY <1>2, SumOfMonotone
<1>5. SumOf(g) \in Nat
  BY SumOfType
<1>6. SumOf(f) \in Nat
  BY SumOfType
<1>7. QED
  BY <1>1, <1>3, <1>4, <1>5, <1>6

(* The sum of two terms each is the sum of two sums.                       *)
LEMMA SumOfAdd ==
  ASSUME NEW S, IsFiniteSet(S), NEW f \in [S -> Nat], NEW g \in [S -> Nat],
         NEW h, h = [x \in S |-> f[x] + g[x]]
  PROVE  SumOf(h) = SumOf(f) + SumOf(g)
<1> DEFINE low  == UnitsOver(f, S)
           high == {u \in UnitsOver(h, S) : u[2] > f[u[1]]}
           more == UnitsOver(g, S)
           up   == [u \in more |-> <<u[1], u[2] + f[u[1]]>>]
<1>1. h \in [S -> Nat] /\ S \in SUBSET S
  OBVIOUS
<1>2. /\ IsFiniteSet(low) /\ IsFiniteSet(more) /\ IsFiniteSet(UnitsOver(h, S))
  BY <1>1, UnitsOverFinite
<1>3. \A k \in [S -> Nat] : \A u : u \in UnitsOver(k, S) <=>
        (\E x \in S : \E i \in 1 .. k[x] : u = <<x, i>>)
  BY DEF UnitsOver, UnitsOf
<1>4. UnitsOver(h, S) = low \cup high
  <2>1. ASSUME NEW u \in low PROVE u \in UnitsOver(h, S)
    <3>8. PICK x \in S : \E i \in 1 .. f[x] : u = <<x, i>>
      BY <1>3
    <3>1. PICK i \in 1 .. f[x] : u = <<x, i>>
      BY <3>8
    <3>2. i \in 1 .. h[x]
      BY <1>1
    <3>3. QED
      BY <1>1, <1>3, <3>1, <3>2
  <2>2. ASSUME NEW u \in UnitsOver(h, S), u \notin high PROVE u \in low
    <3>8. PICK x \in S : \E i \in 1 .. h[x] : u = <<x, i>>
      BY <1>1, <1>3
    <3>1. PICK i \in 1 .. h[x] : u = <<x, i>>
      BY <3>8
    <3>2. ~(u[2] > f[u[1]])
      BY <2>2
    <3>3. i \in 1 .. f[x]
      BY <1>1, <3>1, <3>2
    <3>4. QED
      BY <1>3, <3>1, <3>3
  <2>3. high \subseteq UnitsOver(h, S)
    OBVIOUS
  <2> HIDE DEF high, low
  <2>4. QED
    BY <2>1, <2>2, <2>3
<1>5. low \cap high = {}
  BY <1>3
<1>6. up \in Bijection(more, high)
  <2>1. ASSUME NEW u \in more
        PROVE  /\ up[u] \in high
               /\ \E x \in S : \E i \in 1 .. g[x] : u = <<x, i>> /\ up[u] = <<x, i + f[x]>>
    <3>8. PICK x \in S : \E i \in 1 .. g[x] : u = <<x, i>>
      BY <1>3
    <3>1. PICK i \in 1 .. g[x] : u = <<x, i>>
      BY <3>8
    <3>2. up[u] = <<x, i + f[x]>>
      BY <3>1
    <3>3. i + f[x] \in 1 .. h[x] /\ i + f[x] > f[x]
      BY <1>1, <3>1
    <3>4. <<x, i + f[x]>> \in UnitsOver(h, S)
      BY <1>1, <1>3, <3>3
    <3>5. QED
      BY <3>1, <3>2, <3>3, <3>4
  <2>2. ASSUME NEW w \in high PROVE \E u \in more : up[u] = w
    <3>8. PICK x \in S : \E i \in 1 .. h[x] : w = <<x, i>>
      BY <1>1, <1>3
    <3>1. PICK i \in 1 .. h[x] : w = <<x, i>>
      BY <3>8
    <3>2. i > f[x] /\ f[x] \in Nat /\ g[x] \in Nat /\ h[x] = f[x] + g[x]
      BY <3>1
    <3>3. i - f[x] \in 1 .. g[x]
      BY <3>1, <3>2
    <3>4. <<x, i - f[x]>> \in more
      BY <1>3, <3>3
    <3>5. up[<<x, i - f[x]>>] = <<x, (i - f[x]) + f[x]>>
      BY <3>4
    <3>6. (i - f[x]) + f[x] = i
      BY <3>1, <3>2
    <3>7. QED
      BY <3>1, <3>4, <3>5, <3>6
  <2>3. ASSUME NEW u \in more, NEW w \in more, up[u] = up[w] PROVE u = w
    <3>8. PICK x \in S : \E i \in 1 .. g[x] : u = <<x, i>> /\ up[u] = <<x, i + f[x]>>
      BY <2>1
    <3>1. PICK i \in 1 .. g[x] : u = <<x, i>> /\ up[u] = <<x, i + f[x]>>
      BY <3>8
    <3>9. PICK y \in S : \E j \in 1 .. g[y] : w = <<y, j>> /\ up[w] = <<y, j + f[y]>>
      BY <2>1
    <3>2. PICK j \in 1 .. g[y] : w = <<y, j>> /\ up[w] = <<y, j + f[y]>>
      BY <3>9
    <3>3. x = y /\ i + f[x] = j + f[y]
      BY <2>3, <3>1, <3>2
    <3>4. i = j
      BY <3>3
    <3>5. QED
      BY <3>1, <3>2, <3>3, <3>4
  <2>4. up \in [more -> high]
    BY <2>1
  <2> HIDE DEF up, more, high
  <2>5. up \in Injection(more, high)
    BY <2>3, <2>4 DEF Injection, IsInjective
  <2>6. up \in Surjection(more, high)
    BY <2>2, <2>4 DEF Surjection
  <2>7. QED
    BY <2>5, <2>6 DEF Bijection
<1>7. IsFiniteSet(high) /\ Cardinality(high) = Cardinality(more)
  <2>1. ExistsBijection(more, high)
    BY <1>6 DEF ExistsBijection
  <2> HIDE DEF more, high
  <2>2. QED
    BY <1>2, <2>1, FS_Bijection
<1>8. Cardinality(low \cap high) = 0
  BY <1>5, FS_EmptySet
<1>9. Cardinality(low) \in Nat /\ Cardinality(high) \in Nat
  BY <1>2, <1>7, FS_CardinalityType
<1>10. Cardinality(low \cup high) = Cardinality(low) + Cardinality(high) - Cardinality(low \cap high)
  <2> HIDE DEF low, high
  <2>1. QED
    BY <1>2, <1>7, FS_Union
<1>11. DOMAIN f = S /\ DOMAIN g = S /\ DOMAIN h = S
  OBVIOUS
<1>12. SumOf(h) = Cardinality(low) + Cardinality(more)
  <2>1. SumOf(h) = Cardinality(UnitsOver(h, S))
    BY <1>11 DEF SumOf, SumOver
  <2> HIDE DEF low, high, more
  <2>2. SumOf(h) = Cardinality(low \cup high)
    BY <1>4, <2>1
  <2>3. QED
    BY <1>7, <1>8, <1>9, <1>10, <2>2
<1>13. QED
  BY <1>11, <1>12 DEF SumOf, SumOver

(* A sum of multiples is the multiple of the sum.                          *)
Times(n, f) == [x \in DOMAIN f |-> n * f[x]]

LEMMA SumOfTimes ==
  ASSUME NEW S, IsFiniteSet(S), NEW f \in [S -> Nat], NEW n \in Nat
  PROVE  SumOf(Times(n, f)) = n * SumOf(f)
<1> DEFINE bad == {k \in Nat : SumOf(Times(k, f)) # k * SumOf(f)}
<1>1. DOMAIN f = S /\ SumOf(f) \in Nat
  BY SumOfType
<1>2. 0 \notin bad
  <2> DEFINE z == Times(0, f)
  <2>1. z \in [S -> Nat] /\ \A x \in S : z[x] = 0
    BY <1>1 DEF Times
  <2> HIDE DEF z
  <2>2. SumOf(z) = 0
    BY <2>1, SumOfZero
  <2>3. 0 * SumOf(f) = 0
    BY <1>1
  <2>4. QED
    BY <2>2, <2>3 DEF z
<1>3. ASSUME NEW k \in Nat, k \notin bad PROVE k + 1 \notin bad
  <2> DEFINE t == Times(k, f)
             u == Times(k + 1, f)
  <2>1. t \in [S -> Nat] /\ u = [x \in S |-> t[x] + f[x]]
    <3>1. \A x \in S : k * f[x] \in Nat /\ (k + 1) * f[x] = k * f[x] + f[x]
      OBVIOUS
    <3>2. QED
      BY <1>1, <3>1 DEF Times
  <2>2. SumOf(t) = k * SumOf(f)
    BY <1>3
  <2> HIDE DEF t, u
  <2>3. SumOf(u) = SumOf(t) + SumOf(f)
    BY <2>1, SumOfAdd
  <2>4. (k + 1) * SumOf(f) = k * SumOf(f) + SumOf(f)
    BY <1>1
  <2>5. SumOf(u) = (k + 1) * SumOf(f)
    BY <2>2, <2>3, <2>4
  <2>6. QED
    BY <2>5 DEF u
<1>4. bad = {}
  <2>1. SUFFICES ASSUME bad # {} PROVE FALSE
    OBVIOUS
  <2>2. bad \subseteq Nat
    OBVIOUS
  <2> HIDE DEF bad
  <2>3. \E k \in bad : \A j \in bad : ~(<<j, k>> \in OpToRel(<, Nat))
    BY <2>1, <2>2, NatLessThanWellFounded, WFMin
  <2>4. PICK k \in bad : \A j \in bad : ~(j < k)
    BY <2>2, <2>3 DEF OpToRel
  <2>5. k \in Nat /\ k # 0
    BY <1>2, <2>2, <2>4
  <2>6. k - 1 \in Nat /\ k - 1 < k /\ (k - 1) + 1 = k
    BY <2>5
  <2>7. k - 1 \notin bad
    BY <2>4, <2>6
  <2>8. k \notin bad
    BY <1>3, <2>6, <2>7
  <2>9. QED
    BY <2>4, <2>8
<1>5. QED
  BY <1>4

(* What holds of 0, and of n + 1 when it holds of n, holds of every natural: *)
(* the property is given as the set of those it holds of.                  *)
LEMMA InductionOverSet ==
  ASSUME NEW S, 0 \in S, \A n \in Nat : n \in S => n + 1 \in S
  PROVE  Nat \subseteq S
<1> DEFINE bad == Nat \ S
<1>1. SUFFICES ASSUME bad # {} PROVE FALSE
  OBVIOUS
<1>2. bad \subseteq Nat
  OBVIOUS
<1>3. \E k \in bad : \A j \in bad : ~(<<j, k>> \in OpToRel(<, Nat))
  <2> HIDE DEF bad
  <2>1. QED
    BY <1>1, <1>2, NatLessThanWellFounded, WFMin
<1>4. PICK k \in bad : \A j \in bad : ~(j < k)
  BY <1>2, <1>3 DEF OpToRel
<1>5. k \in Nat /\ k # 0 /\ k \notin S
  BY <1>4
<1>6. k - 1 \in Nat /\ k - 1 < k /\ (k - 1) + 1 = k
  BY <1>5
<1>7. k - 1 \in S
  BY <1>4, <1>6
<1>8. QED
  BY <1>5, <1>6, <1>7

(* A set of naturals that is not empty has a least element.                *)
LEMMA LeastOf ==
  ASSUME NEW S \in SUBSET Nat, S # {}
  PROVE  \E n \in S : \A m \in S : n <= m
<1>1. \E n \in S : \A m \in S : ~(<<m, n>> \in OpToRel(<, Nat))
  BY NatLessThanWellFounded, WFMin
<1>2. PICK n \in S : \A m \in S : ~(m < n)
  BY <1>1 DEF OpToRel
<1>3. QED
  BY <1>2

-----------------------------------------------------------------------------
(* Quotients, remainders, decimals *)

(* A quotient is determined by the interval that holds its multiple.       *)
LEMMA QuotientIs ==
  ASSUME NEW a \in Nat, NEW b \in Nat \ {0}, NEW q \in Nat,
         b * q <= a, a < b * q + b
  PROVE  a \div b = q
<1>1. a \div b \in Int /\ a % b \in 0 .. (b - 1) /\ a = b * (a \div b) + (a % b)
  OBVIOUS
<1>2. b * (a \div b - q) < b /\ b * (q - a \div b) < b
  BY <1>1
<1>3. a \div b - q < 1
  BY <1>1, <1>2
<1>4. q - a \div b < 1
  BY <1>1, <1>2
<1>5. QED
  BY <1>1, <1>3, <1>4

(* A quotient of naturals is a natural.                                    *)
LEMMA QuotientType ==
  ASSUME NEW a \in Nat, NEW b \in Nat \ {0}
  PROVE  a \div b \in Nat
<1>1. a \div b \in Int /\ a % b \in 0 .. (b - 1) /\ a = b * (a \div b) + (a % b)
  OBVIOUS
<1>2. a \div b > -1
  BY <1>1
<1>3. QED
  BY <1>1, <1>2

LEMMA MultiplyDecimalRoundType ==
  ASSUME NEW x \in Nat, NEW y \in Nat, NEW unit \in Nat \ {0}
  PROVE  multiplyDecimalRound(x, y, unit) \in Nat
<1>1. x * y \in Nat
  OBVIOUS
<1>2. 2 * (x * y) + unit \in Nat /\ 2 * unit \in Nat \ {0}
  BY <1>1
<1>3. QED
  BY <1>2, QuotientType DEF multiplyDecimalRound

(* Multiplying by 1.0 is exact.                                            *)
LEMMA MultiplyByUnit ==
  ASSUME NEW x \in Nat, NEW unit \in Nat \ {0}
  PROVE  multiplyDecimalRound(x, unit, unit) = x /\ multiplyDecimal(x, unit, unit) = x
<1> DEFINE p == x * unit
<1>1. p \in Nat /\ 2 * p + unit \in Nat /\ 2 * unit \in Nat \ {0}
  OBVIOUS
<1>2. (2 * unit) * x = 2 * p /\ unit * x = p
  OBVIOUS
<1> HIDE DEF p
<1>3. (2 * unit) * x <= 2 * p + unit /\ 2 * p + unit < (2 * unit) * x + 2 * unit
  BY <1>1, <1>2
<1>4. unit * x <= p /\ p < unit * x + unit
  BY <1>1, <1>2
<1>5. (2 * p + unit) \div (2 * unit) = x
  BY <1>1, <1>3, QuotientIs
<1>6. p \div unit = x
  BY <1>1, <1>4, QuotientIs
<1>7. QED
  BY <1>5, <1>6 DEF multiplyDecimalRound, multiplyDecimal, p

LEMMA QuotientBound ==
  ASSUME NEW a \in Nat, NEW b \in Nat \ {0}
  PROVE  a \div b \in Nat /\ b * (a \div b) <= a /\ a < b * (a \div b) + b
<1>1. a \div b \in Nat
  BY QuotientType
<1>2. a % b \in 0 .. (b - 1) /\ a = b * (a \div b) + (a % b)
  OBVIOUS
<1>3. QED
  BY <1>1, <1>2

LEMMA RemainderBound ==
  ASSUME NEW a \in Nat, NEW b \in Nat \ {0}
  PROVE  a % b \in Nat /\ a % b <= a /\ (a < b => a % b = a)
<1>1. a % b \in 0 .. (b - 1) /\ a = b * (a \div b) + (a % b)
  OBVIOUS
<1>2. a \div b \in Nat
  BY QuotientType
<1>3. b * (a \div b) \in Nat
  BY <1>2
<1>4. ASSUME a < b PROVE a % b = a
  <2>1. b * (a \div b) < b
    BY <1>1, <1>3, <1>4
  <2>2. a \div b < 1
    BY <1>2, <2>1
  <2>3. a \div b = 0
    BY <1>2, <2>2
  <2>4. QED
    BY <1>1, <2>3
<1>5. QED
  BY <1>1, <1>3, <1>4

LEMMA ProductType == ASSUME NEW x \in Nat, NEW y \in Nat PROVE x * y \in Nat
OBVIOUS

LEMMA DivideDecimalRoundType ==
  ASSUME NEW x \in Nat, NEW y \in Nat \ {0}, NEW unit \in Nat
  PROVE  divideDecimalRound(x, y, unit) \in Nat
<1>1. x * unit \in Nat
  OBVIOUS
<1>2. 2 * (x * unit) + y \in Nat /\ 2 * y \in Nat \ {0}
  BY <1>1
<1>3. QED
  BY <1>2, QuotientType DEF divideDecimalRound

LEMMA DivideDecimalType ==
  ASSUME NEW x \in Nat, NEW y \in Nat \ {0}, NEW unit \in Nat
  PROVE  divideDecimal(x, y, unit) \in Nat
BY QuotientType, ProductType DEF divideDecimal

LEMMA MultiplyDecimalType ==
  ASSUME NEW x \in Nat, NEW y \in Nat, NEW unit \in Nat \ {0}
  PROVE  multiplyDecimal(x, y, unit) \in Nat
BY QuotientType, ProductType DEF multiplyDecimal

LEMMA FloorsubType ==
  ASSUME NEW x \in Nat, NEW y \in Nat
  PROVE  floorsub(x, y) \in Nat /\ floorsub(x, y) <= x /\ x <= y + floorsub(x, y)
BY DEF floorsub

(* Order and products of naturals.                                         *)
LEMMA TimesOrder ==
  ASSUME NEW n \in Nat, NEW x \in Nat, NEW y \in Nat, x <= y
  PROVE  n * x <= n * y
<1>1. PICK d \in Nat : y = x + d
  <2>1. y - x \in Nat /\ y = x + (y - x)
    OBVIOUS
  <2>2. QED
    BY <2>1
<1>2. n * y = n * x + n * d /\ n * d \in Nat /\ n * x \in Nat
  BY <1>1
<1>3. QED
  BY <1>2

LEMMA TimesCancel ==
  ASSUME NEW n \in Nat \ {0}, NEW x \in Nat, NEW y \in Nat, n * x <= n * y
  PROVE  x <= y
<1>1. SUFFICES ASSUME y < x PROVE FALSE
  OBVIOUS
<1>2. y + 1 <= x /\ y + 1 \in Nat /\ n \in Nat
  BY <1>1
<1>3. n * (y + 1) <= n * x
  BY <1>2, TimesOrder
<1>4. n * (y + 1) = n * y + n /\ n * y \in Nat /\ n * x \in Nat
  OBVIOUS
<1>5. QED
  BY <1>3, <1>4

-----------------------------------------------------------------------------
(* How far rounding goes *)

(* A quotient that is rounded half up is half a divisor off, at most.      *)
LEMMA RoundedQuotient ==
  ASSUME NEW a \in Nat, NEW b \in Nat \ {0}, NEW q, q = (2 * a + b) \div (2 * b)
  PROVE  q \in Nat /\ 2 * (b * q) <= 2 * a + b /\ 2 * a < 2 * (b * q) + b
<1>1. 2 * a + b \in Nat /\ 2 * b \in Nat \ {0}
  OBVIOUS
<1>2. q \in Nat /\ (2 * b) * q <= 2 * a + b /\ 2 * a + b < (2 * b) * q + 2 * b
  BY <1>1, QuotientBound
<1>3. PICK m \in Nat : m = b * q
  BY <1>2, ProductType
<1>4. (2 * b) * q = 2 * m
  BY <1>2, <1>3
<1>5. QED
  BY <1>2, <1>3, <1>4

LEMMA DivideRoundBounds ==
  ASSUME NEW x \in Nat, NEW y \in Nat \ {0}, NEW unit \in Nat,
         NEW q, q = divideDecimalRound(x, y, unit)
  PROVE  q \in Nat /\ 2 * (y * q) <= 2 * (x * unit) + y /\ 2 * (x * unit) < 2 * (y * q) + y
<1>1. PICK a \in Nat : a = x * unit
  BY ProductType
<1>2. q = (2 * a + y) \div (2 * y)
  BY <1>1 DEF divideDecimalRound
<1>3. QED
  BY <1>1, <1>2, RoundedQuotient

LEMMA MultiplyRoundBounds ==
  ASSUME NEW x \in Nat, NEW y \in Nat, NEW unit \in Nat \ {0},
         NEW q, q = multiplyDecimalRound(x, y, unit)
  PROVE  q \in Nat /\ 2 * (unit * q) <= 2 * (x * y) + unit /\ 2 * (x * y) < 2 * (unit * q) + unit
<1>1. PICK a \in Nat : a = x * y
  BY ProductType
<1>2. q = (2 * a + unit) \div (2 * unit)
  BY <1>1 DEF multiplyDecimalRound
<1>3. QED
  BY <1>1, <1>2, RoundedQuotient

LEMMA DivideBounds ==
  ASSUME NEW x \in Nat, NEW y \in Nat \ {0}, NEW unit \in Nat, NEW q, q = divideDecimal(x, y, unit)
  PROVE  q \in Nat /\ y * q <= x * unit /\ x * unit < y * q + y
<1>1. PICK a \in Nat : a = x * unit
  BY ProductType
<1>2. q = a \div y
  BY <1>1 DEF divideDecimal
<1>3. QED
  BY <1>1, <1>2, QuotientBound

LEMMA MultiplyBounds ==
  ASSUME NEW x \in Nat, NEW y \in Nat, NEW unit \in Nat \ {0}, NEW q, q = multiplyDecimal(x, y, unit)
  PROVE  q \in Nat /\ unit * q <= x * y /\ x * y < unit * q + unit
<1>1. PICK a \in Nat : a = x * y
  BY ProductType
<1>2. q = a \div unit
  BY <1>1 DEF multiplyDecimal
<1>3. QED
  BY <1>1, <1>2, QuotientBound

(* The products of a smaller factor.                                       *)
LEMMA SmallerFactor ==
  ASSUME NEW t \in Nat, NEW n \in Nat, t <= n, NEW d \in Nat, NEW x \in Nat,
         2 * (n * d) <= x + n
  PROVE  2 * (t * d) <= x + t
<1>1. CASE d = 0
  BY <1>1
<1>2. CASE d > 0
  <2>1. PICK m \in Nat : m = 2 * d - 1
    <3>1. 2 * d - 1 \in Nat
      BY <1>2
    <3>2. QED
      BY <3>1
  <2>2. n * m = 2 * (n * d) - n
    BY <2>1
  <2>3. t * m = 2 * (t * d) - t
    BY <2>1
  <2>4. m * t <= m * n
    BY TimesOrder
  <2>5. t * m = m * t /\ n * m = m * n /\ t * m \in Nat /\ n * m \in Nat
    BY ProductType
  <2>6. n * d \in Nat /\ t * d \in Nat
    BY ProductType
  <2>7. QED
    BY <2>2, <2>3, <2>4, <2>5, <2>6
<1>3. QED
  BY <1>1, <1>2

-----------------------------------------------------------------------------
(* Parts of a total *)

(* What a part of a total is worth, by a percentage that was rounded down  *)
(* and then used with another rounding down, is not more than its part.    *)
LEMMA PartBelow ==
  ASSUME NEW part \in Nat, NEW total \in Nat \ {0}, NEW worth \in Nat, NEW unit \in Nat \ {0}
  PROVE  total * multiplyDecimal(worth, divideDecimal(part, total, unit), unit) <= worth * part
<1>1. part * unit \in Nat
  BY ProductType
<1>2. PICK q \in Nat : q = divideDecimal(part, total, unit)
  BY DivideDecimalType
<1>3. total * q <= part * unit
  BY <1>1, <1>2, QuotientBound DEF divideDecimal
<1>4. worth * q \in Nat
  BY ProductType
<1>5. PICK e \in Nat : e = multiplyDecimal(worth, q, unit)
  BY MultiplyDecimalType
<1>6. unit * e <= worth * q
  BY <1>4, <1>5, QuotientBound DEF multiplyDecimal
<1>7. total * (unit * e) <= total * (worth * q)
  <2>1. unit * e \in Nat /\ total \in Nat
    BY ProductType
  <2>2. QED
    BY <1>4, <1>6, <2>1, TimesOrder
<1>8. worth * (total * q) <= worth * (part * unit)
  <2>1. total * q \in Nat
    BY ProductType
  <2>2. QED
    BY <1>1, <1>3, <2>1, TimesOrder
<1>9. /\ total * (unit * e) = unit * (total * e)
      /\ total * (worth * q) = worth * (total * q)
      /\ worth * (part * unit) = unit * (worth * part)
  OBVIOUS
<1>10. /\ total * e \in Nat /\ worth * part \in Nat /\ total * q \in Nat
  BY ProductType
<1>11. /\ unit * (total * e) \in Nat /\ worth * (total * q) \in Nat /\ unit * (worth * part) \in Nat
  BY <1>10, ProductType
<1>12. unit * (total * e) <= unit * (worth * part)
  BY <1>7, <1>8, <1>9, <1>11
<1>13. total * e <= worth * part
  BY <1>10, <1>12, TimesCancel
<1>14. QED
  BY <1>2, <1>5, <1>13

(* If each gets at most its part of the worth, all get at most the worth.  *)
LEMMA PartsOfWhole ==
  ASSUME NEW S, IsFiniteSet(S), NEW f \in [S -> Nat], NEW worth \in Nat,
         NEW d \in [S -> Nat],
         \A x \in S : SumOf(f) * d[x] <= worth * f[x],
         \A x \in S : f[x] = 0 => d[x] = 0
  PROVE  SumOf(d) <= worth
<1>1. PICK total \in Nat : total = SumOf(f)
  BY SumOfType
<1>2. CASE total = 0
  <2>1. \A x \in S : f[x] = 0
    <3> TAKE x \in S
    <3>1. f[x] <= SumOf(f) /\ f[x] \in Nat
      BY SumOfBound
    <3>2. QED
      BY <1>1, <1>2, <3>1
  <2>2. SumOf(d) = 0
    BY <2>1, SumOfZero
  <2>3. QED
    BY <2>2
<1>3. CASE total # 0
  <2>1. PICK g \in [S -> Nat] : g = Times(total, d) /\ \A x \in S : g[x] = total * d[x]
    <3>1. \A x \in S : total * d[x] \in Nat
      BY ProductType
    <3>2. Times(total, d) = [x \in S |-> total * d[x]]
      BY DEF Times
    <3>3. PICK t : t = [x \in S |-> total * d[x]]
      OBVIOUS
    <3>4. t \in [S -> Nat] /\ \A x \in S : t[x] = total * d[x]
      BY <3>1, <3>3
    <3>5. QED
      BY <3>2, <3>3, <3>4
  <2>2. PICK h \in [S -> Nat] : h = Times(worth, f) /\ \A x \in S : h[x] = worth * f[x]
    <3>1. \A x \in S : worth * f[x] \in Nat
      BY ProductType
    <3>2. Times(worth, f) = [x \in S |-> worth * f[x]]
      BY DEF Times
    <3>3. PICK t : t = [x \in S |-> worth * f[x]]
      OBVIOUS
    <3>4. t \in [S -> Nat] /\ \A x \in S : t[x] = worth * f[x]
      BY <3>1, <3>3
    <3>5. QED
      BY <3>2, <3>3, <3>4
  <2>3. \A x \in S : g[x] <= h[x]
    BY <1>1, <2>1, <2>2
  <2>4. SumOf(g) <= SumOf(h)
    BY <2>3, SumOfMonotone
  <2>5. SumOf(g) = total * SumOf(d)
    BY <2>1, SumOfTimes
  <2>6. SumOf(h) = worth * total
    BY <1>1, <2>2, SumOfTimes
  <2>7. SumOf(d) \in Nat
    BY SumOfType
  <2>8. total * SumOf(d) <= total * worth
    BY <2>4, <2>5, <2>6
  <2>9. QED
    BY <1>3, <2>7, <2>8, TimesCancel
<1>4. QED
  BY <1>2, <1>3
=============================================================================
