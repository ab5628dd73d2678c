--------------------------- MODULE AmountsProofs ---------------------------
(* What Total computes: nothing for no execution, and one amount more for  *)
(* one execution more.                                                     *)
EXTENDS Amounts, Integers, FiniteSetTheorems, WellFoundedInduction, TLAPS

\* The units of a finite set of executions are finitely many.
LEMMA UnitsFinite ==
    ASSUME NEW S, IsFiniteSet(S), NEW f, \A e \in S : f[e] \in Nat
    PROVE  IsFiniteSet(Units(S, f))
<1> DEFINE Col(e) == {e} \X (1..f[e])
           T == {Col(e) : e \in S}
           g == [e \in S |-> Col(e)]
<1>1. g \in Surjection(S, T)
  BY Zenon DEF Surjection
<1>2. IsFiniteSet(T)
  <2> HIDE DEF g, T
  <2> QED BY <1>1, FS_Surjection
<1>3. \A C \in T : IsFiniteSet(C)
  <2> SUFFICES ASSUME NEW e \in S PROVE IsFiniteSet(Col(e))
    OBVIOUS
  <2>1. IsFiniteSet({e})
    BY FS_Singleton
  <2>2. f[e] \in Int /\ 1 \in Int
    OBVIOUS
  <2>3. IsFiniteSet(1..f[e])
    BY <2>2, FS_Interval
  <2> QED BY <2>1, <2>3, FS_Product
<1>4. IsFiniteSet(UNION T)
  <2> HIDE DEF T
  <2> QED BY <1>2, <1>3, FS_UNION
<1> QED BY <1>4 DEF Units

\* The total is a natural number.
LEMMA TotalType ==
    ASSUME NEW S, IsFiniteSet(S), NEW f, \A e \in S : f[e] \in Nat
    PROVE  Total(S, f) \in Nat
BY UnitsFinite, FS_CardinalityType DEF Total

\* No execution, no total.
LEMMA TotalEmpty ==
    ASSUME NEW f
    PROVE  Total({}, f) = 0
<1>1. Units({}, f) = {}
  BY DEF Units
<1> QED BY <1>1, FS_EmptySet DEF Total

\* Only the amounts of members matter.
LEMMA TotalSame ==
    ASSUME NEW S, NEW f, NEW g, \A e \in S : f[e] = g[e]
    PROVE  Total(S, f) = Total(S, g)
<1>1. Units(S, f) = Units(S, g)
  BY DEF Units
<1> QED BY <1>1 DEF Total

\* Adding a member adds its amount.
LEMMA TotalAdd ==
    ASSUME NEW S, IsFiniteSet(S), NEW x, x \notin S, NEW f,
           \A e \in S \union {x} : f[e] \in Nat
    PROVE  Total(S \union {x}, f) = Total(S, f) + f[x]
<1> DEFINE Col == {x} \X (1..f[x])
<1>1. Units(S \union {x}, f) = Units(S, f) \union Col
  BY DEF Units
<1>2. IsFiniteSet(Units(S, f)) /\ Cardinality(Units(S, f)) \in Nat
  BY UnitsFinite, FS_CardinalityType
<1>3. IsFiniteSet(Col) /\ Cardinality(Col) = f[x]
  <2>1. IsFiniteSet({x}) /\ Cardinality({x}) = 1
    BY FS_Singleton
  <2>2. f[x] \in Nat /\ f[x] \in Int /\ 1 \in Int
    OBVIOUS
  <2>3. IsFiniteSet(1..f[x]) /\ Cardinality(1..f[x]) = f[x]
    <3> DEFINE n == f[x]
    <3> HIDE DEF n
    <3>1. n \in Nat /\ n \in Int /\ 1 \in Int
      BY <2>2 DEF n
    <3>2. /\ IsFiniteSet(1..n)
          /\ Cardinality(1..n) = IF 1 > n THEN 0 ELSE n - 1 + 1
      BY <3>1, FS_Interval, Zenon
    <3>3. (IF 1 > n THEN 0 ELSE n - 1 + 1) = n
      BY <3>1
    <3> QED BY <3>2, <3>3 DEF n
  <2>4. /\ IsFiniteSet(Col)
        /\ Cardinality(Col) = Cardinality({x}) * Cardinality(1..f[x])
    BY <2>1, <2>3, FS_Product
  <2> QED BY <2>1, <2>2, <2>3, <2>4
<1>4. Units(S, f) \cap Col = {}
  BY DEF Units
<1>5. Cardinality(Units(S, f) \union Col)
        = Cardinality(Units(S, f)) + Cardinality(Col)
            - Cardinality(Units(S, f) \cap Col)
  <2> HIDE DEF Col
  <2> QED BY <1>2, <1>3, FS_Union
<1>6. Cardinality(Units(S, f) \cap Col) = 0
  BY <1>4, FS_EmptySet
<1>7. f[x] \in Nat
  OBVIOUS
<1>8. Cardinality(Units(S \union {x}, f)) = Cardinality(Units(S, f)) + f[x]
  <2>1. Cardinality(Units(S \union {x}, f))
          = Cardinality(Units(S, f) \union Col)
    BY <1>1, Zenon
  <2> DEFINE a == Cardinality(Units(S, f))
             c == Cardinality(Units(S, f) \union Col)
  <2>2. c = a + f[x] - 0
    BY <1>3, <1>5, <1>6, Zenon
  <2>3. c = a + f[x]
    <3> HIDE DEF c, a
    <3> QED BY <1>2, <1>7, <2>2 DEF a
  <2> QED BY <2>1, <2>3
<1> QED BY <1>8 DEF Total

\* Removing a member removes its amount.
LEMMA TotalRemove ==
    ASSUME NEW S, IsFiniteSet(S), NEW x \in S, NEW f,
           \A e \in S : f[e] \in Nat
    PROVE  Total(S, f) = Total(S \ {x}, f) + f[x]
<1>1. IsFiniteSet(S \ {x}) /\ x \notin S \ {x} /\ (S \ {x}) \union {x} = S
  BY FS_RemoveElement
<1>2. \A e \in (S \ {x}) \union {x} : f[e] \in Nat
  BY <1>1
<1> QED BY <1>1, <1>2, TotalAdd

\* Multiplication distributes over a sum of naturals.
LEMMA NatDistributes ==
    \A x, y, z \in Nat : x * y \in Nat /\ x * (y + z) = x * y + x * z
OBVIOUS

\* Sums are linear: adding d times the amounts of g adds d times their total.
LEMMA TotalLinear ==
    ASSUME NEW S, IsFiniteSet(S), NEW f, NEW g, NEW h, NEW d \in Nat,
           \A e \in S : f[e] \in Nat /\ g[e] \in Nat /\ h[e] = f[e] + d * g[e]
    PROVE  Total(S, h) = Total(S, f) + d * Total(S, g)
<1> DEFINE Bad == {T \in SUBSET S : Total(T, h) # Total(T, f) + d * Total(T, g)}
           Sizes == {Cardinality(T) : T \in Bad}
           below == {ss \in Nat \X Nat : ss[1] < ss[2]}
<1>1. \A T \in SUBSET S : IsFiniteSet(T) /\ Cardinality(T) \in Nat
  BY FS_Subset, FS_CardinalityType
<1>2. SUFFICES ASSUME Bad # {} PROVE FALSE
  OBVIOUS
<1>3. Sizes \in SUBSET Nat /\ Sizes # {}
  BY <1>1, <1>2
<1>4. IsWellFoundedOn(below, Nat)
  BY NatLessThanWellFounded, Zenon DEF OpToRel
<1>5. PICK k \in Sizes : \A m \in Sizes : ~ (<<m, k>> \in below)
  <2> HIDE DEF below, Sizes
  <2> QED BY <1>3, <1>4, WFMin
<1>6. PICK T \in Bad : Cardinality(T) = k
  OBVIOUS
<1>7. Total({}, h) = Total({}, f) + d * Total({}, g)
  BY TotalEmpty
<1>8. PICK x \in T : TRUE
  BY <1>6, <1>7
<1> DEFINE R == T \ {x}
<1>9. IsFiniteSet(T) /\ IsFiniteSet(R) /\ Cardinality(R) = k - 1 /\ R \in SUBSET S
  BY <1>1, <1>6, <1>8, FS_RemoveElement
<1>10. R \notin Bad
  <2> SUFFICES ASSUME R \in Bad PROVE FALSE
    OBVIOUS
  <2>1. Cardinality(R) \in Sizes /\ k \in Nat /\ Cardinality(R) \in Nat
    BY <1>1, <1>3, <1>9
  <2>2. <<Cardinality(R), k>> \in below
    <3> HIDE DEF R
    <3> QED BY <2>1, <1>9
  <2> QED BY <2>1, <2>2, <1>5
<1>11. \A e \in T : f[e] \in Nat /\ g[e] \in Nat /\ d * g[e] \in Nat /\ h[e] \in Nat
  <2> SUFFICES ASSUME NEW e \in T
               PROVE  f[e] \in Nat /\ g[e] \in Nat /\ d * g[e] \in Nat /\ h[e] \in Nat
    OBVIOUS
  <2>1. f[e] \in Nat /\ g[e] \in Nat /\ h[e] = f[e] + d * g[e]
    OBVIOUS
  <2>2. d * g[e] \in Nat
    BY <2>1, NatDistributes
  <2> DEFINE c == d * g[e]
  <2> HIDE DEF c
  <2>3. f[e] + c \in Nat
    BY <2>1, <2>2 DEF c
  <2> QED BY <2>1, <2>2, <2>3 DEF c
<1>12. /\ Total(T, h) = Total(R, h) + h[x]
       /\ Total(T, f) = Total(R, f) + f[x]
       /\ Total(T, g) = Total(R, g) + g[x]
  BY <1>8, <1>9, <1>11, TotalRemove
<1>13. Total(R, f) \in Nat /\ Total(R, g) \in Nat
  BY <1>9, <1>11, TotalType
<1>14. Total(R, h) = Total(R, f) + d * Total(R, g)
  BY <1>9, <1>10
<1>15. /\ d * (Total(R, g) + g[x]) = d * Total(R, g) + d * g[x]
       /\ d * Total(R, g) \in Nat
  BY <1>8, <1>11, <1>13, NatDistributes
<1>16. h[x] = f[x] + d * g[x]
  BY <1>8
<1>17. Total(T, h) = Total(T, f) + d * Total(T, g)
  <2> DEFINE a == Total(R, f)  b == d * Total(R, g)  c == d * g[x]
  <2>1. Total(T, h) = a + b + (f[x] + c)
    BY <1>12, <1>14, <1>16
  <2>2. Total(T, f) + d * Total(T, g) = a + f[x] + (b + c)
    BY <1>12, <1>15
  <2>3. a \in Nat /\ b \in Nat /\ c \in Nat /\ f[x] \in Nat
    BY <1>8, <1>11, <1>13, <1>15
  <2> HIDE DEF a, b, c
  <2> QED BY <2>1, <2>2, <2>3
<1> QED BY <1>6, <1>17

\* Smaller amounts, smaller total.
LEMMA TotalMono ==
    ASSUME NEW S, IsFiniteSet(S), NEW f, NEW g,
           \A e \in S : f[e] \in Nat /\ g[e] \in Nat /\ f[e] <= g[e]
    PROVE  Total(S, f) <= Total(S, g)
<1> DEFINE more == [e \in S |-> g[e] - f[e]]
<1>1. \A e \in S : /\ f[e] \in Nat /\ more[e] \in Nat
                   /\ g[e] = f[e] + 1 * more[e]
  OBVIOUS
<1>2. Total(S, more) \in Nat /\ Total(S, f) \in Nat
  BY <1>1, TotalType, Zenon
<1>3. 1 \in Nat
  OBVIOUS
<1> HIDE DEF more
<1>4. Total(S, g) = Total(S, f) + 1 * Total(S, more)
  BY <1>1, <1>3, TotalLinear
<1> QED BY <1>2, <1>4

=============================================================================
