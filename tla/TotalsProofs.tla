---------------------------- MODULE TotalsProofs ----------------------------
(***************************************************************************)
(* What a write to one entry of a row does to the total of the row.        *)
(***************************************************************************)
EXTENDS Totals, FiniteSetTheorems, TLAPS

\* The units of one entry are as many as its amount.
LEMMA ColumnSize ==
  ASSUME NEW x, NEW n \in Nat
  PROVE  /\ IsFiniteSet({x} \X (1 .. n))
         /\ Cardinality({x} \X (1 .. n)) = n
<1> DEFINE X == {x}
           N == 1 .. n
<1>1. IsFiniteSet(X) /\ Cardinality(X) = 1
  BY FS_Singleton
<1>2. IsFiniteSet(N) /\ Cardinality(N) = n
  BY FS_Interval
<1> HIDE DEF X, N
<1>3. /\ IsFiniteSet(X \X N)
      /\ Cardinality(X \X N) = Cardinality(X) * Cardinality(N)
  BY <1>1, <1>2, FS_Product
<1>4. Cardinality(X \X N) = n
  BY <1>1, <1>2, <1>3
<1> QED
  BY <1>3, <1>4, Zenon DEF X, N

\* A row over a finite set has finitely many units.
LEMMA TotalType ==
  ASSUME NEW S, IsFiniteSet(S), NEW top \in Nat, NEW f \in [S -> 0 .. top]
  PROVE  IsFiniteSet(Units(f, top)) /\ Total(f, top) \in Nat
<1>1. IsFiniteSet(1 .. top)
  BY FS_Interval
<1>2. IsFiniteSet(S \X (1 .. top))
  BY <1>1, FS_Product
<1>3. Units(f, top) \subseteq S \X (1 .. top)
  BY DEF Units
<1>4. IsFiniteSet(Units(f, top))
  BY <1>2, <1>3, FS_Subset
<1> QED
  BY <1>4, FS_CardinalityType DEF Total

\* The total of a row is the amount of one entry and what the others have.
LEMMA TotalSplit ==
  ASSUME NEW S, IsFiniteSet(S), NEW top \in Nat, NEW f \in [S -> 0 .. top],
         NEW x \in S
  PROVE  /\ Cardinality(OtherUnits(f, top, x)) \in Nat
         /\ Total(f, top) = Cardinality(OtherUnits(f, top, x)) + f[x]
<1> DEFINE others == OtherUnits(f, top, x)
           column == {x} \X (1 .. f[x])
<1>1. IsFiniteSet(Units(f, top))
  BY TotalType
<1>2. f[x] \in Nat /\ f[x] <= top
  OBVIOUS
<1>3. IsFiniteSet(column) /\ Cardinality(column) = f[x]
  BY <1>2, ColumnSize
<1>4. IsFiniteSet(others)
  <2>1. others \subseteq Units(f, top)
    BY DEF OtherUnits
  <2> QED
    BY <1>1, <2>1, FS_Subset
<1>5. Units(f, top) = others \cup column
  <2>1. ASSUME NEW u \in Units(f, top) PROVE u \in others \cup column
    <3>1. u \in S \X (1 .. top) /\ u[2] <= f[u[1]]
      BY DEF Units
    <3>2. CASE u[1] # x
      BY <3>2 DEF OtherUnits
    <3>3. CASE u[1] = x
      BY <3>1, <3>3, <1>2
    <3> QED
      BY <3>2, <3>3
  <2>2. ASSUME NEW u \in column PROVE u \in Units(f, top)
    BY <1>2 DEF Units
  <2>3. others \subseteq Units(f, top)
    BY DEF OtherUnits
  <2> QED
    BY <2>1, <2>2, <2>3
<1>6. others \cap column = {}
  BY DEF OtherUnits
<1> HIDE DEF others, column
<1>7. Cardinality(others) \in Nat
  BY <1>4, FS_CardinalityType
<1>8. Cardinality(others \cup column)
        = Cardinality(others) + Cardinality(column) - Cardinality(others \cap column)
  BY <1>3, <1>4, FS_Union
<1>9. Cardinality(others \cap column) = 0
  BY <1>6, FS_EmptySet, Zenon
<1>10. Cardinality(others \cup column) = Cardinality(others) + f[x]
  BY <1>2, <1>3, <1>7, <1>8, <1>9
<1>11. Total(f, top) = Cardinality(others) + f[x]
  BY <1>5, <1>10, Zenon DEF Total
<1> QED
  BY <1>7, <1>11 DEF others

\* Two rows that agree but on x have totals that differ as they do on x.
LEMMA TotalWrite ==
  ASSUME NEW S, IsFiniteSet(S), NEW top \in Nat, NEW x \in S,
         NEW f \in [S -> 0 .. top], NEW g \in [S -> 0 .. top],
         \A y \in S : y # x => g[y] = f[y]
  PROVE  Total(g, top) = Total(f, top) - f[x] + g[x]
<1>1. OtherUnits(g, top, x) = OtherUnits(f, top, x)
  BY DEF Units, OtherUnits
<1> DEFINE n == Cardinality(OtherUnits(f, top, x))
<1>2. n \in Nat /\ Total(f, top) = n + f[x]
  BY TotalSplit
<1>3. Total(g, top) = n + g[x]
  BY <1>1, TotalSplit
<1> HIDE DEF n
<1> QED
  BY <1>2, <1>3

\* The same for two rows that agree but on x and y.
LEMMA TotalTwoWrites ==
  ASSUME NEW S, IsFiniteSet(S), NEW top \in Nat, NEW x \in S, NEW y \in S, x # y,
         NEW f \in [S -> 0 .. top], NEW g \in [S -> 0 .. top],
         \A z \in S : z # x /\ z # y => g[z] = f[z]
  PROVE  Total(g, top) = Total(f, top) - f[x] - f[y] + g[x] + g[y]
<1> DEFINE h == [f EXCEPT ![x] = g[x]]
<1>1. /\ h \in [S -> 0 .. top]
      /\ h[x] = g[x] /\ h[y] = f[y]
      /\ \A z \in S : z # x => h[z] = f[z]
      /\ \A z \in S : z # y => g[z] = h[z]
  OBVIOUS
<1> HIDE DEF h
<1>2. Total(h, top) = Total(f, top) - f[x] + h[x]
  BY <1>1, TotalWrite
<1>3. Total(g, top) = Total(h, top) - h[y] + g[y]
  BY <1>1, TotalWrite
<1>4. /\ Total(f, top) \in Nat
      /\ f[x] \in Nat /\ f[y] \in Nat /\ g[x] \in Nat /\ g[y] \in Nat
  BY TotalType
<1> QED
  BY <1>1, <1>2, <1>3, <1>4

\* Two different entries are together at most the total.
LEMMA TotalBoundsPairs ==
  ASSUME NEW S, IsFiniteSet(S), NEW top \in Nat, NEW f \in [S -> 0 .. top],
         NEW x \in S, NEW y \in S, x # y
  PROVE  f[x] + f[y] <= Total(f, top)
<1> DEFINE g == [f EXCEPT ![x] = 0]
<1>1. g \in [S -> 0 .. top] /\ g[x] = 0 /\ \A z \in S : z # x => g[z] = f[z]
  OBVIOUS
<1> HIDE DEF g
<1>2. Total(g, top) = Total(f, top) - f[x] + g[x]
  BY <1>1, TotalWrite
<1> DEFINE n == Cardinality(OtherUnits(g, top, y))
<1>3. n \in Nat /\ Total(g, top) = n + g[y]
  BY <1>1, TotalSplit
<1> HIDE DEF n
<1>4. Total(f, top) \in Nat /\ f[x] \in Nat /\ f[y] \in Nat
  BY TotalType
<1> QED
  BY <1>1, <1>2, <1>3, <1>4

\* An entry is at most the total.
LEMMA TotalBoundsEntry ==
  ASSUME NEW S, IsFiniteSet(S), NEW top \in Nat, NEW f \in [S -> 0 .. top],
         NEW x \in S
  PROVE  f[x] <= Total(f, top)
<1>1. PICK n \in Nat : Total(f, top) = n + f[x]
  BY TotalSplit, Zenon
<1> QED
  BY <1>1

\* A row of zeros has the total zero.
LEMMA TotalOfZeros ==
  ASSUME NEW S, NEW top \in Nat
  PROVE  Total([x \in S |-> 0], top) = 0
<1>1. Units([x \in S |-> 0], top) = {}
  BY DEF Units
<1> QED
  BY <1>1, FS_EmptySet DEF Total
=============================================================================
