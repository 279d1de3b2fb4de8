--------------------------- MODULE TotalsTheorems ---------------------------
(***************************************************************************)
(* Lemmas about totals of amounts: what one changed amount does to a total, *)
(* totals of larger amounts, and the total of the sums of two tables; and  *)
(* about figures: what stands where when rows are put in order, that the   *)
(* median is what the name says, and what shares of a whole add up to.     *)
(***************************************************************************)
EXTENDS Figures, FiniteSetTheorems, TLAPS

LEMMA UnitsOf ==
    ASSUME NEW S, NEW f \in [S -> Nat], NEW u
    PROVE  u \in Units(f) <=> \E x \in S, k \in Nat : u = <<x, k>> /\ 1 <= k /\ k <= f[x]
BY DEF Units

LEMMA RowCount ==
    ASSUME NEW x, NEW n \in Nat
    PROVE  IsFiniteSet({x} \X (1..n)) /\ Cardinality({x} \X (1..n)) = n
  <1> DEFINE one == {x}
             range == 1..n
  <1>1. IsFiniteSet(one) /\ Cardinality(one) = 1
    BY FS_Singleton
  <1>2. IsFiniteSet(range) /\ Cardinality(range) = IF 1 > n THEN 0 ELSE n - 1 + 1
    BY FS_Interval
  <1>3. Cardinality(range) = n
    BY <1>2
  <1> HIDE DEF one, range
  <1>4. IsFiniteSet(one \X range) /\ Cardinality(one \X range) = Cardinality(one) * Cardinality(range)
    BY <1>1, <1>2, FS_Product
  <1>5. Cardinality(one) * Cardinality(range) = n
    BY <1>1, <1>3
  <1> QED
    BY <1>4, <1>5 DEF one, range

LEMMA TotalIsNat ==
    ASSUME NEW S, IsFiniteSet(S), NEW f \in [S -> Nat]
    PROVE  IsFiniteSet(Units(f)) /\ Total(f) \in Nat
  <1> DEFINE row == [x \in S |-> {x} \X (1..f[x])]
             all == {{x} \X (1..f[x]) : x \in S}
  <1>1. row \in Surjection(S, all)
    BY DEF Surjection
  <1>2. IsFiniteSet(all)
    BY <1>1, FS_Surjection
  <1>3. \A T \in all : IsFiniteSet(T)
    <2> TAKE T \in all
    <2>1. PICK x \in S : T = {x} \X (1..f[x])
      OBVIOUS
    <2> QED
      BY <2>1, RowCount
  <1>4. Units(f) = UNION all
    BY DEF Units
  <1> HIDE DEF all
  <1>5. IsFiniteSet(Units(f))
    BY <1>2, <1>3, <1>4, FS_UNION
  <1> QED
    BY <1>5, FS_CardinalityType DEF Total

\* A total, less one of the amounts.
LEMMA TotalWithout ==
    ASSUME NEW S, IsFiniteSet(S), NEW f \in [S -> Nat], NEW x \in S
    PROVE  Total(f) = Total([f EXCEPT ![x] = 0]) + f[x]
  <1> DEFINE g == [f EXCEPT ![x] = 0]
             row == {x} \X (1..f[x])
  <1>1. g \in [S -> Nat]
    OBVIOUS
  <1>a. \A u : u \in row <=> \E k \in Nat : u = <<x, k>> /\ 1 <= k /\ k <= f[x]
    OBVIOUS
  <1>b. \A u : u \in Units(f) <=> \E y \in S, k \in Nat : u = <<y, k>> /\ 1 <= k /\ k <= f[y]
    BY UnitsOf
  <1>c. \A u : u \in Units(g) <=> \E y \in S, k \in Nat : u = <<y, k>> /\ 1 <= k /\ k <= g[y]
    BY <1>1, UnitsOf
  <1>d. \A u : u \in Units(g) <=>
                \E y \in S \ {x}, k \in Nat : u = <<y, k>> /\ 1 <= k /\ k <= f[y]
    <2>1. \A y \in S \ {x} : g[y] = f[y]
      OBVIOUS
    <2>2. g[x] = 0
      OBVIOUS
    <2> HIDE DEF g
    <2> QED
      BY <1>c, <2>1, <2>2
  <1> HIDE DEF g, row
  <1>2. Units(f) = Units(g) \union row
    BY <1>a, <1>b, <1>d
  <1>3. Units(g) \intersect row = {}
    <2>1. \A u \in row : u \notin Units(g)
      <3> SUFFICES ASSUME NEW u \in row, u \in Units(g) PROVE FALSE
        OBVIOUS
      <3>1. PICK k \in Nat : u = <<x, k>>
        BY <1>a
      <3>2. PICK y \in S \ {x}, n \in Nat : u = <<y, n>>
        BY <1>d
      <3> QED
        BY <3>1, <3>2
    <2> QED
      BY <2>1
  <1>4. IsFiniteSet(row) /\ Cardinality(row) = f[x]
    <2>1. f[x] \in Nat
      OBVIOUS
    <2> QED
      BY <2>1, RowCount DEF row
  <1>5. IsFiniteSet(Units(g)) /\ Total(g) \in Nat
    BY <1>1, TotalIsNat
  <1>6. Cardinality(Units(f)) = Cardinality(Units(g)) + Cardinality(row)
                                  - Cardinality(Units(g) \intersect row)
    BY <1>2, <1>4, <1>5, FS_Union
  <1>7. Cardinality(Units(g) \intersect row) = 0
    BY <1>3, FS_EmptySet
  <1>8. Total(f) = Total(g) + f[x]
    BY <1>4, <1>5, <1>6, <1>7 DEF Total
  <1> QED
    BY <1>8 DEF g

\* One amount changes, and the total by as much.
LEMMA TotalChange ==
    ASSUME NEW S, IsFiniteSet(S), NEW f \in [S -> Nat], NEW g \in [S -> Nat], NEW x \in S,
           \A y \in S \ {x} : g[y] = f[y]
    PROVE  Total(g) = Total(f) + g[x] - f[x]
  <1>1. [f EXCEPT ![x] = 0] = [g EXCEPT ![x] = 0]
    OBVIOUS
  <1>2. [f EXCEPT ![x] = 0] \in [S -> Nat]
    OBVIOUS
  <1>3. Total([f EXCEPT ![x] = 0]) \in Nat
    BY <1>2, TotalIsNat
  <1>4. /\ Total(f) = Total([f EXCEPT ![x] = 0]) + f[x]
        /\ Total(g) = Total([g EXCEPT ![x] = 0]) + g[x]
    BY TotalWithout
  <1> QED
    BY <1>1, <1>3, <1>4

LEMMA TotalOfNothing ==
    ASSUME NEW S, NEW f \in [S -> Nat], \A x \in S : f[x] = 0
    PROVE  Total(f) = 0
  <1>1. Units(f) = {}
    BY UnitsOf
  <1> QED
    BY <1>1, FS_EmptySet DEF Total

LEMMA TotalGrows ==
    ASSUME NEW S, IsFiniteSet(S), NEW f \in [S -> Nat], NEW g \in [S -> Nat],
           \A x \in S : f[x] <= g[x]
    PROVE  Total(f) <= Total(g)
  <1>1. Units(f) \subseteq Units(g)
    BY UnitsOf
  <1>2. IsFiniteSet(Units(g))
    BY TotalIsNat
  <1> QED
    BY <1>1, <1>2, FS_Subset DEF Total

\* Two tables added up place by place.
LEMMA TotalOfSums ==
    ASSUME NEW S, IsFiniteSet(S), NEW f \in [S -> Nat], NEW g \in [S -> Nat],
           NEW h \in [S -> Nat], \A x \in S : h[x] = f[x] + g[x]
    PROVE  Total(h) = Total(f) + Total(g)
  <1> DEFINE upper == Units(h) \ Units(f)
             lift == [u \in Units(g) |-> <<u[1], f[u[1]] + u[2]>>]
  <1>1. Units(f) \subseteq Units(h)
    BY UnitsOf
  <1>2. \A u \in Units(g) : \E x \in S, k \in Nat : u = <<x, k>> /\ 1 <= k /\ k <= g[x]
    BY UnitsOf
  <1>3. \A u \in upper : \E x \in S, k \in Nat : /\ u = <<x, f[x] + k>>
                                                   /\ 1 <= k /\ k <= g[x]
    <2> TAKE u \in upper
    <2>1. PICK x \in S, n \in Nat : u = <<x, n>> /\ 1 <= n /\ n <= h[x]
      BY UnitsOf
    <2>2. ~(n <= f[x])
      BY <2>1, UnitsOf
    <2>3. n - f[x] \in Nat /\ 1 <= n - f[x] /\ n - f[x] <= g[x] /\ n = f[x] + (n - f[x])
      BY <2>1, <2>2
    <2> QED
      BY <2>1, <2>3
  <1>4. \A x \in S, k \in Nat : 1 <= k /\ k <= g[x] => /\ <<x, k>> \in Units(g)
                                                       /\ <<x, f[x] + k>> \in upper
    <2> SUFFICES ASSUME NEW x \in S, NEW k \in Nat, 1 <= k, k <= g[x]
                 PROVE  <<x, k>> \in Units(g) /\ <<x, f[x] + k>> \in upper
      OBVIOUS
    <2>1. <<x, k>> \in Units(g)
      BY UnitsOf
    <2>2. <<x, f[x] + k>> \in Units(h)
      BY UnitsOf
    <2>3. <<x, f[x] + k>> \notin Units(f)
      BY UnitsOf
    <2> QED
      BY <2>1, <2>2, <2>3
  <1> HIDE DEF upper
  <1>a. \A x \in S, k \in Nat : <<x, k>>[1] = x /\ <<x, k>>[2] = k
    OBVIOUS
  <1>b. \A x \in S, k \in Nat : 1 <= k /\ k <= g[x] => lift[<<x, k>>] = <<x, f[x] + k>>
    BY <1>4
  <1>5. lift \in [Units(g) -> upper]
    BY <1>2, <1>4
  <1>6. \A u, v \in Units(g) : lift[u] = lift[v] => u = v
    BY <1>2
  <1>7. \A w \in upper : \E u \in Units(g) : lift[u] = w
    <2> TAKE w \in upper
    <2>1. PICK x \in S, k \in Nat : w = <<x, f[x] + k>> /\ 1 <= k /\ k <= g[x]
      BY <1>3
    <2>2. <<x, k>> \in Units(g)
      BY <2>1, <1>4
    <2>3. lift[<<x, k>>] = w
      BY <2>1, <1>b
    <2> HIDE DEF lift
    <2> QED
      BY <2>2, <2>3
  <1>8. ExistsBijection(Units(g), upper)
    <2> HIDE DEF lift
    <2>1. lift \in Surjection(Units(g), upper)
      BY <1>5, <1>7 DEF Surjection
    <2>2. lift \in Injection(Units(g), upper)
      BY <1>5, <1>6 DEF Injection, IsInjective
    <2> QED
      BY <2>1, <2>2 DEF ExistsBijection, Bijection
  <1>9. IsFiniteSet(Units(f)) /\ IsFiniteSet(Units(g)) /\ IsFiniteSet(Units(h))
    BY TotalIsNat
  <1>10. Cardinality(upper) = Cardinality(Units(g))
    BY <1>8, <1>9, FS_Bijection
  <1>11. Cardinality(upper) = Cardinality(Units(h)) - Cardinality(Units(h) \intersect Units(f))
    BY <1>9, FS_Difference DEF upper
  <1>12. Units(h) \intersect Units(f) = Units(f)
    BY <1>1
  <1>13. Total(f) \in Nat /\ Total(g) \in Nat /\ Total(h) \in Nat
    BY TotalIsNat
  <1>14. Cardinality(Units(g)) = Cardinality(Units(h)) - Cardinality(Units(f))
    BY <1>10, <1>11, <1>12
  <1>15. Total(g) = Total(h) - Total(f)
    BY <1>14 DEF Total
  <1> QED
    BY <1>13, <1>15
-----------------------------------------------------------------------------
(* Rows in order.                                                            *)
IsOrder(rows, before) ==
    /\ \A x \in rows : <<x, x>> \in before
    /\ \A x, y \in rows : <<x, y>> \in before \/ <<y, x>> \in before
    /\ \A x, y \in rows : <<x, y>> \in before /\ <<y, x>> \in before => x = y
    /\ \A x, y, z \in rows : <<x, y>> \in before /\ <<y, z>> \in before => <<x, z>> \in before

LEMMA RankBounds ==
    ASSUME NEW rows, IsFiniteSet(rows), NEW before, IsOrder(rows, before), NEW x \in rows
    PROVE  Rank(rows, before, x) \in 1..Cardinality(rows)
  <1> DEFINE upTo == {y \in rows : <<y, x>> \in before}
  <1>1. upTo \subseteq rows /\ x \in upTo
    BY DEF IsOrder
  <1>2. IsFiniteSet(upTo) /\ Cardinality(upTo) <= Cardinality(rows)
    BY <1>1, FS_Subset
  <1>3. Cardinality(upTo) # 0
    BY <1>1, <1>2, FS_EmptySet
  <1>4. Cardinality(upTo) \in Nat /\ Cardinality(rows) \in Nat
    BY <1>2, FS_CardinalityType
  <1> HIDE DEF upTo
  <1>5. Cardinality(upTo) \in 1..Cardinality(rows)
    BY <1>2, <1>3, <1>4
  <1> QED
    BY <1>5 DEF Rank, upTo

LEMMA RankGrows ==
    ASSUME NEW rows, IsFiniteSet(rows), NEW before, IsOrder(rows, before),
           NEW x \in rows, NEW y \in rows, <<x, y>> \in before, x # y
    PROVE  Rank(rows, before, x) < Rank(rows, before, y)
  <1> DEFINE low == {z \in rows : <<z, x>> \in before}
             high == {z \in rows : <<z, y>> \in before}
  <1>1. low \subseteq high /\ y \in high /\ y \notin low
    BY DEF IsOrder
  <1>2. IsFiniteSet(high)
    BY FS_Subset
  <1>3. Cardinality(low) <= Cardinality(high) /\ Cardinality(low) # Cardinality(high)
    BY <1>1, <1>2, FS_Subset
  <1>4. Cardinality(low) \in Nat /\ Cardinality(high) \in Nat
    BY <1>1, <1>2, FS_Subset, FS_CardinalityType
  <1> HIDE DEF low, high
  <1>5. Cardinality(low) < Cardinality(high)
    BY <1>3, <1>4
  <1> QED
    BY <1>5 DEF Rank, low, high

\* Every row has its place, and the rows stand in the order of their places.
LEMMA OrderedRows ==
    ASSUME NEW rows, IsFiniteSet(rows), NEW before, IsOrder(rows, before)
    PROVE  LET n == Cardinality(rows)
               order == InOrder(rows, before)
           IN  /\ n \in Nat /\ order \in Bijection(1..n, rows)
               /\ \A k \in 1..n : Rank(rows, before, order[k]) = k
               /\ \A k, l \in 1..n : k <= l => <<order[k], order[l]>> \in before
  <1> DEFINE n == Cardinality(rows)
             order == InOrder(rows, before)
             rank == [x \in rows |-> Rank(rows, before, x)]
  <1>1. n \in Nat
    BY FS_CardinalityType
  <1>2. rank \in Injection(rows, 1..n)
    <2>1. rank \in [rows -> 1..n]
      BY RankBounds
    <2>2. ASSUME NEW x \in rows, NEW y \in rows, x # y PROVE rank[x] # rank[y]
      <3>1. <<x, y>> \in before \/ <<y, x>> \in before
        BY DEF IsOrder
      <3>2. rank[x] < rank[y] \/ rank[y] < rank[x]
        BY <2>2, <3>1, RankGrows
      <3>3. rank[x] \in Nat /\ rank[y] \in Nat
        BY <1>1, RankBounds
      <3> HIDE DEF rank
      <3> QED
        BY <3>2, <3>3
    <2> QED
      BY <2>1, <2>2 DEF Injection, IsInjective
  <1>3. IsFiniteSet(1..n) /\ Cardinality(1..n) = n
    BY <1>1, FS_Interval
  <1>4. rank \in Surjection(rows, 1..n)
    BY <1>2, <1>3, FS_Injection
  <1>5. \A k \in 1..n : order[k] \in rows /\ Rank(rows, before, order[k]) = k
    <2> TAKE k \in 1..n
    <2>1. \E x \in rows : Rank(rows, before, x) = k
      BY <1>4 DEF Surjection
    <2>2. order[k] = CHOOSE x \in rows : Rank(rows, before, x) = k
      BY DEF InOrder
    <2> QED
      BY <2>1, <2>2
  <1>6. order \in Bijection(1..n, rows)
    <2>1. order \in [1..n -> rows]
      BY <1>5 DEF InOrder
    <2>2. order \in Injection(1..n, rows)
      BY <1>5, <2>1 DEF Injection, IsInjective
    <2>3. \A x \in rows : rank[x] \in 1..n /\ order[rank[x]] = x
      BY <1>2, <1>5 DEF Injection, IsInjective
    <2>4. order \in Surjection(1..n, rows)
      BY <2>1, <2>3 DEF Surjection
    <2> QED
      BY <2>2, <2>4 DEF Bijection
  <1>7. ASSUME NEW k \in 1..n, NEW l \in 1..n, k <= l PROVE <<order[k], order[l]>> \in before
    <2> SUFFICES ASSUME <<order[k], order[l]>> \notin before PROVE FALSE
      OBVIOUS
    <2>1. order[k] \in rows /\ order[l] \in rows
      BY <1>5
    <2>2. <<order[l], order[k]>> \in before /\ order[l] # order[k]
      BY <2>1 DEF IsOrder
    <2>3. Rank(rows, before, order[l]) < Rank(rows, before, order[k])
      BY <2>1, <2>2, RankGrows
    <2>4. l < k
      BY <1>5, <2>3
    <2> QED
      BY <1>1, <1>7, <2>4
  <1> QED
    BY <1>1, <1>5, <1>6, <1>7

\* There is one k-th value.
LEMMA KthIs ==
    ASSUME NEW S, IsFiniteSet(S), NEW table \in [S -> Nat], NEW k \in Nat, NEW x \in S,
           Cardinality({i \in S : table[i] < table[x]}) < k,
           Cardinality({i \in S : table[i] <= table[x]}) >= k
    PROVE  Kth(table, k) = table[x]
  <1> DEFINE below(v) == {i \in S : table[i] < v}
             upTo(v) == {i \in S : table[i] <= v}
             middle(v) == Cardinality(below(v)) < k /\ Cardinality(upTo(v)) >= k
             values == {table[i] : i \in S}
  <1>1. Kth(table, k) = CHOOSE v \in values : middle(v)
    BY DEF Kth
  <1>2. table[x] \in values /\ middle(table[x])
    OBVIOUS
  <1>3. \A v \in Nat : /\ IsFiniteSet(below(v)) /\ IsFiniteSet(upTo(v))
                       /\ Cardinality(below(v)) \in Nat /\ Cardinality(upTo(v)) \in Nat
    BY FS_Subset, FS_CardinalityType
  <1>4. ASSUME NEW v \in Nat, NEW w \in Nat, middle(v), middle(w) PROVE ~(v < w)
    <2> SUFFICES ASSUME v < w PROVE FALSE
      OBVIOUS
    <2>1. upTo(v) \subseteq below(w)
      OBVIOUS
    <2>2. Cardinality(upTo(v)) <= Cardinality(below(w))
      BY <1>3, <2>1, FS_Subset
    <2> HIDE DEF below, upTo
    <2> QED
      BY <1>3, <1>4, <2>2
  <1>5. \A v \in values : v \in Nat
    OBVIOUS
  <1> HIDE DEF middle, values
  <1>6. \A v \in values : middle(v) => v = table[x]
    BY <1>2, <1>4, <1>5
  <1> QED
    BY <1>1, <1>2, <1>6

\* Sorting puts the values in the order of their size.
LEMMA SortedValues ==
    ASSUME NEW n \in Nat, NEW values \in [1..n -> Nat]
    PROVE  /\ Sorted(values) \in [1..n -> Nat]
           /\ \A k \in 1..n : \E x \in 1..n :
                 /\ Sorted(values)[k] = values[x]
                 /\ Cardinality({i \in 1..n : values[i] < values[x]}) < k
                 /\ Cardinality({i \in 1..n : values[i] <= values[x]}) >= k
  <1> DEFINE places == 1..n
             before == {p \in places \X places :
                           \/ values[p[1]] < values[p[2]]
                           \/ values[p[1]] = values[p[2]] /\ p[1] <= p[2]}
             order == InOrder(places, before)
  <1>1. IsFiniteSet(places) /\ Cardinality(places) = n
    BY FS_Interval
  <1>2. \A i, j \in places : <<i, j>> \in before <=>
            \/ values[i] < values[j]
            \/ values[i] = values[j] /\ i <= j
    OBVIOUS
  <1>3. IsOrder(places, before)
    <2>1. \A i \in places : values[i] \in Nat /\ i \in Nat
      OBVIOUS
    <2> HIDE DEF before, places
    <2>2. ASSUME NEW x \in places, NEW y \in places
          PROVE  <<x, y>> \in before \/ <<y, x>> \in before
      BY <1>2, <2>1
    <2>3. ASSUME NEW x \in places, NEW y \in places, <<x, y>> \in before, <<y, x>> \in before
          PROVE  x = y
      BY <1>2, <2>1, <2>3
    <2>4. ASSUME NEW x \in places, NEW y \in places, NEW z \in places,
                 <<x, y>> \in before, <<y, z>> \in before
          PROVE  <<x, z>> \in before
      <3>1. /\ values[x] < values[y] \/ (values[x] = values[y] /\ x <= y)
            /\ values[y] < values[z] \/ (values[y] = values[z] /\ y <= z)
        BY <1>2, <2>4
      <3>2. values[x] < values[z] \/ (values[x] = values[z] /\ x <= z)
        BY <2>1, <3>1
      <3> QED
        BY <1>2, <3>2
    <2>5. \A x \in places : <<x, x>> \in before
      BY <2>2
    <2> QED
      BY <2>2, <2>3, <2>4, <2>5 DEF IsOrder
  <1>4. /\ order \in Bijection(1..n, places)
        /\ \A k \in 1..n : Rank(places, before, order[k]) = k
    <2> HIDE DEF before, places
    <2> QED
      BY <1>1, <1>3, OrderedRows
  <1>5. order \in [1..n -> places]
    BY <1>4 DEF Bijection, Injection
  <1>6. Sorted(values) = [k \in 1..n |-> values[order[k]]]
    <2>1. DOMAIN values = places
      OBVIOUS
    <2>2. DOMAIN order = 1..n
      BY <1>5
    <2> QED
      BY <2>1, <2>2 DEF Sorted
  <1>7. ASSUME NEW k \in 1..n
        PROVE  /\ Cardinality({i \in places : values[i] < values[order[k]]}) < k
               /\ Cardinality({i \in places : values[i] <= values[order[k]]}) >= k
    <2> DEFINE x == order[k]
               upTo == {i \in places : <<i, x>> \in before}
               below == {i \in places : values[i] < values[x]}
               notAbove == {i \in places : values[i] <= values[x]}
    <2>1. x \in places /\ \A i \in places : values[i] \in Nat
      BY <1>5
    <2>2. Cardinality(upTo) = k
      BY <1>4 DEF Rank
    <2> HIDE DEF before, x, places
    <2>3. /\ below \subseteq upTo /\ x \in upTo /\ x \notin below
          /\ upTo \subseteq notAbove
      <3>1. ASSUME NEW i \in places PROVE <<i, x>> \in before <=>
                values[i] < values[x] \/ (values[i] = values[x] /\ i <= x)
        BY <1>2, <2>1
      <3>2. ASSUME NEW i \in below PROVE i \in upTo
        BY <3>1
      <3>3. ASSUME NEW i \in upTo PROVE i \in notAbove
        BY <2>1, <3>1
      <3>4. x \in upTo
        BY <2>1, <3>1 DEF places
      <3>5. x \notin below
        BY <2>1
      <3> QED
        BY <3>2, <3>3, <3>4, <3>5
    <2>4. IsFiniteSet(upTo) /\ IsFiniteSet(notAbove) /\ IsFiniteSet(below)
      BY <1>1, FS_Subset
    <2> HIDE DEF upTo, below, notAbove
    <2>5. Cardinality(below) <= k /\ Cardinality(below) # k /\ k <= Cardinality(notAbove)
      BY <2>2, <2>3, <2>4, FS_Subset
    <2>6. Cardinality(below) \in Nat /\ Cardinality(notAbove) \in Nat
      BY <2>4, FS_CardinalityType
    <2>7. Cardinality(below) < k /\ Cardinality(notAbove) >= k
      BY <2>5, <2>6
    <2> QED
      BY <2>7 DEF below, notAbove, x
  <1> HIDE DEF order
  <1> QED
    BY <1>5, <1>6, <1>7

\* The median of the statistics bot (CalculateMedian), for every list of numbers:
\* the middle value, or the mean of the two, of the table that the list was read
\* from, in whatever order.
THEOREM MedianIsMedian ==
    ASSUME NEW S, IsFiniteSet(S), NEW n \in Nat, NEW f \in Bijection(1..n, S)
    PROVE  \A table \in [S -> Nat], values \in [1..n -> Nat] :
              (\A k \in 1..n : values[k] = table[f[k]]) => CalculateMedian(values) = Median(table)
  <1> SUFFICES ASSUME NEW table \in [S -> Nat], NEW values \in [1..n -> Nat],
                      \A k \in 1..n : values[k] = table[f[k]]
               PROVE  CalculateMedian(values) = Median(table)
    OBVIOUS
  <1>1. IsFiniteSet(1..n) /\ Cardinality(1..n) = n
    BY FS_Interval
  <1>2. Cardinality(S) = n
    BY <1>1, FS_Bijection DEF ExistsBijection
  <1>3. /\ f \in [1..n -> S]
        /\ \A i, j \in 1..n : f[i] = f[j] => i = j
        /\ \A x \in S : \E i \in 1..n : f[i] = x
    BY DEF Bijection, Injection, Surjection, IsInjective
  <1>4. ASSUME NEW T \in SUBSET (1..n), NEW U \in SUBSET S, \A i \in 1..n : i \in T <=> f[i] \in U
        PROVE  Cardinality(T) = Cardinality(U)
    <2> DEFINE g == [i \in T |-> f[i]]
    <2>1. g \in Bijection(T, U)
      <3>1. g \in [T -> U]
        BY <1>3, <1>4
      <3>2. \A i, j \in T : g[i] = g[j] => i = j
        BY <1>3
      <3>3. \A x \in U : \E i \in T : g[i] = x
        BY <1>3, <1>4
      <3> QED
        BY <3>1, <3>2, <3>3 DEF Bijection, Injection, Surjection, IsInjective
    <2>2. IsFiniteSet(T)
      BY <1>1, FS_Subset
    <2> QED
      BY <2>1, <2>2, FS_Bijection DEF ExistsBijection
  <1>5. ASSUME NEW k \in 1..n PROVE Kth(table, k) = Sorted(values)[k] /\ Sorted(values)[k] \in Nat
    <2>1. PICK x \in 1..n : /\ Sorted(values)[k] = values[x]
                            /\ Cardinality({i \in 1..n : values[i] < values[x]}) < k
                            /\ Cardinality({i \in 1..n : values[i] <= values[x]}) >= k
      BY SortedValues
    <2>2. f[x] \in S /\ values[x] = table[f[x]]
      BY <1>3
    <2>3. Cardinality({i \in 1..n : values[i] < values[x]}) = Cardinality({i \in S : table[i] < table[f[x]]})
      BY <1>3, <1>4
    <2>4. Cardinality({i \in 1..n : values[i] <= values[x]}) = Cardinality({i \in S : table[i] <= table[f[x]]})
      BY <1>3, <1>4
    <2>5. Kth(table, k) = table[f[x]]
      <3> DEFINE y == f[x]
      <3>1. /\ y \in S
            /\ Cardinality({i \in S : table[i] < table[y]}) < k
            /\ Cardinality({i \in S : table[i] <= table[y]}) >= k
        BY <2>1, <2>2, <2>3, <2>4
      <3>2. k \in Nat
        OBVIOUS
      <3> HIDE DEF y
      <3>3. Kth(table, k) = table[y]
        BY <3>1, <3>2, KthIs
      <3> QED
        BY <3>3 DEF y
    <2> QED
      BY <2>1, <2>2, <2>5
  <1>6. DOMAIN table = S /\ Len(values) = n
    OBVIOUS
  <1>7. CASE n = 0
    BY <1>2, <1>6, <1>7 DEF CalculateMedian, Median
  <1>8. CASE n # 0 /\ n % 2 = 0
    <2>1. /\ n \div 2 \in 1..n /\ n \div 2 + 1 \in 1..n /\ (n + 1) \div 2 = n \div 2
      BY <1>8
    <2> QED
      BY <1>2, <1>5, <1>6, <1>8, <2>1 DEF CalculateMedian, Median
  <1>9. CASE n % 2 # 0
    <2>1. n # 0 /\ n \div 2 + 1 \in 1..n /\ (n + 1) \div 2 = n \div 2 + 1
      BY <1>9
    <2>2. \A v \in Nat : (v + v) \div 2 = v
      OBVIOUS
    <2> QED
      BY <1>2, <1>5, <1>6, <1>9, <2>1, <2>2 DEF CalculateMedian, Median
  <1> QED
    BY <1>7, <1>8, <1>9

\* The median is a number, and one of positive numbers is positive.
LEMMA MedianIsNat ==
    ASSUME NEW n \in Nat, n # 0, NEW values \in [1..n -> Nat]
    PROVE  /\ CalculateMedian(values) \in Nat
           /\ (\A i \in 1..n : values[i] # 0) => CalculateMedian(values) # 0
  <1> DEFINE low == IF \A i \in 1..n : values[i] # 0 THEN 1 ELSE 0
  <1>1. Len(values) = n
    OBVIOUS
  <1>2. \A k \in 1..n : Sorted(values)[k] \in Nat /\ Sorted(values)[k] >= low
    <2> TAKE k \in 1..n
    <2>1. PICK x \in 1..n : /\ Sorted(values)[k] = values[x]
                            /\ Cardinality({i \in 1..n : values[i] < values[x]}) < k
                            /\ Cardinality({i \in 1..n : values[i] <= values[x]}) >= k
      BY SortedValues
    <2> QED
      BY <2>1
  <1>a. \A v, w \in Nat : (v + w) \div 2 \in Nat /\ (v >= low /\ w >= low => (v + w) \div 2 >= low)
    OBVIOUS
  <1> HIDE DEF low
  <1>b. CalculateMedian(values) = IF n % 2 = 0
            THEN (Sorted(values)[n \div 2] + Sorted(values)[n \div 2 + 1]) \div 2
            ELSE Sorted(values)[n \div 2 + 1]
    BY <1>1 DEF CalculateMedian
  <1>3. ASSUME n % 2 = 0 PROVE CalculateMedian(values) \in Nat /\ CalculateMedian(values) >= low
    <2>1. n \div 2 \in 1..n /\ n \div 2 + 1 \in 1..n
      BY <1>3
    <2> QED
      BY <1>2, <1>3, <1>a, <1>b, <2>1
  <1>4. ASSUME n % 2 # 0 PROVE CalculateMedian(values) \in Nat /\ CalculateMedian(values) >= low
    <2>1. n \div 2 + 1 \in 1..n
      BY <1>4
    <2> QED
      BY <1>2, <1>4, <1>b, <2>1
  <1>5. CalculateMedian(values) \in Nat /\ CalculateMedian(values) >= low
    BY <1>3, <1>4
  <1> QED
    BY <1>5 DEF low

\* Nothing is lost by passing over rows: the places stay in their order.
LEMMA PassingPlaces ==
    ASSUME NEW places \in SUBSET Nat, IsFiniteSet(places), NEW s
    PROVE  LET n == Cardinality(places)
           IN  /\ n \in Nat
               /\ \E order \in Bijection(1..n, places) :
                     /\ Passing(s, places) = [k \in 1..n |-> s[order[k]]]
                     /\ \A k, l \in 1..n : k <= l => order[k] <= order[l]
  <1> DEFINE before == {p \in places \X places : p[1] <= p[2]}
             order == InOrder(places, before)
             n == Cardinality(places)
  <1>1. \A i, j \in places : <<i, j>> \in before <=> i <= j
    OBVIOUS
  <1>2. \A i \in places : i \in Nat
    OBVIOUS
  <1>3. IsOrder(places, before)
    <2> HIDE DEF before
    <2> QED
      BY <1>1, <1>2 DEF IsOrder
  <1>4. /\ n \in Nat /\ order \in Bijection(1..n, places)
        /\ \A k, l \in 1..n : k <= l => <<order[k], order[l]>> \in before
    <2> HIDE DEF before
    <2> QED
      BY <1>3, OrderedRows
  <1>5. order \in [1..n -> places]
    BY <1>4 DEF Bijection, Injection
  <1>6. Passing(s, places) = [k \in 1..n |-> s[order[k]]]
    <2>1. DOMAIN order = 1..n
      BY <1>5
    <2> QED
      BY <2>1 DEF Passing
  <1>7. \A k, l \in 1..n : k <= l => order[k] <= order[l]
    <2> HIDE DEF before, order
    <2> QED
      BY <1>1, <1>4, <1>5
  <1> HIDE DEF order
  <1> QED
    BY <1>4, <1>6, <1>7
-----------------------------------------------------------------------------
(* Means and shares.                                                         *)
LEMMA TotalOfOnes ==
    ASSUME NEW n \in Nat
    PROVE  Total([i \in 1..n |-> 1]) = n
  <1> DEFINE ones == [i \in 1..n |-> 1]
             lift == [i \in 1..n |-> <<i, 1>>]
  <1>1. \A u : u \in Units(ones) <=> \E x \in 1..n : u = <<x, 1>>
    <2>1. \A u : u \in Units(ones) <=> \E x \in 1..n, k \in Nat : u = <<x, k>> /\ 1 <= k /\ k <= ones[x]
      BY UnitsOf
    <2>2. \A x \in 1..n, k \in Nat : 1 <= k /\ k <= ones[x] <=> k = 1
      OBVIOUS
    <2> HIDE DEF ones
    <2> QED
      BY <2>1, <2>2
  <1> HIDE DEF ones
  <1>2. lift \in Surjection(1..n, Units(ones))
    BY <1>1 DEF Surjection
  <1>3. lift \in Injection(1..n, Units(ones))
    BY <1>1 DEF Injection, IsInjective
  <1>4. IsFiniteSet(1..n) /\ Cardinality(1..n) = n
    BY FS_Interval
  <1>5. Cardinality(Units(ones)) = n
    <2> HIDE DEF lift
    <2> QED
      BY <1>2, <1>3, <1>4, FS_Bijection DEF ExistsBijection, Bijection
  <1> QED
    BY <1>5 DEF Total, ones

\* The total does not depend on what the rows are called.
LEMMA TotalOfRenamed ==
    ASSUME NEW S, NEW T, IsFiniteSet(T), NEW f \in Bijection(T, S)
    PROVE  \A table \in [S -> Nat], values \in [T -> Nat] :
              (\A k \in T : values[k] = table[f[k]]) => Total(values) = Total(table)
  <1> SUFFICES ASSUME NEW table \in [S -> Nat], NEW values \in [T -> Nat],
                      \A k \in T : values[k] = table[f[k]]
               PROVE  Total(values) = Total(table)
    OBVIOUS
  <1> DEFINE g == [u \in Units(values) |-> <<f[u[1]], u[2]>>]
  <1>1. /\ f \in [T -> S]
        /\ \A i, j \in T : f[i] = f[j] => i = j
        /\ \A x \in S : \E i \in T : f[i] = x
    BY DEF Bijection, Injection, Surjection, IsInjective
  <1>2. \A u : u \in Units(values) <=> \E x \in T, k \in Nat : u = <<x, k>> /\ 1 <= k /\ k <= values[x]
    BY UnitsOf
  <1>3. \A u : u \in Units(table) <=> \E x \in S, k \in Nat : u = <<x, k>> /\ 1 <= k /\ k <= table[x]
    BY UnitsOf
  <1>4. \A x \in T, k \in Nat : <<x, k>> \in Units(values) =>
            g[<<x, k>>] = <<f[x], k>> /\ g[<<x, k>>] \in Units(table)
    <2> SUFFICES ASSUME NEW x \in T, NEW k \in Nat, <<x, k>> \in Units(values)
                 PROVE  g[<<x, k>>] = <<f[x], k>> /\ g[<<x, k>>] \in Units(table)
      OBVIOUS
    <2>1. 1 <= k /\ k <= values[x]
      BY <1>2
    <2>2. <<f[x], k>> \in Units(table)
      BY <1>1, <1>3, <2>1
    <2>3. g[<<x, k>>] = <<f[x], k>>
      OBVIOUS
    <2> QED
      BY <2>2, <2>3
  <1>5. g \in [Units(values) -> Units(table)]
    BY <1>2, <1>4
  <1>6. \A u, v \in Units(values) : g[u] = g[v] => u = v
    BY <1>1, <1>2, <1>4
  <1>7. \A w \in Units(table) : \E u \in Units(values) : g[u] = w
    <2> TAKE w \in Units(table)
    <2>1. PICK x \in S, k \in Nat : w = <<x, k>> /\ 1 <= k /\ k <= table[x]
      BY <1>3
    <2>2. PICK i \in T : f[i] = x
      BY <1>1
    <2>3. <<i, k>> \in Units(values)
      BY <1>2, <2>1, <2>2
    <2>4. g[<<i, k>>] = w
      BY <1>4, <2>1, <2>2, <2>3
    <2> HIDE DEF g
    <2> QED
      BY <2>3, <2>4
  <1> HIDE DEF g
  <1>8. ExistsBijection(Units(values), Units(table))
    <2>1. g \in Surjection(Units(values), Units(table))
      BY <1>5, <1>7 DEF Surjection
    <2>2. g \in Injection(Units(values), Units(table))
      BY <1>5, <1>6 DEF Injection, IsInjective
    <2> QED
      BY <2>1, <2>2 DEF ExistsBijection, Bijection
  <1>9. IsFiniteSet(Units(values))
    BY TotalIsNat
  <1> QED
    BY <1>8, <1>9, FS_Bijection DEF Total

\* The mean, for every list of numbers that comes from a table in some order.
LEMMA AverageIsMean ==
    ASSUME NEW S, IsFiniteSet(S), NEW n \in Nat, NEW f \in Bijection(1..n, S)
    PROVE  \A table \in [S -> Nat], values \in [1..n -> Nat] :
              (\A k \in 1..n : values[k] = table[f[k]]) => Average(values) = Mean(table)
  <1> SUFFICES ASSUME NEW table \in [S -> Nat], NEW values \in [1..n -> Nat],
                      \A k \in 1..n : values[k] = table[f[k]]
               PROVE  Average(values) = Mean(table)
    OBVIOUS
  <1>1. IsFiniteSet(1..n) /\ Cardinality(1..n) = n
    BY FS_Interval
  <1>2. Cardinality(S) = n
    BY <1>1, FS_Bijection DEF ExistsBijection
  <1>3. Total(values) = Total(table)
    <2> DEFINE T == 1..n
    <2>1. f \in Bijection(T, S) /\ values \in [T -> Nat] /\ \A k \in T : values[k] = table[f[k]]
      OBVIOUS
    <2> HIDE DEF T
    <2>2. IsFiniteSet(T)
      BY <1>1 DEF T
    <2> QED
      BY <2>1, <2>2, TotalOfRenamed
  <1>4. Len(values) = n /\ DOMAIN table = S
    OBVIOUS
  <1> QED
    BY <1>2, <1>3, <1>4 DEF Average, Mean

\* The mean is a number, and one of positive numbers is positive.
LEMMA AverageIsNat ==
    ASSUME NEW n \in Nat, n # 0, NEW values \in [1..n -> Nat]
    PROVE  /\ Average(values) \in Nat
           /\ (\A i \in 1..n : values[i] # 0) => Average(values) # 0
  <1>1. IsFiniteSet(1..n) /\ Len(values) = n
    BY FS_Interval
  <1>2. Total(values) \in Nat
    BY <1>1, TotalIsNat
  <1>3. (\A i \in 1..n : values[i] # 0) => n <= Total(values)
    <2> SUFFICES ASSUME \A i \in 1..n : values[i] # 0 PROVE n <= Total(values)
      OBVIOUS
    <2>1. [i \in 1..n |-> 1] \in [1..n -> Nat]
      OBVIOUS
    <2>2. Total([i \in 1..n |-> 1]) <= Total(values)
      BY <1>1, <2>1, TotalGrows
    <2> QED
      BY <2>2, TotalOfOnes
  <1>4. \A a \in Nat : a \div n \in Nat /\ (n <= a => a \div n # 0)
    OBVIOUS
  <1> QED
    BY <1>1, <1>2, <1>3, <1>4 DEF Average

\* Of finitely many numbers there is a least.
LEMMA Least ==
    ASSUME NEW T \in SUBSET Nat, IsFiniteSet(T), T # {}
    PROVE  \E x \in T : \A y \in T : x <= y
  <1> DEFINE n == Cardinality(T)
  <1>1. PICK order \in Bijection(1..n, T) : \A k, l \in 1..n : k <= l => order[k] <= order[l]
    BY PassingPlaces
  <1>2. n \in Nat /\ n # 0
    BY FS_CardinalityType, FS_EmptySet
  <1> HIDE DEF n
  <1>3. /\ order \in [1..n -> T]
        /\ \A y \in T : \E k \in 1..n : order[k] = y
    BY DEF Bijection, Injection, Surjection
  <1>4. 1 \in 1..n /\ \A k \in 1..n : 1 <= k
    BY <1>2
  <1>5. order[1] \in T /\ \A k \in 1..n : order[1] <= order[k]
    BY <1>1, <1>3, <1>4
  <1> QED
    BY <1>3, <1>5

\* Induction, about a set of numbers: what holds of 0 and of each next one.
LEMMA AllNumbers ==
    ASSUME NEW T, 0 \in T, \A n \in Nat : n \in T => n + 1 \in T
    PROVE  Nat \subseteq T
  <1> SUFFICES ASSUME NEW n \in Nat, n \notin T PROVE FALSE
    OBVIOUS
  <1> DEFINE out == {m \in 0..n : m \notin T}
  <1>1. IsFiniteSet(out)
    <2>1. IsFiniteSet(0..n)
      BY FS_Interval
    <2> QED
      BY <2>1, FS_Subset
  <1>2. out \in SUBSET Nat /\ n \in out
    OBVIOUS
  <1>3. PICK x \in out : \A y \in out : x <= y
    BY <1>1, <1>2, Least
  <1>4. x # 0 /\ x \in Nat /\ x <= n
    OBVIOUS
  <1>5. x - 1 \in 0..n /\ ~(x <= x - 1)
    BY <1>4
  <1>6. x - 1 \in T
    BY <1>3, <1>5
  <1>7. x \in T
    <2>1. x - 1 \in Nat /\ (x - 1) + 1 = x
      BY <1>4
    <2> QED
      BY <1>6, <2>1
  <1> QED
    BY <1>7

\* Every amount multiplied.
LEMMA TotalOfMultiples ==
    ASSUME NEW S, IsFiniteSet(S), NEW f \in [S -> Nat], NEW c \in Nat
    PROVE  Total([x \in S |-> f[x] * c]) = Total(f) * c
  <1> DEFINE times(n) == [x \in S |-> f[x] * n]
             T == {n \in Nat : Total(times(n)) = Total(f) * n}
  <1>a. Total(f) \in Nat
    BY TotalIsNat
  <1>b. \A n \in Nat : times(n) \in [S -> Nat]
    OBVIOUS
  <1>1. 0 \in T
    <2>1. \A x \in S : times(0)[x] = 0
      OBVIOUS
    <2>2. Total(times(0)) = 0
      BY <1>b, <2>1, TotalOfNothing
    <2> QED
      BY <1>a, <2>2
  <1>2. ASSUME NEW n \in Nat, n \in T PROVE n + 1 \in T
    <2>1. \A x \in S : times(n + 1)[x] = times(n)[x] + f[x]
      OBVIOUS
    <2>2. times(n) \in [S -> Nat] /\ times(n + 1) \in [S -> Nat]
      BY <1>b
    <2>3. Total(times(n)) = Total(f) * n
      BY <1>2
    <2> HIDE DEF times
    <2>4. Total(times(n + 1)) = Total(times(n)) + Total(f)
      BY <2>1, <2>2, TotalOfSums
    <2>5. Total(f) * n + Total(f) = Total(f) * (n + 1)
      BY <1>a
    <2> QED
      BY <2>3, <2>4, <2>5
  <1> HIDE DEF times
  <1>3. Nat \subseteq T
    <2> HIDE DEF T
    <2> QED
      BY <1>1, <1>2, AllNumbers
  <1> QED
    BY <1>3 DEF times

\* One more of everything.
LEMMA TotalOfSuccessors ==
    ASSUME NEW n \in Nat, NEW f \in [1..n -> Nat], NEW g \in [1..n -> Nat],
           \A i \in 1..n : g[i] = f[i] + 1
    PROVE  Total(g) = Total(f) + n
  <1> DEFINE S == 1..n
             ones == [i \in S |-> 1]
  <1>1. IsFiniteSet(S)
    BY FS_Interval
  <1>2. /\ f \in [S -> Nat] /\ g \in [S -> Nat] /\ ones \in [S -> Nat]
        /\ \A i \in S : g[i] = f[i] + ones[i]
    OBVIOUS
  <1>3. Total(ones) = n
    BY TotalOfOnes
  <1> HIDE DEF S, ones
  <1>4. \A a, b, c \in [S -> Nat] :
            (\A x \in S : c[x] = a[x] + b[x]) => Total(c) = Total(a) + Total(b)
    BY <1>1, TotalOfSums
  <1>5. Total(g) = Total(f) + Total(ones)
    BY <1>2, <1>4
  <1> QED
    BY <1>3, <1>5

\* Shares in parts of a whole, truncated, as those of the languages are
\* (parseLanguagesStats): they do not add up to more than the whole, and each
\* lacks less than one part of it.
THEOREM SharesOfWhole ==
    ASSUME NEW n \in Nat, NEW amounts \in [1..n -> Nat], Total(amounts) # 0,
           NEW whole \in Nat, NEW shares \in [1..n -> Nat],
           \A i \in 1..n : shares[i] = (amounts[i] * whole) \div Total(amounts)
    PROVE  Total(shares) <= whole /\ Total(shares) + n > whole
  <1> DEFINE S == 1..n
             t == Total(amounts)
             parts == [i \in S |-> shares[i] * t]
             wholes == [i \in S |-> amounts[i] * whole]
             more == [i \in S |-> wholes[i] + 1]
             upper == [i \in S |-> shares[i] + 1]
             above == [i \in S |-> upper[i] * t]
  <1>1. IsFiniteSet(S) /\ amounts \in [S -> Nat] /\ shares \in [S -> Nat]
    <2>1. IsFiniteSet(S)
      BY FS_Interval
    <2>2. amounts \in [S -> Nat] /\ shares \in [S -> Nat]
      OBVIOUS
    <2> QED
      BY <2>1, <2>2
  <1>2. t \in Nat /\ t # 0
    BY <1>1, TotalIsNat
  <1>3. Total(shares) \in Nat
    BY <1>1, TotalIsNat
  <1>a. \A a, b \in Nat : a * b \in Nat
    OBVIOUS
  <1>5. \A i \in S : shares[i] = wholes[i] \div t
    OBVIOUS
  <1> HIDE DEF S, t
  <1>6. wholes \in [S -> Nat] /\ parts \in [S -> Nat]
    BY <1>1, <1>2, <1>a
  <1>7. upper \in [S -> Nat] /\ \A i \in S : upper[i] = shares[i] + 1
    BY <1>1
  <1>8. more \in [S -> Nat] /\ \A i \in S : more[i] = wholes[i] + 1
    BY <1>6
  <1>9. above \in [S -> Nat]
    BY <1>2, <1>7, <1>a
  <1>11. \A i \in S : parts[i] <= wholes[i] /\ more[i] <= above[i]
    <2> TAKE i \in S
    <2> DEFINE a == wholes[i]
               q == shares[i]
    <2>1. a \in Nat /\ q \in Nat /\ q = a \div t
      BY <1>1, <1>5, <1>6
    <2>2. parts[i] = q * t /\ more[i] = a + 1 /\ above[i] = (q + 1) * t
      OBVIOUS
    <2> HIDE DEF a, q, parts, above, wholes, more
    <2>3. a = t * (a \div t) + (a % t) /\ a % t \in 0..(t - 1)
      BY <1>2, <2>1
    <2>4. q * t <= a /\ a + 1 <= q * t + t
      BY <1>2, <2>1, <2>3
    <2>5. (q + 1) * t = q * t + t
      BY <1>2, <2>1
    <2> QED
      BY <2>2, <2>4, <2>5 DEF a
  <1>12. /\ Total(parts) = Total(shares) * t
         /\ Total(above) = Total(upper) * t
         /\ Total(wholes) = t * whole
    <2>1. Total(parts) = Total(shares) * t
      BY <1>1, <1>2, TotalOfMultiples
    <2>2. Total(above) = Total(upper) * t
      <3> HIDE DEF upper
      <3> QED
        BY <1>1, <1>2, <1>7, TotalOfMultiples
    <2>3. Total(wholes) = t * whole
      BY <1>1, TotalOfMultiples DEF t
    <2> QED
      BY <2>1, <2>2, <2>3
  <1> HIDE DEF parts, wholes, above, upper, more
  <1>13. Total(upper) = Total(shares) + n /\ Total(more) = Total(wholes) + n
    <2>1. Total(upper) = Total(shares) + n
      BY <1>1, <1>7, TotalOfSuccessors DEF S
    <2>2. Total(more) = Total(wholes) + n
      BY <1>6, <1>8, TotalOfSuccessors DEF S
    <2> QED
      BY <2>1, <2>2
  <1>14. Total(parts) <= Total(wholes) /\ Total(more) <= Total(above)
    BY <1>1, <1>6, <1>8, <1>9, <1>11, TotalGrows
  <1>15. n # 0
    <2> SUFFICES ASSUME n = 0 PROVE FALSE
      OBVIOUS
    <2>1. \A x \in S : amounts[x] = 0
      BY DEF S
    <2>2. t = 0
      BY <1>1, <2>1, TotalOfNothing DEF t
    <2> QED
      BY <1>2, <2>2
  <1> DEFINE r == Total(shares)
  <1>16. r * t <= t * whole /\ t * whole + n <= (r + n) * t /\ r \in Nat
    BY <1>3, <1>12, <1>13, <1>14
  <1> HIDE DEF r
  <1>17. r <= whole
    <2> SUFFICES ASSUME r >= whole + 1 PROVE FALSE
      BY <1>16
    <2>1. r * t >= (whole + 1) * t
      BY <1>2, <1>16
    <2>2. (whole + 1) * t = t * whole + t
      BY <1>2
    <2> QED
      BY <1>2, <1>16, <1>a, <2>1, <2>2
  <1>18. r + n > whole
    <2> SUFFICES ASSUME r + n <= whole PROVE FALSE
      BY <1>16
    <2>1. (r + n) * t <= whole * t
      BY <1>2, <1>16
    <2>2. whole * t = t * whole
      BY <1>2
    <2>3. (r + n) * t \in Nat /\ t * whole \in Nat
      BY <1>2, <1>16, <1>a
    <2>4. t * whole + n <= t * whole
      <3> DEFINE a == (r + n) * t
                 b == t * whole
      <3>1. a \in Nat /\ b \in Nat /\ a <= b /\ b + n <= a
        BY <1>16, <2>1, <2>2, <2>3
      <3> HIDE DEF a, b
      <3>2. b + n <= b
        BY <3>1
      <3> QED
        BY <3>2 DEF b
    <2> QED
      BY <1>15, <2>3, <2>4
  <1> QED
    BY <1>17, <1>18 DEF r
=============================================================================
