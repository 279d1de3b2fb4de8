------------------------------- MODULE Figures -------------------------------
(***************************************************************************)
(* What is computed from tables of numbers: sums are those of Totals, here *)
(* are the order of things, the median and the mean.                       *)
(***************************************************************************)
EXTENDS Totals, Sequences

(* Rows in the order of a relation, the set of pairs of which the first comes *)
(* before the second or is it: a row is in the place that the number of rows  *)
(* up to it says.                                                             *)
Rank(rows, before, x) == Cardinality({y \in rows : <<y, x>> \in before})

InOrder(rows, before) ==
    [k \in 1..Cardinality(rows) |-> CHOOSE x \in rows : Rank(rows, before, x) = k]

\* / of Go on numbers that are not negative
CalculateMedianUnsorted(values) ==
    LET n == Len(values)
        mid == n \div 2
    IN  IF n = 0 THEN 0
        ELSE IF n % 2 = 0 THEN (values[mid] + values[mid + 1]) \div 2
        ELSE values[mid + 1]

\* sort.Ints
Sorted(values) ==
    LET places == DOMAIN values
        order == InOrder(places, {p \in places \X places :
                    \/ values[p[1]] < values[p[2]]
                    \/ values[p[1]] = values[p[2]] /\ p[1] <= p[2]})
    IN  [k \in DOMAIN order |-> values[order[k]]]

CalculateMedian(values) ==
    LET sorted == Sorted(values)
        n == Len(values)
        mid == n \div 2
    IN  IF n = 0 THEN 0
        ELSE IF n % 2 = 0 THEN (sorted[mid] + sorted[mid + 1]) \div 2
        ELSE sorted[mid + 1]

Average(values) == IF Len(values) = 0 THEN 0 ELSE Total(values) \div Len(values)

\* A loop over s that passes over all but the given places.
Passing(s, places) ==
    LET order == InOrder(places, {p \in places \X places : p[1] <= p[2]})
    IN  [k \in DOMAIN order |-> s[order[k]]]
-----------------------------------------------------------------------------
(* The median of a table by what it is, the value in the middle or the mean   *)
(* of the two that are, and its mean, whatever its rows are called.           *)
Kth(values, k) ==
    CHOOSE v \in {values[i] : i \in DOMAIN values} :
        /\ Cardinality({i \in DOMAIN values : values[i] < v}) < k
        /\ Cardinality({i \in DOMAIN values : values[i] <= v}) >= k

Median(values) ==
    LET n == Cardinality(DOMAIN values)
    IN  IF n = 0 THEN 0 ELSE (Kth(values, (n + 1) \div 2) + Kth(values, n \div 2 + 1)) \div 2

Mean(values) ==
    LET n == Cardinality(DOMAIN values)
    IN  IF n = 0 THEN 0 ELSE Total(values) \div n
=============================================================================
