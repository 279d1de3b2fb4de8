------------------------------- MODULE Totals -------------------------------
(***************************************************************************)
(* The total of a table of amounts, a function whose values are natural    *)
(* numbers: how many units there are when every amount is laid out in      *)
(* single units, each marked with its place in the table.  The theorems    *)
(* about sums of money need no recursion this way, the cardinality of      *)
(* finite sets is all they rest on.                                        *)
(***************************************************************************)
EXTENDS FiniteSets, Integers

Units(amounts) == UNION {{x} \X (1..amounts[x]) : x \in DOMAIN amounts}

Total(amounts) == Cardinality(Units(amounts))
=============================================================================
