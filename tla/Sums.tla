-------------------------------- MODULE Sums --------------------------------
(***************************************************************************)
(* Sums of amounts of money.  Every amount in the code is a whole number   *)
(* of minor units (contracts/models.py: "an integer count of the smallest  *)
(* currency unit"), so a sum of amounts is a number of units: the sum of   *)
(* f over S counts the pairs <<x, i>> with x in S and i in 1 .. f[x].      *)
(* Counting, rather than recursion, is what lets the theorems of           *)
(* SumTheorems be derived from the library's facts about cardinalities.    *)
(***************************************************************************)
EXTENDS Integers, FiniteSets

Units(f, S) == UNION {{x} \X (1 .. f[x]) : x \in S}

Sum(f, S) == Cardinality(Units(f, S))

=============================================================================
