------------------------------- MODULE Orders -------------------------------
(* The elements of a finite set in an order.                                *)
EXTENDS FiniteSets, Integers

\* The k-th of them is the one that k elements do not come after.
Ordered(S, before(_, _)) ==
  [k \in 1..Cardinality(S) |->
    CHOOSE x \in S : Cardinality({y \in S : y = x \/ before(y, x)}) = k]

Ascending(S) == Ordered(S, <)
=============================================================================
