-------------------------------- MODULE Sums --------------------------------
(* The sum of a sequence of numbers: characters of a text, seconds of clips, *)
(* points of an answer, costs of a page.                                     *)
EXTENDS Integers, Sequences

Total(s) ==
  LET sum[i \in 0..Len(s)] == IF i = 0 THEN 0 ELSE sum[i - 1] + s[i]
  IN  sum[Len(s)]
=============================================================================
