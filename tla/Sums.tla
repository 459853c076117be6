-------------------------------- MODULE Sums --------------------------------
(***************************************************************************)
(* Python's sum() of a list of numbers, for the amounts of Validation and  *)
(* the lengths of Extraction.  A recursive function rather than a fold, so *)
(* that module Sums_proofs can say what it computes.                       *)
(***************************************************************************)
EXTENDS Integers, Sequences

SumOf(numbers) ==
    LET sum[n \in 0..Len(numbers)] == IF n = 0 THEN 0 ELSE sum[n - 1] + numbers[n]
    IN sum[Len(numbers)]
=============================================================================
