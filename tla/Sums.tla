-------------------------------- MODULE Sums --------------------------------
(***************************************************************************)
(* The sum of a sequence of numbers, as Iterator::sum computes it: from    *)
(* left to right, starting at 0.  It is a recursive function and not a     *)
(* fold of the community modules so that the theorems of SumsProofs hold   *)
(* of what TLC evaluates.                                                  *)
(***************************************************************************)
EXTENDS Integers, Sequences

SumSeq(w) ==
    LET sum[i \in 0 .. Len(w)] == IF i = 0 THEN 0 ELSE sum[i - 1] + w[i]
    IN  sum[Len(w)]
=============================================================================
