--------------------------- MODULE MCFeeAggregation ---------------------------
(* Words of four bits and lists of four entries: amounts on both sides of  *)
(* 2^(w-1), and partial sums that overflow and come back.                  *)
EXTENDS FeeAggregation
=============================================================================
