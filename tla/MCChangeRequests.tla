--------------------------- MODULE MCChangeRequests ---------------------------
(****************************************************************************)
(* Instances of ChangeRequests for TLC: amounts whose sums all differ.      *)
(****************************************************************************)
EXTENDS ChangeRequests, TLC

CONSTANTS r1, r2

TwoAmounts == (r1 :> 1) @@ (r2 :> 2)
OneAmount == r1 :> 1

Interchangeable == Permutations(Payments) \cup Permutations(Slots)
================================================================================
