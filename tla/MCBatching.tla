------------------------------ MODULE MCBatching ------------------------------
(****************************************************************************)
(* Instances of Batching for TLC.                                           *)
(****************************************************************************)
EXTENDS Batching, TLC

Interchangeable ==
         Permutations(Riders) \cup Permutations(Slots) \cup Permutations(Cycles)
    \cup Permutations(Batches)
================================================================================
