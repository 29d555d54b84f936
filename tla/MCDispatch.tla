------------------------------ MODULE MCDispatch ------------------------------
(****************************************************************************)
(* Instances of Dispatch for TLC.  Riders and slots are interchangeable:    *)
(* neither Init nor Next tells one from another.                            *)
(****************************************************************************)
EXTENDS Dispatch, TLC

Interchangeable == Permutations(Riders) \cup Permutations(Slots)
================================================================================
