------------------------------ MODULE MCTracking ------------------------------
(****************************************************************************)
(* One delivery, two messages or requests at a time, two places.            *)
(****************************************************************************)
EXTENDS Tracking, TLC

CONSTANTS road, door

OnRoadOrThere == {road, door}
================================================================================
