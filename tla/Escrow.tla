-------------------------------- MODULE Escrow --------------------------------
(****************************************************************************)
(* What the money of one order promises its three parties, with no          *)
(* payments, events or listeners: an approved change joins the order's      *)
(* total in the step that approves it and once, and the settlement splits   *)
(* the total of its moment, with every change approved so far.  A change    *)
(* approved after that joins a total nobody splits any more: create does    *)
(* not look whether the order is settled.                                   *)
(****************************************************************************)
EXTENDS Naturals

CONSTANTS Requests, Amount, Base

VARIABLES
    response,   \* of the customer to each change request
    total,      \* what the customer has agreed to pay
    split       \* what the settlement split, 0 before it

vars == <<response, total, split>>

Init ==
    /\ response = [r \in Requests |-> "none"]
    /\ total = Base
    /\ split = 0

Raise(r) ==
    /\ response[r] = "none"
    /\ response' = [response EXCEPT ![r] = "PENDING"]
    /\ UNCHANGED <<total, split>>

Approve(r) ==
    /\ response[r] = "PENDING"
    /\ response' = [response EXCEPT ![r] = "APPROVED"]
    /\ total' = total + Amount[r]
    /\ UNCHANGED split

Reject(r) ==
    /\ response[r] = "PENDING"
    /\ response' = [response EXCEPT ![r] = "REJECTED"]
    /\ UNCHANGED <<total, split>>

Settle ==
    /\ split = 0
    /\ split' = total
    /\ UNCHANGED <<response, total>>

Next == Settle \/ \E r \in Requests : Raise(r) \/ Approve(r) \/ Reject(r)

Spec == Init /\ [][Next]_vars
================================================================================
