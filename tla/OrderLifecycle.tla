----------------------------- MODULE OrderLifecycle -----------------------------
(****************************************************************************)
(* What the order lifecycle promises, with no processes, locks or stale     *)
(* reads: each order walks the transition map one edge at a time, is bound  *)
(* to one rider on the edge PREPARING -> RIDER_ASSIGNED and to no other      *)
(* afterwards, and can be cancelled only while the cylinder has not been    *)
(* picked up.  Dispatch is checked, and proved, to implement this module.   *)
(****************************************************************************)
EXTENDS OrderStates

CONSTANTS Orders, Riders, NoRider

VARIABLES status, riderOf

vars == <<status, riderOf>>

Init ==
    /\ status = [o \in Orders |-> "PENDING"]
    /\ riderOf = [o \in Orders |-> NoRider]

\* An edge of the map that does not bind a rider and does not cancel.
Advance(o) ==
    /\ \E s \in OrderStatus \ {"RIDER_ASSIGNED", "CANCELLED"} :
          /\ IsValidTransition(status[o], s)
          /\ status' = [status EXCEPT ![o] = s]
    /\ UNCHANGED riderOf

Claim(o, r) ==
    /\ status[o] = "PREPARING"
    /\ riderOf[o] = NoRider
    /\ status' = [status EXCEPT ![o] = "RIDER_ASSIGNED"]
    /\ riderOf' = [riderOf EXCEPT ![o] = r]

Cancel(o) ==
    /\ status[o] \in CancellableStatuses
    /\ status' = [status EXCEPT ![o] = "CANCELLED"]
    /\ UNCHANGED riderOf

Next ==
    \E o \in Orders :
        \/ Advance(o)
        \/ \E r \in Riders : Claim(o, r)
        \/ Cancel(o)

Spec == Init /\ [][Next]_vars
================================================================================
