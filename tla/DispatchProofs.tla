---------------------------- MODULE DispatchProofs ----------------------------
(****************************************************************************)
(* What Dispatch guarantees for any number of orders, riders and concurrent *)
(* requests, any batch cap, and with cancellations and crashes or without.  *)
(****************************************************************************)
EXTENDS Dispatch, FiniteSetTheorems, TLAPS

--------------------------------------------------------------------------------
(* Type correctness.                                                        *)

\* The fields of each kind of request.
LEMMA CallFields ==
    ASSUME TypeOK, NEW w \in Slots
    PROVE  /\ call[w].op = "update" => call[w].order \in Orders /\ call[w].to \in OrderStatus
           /\ call[w].op \in WriterOps => call[w].order \in Orders
           /\ call[w].op = "cancelling" =>
                 /\ call[w].listener \in {"none", "count", "free"}
                 /\ call[w].rider \in Riders \cup {NoRider}
                 /\ call[w].listener # "none" => call[w].rider \in Riders
           /\ call[w].op \in {"accept", "bundleCount", "bundleFind"} =>
                 call[w].order \in Orders
           /\ call[w].op \in {"accept", "bundleCount", "bundleFind", "bundle", "release", "free"} =>
                 call[w].rider \in Riders
           /\ call[w].op \in {"bundleFind", "bundle"} => call[w].left \in Nat
           /\ call[w].op = "bundle" => call[w].todo \subseteq Orders
  <1>1. call[w] \in Calls
    BY DEF TypeOK
  <1> QED
    BY <1>1 DEF Calls, Idle, WriterOps

\* The requests the handlers continue with.
LEMMA CallForms ==
    /\ Idle \in Calls
    /\ \A o \in Orders :
          /\ \A s \in OrderStatus : [op |-> "update", order |-> o, to |-> s] \in Calls
          /\ [op |-> "confirm", order |-> o] \in Calls
          /\ [op |-> "settle", order |-> o] \in Calls
          /\ [op |-> "settling", order |-> o] \in Calls
          /\ [op |-> "cancel", order |-> o] \in Calls
          /\ \A r \in Riders \cup {NoRider} : Cancelling(o, r, "none") \in Calls
          /\ \A r \in Riders, l \in {"count", "free"} : Cancelling(o, r, l) \in Calls
          /\ \A r \in Riders :
                /\ [op |-> "accept", order |-> o, rider |-> r] \in Calls
                /\ [op |-> "bundleCount", order |-> o, rider |-> r] \in Calls
                /\ \A n \in Nat :
                      [op |-> "bundleFind", order |-> o, rider |-> r, left |-> n] \in Calls
    /\ \A r \in Riders :
          /\ [op |-> "release", rider |-> r] \in Calls
          /\ [op |-> "free", rider |-> r] \in Calls
          /\ \A n \in Nat, T \in SUBSET Orders : Bundling(r, n, T) \in Calls
  BY DEF Calls, Cancelling, Bundling

\* The transition map speaks of statuses only.
LEMMA MapTyped ==
    ASSUME NEW s, NEW t, IsValidTransition(s, t)
    PROVE  s \in OrderStatus /\ t \in OrderStatus
  BY DEF IsValidTransition, TransitionMap, OrderStatus

LEMMA TypeInit == Init => TypeOK
  <1> SUFFICES ASSUME Init PROVE TypeOK
    OBVIOUS
  <1>1. /\ status \in [Orders -> OrderStatus]
        /\ riderOf \in [Orders -> Riders \cup {NoRider}]
        /\ otpVerified \in [Orders -> BOOLEAN]
    BY DEF Init, OrderStatus
  <1>2. tier \in [Orders -> DeliveryTier]
    BY DispatchAssumption DEF Init
  <1>3. riderStatus \in [Riders -> RiderStatus]
    BY DEF Init, RiderStatus
  <1>4. verification \in [Riders -> VerificationStatus]
    BY DEF Init, VerificationStatus
  <1>5. call \in [Slots -> Calls]
    BY CallForms DEF Init
  <1> QED
    BY <1>1, <1>2, <1>3, <1>4, <1>5 DEF TypeOK

LEMMA ContinueTyped ==
    ASSUME TypeOK, NEW w \in Slots, NEW c \in Calls, Continue(w, c)
    PROVE  call' \in [Slots -> Calls]
  BY DEF TypeOK, Continue

\* What a handler finds of its order after the lock wait is still an order.
LEMMA TypeStep == TypeOK /\ [Next]_vars => TypeOK'
  <1> SUFFICES ASSUME TypeOK, [Next]_vars PROVE TypeOK'
    OBVIOUS
  <1> USE DispatchAssumption
  <1>1. ASSUME NEW w \in Slots, NEW o \in Orders, NEW s \in ClientStatuses,
               UpdateStatusRead(w, o, s)
        PROVE  TypeOK'
    BY <1>1, CallForms, ContinueTyped
    DEF UpdateStatusRead, TypeOK, orderVars, riderVars
  <1>2. ASSUME NEW w \in Slots, NEW o \in Orders, NEW r \in Riders, AcceptOrder(w, o, r)
        PROVE  TypeOK'
    BY <1>2, CallForms, ContinueTyped DEF AcceptOrder, TypeOK, orderVars, riderVars
  <1>3. ASSUME NEW w \in Slots, NEW o \in Orders, ConfirmDeliveryRead(w, o)
        PROVE  TypeOK'
    BY <1>3, CallForms, ContinueTyped DEF ConfirmDeliveryRead, TypeOK, orderVars, riderVars
  <1>4. ASSUME NEW w \in Slots, NEW o \in Orders, CancelRead(w, o)
        PROVE  TypeOK'
    BY <1>4, CallForms, ContinueTyped DEF CancelRead, TypeOK, orderVars, riderVars
  <1>5. ASSUME NEW w \in Slots, UpdateStatusWrite(w)
        PROVE  TypeOK'
    <2>1. call[w].order \in Orders /\ call[w].to \in OrderStatus
      BY <1>5, CallFields DEF UpdateStatusWrite
    <2>2. ListenerOf(call[w].order, call[w].to) \in Calls
      BY <2>1, CallForms DEF ListenerOf, ReleaseCall, TypeOK
    <2> QED
      BY <1>5, <2>1, <2>2, ContinueTyped DEF UpdateStatusWrite, TypeOK, riderVars
  <1>6. ASSUME NEW w \in Slots, AssignRider(w)
        PROVE  TypeOK'
    <2>1. call[w].order \in Orders /\ call[w].rider \in Riders
      BY <1>6, CallFields DEF AssignRider
    <2>2. call' \in [Slots -> Calls]
      BY <1>6, <2>1, CallForms, ContinueTyped DEF AssignRider
    <2> QED
      BY <1>6, <2>1, <2>2 DEF AssignRider, ClaimOrder, TypeOK, OrderStatus, RiderStatus
  <1>7. ASSUME NEW w \in Slots, BundleCount(w)
        PROVE  TypeOK'
    <2>1. call[w].order \in Orders /\ call[w].rider \in Riders
      BY <1>7, CallFields DEF BundleCount
    <2>2. Cardinality(AssignedTo(call[w].rider)) \in Nat
      BY FS_Subset, FS_CardinalityType DEF AssignedTo
    <2> DEFINE n == Cardinality(AssignedTo(call[w].rider))
               find == [op |-> "bundleFind", order |-> call[w].order, rider |-> call[w].rider,
                        left |-> MAX_ORDERS_PER_RIDER_BATCH - n]
    <2>3. call' \in [Slots -> Calls]
      <3>1. CASE n < MAX_ORDERS_PER_RIDER_BATCH
        <4>1. MAX_ORDERS_PER_RIDER_BATCH - n \in Nat
          BY <2>2, <3>1
        <4>2. find \in Calls
          BY <2>1, <4>1, CallForms
        <4>3. Continue(w, find)
          BY <1>7, <3>1 DEF BundleCount
        <4> QED
          BY <4>2, <4>3, ContinueTyped
      <3>2. CASE ~ (n < MAX_ORDERS_PER_RIDER_BATCH)
        <4>1. Continue(w, Idle)
          BY <1>7, <3>2 DEF BundleCount
        <4> QED
          BY <4>1, CallForms, ContinueTyped
      <3> QED
        BY <3>1, <3>2
    <2> QED
      BY <1>7, <2>3 DEF BundleCount, TypeOK, orderVars, riderVars
  <1>8. ASSUME NEW w \in Slots, BundleFind(w)
        PROVE  TypeOK'
    <2>1. call[w].rider \in Riders /\ call[w].left \in Nat
      BY <1>8, CallFields DEF BundleFind
    <2> QED
      BY <1>8, <2>1, CallForms, ContinueTyped DEF BundleFind, TypeOK, orderVars, riderVars
  <1>9. ASSUME NEW w \in Slots, NEW c \in Orders, BundleClaim(w, c)
        PROVE  TypeOK'
    <2>1. call[w].rider \in Riders /\ call[w].left \in Nat /\ call[w].todo \subseteq Orders
      BY <1>9, CallFields DEF BundleClaim
    <2>2. call[w].left - 1 \in Nat
      BY <1>9, <2>1 DEF BundleClaim
    <2>3. call' \in [Slots -> Calls]
      BY <1>9, <2>1, <2>2, CallForms, ContinueTyped DEF BundleClaim
    <2> QED
      BY <1>9, <2>1, <2>3 DEF BundleClaim, ClaimOrder, TypeOK, OrderStatus, riderVars
  <1>10. ASSUME NEW w \in Slots, BundleDone(w)
         PROVE  TypeOK'
    BY <1>10, CallForms, ContinueTyped DEF BundleDone, TypeOK, orderVars, riderVars
  <1>11. ASSUME NEW w \in Slots, ReleaseCount(w)
         PROVE  TypeOK'
    <2>1. call[w].rider \in Riders
      BY <1>11, CallFields DEF ReleaseCount
    <2> QED
      BY <1>11, <2>1, CallForms, ContinueTyped DEF ReleaseCount, TypeOK, orderVars, riderVars
  <1>12. ASSUME NEW w \in Slots, ReleaseSet(w)
         PROVE  TypeOK'
    BY <1>12, CallForms, ContinueTyped DEF ReleaseSet, TypeOK, orderVars, RiderStatus
  <1>13. ASSUME NEW w \in Slots, ConfirmDeliveryWrite(w)
         PROVE  TypeOK'
    <2>1. call[w].order \in Orders
      BY <1>13, CallFields DEF ConfirmDeliveryWrite, WriterOps
    <2> QED
      BY <1>13, <2>1, CallForms, ContinueTyped
      DEF ConfirmDeliveryWrite, TypeOK, OrderStatus, riderVars
  <1>14. ASSUME NEW w \in Slots, SettleRead(w)
         PROVE  TypeOK'
    <2>1. call[w].order \in Orders
      BY <1>14, CallFields DEF SettleRead, WriterOps
    <2> QED
      BY <1>14, <2>1, CallForms, ContinueTyped DEF SettleRead, TypeOK, orderVars, riderVars
  <1>15. ASSUME NEW w \in Slots, SettleWrite(w)
         PROVE  TypeOK'
    BY <1>15, CallForms, ContinueTyped DEF SettleWrite, TypeOK, OrderStatus, riderVars
  <1>16. ASSUME NEW w \in Slots, CancelWrite(w)
         PROVE  TypeOK'
    <2>1. call[w].order \in Orders /\ riderOf[call[w].order] \in Riders \cup {NoRider}
      BY <1>16, CallFields DEF CancelWrite, WriterOps, TypeOK
    <2> QED
      BY <1>16, <2>1, CallForms, ContinueTyped DEF CancelWrite, TypeOK, orderVars, riderVars
  <1>17. ASSUME NEW w \in Slots, CancelListenerCount(w)
         PROVE  TypeOK'
    <2>1. call[w].order \in Orders /\ call[w].rider \in Riders
      BY <1>17, CallFields DEF CancelListenerCount, WriterOps
    <2> QED
      BY <1>17, <2>1, CallForms, ContinueTyped
      DEF CancelListenerCount, TypeOK, orderVars, riderVars
  <1>18. ASSUME NEW w \in Slots, CancelListenerSet(w)
         PROVE  TypeOK'
    <2>1. call[w].order \in Orders /\ call[w].rider \in Riders
      BY <1>18, CallFields DEF CancelListenerSet, WriterOps
    <2> QED
      BY <1>18, <2>1, CallForms, ContinueTyped
      DEF CancelListenerSet, TypeOK, orderVars, RiderStatus
  <1>19. ASSUME NEW w \in Slots, CancelCommit(w)
         PROVE  TypeOK'
    <2>1. ListenerLeft(call[w]) \in Calls
      BY <1>19, CallFields, CallForms DEF CancelCommit, ListenerLeft
    <2> QED
      BY <1>19, <2>1, ContinueTyped DEF CancelCommit, TypeOK, OrderStatus, riderVars
  <1>20. CASE Environment
    <2>1. ASSUME NEW o \in Orders, NEW r \in Riders, StaffAssignRider(o, r)
          PROVE  TypeOK'
      BY <2>1 DEF StaffAssignRider, ClaimOrder, TypeOK, OrderStatus, RiderStatus
    <2> QED
      BY <1>20, <2>1 DEF Environment, SetAvailability, ReviewVerification, TypeOK, orderVars
  <1>21. ASSUME NEW w \in Slots, Abandon(w) \/ Crash(w)
         PROVE  TypeOK'
    BY <1>21, CallForms, ContinueTyped DEF Abandon, Crash, TypeOK, orderVars, riderVars
  <1>22. CASE UNCHANGED vars
    BY <1>22 DEF vars, TypeOK
  <1> QED
    BY <1>1, <1>2, <1>3, <1>4, <1>5, <1>6, <1>7, <1>8, <1>9, <1>10, <1>11, <1>12, <1>13,
       <1>14, <1>15, <1>16, <1>17, <1>18, <1>19, <1>20, <1>21, <1>22
    DEF Next, Request, Proceed

\* Type correctness of the dispatch module: among others, that no listener is
\* ever left with an order that has no rider to release.
THEOREM TypeCorrect == Spec => []TypeOK
  BY TypeInit, TypeStep, PTL DEF Spec
--------------------------------------------------------------------------------
(* Riders stay bound.                                                       *)

\* Only a claim writes rider_id, and it finds it NULL.
LEMMA BoundStays ==
    ASSUME TypeOK, [Next]_vars, NEW o \in Orders, riderOf[o] # NoRider
    PROVE  riderOf'[o] = riderOf[o]
  <1>1. ASSUME NEW w \in Slots, AssignRider(w)
        PROVE  riderOf'[o] = riderOf[o]
    BY <1>1 DEF AssignRider, ClaimOrder, Claimable, TypeOK
  <1>2. ASSUME NEW w \in Slots, NEW c \in Orders, BundleClaim(w, c)
        PROVE  riderOf'[o] = riderOf[o]
    BY <1>2 DEF BundleClaim, ClaimOrder, Claimable, TypeOK
  <1>3. ASSUME NEW w \in Slots,
               \/ Request(w) \/ Abandon(w) \/ Crash(w)
               \/ UpdateStatusWrite(w) \/ BundleCount(w) \/ BundleFind(w) \/ BundleDone(w)
               \/ ReleaseCount(w) \/ ReleaseSet(w) \/ ConfirmDeliveryWrite(w)
               \/ SettleRead(w) \/ SettleWrite(w) \/ CancelWrite(w)
               \/ CancelListenerCount(w) \/ CancelListenerSet(w) \/ CancelCommit(w)
        PROVE  riderOf'[o] = riderOf[o]
    BY <1>3
    DEF Request, UpdateStatusRead, AcceptOrder, ConfirmDeliveryRead, CancelRead, Abandon, Crash,
        UpdateStatusWrite, BundleCount, BundleFind, BundleDone, ReleaseCount, ReleaseSet,
        ConfirmDeliveryWrite, SettleRead, SettleWrite, CancelWrite, CancelListenerCount,
        CancelListenerSet, CancelCommit, orderVars
  <1>4. CASE Environment
    BY <1>4
    DEF Environment, SetAvailability, ReviewVerification, StaffAssignRider, ClaimOrder,
        Claimable, TypeOK, orderVars
  <1>5. CASE UNCHANGED vars
    BY <1>5 DEF vars
  <1> QED
    BY <1>1, <1>2, <1>3, <1>4, <1>5 DEF Next, Proceed

\* assignRider's WHERE rider_id IS NULL: an order keeps the first rider bound
\* to it, whatever the clients PATCH and however stale it is.
THEOREM RiderNeverReplacedHolds == Spec => RiderNeverReplaced
  <1>1. TypeOK /\ [Next]_vars
            => [\A o \in Orders : riderOf[o] # NoRider => riderOf'[o] = riderOf[o]]_riderOf
    BY BoundStays
  <1> QED
    BY <1>1, TypeCorrect, PTL DEF Spec, RiderNeverReplaced

--------------------------------------------------------------------------------
(* No active order without a rider.                                         *)

\* A handler about to write a rider-bound status has read one, or an order
\* that had a rider for another reason.
BoundCall(c, carrier) ==
    \/ c.op = "update" /\ c.to \in RiderBoundStatuses
    \/ c.op \in {"confirm", "settling"}
    => carrier[c.order] # NoRider

BoundInv == ActiveHasRider /\ \A w \in Slots : BoundCall(call[w], riderOf)

\* Every edge into a rider-bound status but the claim's starts in one.
LEMMA BoundEdges ==
    ASSUME NEW s, NEW t \in RiderBoundStatuses \ {"RIDER_ASSIGNED"}, IsValidTransition(s, t)
    PROVE  s \in RiderBoundStatuses
  BY DEF IsValidTransition, TransitionMap, RiderBoundStatuses, ActiveStatuses

LEMMA ContinueExact ==
    ASSUME TypeOK, NEW w \in Slots, NEW c, Continue(w, c)
    PROVE  /\ call'[w] = c
           /\ \A v \in Slots \ {w} : call'[v] = call[v]
  BY DEF TypeOK, Continue

\* Calls of other slots stay bound; so it is enough to look at the new one.
LEMMA BoundElsewhere ==
    ASSUME TypeOK, BoundInv, [Next]_vars, NEW w \in Slots, NEW c, Continue(w, c), BoundCall(c, riderOf')
    PROVE  \A v \in Slots : BoundCall(call'[v], riderOf')
  <1> SUFFICES ASSUME NEW v \in Slots PROVE BoundCall(call'[v], riderOf')
    OBVIOUS
  <1>1. CASE v = w
    BY <1>1, ContinueExact DEF BoundCall
  <1>2. CASE v # w
    <2>1. call'[v] = call[v] /\ BoundCall(call[v], riderOf)
      BY <1>2, ContinueExact DEF BoundInv
    <2>2. call[v].op \in {"update", "confirm", "settling"} => call[v].order \in Orders
      BY CallFields DEF WriterOps
    <2> QED
      BY <2>1, <2>2, BoundStays, DispatchAssumption, TypeStep DEF BoundCall, TypeOK
  <1> QED
    BY <1>1, <1>2
\* An order whose status becomes s; all the others keep theirs.
LEMMA ActiveAfterWrite ==
    ASSUME TypeOK, ActiveHasRider, [Next]_vars, NEW o \in Orders, NEW s,
           status' = [status EXCEPT ![o] = s],
           s \in RiderBoundStatuses => riderOf'[o] # NoRider
    PROVE  ActiveHasRider'
  <1> SUFFICES ASSUME NEW x \in Orders, status'[x] \in RiderBoundStatuses
               PROVE  riderOf'[x] # NoRider
    BY DEF ActiveHasRider
  <1>1. CASE x = o
    BY <1>1 DEF TypeOK
  <1>2. CASE x # o
    <2>1. riderOf[x] # NoRider
      BY <1>2 DEF TypeOK, ActiveHasRider
    <2> QED
      BY <2>1, BoundStays
  <1> QED
    BY <1>1, <1>2

LEMMA BoundStep ==
    ASSUME "RIDER_ASSIGNED" \notin ClientStatuses, TypeOK, BoundInv, [Next]_vars
    PROVE  BoundInv'
  <1> USE DEF BoundInv
  \* A step that keeps the orders and continues with c.
  <1>0. ASSUME NEW w \in Slots, NEW c, Continue(w, c), UNCHANGED <<status, riderOf>>,
               BoundCall(c, riderOf)
        PROVE  BoundInv'
    BY <1>0, BoundElsewhere DEF ActiveHasRider, BoundCall
  <1>1. ASSUME NEW w \in Slots, NEW o \in Orders, NEW s \in ClientStatuses,
               UpdateStatusRead(w, o, s)
        PROVE  BoundInv'
    <2> DEFINE c == [op |-> "update", order |-> o, to |-> s]
    <2>1. BoundCall(c, riderOf)
      BY <1>1, BoundEdges DEF UpdateStatusRead, BoundCall, ActiveHasRider
    <2> QED
      BY <1>0, <1>1, <2>1 DEF UpdateStatusRead, orderVars
  <1>2. ASSUME NEW w \in Slots, NEW o \in Orders, NEW r \in Riders, AcceptOrder(w, o, r)
        PROVE  BoundInv'
    BY <1>0, <1>2 DEF AcceptOrder, orderVars, BoundCall
  <1>3. ASSUME NEW w \in Slots, NEW o \in Orders, ConfirmDeliveryRead(w, o)
        PROVE  BoundInv'
    <2>1. riderOf[o] # NoRider
      BY <1>3 DEF ConfirmDeliveryRead, ActiveHasRider, RiderBoundStatuses
    <2> QED
      BY <1>0, <1>3, <2>1 DEF ConfirmDeliveryRead, orderVars, BoundCall
  <1>4. ASSUME NEW w \in Slots, NEW o \in Orders, CancelRead(w, o)
        PROVE  BoundInv'
    BY <1>0, <1>4 DEF CancelRead, orderVars, BoundCall
  <1>5. ASSUME NEW w \in Slots, UpdateStatusWrite(w)
        PROVE  BoundInv'
    <2> DEFINE o == call[w].order
               c == ListenerOf(o, call[w].to)
    <2>1. o \in Orders /\ call[w].op = "update" /\ riderOf' = riderOf
      BY <1>5, CallFields DEF UpdateStatusWrite
    <2>2. BoundCall(c, riderOf')
      BY DEF ListenerOf, ReleaseCall, BoundCall, Idle
    <2>3. ActiveHasRider'
      BY <1>5, <2>1, ActiveAfterWrite DEF UpdateStatusWrite, BoundCall
    <2> QED
      BY <1>5, <2>2, <2>3, BoundElsewhere DEF UpdateStatusWrite
  <1>6. ASSUME NEW w \in Slots, AssignRider(w)
        PROVE  BoundInv'
    <2> DEFINE o == call[w].order
               r == call[w].rider
    <2>1. o \in Orders /\ r \in Riders
      BY <1>6, CallFields DEF AssignRider
    <2>2. CASE RiderClaimable(r) /\ Claimable(o)
      <3>1. /\ status' = [status EXCEPT ![o] = "RIDER_ASSIGNED"]
            /\ riderOf' = [riderOf EXCEPT ![o] = r]
        BY <1>6, <2>2 DEF AssignRider, ClaimOrder
      <3>2. ActiveHasRider'
        BY <2>1, <3>1, ActiveAfterWrite, DispatchAssumption DEF TypeOK
      <3> DEFINE c == IF tier[o] = "STANDARD"
                      THEN [op |-> "bundleCount", order |-> o, rider |-> r]
                      ELSE Idle
      <3>3. Continue(w, c)
        BY <1>6, <2>2 DEF AssignRider
      <3>4. BoundCall(c, riderOf')
        BY DEF BoundCall, Idle
      <3> QED
        BY <3>2, <3>3, <3>4, BoundElsewhere
    <2>3. CASE ~ (RiderClaimable(r) /\ Claimable(o))
      BY <1>0, <1>6, <2>3 DEF AssignRider, BoundCall, Idle
    <2> QED
      BY <2>2, <2>3
  <1>7. ASSUME NEW w \in Slots, BundleCount(w)
        PROVE  BoundInv'
    BY <1>0, <1>7 DEF BundleCount, orderVars, BoundCall, Idle
  <1>8. ASSUME NEW w \in Slots, BundleFind(w)
        PROVE  BoundInv'
    BY <1>0, <1>8 DEF BundleFind, Bundling, orderVars, BoundCall
  <1>9. ASSUME NEW w \in Slots, NEW c \in Orders, BundleClaim(w, c)
        PROVE  BoundInv'
    <2>1. call[w].rider \in Riders
      BY <1>9, CallFields DEF BundleClaim
    <2>2. CASE Claimable(c)
      <3>1. /\ status' = [status EXCEPT ![c] = "RIDER_ASSIGNED"]
            /\ riderOf' = [riderOf EXCEPT ![c] = call[w].rider]
        BY <1>9, <2>2 DEF BundleClaim, ClaimOrder
      <3>2. ActiveHasRider'
        BY <2>1, <3>1, ActiveAfterWrite, DispatchAssumption DEF TypeOK
      <3> QED
        BY <1>9, <2>2, <3>2, BoundElsewhere DEF BundleClaim, Bundling, BoundCall
    <2>3. CASE ~ Claimable(c)
      BY <1>0, <1>9, <2>3 DEF BundleClaim, Bundling, BoundCall
    <2> QED
      BY <2>2, <2>3
  <1>10. ASSUME NEW w \in Slots,
                \/ BundleDone(w) \/ ReleaseCount(w) \/ ReleaseSet(w)
                \/ CancelWrite(w) \/ CancelListenerCount(w) \/ CancelListenerSet(w)
                \/ Abandon(w) \/ Crash(w)
         PROVE  BoundInv'
    BY <1>0, <1>10
    DEF BundleDone, ReleaseCount, ReleaseSet, CancelWrite, CancelListenerCount,
        CancelListenerSet, Abandon, Crash, Cancelling, orderVars, BoundCall, Idle
  <1>11. ASSUME NEW w \in Slots, ConfirmDeliveryWrite(w)
         PROVE  BoundInv'
    <2> DEFINE o == call[w].order
               c == [op |-> "settle", order |-> o]
    <2>1. /\ o \in Orders /\ riderOf'[o] # NoRider
          /\ status' = [status EXCEPT ![o] = "CUSTOMER_CONFIRMED"]
      BY <1>11, CallFields DEF ConfirmDeliveryWrite, BoundCall, WriterOps
    <2>2. ActiveHasRider' /\ BoundCall(c, riderOf')
      BY <2>1, ActiveAfterWrite DEF BoundCall
    <2> QED
      BY <1>11, <2>2, BoundElsewhere DEF ConfirmDeliveryWrite
  <1>12. ASSUME NEW w \in Slots, SettleRead(w)
         PROVE  BoundInv'
    <2>1. call[w].order \in Orders
      BY <1>12, CallFields DEF SettleRead, WriterOps
    <2>2. status[call[w].order] = "CUSTOMER_CONFIRMED" => riderOf[call[w].order] # NoRider
      BY <2>1 DEF ActiveHasRider, RiderBoundStatuses
    <2> QED
      BY <1>0, <1>12, <2>2 DEF SettleRead, orderVars, BoundCall, Idle
  <1>13. ASSUME NEW w \in Slots, SettleWrite(w)
         PROVE  BoundInv'
    <2> DEFINE o == call[w].order
    <2>1. /\ o \in Orders /\ riderOf'[o] # NoRider
          /\ status' = [status EXCEPT ![o] = "COMPLETED"]
      BY <1>13, CallFields DEF SettleWrite, BoundCall, WriterOps
    <2>2. ActiveHasRider' /\ BoundCall(Idle, riderOf')
      BY <2>1, ActiveAfterWrite DEF BoundCall, Idle
    <2> QED
      BY <1>13, <2>2, BoundElsewhere DEF SettleWrite
  <1>14. ASSUME NEW w \in Slots, CancelCommit(w)
         PROVE  BoundInv'
    <2> DEFINE c == ListenerLeft(call[w])
    <2>1. call[w].order \in Orders
      BY <1>14, CallFields DEF CancelCommit, WriterOps
    <2>2. ActiveHasRider'
      BY <1>14, <2>1, ActiveAfterWrite DEF CancelCommit, RiderBoundStatuses, ActiveStatuses
    <2>3. BoundCall(c, riderOf')
      BY DEF ListenerLeft, BoundCall, Idle
    <2> QED
      BY <1>14, <2>2, <2>3, BoundElsewhere DEF CancelCommit
  <1>15. CASE Environment
    <2>1. ASSUME NEW o \in Orders, NEW r \in Riders, StaffAssignRider(o, r)
          PROVE  BoundInv'
      <3>1. ActiveHasRider'
        BY <2>1, ActiveAfterWrite, DispatchAssumption DEF StaffAssignRider, ClaimOrder, TypeOK
      <3>2. ASSUME NEW w \in Slots
            PROVE  BoundCall(call'[w], riderOf')
        <4>1. call[w].op \in {"update", "confirm", "settling"} => call[w].order \in Orders
          BY CallFields DEF WriterOps
        <4> QED
          BY <2>1, <4>1, BoundStays DEF StaffAssignRider, BoundCall
      <3> QED
        BY <3>1, <3>2
    <2> QED
      BY <1>15, <2>1
      DEF Environment, SetAvailability, ReviewVerification, orderVars, ActiveHasRider, BoundCall
  <1>16. CASE UNCHANGED vars
    BY <1>16 DEF vars, ActiveHasRider, BoundCall
  <1> QED
    BY <1>1, <1>2, <1>3, <1>4, <1>5, <1>6, <1>7, <1>8, <1>9, <1>10, <1>11, <1>12, <1>13,
       <1>14, <1>15, <1>16
    DEF Next, Request, Proceed

LEMMA BoundInit == Init => BoundInv
  BY DEF Init, BoundInv, BoundCall, ActiveHasRider, RiderBoundStatuses, ActiveStatuses, Idle

\* No order is on its way, delivered or settled without a rider, provided no
\* client PATCHes RIDER_ASSIGNED; stale writes and crashes included.
THEOREM ActiveHasRiderHolds ==
    "RIDER_ASSIGNED" \notin ClientStatuses => (Spec => []ActiveHasRider)
  <1> SUFFICES ASSUME "RIDER_ASSIGNED" \notin ClientStatuses
               PROVE  Spec => []ActiveHasRider
    OBVIOUS
  <1>1. TypeOK /\ BoundInv /\ [Next]_vars => BoundInv'
    BY BoundStep
  <1>2. BoundInv => ActiveHasRider
    BY DEF BoundInv
  <1> QED
    BY <1>1, <1>2, BoundInit, TypeCorrect, PTL DEF Spec
--------------------------------------------------------------------------------
(* Settled orders were confirmed with the one-time password.                *)

\* The statuses that mean an order was confirmed.
Confirmed == {"CUSTOMER_CONFIRMED", "COMPLETED"}

\* A handler about to write a confirmed status, without the password, works for
\* an order whose password was seen.
OtpCall(c, verified) ==
    /\ c.op = "update" => c.to \notin Confirmed
    /\ c.op \in {"settle", "settling"} => verified[c.order]

OtpInv ==
    /\ \A o \in Orders : status[o] \in Confirmed => otpVerified[o]
    /\ \A w \in Slots : OtpCall(call[w], otpVerified)

\* otp_verified is never taken back.
LEMMA OtpStays ==
    ASSUME TypeOK, [Next]_vars, NEW o \in Orders, otpVerified[o]
    PROVE  otpVerified'[o]
  <1>1. ASSUME NEW w \in Slots, ConfirmDeliveryWrite(w)
        PROVE  otpVerified'[o]
    BY <1>1 DEF ConfirmDeliveryWrite, TypeOK
  <1>2. ASSUME NEW w \in Slots,
               \/ Request(w) \/ Abandon(w) \/ Crash(w)
               \/ UpdateStatusWrite(w) \/ AssignRider(w) \/ BundleCount(w) \/ BundleFind(w)
               \/ (\E c \in Orders : BundleClaim(w, c)) \/ BundleDone(w)
               \/ ReleaseCount(w) \/ ReleaseSet(w)
               \/ SettleRead(w) \/ SettleWrite(w) \/ CancelWrite(w)
               \/ CancelListenerCount(w) \/ CancelListenerSet(w) \/ CancelCommit(w)
        PROVE  otpVerified' = otpVerified
    BY <1>2
    DEF Request, UpdateStatusRead, AcceptOrder, ConfirmDeliveryRead, CancelRead, Abandon, Crash,
        UpdateStatusWrite, AssignRider, BundleCount, BundleFind, BundleClaim, BundleDone,
        ReleaseCount, ReleaseSet, SettleRead, SettleWrite, CancelWrite, CancelListenerCount,
        CancelListenerSet, CancelCommit, orderVars
  <1>3. CASE Environment \/ UNCHANGED vars
    BY <1>3
    DEF Environment, SetAvailability, ReviewVerification, StaffAssignRider, orderVars, vars
  <1> QED
    BY <1>1, <1>2, <1>3 DEF Next, Proceed

\* A slot goes on to c and an order's status may become s; the rest follows from
\* the calls before.
LEMMA OtpAfter ==
    ASSUME TypeOK, OtpInv, [Next]_vars, NEW w \in Slots, NEW c, Continue(w, c),
           OtpCall(c, otpVerified'),
           \A o \in Orders : status'[o] \in Confirmed => status[o] \in Confirmed \/ otpVerified'[o]
    PROVE  OtpInv'
  <1>1. ASSUME NEW o \in Orders, status'[o] \in Confirmed
        PROVE  otpVerified'[o]
    BY <1>1, OtpStays DEF OtpInv
  <1>2. ASSUME NEW v \in Slots
        PROVE  OtpCall(call'[v], otpVerified')
    <2>1. CASE v = w
      BY <2>1, ContinueExact
    <2>2. CASE v # w
      <3>1. call'[v] = call[v] /\ OtpCall(call[v], otpVerified)
        BY <2>2, ContinueExact DEF OtpInv
      <3>2. call[v].op \in {"settle", "settling"} => call[v].order \in Orders
        BY CallFields DEF WriterOps
      <3> QED
        BY <3>1, <3>2, OtpStays DEF OtpCall
    <2> QED
      BY <2>1, <2>2
  <1> QED
    BY <1>1, <1>2 DEF OtpInv

LEMMA OtpStep ==
    ASSUME ClientStatuses \cap Confirmed = {}, TypeOK, OtpInv, [Next]_vars
    PROVE  OtpInv'
  \* A status other than a confirmed one is written, or none.
  <1>1. ASSUME NEW w \in Slots, NEW c, Continue(w, c), OtpCall(c, otpVerified'),
               UNCHANGED status
        PROVE  OtpInv'
    BY <1>1, OtpAfter
  <1>2. ASSUME NEW w \in Slots, NEW c, Continue(w, c), OtpCall(c, otpVerified'),
               NEW o \in Orders, NEW s,
               status' = [status EXCEPT ![o] = s], s \in Confirmed => otpVerified'[o]
        PROVE  OtpInv'
    BY <1>2, OtpAfter DEF TypeOK
  <1>3. ASSUME NEW w \in Slots, NEW o \in Orders, NEW s \in ClientStatuses,
               UpdateStatusRead(w, o, s)
        PROVE  OtpInv'
    BY <1>1, <1>3 DEF UpdateStatusRead, orderVars, OtpCall
  <1>4. ASSUME NEW w \in Slots,
               \/ \E o \in Orders, r \in Riders : AcceptOrder(w, o, r)
               \/ \E o \in Orders : ConfirmDeliveryRead(w, o) \/ CancelRead(w, o)
               \/ BundleCount(w) \/ BundleFind(w) \/ BundleDone(w)
               \/ ReleaseCount(w) \/ ReleaseSet(w) \/ Abandon(w) \/ Crash(w)
               \/ CancelWrite(w) \/ CancelListenerCount(w) \/ CancelListenerSet(w)
        PROVE  OtpInv'
    BY <1>1, <1>4
    DEF AcceptOrder, ConfirmDeliveryRead, CancelRead, BundleCount, BundleFind, BundleDone,
        ReleaseCount, ReleaseSet, Abandon, Crash, CancelWrite, CancelListenerCount,
        CancelListenerSet, Bundling, Cancelling, orderVars, OtpCall, Idle
  <1>5. ASSUME NEW w \in Slots, UpdateStatusWrite(w)
        PROVE  OtpInv'
    <2> DEFINE o == call[w].order
               s == call[w].to
               c == ListenerOf(o, s)
    <2>1. o \in Orders /\ s \notin Confirmed
      BY <1>5, CallFields DEF UpdateStatusWrite, OtpInv, OtpCall
    <2>2. OtpCall(c, otpVerified')
      BY <2>1 DEF ListenerOf, ReleaseCall, Idle, OtpCall, Confirmed
    <2>3. Continue(w, c) /\ status' = [status EXCEPT ![o] = s]
      BY <1>5 DEF UpdateStatusWrite
    <2> QED
      BY <1>2, <2>1, <2>2, <2>3
  <1>6. ASSUME NEW w \in Slots, AssignRider(w)
        PROVE  OtpInv'
    <2>1. call[w].order \in Orders
      BY <1>6, CallFields DEF AssignRider
    <2>2. CASE RiderClaimable(call[w].rider) /\ Claimable(call[w].order)
      BY <1>2, <1>6, <2>1, <2>2 DEF AssignRider, ClaimOrder, OtpCall, Idle, Confirmed
    <2>3. CASE ~ (RiderClaimable(call[w].rider) /\ Claimable(call[w].order))
      BY <1>1, <1>6, <2>3 DEF AssignRider, OtpCall, Idle
    <2> QED
      BY <2>2, <2>3
  <1>7. ASSUME NEW w \in Slots, NEW o \in Orders, BundleClaim(w, o)
        PROVE  OtpInv'
    <2>1. CASE Claimable(o)
      BY <1>2, <1>7, <2>1 DEF BundleClaim, ClaimOrder, Bundling, OtpCall, Confirmed
    <2>2. CASE ~ Claimable(o)
      BY <1>1, <1>7, <2>2 DEF BundleClaim, Bundling, OtpCall
    <2> QED
      BY <2>1, <2>2
  <1>8. ASSUME NEW w \in Slots, ConfirmDeliveryWrite(w)
        PROVE  OtpInv'
    <2> DEFINE o == call[w].order
               s == "CUSTOMER_CONFIRMED"
               c == [op |-> "settle", order |-> o]
    <2>1. /\ o \in Orders /\ Continue(w, c) /\ status' = [status EXCEPT ![o] = s]
          /\ otpVerified' = [otpVerified EXCEPT ![o] = TRUE]
      BY <1>8, CallFields DEF ConfirmDeliveryWrite, WriterOps
    <2>2. otpVerified'[o]
      BY <2>1 DEF TypeOK
    <2>3. OtpCall(c, otpVerified')
      BY <2>2 DEF OtpCall
    <2> QED
      BY <1>2, <2>1, <2>2, <2>3
  <1>9. ASSUME NEW w \in Slots, SettleRead(w)
        PROVE  OtpInv'
    <2>1. call[w].order \in Orders /\ otpVerified[call[w].order]
      BY <1>9, CallFields DEF SettleRead, WriterOps, OtpInv, OtpCall
    <2> QED
      BY <1>1, <1>9, <2>1 DEF SettleRead, orderVars, OtpCall, Idle
  <1>10. ASSUME NEW w \in Slots, SettleWrite(w)
         PROVE  OtpInv'
    <2> DEFINE o == call[w].order
               s == "COMPLETED"
    <2>1. o \in Orders /\ otpVerified[o]
      BY <1>10, CallFields DEF SettleWrite, WriterOps, OtpInv, OtpCall
    <2>2. /\ Continue(w, Idle) /\ status' = [status EXCEPT ![o] = s]
          /\ otpVerified' = otpVerified
      BY <1>10 DEF SettleWrite
    <2>3. OtpCall(Idle, otpVerified')
      BY DEF OtpCall, Idle
    <2> QED
      BY <1>2, <2>1, <2>2, <2>3
  <1>11. ASSUME NEW w \in Slots, CancelCommit(w)
         PROVE  OtpInv'
    <2> DEFINE o == call[w].order
               s == "CANCELLED"
               c == ListenerLeft(call[w])
    <2>1. /\ o \in Orders /\ Continue(w, c) /\ status' = [status EXCEPT ![o] = s]
      BY <1>11, CallFields DEF CancelCommit, WriterOps
    <2>2. OtpCall(c, otpVerified') /\ s \notin Confirmed
      BY DEF ListenerLeft, Idle, OtpCall, Confirmed
    <2> QED
      BY <1>2, <2>1, <2>2
  <1>12. CASE Environment
    <2>1. ASSUME NEW o \in Orders, NEW r \in Riders, StaffAssignRider(o, r)
          PROVE  OtpInv'
      BY <2>1 DEF StaffAssignRider, ClaimOrder, OtpInv, OtpCall, Confirmed, TypeOK
    <2> QED
      BY <1>12, <2>1
      DEF Environment, SetAvailability, ReviewVerification, orderVars, OtpInv, OtpCall
  <1>13. CASE UNCHANGED vars
    BY <1>13 DEF vars, OtpInv, OtpCall
  <1> QED
    BY <1>3, <1>4, <1>5, <1>6, <1>7, <1>8, <1>9, <1>10, <1>11, <1>12, <1>13
    DEF Next, Request, Proceed

LEMMA OtpInit == Init => OtpInv
  BY DEF Init, OtpInv, OtpCall, Confirmed, Idle

\* confirmDelivery is the only way into settlement: provided no client PATCHes
\* CUSTOMER_CONFIRMED or COMPLETED (the shipped ones do not), an order is
\* confirmed or completed only after its one-time password was seen.
THEOREM ConfirmedWithOtpHolds ==
    ClientStatuses \cap {"CUSTOMER_CONFIRMED", "COMPLETED"} = {} => (Spec => []ConfirmedWithOtp)
  <1> SUFFICES ASSUME ClientStatuses \cap Confirmed = {}
               PROVE  Spec => []ConfirmedWithOtp
    BY DEF Confirmed
  <1>1. TypeOK /\ OtpInv /\ [Next]_vars => OtpInv'
    BY OtpStep
  <1>2. OtpInv => ConfirmedWithOtp
    BY DEF OtpInv, ConfirmedWithOtp, Confirmed
  <1> QED
    BY <1>1, <1>2, OtpInit, TypeCorrect, PTL DEF Spec
--------------------------------------------------------------------------------
(* A claim is all or nothing.                                               *)

LEMMA HalfStep ==
    ASSUME "BUSY" \notin RiderToggles, TypeOK, NothingHalfAssigned, [Next]_vars
    PROVE  NothingHalfAssigned'
  <1> SUFFICES ASSUME NEW r \in Riders, riderStatus'[r] = "BUSY"
               PROVE  \E o \in Orders : riderOf'[o] = r
    BY DEF NothingHalfAssigned
  \* A rider who was BUSY before keeps the order that explains it.
  <1>1. ASSUME riderStatus[r] = "BUSY"
        PROVE  \E o \in Orders : riderOf'[o] = r
    <2>1. PICK o \in Orders : riderOf[o] = r
      BY <1>1 DEF NothingHalfAssigned
    <2> QED
      BY <2>1, BoundStays, DispatchAssumption
  <1>2. ASSUME NEW w \in Slots, AssignRider(w), riderStatus[r] # "BUSY"
        PROVE  \E o \in Orders : riderOf'[o] = r
    <2>1. call[w].order \in Orders /\ call[w].rider \in Riders
      BY <1>2, CallFields DEF AssignRider
    <2>2. r = call[w].rider /\ riderOf' = [riderOf EXCEPT ![call[w].order] = r]
      BY <1>2, <2>1 DEF AssignRider, ClaimOrder, TypeOK
    <2> QED
      BY <2>1, <2>2 DEF TypeOK
  <1>3. ASSUME NEW w \in Slots, ReleaseSet(w) \/ CancelListenerSet(w), riderStatus[r] # "BUSY"
        PROVE  FALSE
    BY <1>3 DEF ReleaseSet, CancelListenerSet, TypeOK
  <1>4. ASSUME Environment, riderStatus[r] # "BUSY"
        PROVE  \E o \in Orders : riderOf'[o] = r
    <2>1. PICK o \in Orders, x \in Riders : StaffAssignRider(o, x)
      BY <1>4 DEF Environment, SetAvailability, ReviewVerification, TypeOK
    <2>2. x = r /\ riderOf' = [riderOf EXCEPT ![o] = r]
      BY <1>4, <2>1 DEF StaffAssignRider, ClaimOrder, TypeOK
    <2> QED
      BY <2>2 DEF TypeOK
  <1>5. ASSUME NEW w \in Slots,
               \/ Request(w) \/ Abandon(w) \/ Crash(w)
               \/ UpdateStatusWrite(w) \/ BundleCount(w) \/ BundleFind(w)
               \/ (\E c \in Orders : BundleClaim(w, c)) \/ BundleDone(w)
               \/ ReleaseCount(w) \/ ConfirmDeliveryWrite(w)
               \/ SettleRead(w) \/ SettleWrite(w) \/ CancelWrite(w)
               \/ CancelListenerCount(w) \/ CancelCommit(w)
        PROVE  riderStatus[r] = "BUSY"
    BY <1>5
    DEF Request, UpdateStatusRead, AcceptOrder, ConfirmDeliveryRead, CancelRead, Abandon, Crash,
        UpdateStatusWrite, BundleCount, BundleFind, BundleClaim, BundleDone, ReleaseCount,
        ConfirmDeliveryWrite, SettleRead, SettleWrite, CancelWrite, CancelListenerCount,
        CancelCommit, riderVars
  <1>6. ASSUME UNCHANGED vars
        PROVE  riderStatus[r] = "BUSY"
    BY <1>6 DEF vars
  <1> QED
    BY <1>1, <1>2, <1>3, <1>4, <1>5, <1>6 DEF Next, Proceed

\* Nothing half-assigned: a BUSY rider has been bound to some order, provided
\* riders cannot declare themselves BUSY.
THEOREM NothingHalfAssignedHolds ==
    "BUSY" \notin RiderToggles => (Spec => []NothingHalfAssigned)
  <1> SUFFICES ASSUME "BUSY" \notin RiderToggles
               PROVE  Spec => []NothingHalfAssigned
    OBVIOUS
  <1>1. TypeOK /\ NothingHalfAssigned /\ [Next]_vars => NothingHalfAssigned'
    BY HalfStep
  <1>2. Init => NothingHalfAssigned
    BY DEF Init, NothingHalfAssigned
  <1> QED
    BY <1>1, <1>2, TypeCorrect, PTL DEF Spec

--------------------------------------------------------------------------------
(* Only riders an admin has reviewed carry orders.                          *)

ReviewedCall(c) ==
    c.op \in {"accept", "bundleCount", "bundleFind", "bundle"}
        => verification[c.rider] # "PENDING"

ReviewedInv == OnlyReviewedRidersCarry /\ \A w \in Slots : ReviewedCall(call[w])

\* Once reviewed, a rider is never PENDING again.
LEMMA ReviewedStays ==
    ASSUME TypeOK, [Next]_vars, NEW r \in Riders, verification[r] # "PENDING"
    PROVE  verification'[r] # "PENDING"
  <1>1. ASSUME NEW x \in Riders, NEW v \in Reviews, ReviewVerification(x, v)
        PROVE  verification'[r] # "PENDING"
    BY <1>1, DispatchAssumption DEF ReviewVerification, TypeOK
  <1>2. ASSUME NEW w \in Slots, Request(w) \/ Proceed(w) \/ Abandon(w) \/ Crash(w)
        PROVE  verification' = verification
    BY <1>2
    DEF Request, UpdateStatusRead, AcceptOrder, ConfirmDeliveryRead, CancelRead, Abandon,
        Crash, Proceed, UpdateStatusWrite, AssignRider, BundleCount, BundleFind, BundleClaim,
        BundleDone, ReleaseCount, ReleaseSet, ConfirmDeliveryWrite, SettleRead, SettleWrite,
        CancelWrite, CancelListenerCount, CancelListenerSet, CancelCommit, riderVars
  <1>3. ASSUME NEW x \in Riders, NEW s \in RiderToggles, SetAvailability(x, s)
        PROVE  verification' = verification
    BY <1>3 DEF SetAvailability
  <1>4. CASE UNCHANGED vars
    BY <1>4 DEF vars
  <1> QED
    BY <1>1, <1>2, <1>3, <1>4 DEF Next, Environment, StaffAssignRider

LEMMA ReviewedStep ==
    ASSUME ~ StaffAssigns, TypeOK, ReviewedInv, [Next]_vars
    PROVE  ReviewedInv'
  <1> USE DEF ReviewedInv
  <1>0. ASSUME NEW r \in Riders, verification[r] # "PENDING"
        PROVE  verification'[r] # "PENDING"
    BY <1>0, ReviewedStays
  \* The orders bound so far stay with a reviewed rider.
  <1>1. ASSUME NEW o \in Orders, riderOf[o] # NoRider
        PROVE  riderOf'[o] # NoRider => verification'[riderOf'[o]] # "PENDING"
    <2>1. riderOf[o] \in Riders /\ verification[riderOf[o]] # "PENDING"
      BY <1>1 DEF OnlyReviewedRidersCarry, TypeOK
    <2> QED
      BY <1>0, <1>1, <2>1, BoundStays
  \* The requests that do not move keep a reviewed rider.
  <1>2. ASSUME NEW v \in Slots, call'[v] = call[v]
        PROVE  ReviewedCall(call[v])'
    BY <1>0, <1>2, CallFields DEF ReviewedCall
  <1>3. ASSUME NEW w \in Slots, NEW c, Continue(w, c), riderOf' = riderOf,
               c.op \in {"accept", "bundleCount", "bundleFind", "bundle"}
                   => c.rider \in Riders /\ verification[c.rider] # "PENDING"
        PROVE  ReviewedInv'
    <2>1. OnlyReviewedRidersCarry'
      BY <1>1, <1>3 DEF OnlyReviewedRidersCarry
    <2>2. ASSUME NEW v \in Slots
          PROVE  ReviewedCall(call[v])'
      <3>1. CASE v = w
        BY <1>0, <1>3, <3>1, ContinueExact DEF ReviewedCall
      <3>2. CASE v # w
        BY <1>2, <1>3, <3>2, ContinueExact
      <3> QED
        BY <3>1, <3>2
    <2> QED
      BY <2>1, <2>2
  \* A claim by a slot that serves a reviewed rider.
  <1>4. ASSUME NEW w \in Slots, NEW o \in Orders, NEW r \in Riders, NEW c,
               verification[r] # "PENDING", riderOf' = [riderOf EXCEPT ![o] = r],
               Continue(w, c),
               c.op \in {"accept", "bundleCount", "bundleFind", "bundle"} => c.rider = r
        PROVE  ReviewedInv'
    <2>1. ASSUME NEW x \in Orders, riderOf'[x] # NoRider
          PROVE  verification'[riderOf'[x]] # "PENDING"
      BY <1>0, <1>1, <1>4, <2>1 DEF TypeOK
    <2>2. ASSUME NEW v \in Slots
          PROVE  ReviewedCall(call[v])'
      <3>1. CASE v = w
        BY <1>0, <1>4, <3>1, ContinueExact DEF ReviewedCall
      <3>2. CASE v # w
        BY <1>2, <1>4, <3>2, ContinueExact
      <3> QED
        BY <3>1, <3>2
    <2> QED
      BY <2>1, <2>2 DEF OnlyReviewedRidersCarry
  <1>5. ASSUME NEW w \in Slots, NEW o \in Orders, NEW r \in Riders, AcceptOrder(w, o, r)
        PROVE  ReviewedInv'
    BY <1>3, <1>5 DEF AcceptOrder, orderVars
  <1>6. ASSUME NEW w \in Slots, AssignRider(w)
        PROVE  ReviewedInv'
    <2> DEFINE o == call[w].order
               r == call[w].rider
    <2>1. o \in Orders /\ r \in Riders /\ verification[r] # "PENDING"
      BY <1>6, CallFields DEF AssignRider, ReviewedCall
    <2>2. CASE RiderClaimable(r) /\ Claimable(o)
      BY <1>4, <1>6, <2>1, <2>2 DEF AssignRider, ClaimOrder, Idle
    <2>3. CASE ~ (RiderClaimable(r) /\ Claimable(o))
      BY <1>3, <1>6, <2>3 DEF AssignRider, Idle
    <2> QED
      BY <2>2, <2>3
  <1>7. ASSUME NEW w \in Slots, NEW o \in Orders, BundleClaim(w, o)
        PROVE  ReviewedInv'
    <2>1. call[w].rider \in Riders /\ verification[call[w].rider] # "PENDING"
      BY <1>7, CallFields DEF BundleClaim, ReviewedCall
    <2>2. CASE Claimable(o)
      BY <1>4, <1>7, <2>1, <2>2 DEF BundleClaim, ClaimOrder, Bundling
    <2>3. CASE ~ Claimable(o)
      BY <1>3, <1>7, <2>1, <2>3 DEF BundleClaim, Bundling
    <2> QED
      BY <2>2, <2>3
  <1>8. ASSUME NEW w \in Slots, BundleCount(w) \/ BundleFind(w)
        PROVE  ReviewedInv'
    <2>1. call[w].rider \in Riders /\ verification[call[w].rider] # "PENDING"
      BY <1>8, CallFields DEF BundleCount, BundleFind, ReviewedCall
    <2> QED
      BY <1>3, <1>8, <2>1 DEF BundleCount, BundleFind, Bundling, orderVars, Idle
  <1>9. ASSUME NEW w \in Slots, NEW o \in Orders,
               \/ \E s \in ClientStatuses : UpdateStatusRead(w, o, s)
               \/ ConfirmDeliveryRead(w, o) \/ CancelRead(w, o)
        PROVE  ReviewedInv'
    BY <1>3, <1>9 DEF UpdateStatusRead, ConfirmDeliveryRead, CancelRead, orderVars
  <1>10. ASSUME NEW w \in Slots, UpdateStatusWrite(w)
         PROVE  ReviewedInv'
    BY <1>3, <1>10 DEF UpdateStatusWrite, ListenerOf, ReleaseCall, Idle
  <1>11. ASSUME NEW w \in Slots,
                \/ BundleDone(w) \/ ReleaseCount(w) \/ ReleaseSet(w) \/ ConfirmDeliveryWrite(w)
                \/ SettleRead(w) \/ SettleWrite(w) \/ CancelWrite(w) \/ CancelListenerCount(w)
                \/ CancelListenerSet(w) \/ CancelCommit(w) \/ Abandon(w) \/ Crash(w)
         PROVE  ReviewedInv'
    BY <1>3, <1>11
    DEF BundleDone, ReleaseCount, ReleaseSet, ConfirmDeliveryWrite, SettleRead, SettleWrite,
        CancelWrite, CancelListenerCount, CancelListenerSet, CancelCommit, Abandon, Crash,
        Cancelling, ListenerLeft, orderVars, Idle
  <1>12. CASE Environment \/ UNCHANGED vars
    <2>1. UNCHANGED <<riderOf, call>>
      BY <1>12
      DEF Environment, SetAvailability, ReviewVerification, StaffAssignRider, orderVars, vars
    <2> QED
      BY <1>1, <1>2, <2>1 DEF OnlyReviewedRidersCarry
  <1> QED
    BY <1>5, <1>6, <1>7, <1>8, <1>9, <1>10, <1>11, <1>12 DEF Next, Request, Proceed

LEMMA ReviewedInit == Init => ReviewedInv
  BY DEF Init, ReviewedInv, OnlyReviewedRidersCarry, ReviewedCall, Idle

\* acceptOrder's verification check: no order is ever bound to a rider no admin
\* has reviewed, though the verdict may change between the check and the claim,
\* provided the station does not assign riders by hand.
THEOREM OnlyReviewedRidersCarryHolds ==
    ~ StaffAssigns => (Spec => []OnlyReviewedRidersCarry)
  <1> SUFFICES ASSUME ~ StaffAssigns
               PROVE  Spec => []OnlyReviewedRidersCarry
    OBVIOUS
  <1>2. TypeOK /\ ReviewedInv /\ [Next]_vars => ReviewedInv'
    BY ReviewedStep
  <1>3. ReviewedInv => OnlyReviewedRidersCarry
    BY DEF ReviewedInv
  <1> QED
    BY <1>2, <1>3, ReviewedInit, TypeCorrect, PTL DEF Spec
--------------------------------------------------------------------------------
(* The lifecycle, when clients do not race on one order.                    *)

\* What the handler serving c has read of its order is still so.
CurrentCall(c, st) ==
    /\ c.op = "update" =>
          /\ c.to \in ShippedClientStatuses
          /\ IsValidTransition(st[c.order], c.to)
    /\ c.op = "confirm" => st[c.order] = "DELIVERED"
    /\ c.op \in {"settle", "settling"} => st[c.order] = "CUSTOMER_CONFIRMED"
    /\ c.op \in {"cancel", "cancelling"} => st[c.order] \in CancellableStatuses

Exclusive ==
    \A v, w \in Slots :
        call[v].op \in WriterOps /\ call[w].op \in WriterOps
            /\ call[v].order = call[w].order => v = w

CurrentInv == Exclusive /\ \A w \in Slots : CurrentCall(call[w], status)

OneShippedWriter == OneWriterPerOrder /\ ClientStatuses \subseteq ShippedClientStatuses

LEMMA Statuses ==
    /\ "RIDER_ASSIGNED" \notin ShippedClientStatuses
    /\ "CANCELLED" \notin ShippedClientStatuses
    /\ "CUSTOMER_CONFIRMED" \notin ShippedClientStatuses
    /\ ShippedClientStatuses \subseteq OrderStatus
    /\ \A t : IsValidTransition("PREPARING", t) => t = "RIDER_ASSIGNED"
    /\ "PREPARING" \in CancellableStatuses /\ "RIDER_ASSIGNED" \in CancellableStatuses
  BY DEF ShippedClientStatuses, StationConsoleStatuses, RiderAppStatuses, IsValidTransition,
         TransitionMap, CancellableStatuses, OrderStatus

\* A claim spoils nobody's reading: it only changes PREPARING, which no
\* shipped update leaves, to another cancellable status.
LEMMA ClaimKeepsCurrent ==
    ASSUME TypeOK, NEW o \in Orders, status[o] = "PREPARING",
           status' = [status EXCEPT ![o] = "RIDER_ASSIGNED"],
           NEW w \in Slots, CurrentCall(call[w], status)
    PROVE  CurrentCall(call[w], status')
  <1>1. call[w].op \in WriterOps => call[w].order \in Orders
    BY CallFields
  <1>2. CASE call[w].op \notin WriterOps
    BY <1>2 DEF CurrentCall, WriterOps
  <1>3. CASE call[w].op \in WriterOps /\ call[w].order = o
    BY <1>3, Statuses DEF CurrentCall, TypeOK, WriterOps
  <1>4. CASE call[w].op \in WriterOps /\ call[w].order # o
    BY <1>1, <1>4 DEF CurrentCall, TypeOK, WriterOps
  <1> QED
    BY <1>2, <1>3, <1>4

\* A slot goes on to c, a call that writes no order but the slot's own; the
\* status of no order another slot writes has changed.
LEMMA CurrentAfter ==
    ASSUME TypeOK, CurrentInv, NEW w \in Slots, NEW c, Continue(w, c),
           CurrentCall(c, status'),
           \A v \in Slots \ {w} : CurrentCall(call[v], status'),
           c.op \in WriterOps =>
               \A v \in Slots \ {w} : ~ (call[v].op \in WriterOps /\ call[v].order = c.order)
    PROVE  CurrentInv'
  <1>1. call'[w] = c /\ \A v \in Slots \ {w} : call'[v] = call[v]
    BY ContinueExact
  <1>2. \A v \in Slots : CurrentCall(call'[v], status')
    BY <1>1
  <1>3. Exclusive'
    BY <1>1 DEF CurrentInv, Exclusive
  <1> QED
    BY <1>2, <1>3 DEF CurrentInv

\* A writer's UPDATE touches no order another slot is about to write.
LEMMA WriteKeepsOthers ==
    ASSUME TypeOK, CurrentInv, NEW w \in Slots, call[w].op \in WriterOps, NEW s,
           status' = [status EXCEPT ![call[w].order] = s],
           NEW v \in Slots \ {w}
    PROVE  CurrentCall(call[v], status')
  <1>1. CASE call[v].op \in WriterOps
    <2>1. call[v].order # call[w].order
      BY <1>1 DEF CurrentInv, Exclusive
    <2>2. call[v].order \in Orders /\ call[w].order \in Orders
      BY <1>1, CallFields
    <2>3. status'[call[v].order] = status[call[v].order]
      BY <2>1, <2>2 DEF TypeOK
    <2> QED
      BY <2>3 DEF CurrentInv, CurrentCall
  <1>2. CASE call[v].op \notin WriterOps
    BY <1>2 DEF CurrentCall, WriterOps
  <1> QED
    BY <1>1, <1>2

LEMMA CurrentStep ==
    ASSUME OneShippedWriter, TypeOK, CurrentInv, [Next]_vars
    PROVE  CurrentInv'
  <1>a. \A w \in Slots : CurrentCall(call[w], status)
    BY DEF CurrentInv
  \* A request starts writing an order no other slot writes.
  <1>1. ASSUME NEW w \in Slots, NEW o \in Orders, NEW c, MayStart(w, o), Continue(w, c),
               UNCHANGED status, c.order = o, CurrentCall(c, status)
        PROVE  CurrentInv'
    <2>1. \A v \in Slots \ {w} : ~ (call[v].op \in WriterOps /\ call[v].order = c.order)
      BY <1>1 DEF OneShippedWriter, MayStart, Writes
    <2> QED
      BY <1>a, <1>1, <2>1, CurrentAfter
  \* A slot goes on with the order it writes, or with none.
  <1>2. ASSUME NEW w \in Slots, NEW c, Continue(w, c), UNCHANGED status,
               CurrentCall(c, status),
               c.op \in WriterOps => call[w].op \in WriterOps /\ c.order = call[w].order
        PROVE  CurrentInv'
    <2>1. c.op \in WriterOps =>
              \A v \in Slots \ {w} : ~ (call[v].op \in WriterOps /\ call[v].order = c.order)
      BY <1>2 DEF CurrentInv, Exclusive
    <2> QED
      BY <1>a, <1>2, <2>1, CurrentAfter
  \* A slot writes its order.
  <1>3. ASSUME NEW w \in Slots, NEW c, NEW s, call[w].op \in WriterOps, Continue(w, c),
               status' = [status EXCEPT ![call[w].order] = s],
               CurrentCall(c, status'),
               c.op \in WriterOps => c.order = call[w].order
        PROVE  CurrentInv'
    <2>1. c.op \in WriterOps =>
              \A v \in Slots \ {w} : ~ (call[v].op \in WriterOps /\ call[v].order = c.order)
      BY <1>3 DEF CurrentInv, Exclusive
    <2>2. \A v \in Slots \ {w} : CurrentCall(call[v], status')
      BY <1>3, WriteKeepsOthers
    <2> QED
      BY <1>3, <2>1, <2>2, CurrentAfter
  \* A slot claims an order.
  <1>4. ASSUME NEW w \in Slots, NEW o \in Orders, NEW r, NEW c, Claimable(o), ClaimOrder(o, r),
               Continue(w, c), c.op \in {"idle", "bundleCount", "bundle"}
        PROVE  CurrentInv'
    <2>1. \A v \in Slots \ {w} : CurrentCall(call[v], status')
      BY <1>a, <1>4, ClaimKeepsCurrent DEF Claimable, ClaimOrder
    <2>2. CurrentCall(c, status') /\ c.op \notin WriterOps
      BY <1>4 DEF CurrentCall, WriterOps
    <2> QED
      BY <1>4, <2>1, <2>2, CurrentAfter
  <1>5. ASSUME NEW w \in Slots, NEW o \in Orders, NEW s \in ClientStatuses,
               UpdateStatusRead(w, o, s)
        PROVE  CurrentInv'
    BY <1>1, <1>5 DEF OneShippedWriter, UpdateStatusRead, orderVars, CurrentCall
  <1>6. ASSUME NEW w \in Slots, NEW o \in Orders, ConfirmDeliveryRead(w, o) \/ CancelRead(w, o)
        PROVE  CurrentInv'
    BY <1>1, <1>6 DEF ConfirmDeliveryRead, CancelRead, orderVars, CurrentCall
  <1>7. ASSUME NEW w \in Slots, UpdateStatusWrite(w)
        PROVE  CurrentInv'
    <2> DEFINE c == ListenerOf(call[w].order, call[w].to)
               s == call[w].to
    <2>1. call[w].to # "CUSTOMER_CONFIRMED"
      BY <1>a, <1>7, Statuses DEF UpdateStatusWrite, CurrentCall
    <2>2. c.op \in {"idle", "release"}
      BY <2>1 DEF ListenerOf, ReleaseCall, Idle
    <2>3. /\ call[w].op \in WriterOps /\ Continue(w, c)
          /\ status' = [status EXCEPT ![call[w].order] = s]
      BY <1>7 DEF UpdateStatusWrite, WriterOps
    <2>4. CurrentCall(c, status') /\ c.op \notin WriterOps
      BY <2>2 DEF CurrentCall, WriterOps
    <2> QED
      BY <1>3, <2>3, <2>4
  <1>8. ASSUME NEW w \in Slots, AssignRider(w)
        PROVE  CurrentInv'
    <2> DEFINE o == call[w].order
               r == call[w].rider
    <2>1. o \in Orders
      BY <1>8, CallFields DEF AssignRider
    <2>2. CASE RiderClaimable(r) /\ Claimable(o)
      BY <1>4, <1>8, <2>1, <2>2 DEF AssignRider, Idle
    <2>3. CASE ~ (RiderClaimable(r) /\ Claimable(o))
      BY <1>2, <1>8, <2>3 DEF AssignRider, Idle, CurrentCall, WriterOps
    <2> QED
      BY <2>2, <2>3
  <1>9. ASSUME NEW w \in Slots, NEW o \in Orders, BundleClaim(w, o)
        PROVE  CurrentInv'
    <2>1. CASE Claimable(o)
      BY <1>4, <1>9, <2>1 DEF BundleClaim, Bundling
    <2>2. CASE ~ Claimable(o)
      BY <1>2, <1>9, <2>2 DEF BundleClaim, Bundling, CurrentCall, WriterOps
    <2> QED
      BY <2>1, <2>2
  <1>10. ASSUME NEW w \in Slots, ConfirmDeliveryWrite(w)
         PROVE  CurrentInv'
    <2> DEFINE c == [op |-> "settle", order |-> call[w].order]
               s == "CUSTOMER_CONFIRMED"
    <2>1. /\ call[w].op \in WriterOps /\ Continue(w, c) /\ call[w].order \in Orders
          /\ status' = [status EXCEPT ![call[w].order] = s]
      BY <1>10, CallFields DEF ConfirmDeliveryWrite, WriterOps
    <2>2. status'[call[w].order] = s
      BY <2>1 DEF TypeOK
    <2>3. CurrentCall(c, status') /\ c.order = call[w].order
      BY <2>2 DEF CurrentCall
    <2> QED
      BY <1>3, <2>1, <2>3
  <1>11. ASSUME NEW w \in Slots, SettleRead(w)
         PROVE  CurrentInv'
    BY <1>2, <1>11 DEF SettleRead, orderVars, CurrentCall, WriterOps, Idle
  <1>12. ASSUME NEW w \in Slots, SettleWrite(w)
         PROVE  CurrentInv'
    <2> DEFINE c == Idle
               s == "COMPLETED"
    <2>1. /\ call[w].op \in WriterOps /\ Continue(w, c)
          /\ status' = [status EXCEPT ![call[w].order] = s]
      BY <1>12 DEF SettleWrite, WriterOps
    <2>2. CurrentCall(c, status') /\ c.op \notin WriterOps
      BY DEF CurrentCall, WriterOps, Idle
    <2> QED
      BY <1>3, <2>1, <2>2
  <1>13. ASSUME NEW w \in Slots,
                CancelWrite(w) \/ CancelListenerCount(w) \/ CancelListenerSet(w)
         PROVE  CurrentInv'
    <2>1. status[call[w].order] \in CancellableStatuses
      BY <1>a, <1>13 DEF CancelWrite, CancelListenerCount, CancelListenerSet, CurrentCall
    <2>2. \A l : CurrentCall(Cancelling(call[w].order, call[w].rider, l), status)
                 /\ CurrentCall(Cancelling(call[w].order, riderOf[call[w].order], l), status)
      BY <2>1 DEF Cancelling, CurrentCall
    <2> QED
      BY <1>2, <1>13, <2>2
      DEF CancelWrite, CancelListenerCount, CancelListenerSet, Cancelling, orderVars, WriterOps
  <1>14. ASSUME NEW w \in Slots, CancelCommit(w)
         PROVE  CurrentInv'
    <2> DEFINE c == ListenerLeft(call[w])
               s == "CANCELLED"
    <2>1. c.op \in {"idle", "release", "free"}
      BY DEF ListenerLeft, Idle
    <2>2. /\ call[w].op \in WriterOps /\ Continue(w, c)
          /\ status' = [status EXCEPT ![call[w].order] = s]
      BY <1>14 DEF CancelCommit, WriterOps
    <2>3. CurrentCall(c, status') /\ c.op \notin WriterOps
      BY <2>1 DEF CurrentCall, WriterOps
    <2> QED
      BY <1>3, <2>2, <2>3
  <1>15. ASSUME NEW w \in Slots,
                \/ \E o \in Orders, r \in Riders : AcceptOrder(w, o, r)
                \/ BundleCount(w) \/ BundleFind(w) \/ BundleDone(w)
                \/ ReleaseCount(w) \/ ReleaseSet(w) \/ Abandon(w) \/ Crash(w)
         PROVE  CurrentInv'
    BY <1>2, <1>15
    DEF AcceptOrder, BundleCount, BundleFind, BundleDone, ReleaseCount, ReleaseSet, Abandon,
        Crash, Bundling, orderVars, CurrentCall, WriterOps, Idle
  <1>16. CASE Environment \/ UNCHANGED vars
    <2>1. ASSUME NEW o \in Orders, NEW r \in Riders, StaffAssignRider(o, r)
          PROVE  CurrentInv'
      <3>1. ASSUME NEW v \in Slots
            PROVE  CurrentCall(call[v], status')
        BY <1>a, <2>1, ClaimKeepsCurrent DEF StaffAssignRider, Claimable, ClaimOrder
      <3> QED
        BY <2>1, <3>1 DEF StaffAssignRider, CurrentInv, Exclusive
    <2> QED
      BY <1>a, <1>16, <2>1
      DEF Environment, SetAvailability, ReviewVerification, vars, orderVars, CurrentInv,
          Exclusive
  <1> QED
    BY <1>5, <1>6, <1>7, <1>8, <1>9, <1>10, <1>11, <1>12, <1>13, <1>14, <1>15, <1>16
    DEF Next, Request, Proceed
LEMMA CurrentInit == Init => CurrentInv
  BY DEF Init, CurrentInv, Exclusive, CurrentCall, WriterOps, Idle

LEMMA SameMap ==
    /\ Lifecycle!CancellableStatuses = CancellableStatuses
    /\ Lifecycle!OrderStatus = OrderStatus
    /\ \A s, t : Lifecycle!IsValidTransition(s, t) <=> IsValidTransition(s, t)
  BY DEF Lifecycle!CancellableStatuses, CancellableStatuses, Lifecycle!OrderStatus, OrderStatus,
         Lifecycle!IsValidTransition, IsValidTransition, Lifecycle!TransitionMap, TransitionMap

LEMMA LifecycleStep ==
    ASSUME TypeOK, CurrentInv, [Next]_vars
    PROVE  [Lifecycle!Next]_(Lifecycle!vars)
  <1>a. \A w \in Slots : CurrentCall(call[w], status)
    BY DEF CurrentInv
  <1>1. ASSUME UNCHANGED <<status, riderOf>>
        PROVE  [Lifecycle!Next]_(Lifecycle!vars)
    BY <1>1 DEF Lifecycle!vars
  \* An edge of the map; it is neither the claim nor a cancellation.
  <1>2. ASSUME NEW o \in Orders, NEW s \in OrderStatus \ {"RIDER_ASSIGNED", "CANCELLED"},
               IsValidTransition(status[o], s), status' = [status EXCEPT ![o] = s],
               riderOf' = riderOf
        PROVE  Lifecycle!Next
    BY <1>2, SameMap DEF Lifecycle!Next, Lifecycle!Advance
  <1>3. ASSUME NEW o \in Orders, NEW r \in Riders, Claimable(o), ClaimOrder(o, r)
        PROVE  Lifecycle!Next
    BY <1>3 DEF Claimable, ClaimOrder, Lifecycle!Next, Lifecycle!Claim
  <1>4. ASSUME NEW w \in Slots, UpdateStatusWrite(w)
        PROVE  Lifecycle!Next
    <2>1. /\ call[w].order \in Orders /\ call[w].to \in ShippedClientStatuses
          /\ IsValidTransition(status[call[w].order], call[w].to)
      BY <1>a, <1>4, CallFields DEF UpdateStatusWrite, CurrentCall
    <2> QED
      BY <1>2, <1>4, <2>1, Statuses DEF UpdateStatusWrite
  <1>5. ASSUME NEW w \in Slots, ConfirmDeliveryWrite(w)
        PROVE  Lifecycle!Next
    <2>1. call[w].order \in Orders /\ status[call[w].order] = "DELIVERED"
      BY <1>a, <1>5, CallFields DEF ConfirmDeliveryWrite, CurrentCall, WriterOps
    <2> QED
      BY <1>2, <1>5, <2>1
      DEF ConfirmDeliveryWrite, IsValidTransition, TransitionMap, OrderStatus
  <1>6. ASSUME NEW w \in Slots, SettleWrite(w)
        PROVE  Lifecycle!Next
    <2>1. call[w].order \in Orders /\ status[call[w].order] = "CUSTOMER_CONFIRMED"
      BY <1>a, <1>6, CallFields DEF SettleWrite, CurrentCall, WriterOps
    <2> QED
      BY <1>2, <1>6, <2>1 DEF SettleWrite, IsValidTransition, TransitionMap, OrderStatus
  <1>7. ASSUME NEW w \in Slots, CancelCommit(w)
        PROVE  Lifecycle!Next
    <2>1. call[w].order \in Orders /\ status[call[w].order] \in CancellableStatuses
      BY <1>a, <1>7, CallFields DEF CancelCommit, CurrentCall, WriterOps
    <2> QED
      BY <1>7, <2>1, SameMap DEF CancelCommit, Lifecycle!Next, Lifecycle!Cancel
  <1>8. ASSUME NEW w \in Slots, AssignRider(w)
        PROVE  [Lifecycle!Next]_(Lifecycle!vars)
    <2>1. call[w].order \in Orders /\ call[w].rider \in Riders
      BY <1>8, CallFields DEF AssignRider
    <2> QED
      BY <1>1, <1>3, <1>8, <2>1 DEF AssignRider
  <1>9. ASSUME NEW w \in Slots, NEW o \in Orders, BundleClaim(w, o)
        PROVE  [Lifecycle!Next]_(Lifecycle!vars)
    <2>1. call[w].rider \in Riders
      BY <1>9, CallFields DEF BundleClaim
    <2> QED
      BY <1>1, <1>3, <1>9, <2>1 DEF BundleClaim
  <1>10. ASSUME NEW w \in Slots,
               \/ Request(w) \/ Abandon(w) \/ Crash(w)
               \/ BundleCount(w) \/ BundleFind(w) \/ BundleDone(w)
               \/ ReleaseCount(w) \/ ReleaseSet(w) \/ SettleRead(w) \/ CancelWrite(w)
               \/ CancelListenerCount(w) \/ CancelListenerSet(w)
         PROVE  UNCHANGED <<status, riderOf>>
    BY <1>10
    DEF Request, UpdateStatusRead, AcceptOrder, ConfirmDeliveryRead, CancelRead, Abandon, Crash,
        BundleCount, BundleFind, BundleDone, ReleaseCount, ReleaseSet, SettleRead, CancelWrite,
        CancelListenerCount, CancelListenerSet, orderVars
  <1>11. CASE Environment \/ UNCHANGED vars
    <2>1. ASSUME NEW o \in Orders, NEW r \in Riders, StaffAssignRider(o, r)
          PROVE  Lifecycle!Next
      BY <1>3, <2>1 DEF StaffAssignRider
    <2>2. ASSUME NEW r \in Riders, NEW s, SetAvailability(r, s) \/ ReviewVerification(r, s)
          PROVE  UNCHANGED <<status, riderOf>>
      BY <2>2 DEF SetAvailability, ReviewVerification, orderVars
    <2> QED
      BY <1>1, <1>11, <2>1, <2>2 DEF Environment, vars
  <1> QED
    BY <1>1, <1>4, <1>5, <1>6, <1>7, <1>8, <1>9, <1>10, <1>11 DEF Next, Proceed

\* Dispatch implements the order lifecycle: with shipped clients that do not
\* race on one order, every change of a status or of a rider is an edge of the
\* transition map, a claim or a permitted cancellation.
THEOREM LifecycleImplemented == OneShippedWriter => (Spec => ImplementsLifecycle)
  <1> SUFFICES ASSUME OneShippedWriter
               PROVE  Spec => ImplementsLifecycle
    OBVIOUS
  <1>1. Init => Lifecycle!Init
    BY DEF Init, Lifecycle!Init
  <1>2. TypeOK /\ CurrentInv /\ [Next]_vars => CurrentInv'
    BY CurrentStep
  <1>3. TypeOK /\ CurrentInv /\ [Next]_vars => [Lifecycle!Next]_(Lifecycle!vars)
    BY LifecycleStep
  <1> QED
    BY <1>1, <1>2, <1>3, CurrentInit, TypeCorrect, PTL DEF Spec, ImplementsLifecycle, Lifecycle!Spec

--------------------------------------------------------------------------------
(* Nobody is stranded, when nothing is cancelled and nothing crashes.       *)

\* What the theorem is about: clients as shipped, one at a time on one order.
\* Riders may toggle their availability and stations assign by hand.
Undisturbed ==
    /\ OneShippedWriter
    /\ ~ AllowCancel
    /\ ~ AllowCrash
    /\ "BUSY" \notin RiderToggles

\* A listener is on its way to free r; a bundle that is still looked for is not
\* enough, it may end without an order.
Freeing(r) == \E w \in Slots : call[w].op \in {"release", "free"} /\ call[w].rider = r

Forgotten(r) == riderStatus[r] = "BUSY" /\ ActiveOrdersOf(r) = {}

FreedInv ==
    /\ \A w \in Slots : call[w].op \notin {"cancel", "cancelling"}
    /\ \A r \in Riders : Forgotten(r) => Freeing(r)

\* A slot goes on to c.  Whoever is forgotten now was so before and is not who the
\* slot was to free, or c frees him.
LEMMA FreedAfter ==
    ASSUME TypeOK, FreedInv, NEW w \in Slots, NEW c, Continue(w, c),
           c.op \notin {"cancel", "cancelling"},
           \A r \in Riders : Forgotten(r)' =>
               \/ c.op \in {"release", "free"} /\ c.rider = r
               \/ Forgotten(r) /\ ~ (call[w].op \in {"release", "free"} /\ call[w].rider = r)
    PROVE  FreedInv'
  <1>1. call'[w] = c /\ \A v \in Slots \ {w} : call'[v] = call[v]
    BY ContinueExact
  <1>2. ASSUME NEW r \in Riders, Forgotten(r)'
        PROVE  Freeing(r)'
    <2>1. CASE c.op \in {"release", "free"} /\ c.rider = r
      BY <1>1, <2>1 DEF Freeing
    <2>2. CASE Forgotten(r) /\ ~ (call[w].op \in {"release", "free"} /\ call[w].rider = r)
      <3>1. PICK v \in Slots : call[v].op \in {"release", "free"} /\ call[v].rider = r
        BY <2>2 DEF FreedInv, Freeing
      <3> QED
        BY <1>1, <2>2, <3>1 DEF Freeing
    <2> QED
      BY <1>2, <2>1, <2>2
  <1>3. \A v \in Slots : call'[v].op \notin {"cancel", "cancelling"}
    BY <1>1 DEF FreedInv
  <1> QED
    BY <1>2, <1>3 DEF FreedInv

\* A claim leaves nobody forgotten who was not: it only takes AVAILABLE riders,
\* and gives them an order.
LEMMA ClaimForgetsNobody ==
    ASSUME TypeOK, NEW o \in Orders, NEW r \in Riders, Claimable(o), ClaimOrder(o, r),
           \/ riderStatus' = riderStatus
           \/ riderStatus' = [riderStatus EXCEPT ![r] = "BUSY"],
           NEW q \in Riders, Forgotten(q)'
    PROVE  Forgotten(q)
  <1>1. \A x \in Orders \ {o} : status'[x] = status[x] /\ riderOf'[x] = riderOf[x]
    BY DEF ClaimOrder, TypeOK
  <1>2. status'[o] \in ActiveStatuses /\ riderOf'[o] = r
    BY DEF ClaimOrder, TypeOK, ActiveStatuses
  <1>3. q # r
    BY <1>2 DEF Forgotten, ActiveOrdersOf
  <1>4. riderStatus[q] = "BUSY"
    BY <1>3 DEF Forgotten, TypeOK
  <1>5. ActiveOrdersOf(q) = {}
    BY <1>1, DispatchAssumption DEF Forgotten, ActiveOrdersOf, Claimable
  <1> QED
    BY <1>4, <1>5 DEF Forgotten

LEMMA LastActiveEdge ==
    ASSUME NEW s \in ActiveStatuses, NEW t, IsValidTransition(s, t)
    PROVE  t \in ActiveStatuses \cup {"DELIVERED"}
  BY DEF IsValidTransition, TransitionMap, ActiveStatuses

LEMMA FreedStep ==
    ASSUME Undisturbed, TypeOK, CurrentInv, FreedInv, [Next]_vars
    PROVE  FreedInv'
  \* Slots that are not about to free anybody go on, and the orders stay.
  <1>1. ASSUME NEW w \in Slots, NEW c, Continue(w, c),
               call[w].op \notin {"release", "free"}, c.op \notin {"cancel", "cancelling"},
               UNCHANGED <<status, riderOf, riderStatus>>
        PROVE  FreedInv'
    BY <1>1, FreedAfter DEF Forgotten, ActiveOrdersOf
  \* A status is written that nobody loses by.
  <1>2. ASSUME NEW w \in Slots, NEW c, Continue(w, c), NEW o \in Orders, NEW s,
               call[w].op \notin {"release", "free"}, c.op \notin {"cancel", "cancelling"},
               status' = [status EXCEPT ![o] = s], UNCHANGED <<riderOf, riderStatus>>,
               status[o] \notin ActiveStatuses
        PROVE  FreedInv'
    <2>1. ASSUME NEW r \in Riders, Forgotten(r)'
          PROVE  Forgotten(r)
      BY <1>2, <2>1 DEF Forgotten, ActiveOrdersOf, TypeOK
    <2> QED
      BY <1>2, <2>1, FreedAfter
  <1>3. ASSUME NEW w \in Slots, UpdateStatusWrite(w)
        PROVE  FreedInv'
    <2> DEFINE o == call[w].order
               s == call[w].to
               c == ListenerOf(o, s)
    <2>1. o \in Orders /\ IsValidTransition(status[o], s)
      BY <1>3, CallFields DEF UpdateStatusWrite, CurrentInv, CurrentCall
    <2>2. c.op \in {"idle", "settle", "release"}
      BY DEF ListenerOf, ReleaseCall, Idle
    <2>3. /\ Continue(w, c) /\ call[w].op = "update"
          /\ status' = [status EXCEPT ![o] = s] /\ UNCHANGED <<riderOf, riderStatus>>
      BY <1>3 DEF UpdateStatusWrite, riderVars
    <2>4. CASE status[o] \notin ActiveStatuses
      BY <1>2, <2>1, <2>2, <2>3, <2>4
    <2>5. CASE s \in ActiveStatuses
      <3>1. ASSUME NEW r \in Riders, Forgotten(r)'
            PROVE  Forgotten(r)
        BY <2>1, <2>3, <2>5, <3>1 DEF Forgotten, ActiveOrdersOf, TypeOK
      <3> QED
        BY <2>2, <2>3, <3>1, FreedAfter
    <2>6. CASE status[o] \in ActiveStatuses /\ s \notin ActiveStatuses
      <3>1. s = "DELIVERED"
        BY <2>1, <2>6, LastActiveEdge
      <3>2. ASSUME NEW r \in Riders, Forgotten(r)', riderOf[o] # r
            PROVE  Forgotten(r)
        BY <2>1, <2>3, <3>2 DEF Forgotten, ActiveOrdersOf, TypeOK
      <3>3. ASSUME NEW r \in Riders, riderOf[o] = r
            PROVE  c.op = "release" /\ c.rider = r
        BY <3>1, <3>3, DispatchAssumption DEF ListenerOf, ReleaseCall
      <3>4. \A r \in Riders : Forgotten(r)' =>
                \/ c.op \in {"release", "free"} /\ c.rider = r
                \/ Forgotten(r) /\ ~ (call[w].op \in {"release", "free"} /\ call[w].rider = r)
        BY <2>3, <3>2, <3>3
      <3> QED
        BY <2>2, <2>3, <3>4, FreedAfter
    <2> QED
      BY <2>4, <2>5, <2>6
  <1>4. ASSUME NEW w \in Slots, AssignRider(w)
        PROVE  FreedInv'
    <2> DEFINE o == call[w].order
               r == call[w].rider
    <2>1. o \in Orders /\ r \in Riders
      BY <1>4, CallFields DEF AssignRider
    <2>2. PICK c : Continue(w, c) /\ c.op \in {"idle", "bundleCount"}
      BY <1>4 DEF AssignRider, Idle
    <2>3. CASE RiderClaimable(r) /\ Claimable(o)
      <3>1. ClaimOrder(o, r) /\ riderStatus' = [riderStatus EXCEPT ![r] = "BUSY"]
        BY <1>4, <2>3 DEF AssignRider
      <3>2. \A q \in Riders : Forgotten(q)' => Forgotten(q)
        BY <2>1, <2>3, <3>1, ClaimForgetsNobody
      <3> QED
        BY <1>4, <2>2, <3>2, FreedAfter DEF AssignRider
    <2>4. CASE ~ (RiderClaimable(r) /\ Claimable(o))
      BY <1>1, <1>4, <2>2, <2>4 DEF AssignRider
    <2> QED
      BY <2>3, <2>4
  <1>5. ASSUME NEW w \in Slots, NEW o \in Orders, BundleClaim(w, o)
        PROVE  FreedInv'
    <2>1. call[w].rider \in Riders
      BY <1>5, CallFields DEF BundleClaim
    <2>2. PICK c : Continue(w, c) /\ c.op = "bundle"
      BY <1>5 DEF BundleClaim, Bundling
    <2>3. CASE Claimable(o)
      <3>1. ClaimOrder(o, call[w].rider) /\ riderStatus' = riderStatus
        BY <1>5, <2>3 DEF BundleClaim, riderVars
      <3>2. \A q \in Riders : Forgotten(q)' => Forgotten(q)
        BY <2>1, <2>3, <3>1, ClaimForgetsNobody
      <3> QED
        BY <1>5, <2>2, <3>2, FreedAfter DEF BundleClaim
    <2>4. CASE ~ Claimable(o)
      BY <1>1, <1>5, <2>2, <2>4 DEF BundleClaim, riderVars
    <2> QED
      BY <2>3, <2>4
  <1>6. ASSUME NEW w \in Slots, ReleaseCount(w)
        PROVE  FreedInv'
    <2> DEFINE r == call[w].rider
               c == IF ActiveOrdersOf(r) = {} THEN [op |-> "free", rider |-> r] ELSE Idle
    <2>1. Continue(w, c) /\ UNCHANGED <<status, riderOf, riderStatus>>
      BY <1>6 DEF ReleaseCount, orderVars, riderVars
    <2>2. c.op \in {"free", "idle"}
      BY DEF Idle
    <2>3. \A q \in Riders : Forgotten(q)' =>
              \/ c.op \in {"release", "free"} /\ c.rider = q
              \/ Forgotten(q) /\ ~ (call[w].op \in {"release", "free"} /\ call[w].rider = q)
      BY <2>1 DEF Forgotten, ActiveOrdersOf
    <2> QED
      BY <2>1, <2>2, <2>3, FreedAfter
  <1>7. ASSUME NEW w \in Slots, ReleaseSet(w)
        PROVE  FreedInv'
    <2>1. /\ Continue(w, Idle) /\ UNCHANGED <<status, riderOf>>
          /\ riderStatus' = [riderStatus EXCEPT ![call[w].rider] = "AVAILABLE"]
      BY <1>7 DEF ReleaseSet, orderVars
    <2>2. \A q \in Riders : Forgotten(q)' => Forgotten(q) /\ q # call[w].rider
      BY <2>1 DEF Forgotten, ActiveOrdersOf, TypeOK
    <2>3. Idle.op = "idle"
      BY DEF Idle
    <2> QED
      BY <2>1, <2>2, <2>3, FreedAfter
  <1>8. ASSUME NEW w \in Slots, ConfirmDeliveryWrite(w) \/ SettleWrite(w)
        PROVE  FreedInv'
    <2> DEFINE o == call[w].order
    <2>1. o \in Orders /\ status[o] \in {"DELIVERED", "CUSTOMER_CONFIRMED"}
      BY <1>8, CallFields DEF ConfirmDeliveryWrite, SettleWrite, CurrentInv, CurrentCall, WriterOps
    <2>2. status[o] \notin ActiveStatuses
      BY <2>1 DEF ActiveStatuses
    <2>3. ASSUME NEW s, NEW c, Continue(w, c), c.op \in {"settle", "idle"},
                 call[w].op \in {"confirm", "settling"},
                 status' = [status EXCEPT ![o] = s], UNCHANGED <<riderOf, riderStatus>>
          PROVE  FreedInv'
      BY <1>2, <2>1, <2>2, <2>3
    <2>4. CASE ConfirmDeliveryWrite(w)
      <3> DEFINE c == [op |-> "settle", order |-> o]
      <3>1. Continue(w, c) /\ c.op = "settle"
        BY <2>4 DEF ConfirmDeliveryWrite
      <3> HIDE DEF c
      <3> QED
        BY <2>3, <2>4, <3>1 DEF ConfirmDeliveryWrite, riderVars
    <2>5. CASE SettleWrite(w)
      <3>1. Continue(w, Idle) /\ Idle.op = "idle"
        BY <2>5 DEF SettleWrite, Idle
      <3> QED
        BY <2>3, <2>5, <3>1 DEF SettleWrite, riderVars
    <2> QED
      BY <1>8, <2>4, <2>5
  <1>9. ASSUME NEW w \in Slots, NEW o \in Orders,
               \/ \E s \in ClientStatuses : UpdateStatusRead(w, o, s)
               \/ \E r \in Riders : AcceptOrder(w, o, r)
               \/ ConfirmDeliveryRead(w, o)
        PROVE  FreedInv'
    <2>1. ASSUME NEW c, Continue(w, c), c.op \in {"update", "accept", "confirm"},
                 call[w] = Idle, UNCHANGED <<status, riderOf, riderStatus>>
          PROVE  FreedInv'
      <3>1. call[w].op = "idle"
        BY <2>1 DEF Idle
      <3> QED
        BY <1>1, <2>1, <3>1
    <2>2. ASSUME NEW s \in ClientStatuses, UpdateStatusRead(w, o, s)
          PROVE  FreedInv'
      <3> DEFINE c == [op |-> "update", order |-> o, to |-> s]
      <3>1. Continue(w, c) /\ c.op = "update"
        BY <2>2 DEF UpdateStatusRead
      <3> HIDE DEF c
      <3> QED
        BY <2>1, <2>2, <3>1 DEF UpdateStatusRead, MayStart, orderVars, riderVars
    <2>3. ASSUME NEW r \in Riders, AcceptOrder(w, o, r)
          PROVE  FreedInv'
      <3> DEFINE c == [op |-> "accept", order |-> o, rider |-> r]
      <3>1. Continue(w, c) /\ c.op = "accept"
        BY <2>3 DEF AcceptOrder
      <3> HIDE DEF c
      <3> QED
        BY <2>1, <2>3, <3>1 DEF AcceptOrder, orderVars, riderVars
    <2>4. CASE ConfirmDeliveryRead(w, o)
      <3> DEFINE c == [op |-> "confirm", order |-> o]
      <3>1. Continue(w, c) /\ c.op = "confirm"
        BY <2>4 DEF ConfirmDeliveryRead
      <3> HIDE DEF c
      <3> QED
        BY <2>1, <2>4, <3>1 DEF ConfirmDeliveryRead, MayStart, orderVars, riderVars
    <2> QED
      BY <1>9, <2>2, <2>3, <2>4
  <1>10. ASSUME NEW w \in Slots,
                \/ BundleCount(w) \/ BundleFind(w) \/ BundleDone(w) \/ SettleRead(w)
                \/ Abandon(w)
         PROVE  FreedInv'
    <2>1. PICK c : Continue(w, c) /\ c.op \in {"bundleFind", "bundle", "settling", "idle"}
      BY <1>10 DEF BundleCount, BundleFind, BundleDone, SettleRead, Abandon, Bundling, Idle
    <2>2. call[w].op \notin {"release", "free"} /\ UNCHANGED <<status, riderOf, riderStatus>>
      BY <1>10
      DEF BundleCount, BundleFind, BundleDone, SettleRead, Abandon, orderVars, riderVars
    <2> QED
      BY <1>1, <2>1, <2>2
  \* There is nothing to cancel and nothing crashes.
  <1>11. ASSUME NEW w \in Slots,
                \/ \E o \in Orders : CancelRead(w, o)
                \/ CancelWrite(w) \/ CancelListenerCount(w) \/ CancelListenerSet(w)
                \/ CancelCommit(w) \/ Crash(w)
         PROVE  FALSE
    BY <1>11
    DEF Undisturbed, FreedInv, CancelRead, CancelWrite, CancelListenerCount, CancelListenerSet,
        CancelCommit, Crash
  <1>12. CASE Environment \/ UNCHANGED vars
    <2>1. call' = call
      BY <1>12
      DEF Environment, SetAvailability, ReviewVerification, StaffAssignRider, vars
    <2>2. ASSUME NEW r \in Riders, Forgotten(r)'
          PROVE  Forgotten(r)
      <3>1. ASSUME NEW q \in Riders, NEW s \in RiderToggles, SetAvailability(q, s)
            PROVE  Forgotten(r)
        BY <2>2, <3>1
        DEF SetAvailability, Undisturbed, Forgotten, ActiveOrdersOf, orderVars, TypeOK
      <3>2. ASSUME NEW q \in Riders, NEW s, ReviewVerification(q, s)
            PROVE  Forgotten(r)
        BY <2>2, <3>2 DEF ReviewVerification, Forgotten, ActiveOrdersOf, orderVars
      <3>3. ASSUME NEW o \in Orders, NEW q \in Riders, StaffAssignRider(o, q)
            PROVE  Forgotten(r)
        BY <2>2, <3>3, ClaimForgetsNobody DEF StaffAssignRider
      <3>4. CASE UNCHANGED vars
        BY <2>2, <3>4 DEF vars, Forgotten, ActiveOrdersOf
      <3> QED
        BY <1>12, <3>1, <3>2, <3>3, <3>4 DEF Environment
    <2> QED
      BY <2>1, <2>2 DEF FreedInv, Freeing
  <1> QED
    BY <1>3, <1>4, <1>5, <1>6, <1>7, <1>8, <1>9, <1>10, <1>11, <1>12
    DEF Next, Request, Proceed

LEMMA FreedInit == Init => FreedInv
  BY DEF Init, FreedInv, Forgotten, Idle

LEMMA FreedNotStranded == FreedInv => NoStrandedRider
  BY DEF FreedInv, Forgotten, Freeing, NoStrandedRider, WorkingFor

\* For any number of orders, riders and requests: a BUSY rider who carries nothing is
\* about to be freed, so long as nobody cancels, nothing crashes and clients do not race
\* on one order, even when riders toggle and stations assign by hand.
THEOREM NoStrandedRiderHolds == Undisturbed => (Spec => []NoStrandedRider)
  <1> SUFFICES ASSUME Undisturbed
               PROVE  Spec => []NoStrandedRider
    OBVIOUS
  <1>2. TypeOK /\ CurrentInv /\ [Next]_vars => CurrentInv'
    BY CurrentStep DEF Undisturbed
  <1>3. TypeOK /\ CurrentInv /\ FreedInv /\ [Next]_vars => FreedInv'
    BY FreedStep
  <1> QED
    BY <1>2, <1>3, FreedInit, FreedNotStranded, CurrentInit, TypeCorrect, PTL DEF Spec
================================================================================
