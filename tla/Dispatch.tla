------------------------------- MODULE Dispatch -------------------------------
(****************************************************************************)
(* OrdersService, its event listener and the rider's availability, under    *)
(* concurrent requests.                                                     *)
(*                                                                          *)
(* A slot is one request being served by some pod together with the event   *)
(* listener that request triggers.  A slot performs one database call per   *)
(* step; between two steps every other slot may run.  call[w] holds what    *)
(* the handler keeps in local variables between its awaits: which order or  *)
(* rider it works for and what it decided from the values it read.          *)
(*                                                                          *)
(* Elsewhere: stock and money (modules Fulfilment, RiderWallet), the batch  *)
(* matching of the cron job (module Batching, which extends this one), the  *)
(* number of a new order (Intake).  The position check is a refusal that    *)
(* may come at any time: Abandon.                                           *)
(****************************************************************************)
EXTENDS OrderStates, Naturals, FiniteSets

CONSTANTS
    Orders, Riders, Slots,
    NoRider,                    \* rider_id IS NULL
    MAX_ORDERS_PER_RIDER_BATCH,
    Tiers,                      \* tiers the customers order with
    ClientStatuses,             \* statuses the clients PATCH
    RiderToggles,               \* statuses the riders set for themselves
    Reviews,                    \* verdicts the admins give
    StaffAssigns,               \* stations and admins assign riders by hand
    AllowCancel,                \* customers and admins cancel orders
    AllowCrash,                 \* pods crash, connections fail
    OneWriterPerOrder           \* clients never race on one order

ASSUME DispatchAssumption ==
    /\ IsFiniteSet(Orders)
    /\ NoRider \notin Riders
    /\ MAX_ORDERS_PER_RIDER_BATCH \in Nat \ {0}
    /\ Tiers \subseteq DeliveryTier
    /\ ClientStatuses \subseteq OrderStatus
    /\ RiderToggles \subseteq RiderStatus
    /\ Reviews \subseteq VerificationStatus \ {"PENDING"}
    /\ StaffAssigns \in BOOLEAN
    /\ AllowCancel \in BOOLEAN
    /\ AllowCrash \in BOOLEAN
    /\ OneWriterPerOrder \in BOOLEAN

VARIABLES
    status,         \* orders.status
    riderOf,        \* orders.rider_id
    tier,           \* orders.delivery_tier, never updated
    otpVerified,    \* orders.otp_verified
    riderStatus,    \* riders.status
    verification,   \* riders.verification_status
    call            \* the request each slot is serving

orderVars == <<status, riderOf, otpVerified>>
riderVars == <<riderStatus, verification>>
vars == <<status, riderOf, tier, otpVerified, riderStatus, verification, call>>

--------------------------------------------------------------------------------
(* Requests in flight.                                                      *)

Idle == [op |-> "idle"]

Calls ==
         {Idle}
    \cup [op : {"update"}, order : Orders, to : OrderStatus]
    \cup [op : {"confirm", "settle", "settling", "cancel"}, order : Orders]
    \cup [op : {"cancelling"}, order : Orders,
          listener : {"none"}, rider : Riders \cup {NoRider}]
    \cup [op : {"cancelling"}, order : Orders,
          listener : {"count", "free"}, rider : Riders]
    \cup [op : {"accept", "bundleCount"}, order : Orders, rider : Riders]
    \cup [op : {"bundleFind"}, order : Orders, rider : Riders, left : Nat]
    \cup [op : {"bundle"}, rider : Riders, left : Nat, todo : SUBSET Orders]
    \cup [op : {"release", "free"}, rider : Riders]

TypeOK ==
    /\ status \in [Orders -> OrderStatus]
    /\ riderOf \in [Orders -> Riders \cup {NoRider}]
    /\ tier \in [Orders -> DeliveryTier]
    /\ otpVerified \in [Orders -> BOOLEAN]
    /\ riderStatus \in [Riders -> RiderStatus]
    /\ verification \in [Riders -> VerificationStatus]
    /\ call \in [Slots -> Calls]

Init ==
    /\ status = [o \in Orders |-> "PENDING"]
    /\ riderOf = [o \in Orders |-> NoRider]
    /\ tier \in [Orders -> Tiers]
    /\ otpVerified = [o \in Orders |-> FALSE]
    /\ riderStatus \in [Riders -> {"OFFLINE", "AVAILABLE"}]
    /\ verification \in [Riders -> {"PENDING", "VERIFIED"}]
    /\ call = [w \in Slots |-> Idle]

\* Handlers that read an order and later write its status whatever it is then.
WriterOps == {"update", "confirm", "settle", "settling", "cancel", "cancelling"}

Writes(w, o) == call[w].op \in WriterOps /\ call[w].order = o

\* A request about order o may arrive at slot w.
MayStart(w, o) ==
    /\ call[w] = Idle
    /\ OneWriterPerOrder => \A v \in Slots : ~ Writes(v, o)

\* The row lock a cancel holds from its UPDATE to its COMMIT.
RowFree(o) ==
    \A v \in Slots : ~ (call[v].op = "cancelling" /\ call[v].order = o)

Continue(w, next) == call' = [call EXCEPT ![w] = next]

\* The listeners of order.delivered and order.cancelled.
ReleaseCall(r) == IF r = NoRider THEN Idle ELSE [op |-> "release", rider |-> r]

ActiveOrdersOf(r) ==
    {o \in Orders : riderOf[o] = r /\ status[o] \in ActiveStatuses}

--------------------------------------------------------------------------------
(* PATCH /orders/:id/status                                                 *)

UpdateStatusRead(w, o, s) ==
    /\ MayStart(w, o)
    /\ IsValidTransition(status[o], s)
    /\ Continue(w, [op |-> "update", order |-> o, to |-> s])
    /\ UNCHANGED <<orderVars, tier, riderVars>>

\* Bug: the order.delivered listener is not registered.
ListenerOfDeafToDelivered(o, s) ==
    CASE s = "CANCELLED" -> ReleaseCall(riderOf[o])
      [] s = "CUSTOMER_CONFIRMED" -> [op |-> "settle", order |-> o]
      [] OTHER -> Idle

\* The listener the written status wakes up, with the rider re-read after it.
ListenerOf(o, s) ==
    CASE s \in {"DELIVERED", "CANCELLED"} -> ReleaseCall(riderOf[o])
      [] s = "CUSTOMER_CONFIRMED" -> [op |-> "settle", order |-> o]
      [] OTHER -> Idle

\* UPDATE orders SET status WHERE id: nothing compares the status just read.
UpdateStatusWrite(w) ==
    /\ call[w].op = "update"
    /\ RowFree(call[w].order)
    /\ status' = [status EXCEPT ![call[w].order] = call[w].to]
    /\ Continue(w, ListenerOf(call[w].order, call[w].to))
    /\ UNCHANGED <<riderOf, otpVerified, tier, riderVars>>

--------------------------------------------------------------------------------
(* assignRider, acceptOrder, attachNearbySameStationOrders                  *)

\* Bug: WHERE status = 'PREPARING' only.
ClaimableEvenIfBound(o) == status[o] = "PREPARING"

\* Bug: WHERE rider_id IS NULL only.
ClaimableInAnyStatus(o) == riderOf[o] = NoRider

\* The WHERE clause of the order claim.
Claimable(o) ==
    /\ status[o] = "PREPARING"
    /\ riderOf[o] = NoRider

\* Bug: the verification check is missing.
AcceptOrderUnverified(w, o, r) ==
    /\ call[w] = Idle
    /\ Continue(w, [op |-> "accept", order |-> o, rider |-> r])
    /\ UNCHANGED <<orderVars, tier, riderVars>>

AcceptOrder(w, o, r) ==
    /\ call[w] = Idle
    /\ verification[r] = "VERIFIED"
    /\ Continue(w, [op |-> "accept", order |-> o, rider |-> r])
    /\ UNCHANGED <<orderVars, tier, riderVars>>

\* Bug: the claim updates the status but not rider_id.
ClaimOrderNamelessly(o, r) ==
    /\ status' = [status EXCEPT ![o] = "RIDER_ASSIGNED"]
    /\ UNCHANGED riderOf

ClaimOrder(o, r) ==
    /\ status' = [status EXCEPT ![o] = "RIDER_ASSIGNED"]
    /\ riderOf' = [riderOf EXCEPT ![o] = r]

\* The WHERE clause of the rider claim.
RiderClaimable(r) == riderStatus[r] = "AVAILABLE"

\* Bug: the rider claim is committed before the order claim fails.
AssignRiderHalf(w) ==
    LET o == call[w].order
        r == call[w].rider
    IN  /\ call[w].op = "accept"
        /\ RowFree(o)
        /\ IF RiderClaimable(r)
           THEN /\ riderStatus' = [riderStatus EXCEPT ![r] = "BUSY"]
                /\ IF Claimable(o)
                   THEN ClaimOrder(o, r)
                   ELSE UNCHANGED <<status, riderOf>>
           ELSE UNCHANGED <<status, riderOf, riderStatus>>
        /\ Continue(w, Idle)
        /\ UNCHANGED <<otpVerified, tier, verification>>

\* assignRider with claimRider: both conditional updates or neither.
AssignRider(w) ==
    LET o == call[w].order
        r == call[w].rider
    IN  /\ call[w].op = "accept"
        /\ RowFree(o)
        /\ IF RiderClaimable(r) /\ Claimable(o)
           THEN /\ riderStatus' = [riderStatus EXCEPT ![r] = "BUSY"]
                /\ ClaimOrder(o, r)
                /\ Continue(w, IF tier[o] = "STANDARD"
                               THEN [op |-> "bundleCount", order |-> o, rider |-> r]
                               ELSE Idle)
           ELSE /\ Continue(w, Idle)
                /\ UNCHANGED <<status, riderOf, riderStatus>>
        /\ UNCHANGED <<otpVerified, tier, verification>>

\* PATCH /orders/:id/assign-rider: the same transaction, for any rider and with
\* nothing read before it or done after it.
StaffAssignRider(o, r) ==
    /\ StaffAssigns
    /\ RowFree(o)
    /\ RiderClaimable(r)
    /\ Claimable(o)
    /\ riderStatus' = [riderStatus EXCEPT ![r] = "BUSY"]
    /\ ClaimOrder(o, r)
    /\ UNCHANGED <<otpVerified, tier, verification, call>>

AssignedTo(r) == {o \in Orders : riderOf[o] = r /\ status[o] = "RIDER_ASSIGNED"}

BundleCount(w) ==
    LET n == Cardinality(AssignedTo(call[w].rider))
    IN  /\ call[w].op = "bundleCount"
        /\ IF n < MAX_ORDERS_PER_RIDER_BATCH
           THEN Continue(w, [op |-> "bundleFind", order |-> call[w].order,
                             rider |-> call[w].rider,
                             left |-> MAX_ORDERS_PER_RIDER_BATCH - n])
           ELSE Continue(w, Idle)
        /\ UNCHANGED <<orderVars, tier, riderVars>>

\* The loop over the candidates: who carries, how many more, which are left.
Bundling(r, left, todo) ==
    [op |-> "bundle", rider |-> r, left |-> left, todo |-> todo]

\* The candidates of the anchor's station; the claim looks at rider_id, not this.
BundleFind(w) ==
    /\ call[w].op = "bundleFind"
    /\ Continue(w, Bundling(call[w].rider, call[w].left,
                            {c \in Orders \ {call[w].order} :
                                 status[c] = "PREPARING" /\ tier[c] = "STANDARD"}))
    /\ UNCHANGED <<orderVars, tier, riderVars>>

\* One turn of the loop: assignRider with claimRider: false, a failure is skipped.
BundleClaim(w, c) ==
    /\ call[w].op = "bundle"
    /\ call[w].left > 0
    /\ c \in call[w].todo
    /\ RowFree(c)
    /\ IF Claimable(c)
       THEN /\ ClaimOrder(c, call[w].rider)
            /\ Continue(w, Bundling(call[w].rider, call[w].left - 1, call[w].todo \ {c}))
       ELSE /\ Continue(w, Bundling(call[w].rider, call[w].left, call[w].todo \ {c}))
            /\ UNCHANGED <<status, riderOf>>
    /\ UNCHANGED <<otpVerified, tier, riderVars>>

BundleDone(w) ==
    /\ call[w].op = "bundle"
    /\ call[w].left = 0 \/ call[w].todo = {}
    /\ Continue(w, Idle)
    /\ UNCHANGED <<orderVars, tier, riderVars>>

--------------------------------------------------------------------------------
(* releaseRiderIfFree: count, then set.                                     *)

\* Bug: a delivered or settled order counts as active for ever.
ReleaseCountTooMany(w) ==
    LET r == call[w].rider
    IN  /\ call[w].op = "release"
        /\ Continue(w, IF \E o \in Orders : riderOf[o] = r /\ status[o] \in RiderBoundStatuses
                       THEN Idle
                       ELSE [op |-> "free", rider |-> r])
        /\ UNCHANGED <<orderVars, tier, riderVars>>

ReleaseCount(w) ==
    /\ call[w].op = "release"
    /\ Continue(w, IF ActiveOrdersOf(call[w].rider) = {}
                   THEN [op |-> "free", rider |-> call[w].rider]
                   ELSE Idle)
    /\ UNCHANGED <<orderVars, tier, riderVars>>

ReleaseSet(w) ==
    /\ call[w].op = "free"
    /\ riderStatus' = [riderStatus EXCEPT ![call[w].rider] = "AVAILABLE"]
    /\ Continue(w, Idle)
    /\ UNCHANGED <<orderVars, tier, verification>>

--------------------------------------------------------------------------------
(* confirmDelivery, and the status part of SettlementService.settle.        *)

ConfirmDeliveryRead(w, o) ==
    /\ MayStart(w, o)
    /\ status[o] = "DELIVERED"
    /\ Continue(w, [op |-> "confirm", order |-> o])
    /\ UNCHANGED <<orderVars, tier, riderVars>>

\* Bug: otp_verified is not written.
ConfirmDeliveryWriteNoOtp(w) ==
    LET o == call[w].order
    IN  /\ call[w].op = "confirm"
        /\ RowFree(o)
        /\ status' = [status EXCEPT ![o] = "CUSTOMER_CONFIRMED"]
        /\ Continue(w, [op |-> "settle", order |-> o])
        /\ UNCHANGED <<riderOf, otpVerified, tier, riderVars>>

ConfirmDeliveryWrite(w) ==
    LET o == call[w].order
    IN  /\ call[w].op = "confirm"
        /\ RowFree(o)
        /\ status' = [status EXCEPT ![o] = "CUSTOMER_CONFIRMED"]
        /\ otpVerified' = [otpVerified EXCEPT ![o] = TRUE]
        /\ Continue(w, [op |-> "settle", order |-> o])
        /\ UNCHANGED <<riderOf, tier, riderVars>>

SettleRead(w) ==
    /\ call[w].op = "settle"
    /\ Continue(w, IF status[call[w].order] = "CUSTOMER_CONFIRMED"
                   THEN [op |-> "settling", order |-> call[w].order]
                   ELSE Idle)
    /\ UNCHANGED <<orderVars, tier, riderVars>>

SettleWrite(w) ==
    /\ call[w].op = "settling"
    /\ RowFree(call[w].order)
    /\ status' = [status EXCEPT ![call[w].order] = "COMPLETED"]
    /\ Continue(w, Idle)
    /\ UNCHANGED <<riderOf, otpVerified, tier, riderVars>>

--------------------------------------------------------------------------------
(* cancel: the read, the transaction, and the event emitted inside it.      *)

CancelRead(w, o) ==
    /\ AllowCancel
    /\ MayStart(w, o)
    /\ status[o] \in CancellableStatuses
    /\ Continue(w, [op |-> "cancel", order |-> o])
    /\ UNCHANGED <<orderVars, tier, riderVars>>

\* An open cancel transaction, and how far the listener of its event is.
Cancelling(o, r, listener) ==
    [op |-> "cancelling", order |-> o, rider |-> r, listener |-> listener]

\* Bug: the listener does not ask whether the order has a rider.
CancelWriteAlwaysReleasing(w) ==
    LET o == call[w].order
    IN  /\ call[w].op = "cancel"
        /\ RowFree(o)
        /\ Continue(w, Cancelling(o, riderOf[o], "count"))
        /\ UNCHANGED <<orderVars, tier, riderVars>>

\* The UPDATE is done but not committed: other connections, the listener's
\* among them, still see the old row.
CancelWrite(w) ==
    LET o == call[w].order
    IN  /\ call[w].op = "cancel"
        /\ RowFree(o)
        /\ Continue(w, Cancelling(o, riderOf[o],
                                  IF riderOf[o] = NoRider THEN "none" ELSE "count"))
        /\ UNCHANGED <<orderVars, tier, riderVars>>

\* The listener gets ahead of the COMMIT.
CancelListenerCount(w) ==
    LET r == call[w].rider
    IN  /\ call[w].op = "cancelling"
        /\ call[w].listener = "count"
        /\ Continue(w, Cancelling(call[w].order, r,
                                  IF ActiveOrdersOf(r) = {} THEN "free" ELSE "none"))
        /\ UNCHANGED <<orderVars, tier, riderVars>>

CancelListenerSet(w) ==
    LET r == call[w].rider
    IN  /\ call[w].op = "cancelling"
        /\ call[w].listener = "free"
        /\ riderStatus' = [riderStatus EXCEPT ![r] = "AVAILABLE"]
        /\ Continue(w, Cancelling(call[w].order, r, "none"))
        /\ UNCHANGED <<orderVars, tier, verification>>

\* What of the listener is left when the transaction commits.
ListenerLeft(c) ==
    CASE c.listener = "count" -> [op |-> "release", rider |-> c.rider]
      [] c.listener = "free" -> [op |-> "free", rider |-> c.rider]
      [] OTHER -> Idle

CancelCommit(w) ==
    /\ call[w].op = "cancelling"
    /\ status' = [status EXCEPT ![call[w].order] = "CANCELLED"]
    /\ Continue(w, ListenerLeft(call[w]))
    /\ UNCHANGED <<riderOf, otpVerified, tier, riderVars>>

--------------------------------------------------------------------------------
(* Riders and admins, and what can go wrong.                                *)

SetAvailability(r, s) ==
    /\ riderStatus' = [riderStatus EXCEPT ![r] = s]
    /\ UNCHANGED <<orderVars, tier, verification, call>>

ReviewVerification(r, v) ==
    /\ verification' = [verification EXCEPT ![r] = v]
    /\ UNCHANGED <<orderVars, tier, riderStatus, call>>

\* The request is refused after its read: position check, wrong OTP or actor.
Abandon(w) ==
    /\ call[w].op \in {"update", "confirm", "cancel"}
    /\ Continue(w, Idle)
    /\ UNCHANGED <<orderVars, tier, riderVars>>

\* The pod dies or the statement fails: an open transaction is rolled back, a
\* listener that has not finished is forgotten.
Crash(w) ==
    /\ AllowCrash
    /\ call[w] # Idle
    /\ Continue(w, Idle)
    /\ UNCHANGED <<orderVars, tier, riderVars>>

--------------------------------------------------------------------------------
\* A client or the clock starts something.
Request(w) ==
    \E o \in Orders :
        \/ \E s \in ClientStatuses : UpdateStatusRead(w, o, s)
        \/ \E r \in Riders : AcceptOrder(w, o, r)
        \/ ConfirmDeliveryRead(w, o)
        \/ CancelRead(w, o)

\* A handler or listener under way takes its next step.
Proceed(w) ==
    \/ UpdateStatusWrite(w)
    \/ AssignRider(w)
    \/ BundleCount(w)
    \/ BundleFind(w)
    \/ \E c \in Orders : BundleClaim(w, c)
    \/ BundleDone(w)
    \/ ReleaseCount(w)
    \/ ReleaseSet(w)
    \/ ConfirmDeliveryWrite(w)
    \/ SettleRead(w)
    \/ SettleWrite(w)
    \/ CancelWrite(w)
    \/ CancelListenerCount(w)
    \/ CancelListenerSet(w)
    \/ CancelCommit(w)

Environment ==
    \/ \E r \in Riders, s \in RiderToggles : SetAvailability(r, s)
    \/ \E r \in Riders, v \in Reviews : ReviewVerification(r, v)
    \/ \E o \in Orders, r \in Riders : StaffAssignRider(o, r)

Next ==
    \/ \E w \in Slots : Request(w) \/ Proceed(w) \/ Abandon(w) \/ Crash(w)
    \/ Environment

Spec == Init /\ [][Next]_vars

\* An awaited database call returns, so a handler under way goes on.
FairSpec == Spec /\ \A w \in Slots : WF_vars(Proceed(w))

--------------------------------------------------------------------------------
(* Properties.                                                              *)

\* An order keeps the first rider bound to it: assignRider's WHERE rider_id IS
\* NULL stops a second claim even after a stale PREPARING was written back.
RiderNeverReplaced ==
    [][\A o \in Orders : riderOf[o] # NoRider => riderOf'[o] = riderOf[o]]_riderOf

\* No order is on its way, delivered or settled without a rider, whatever stale
\* status the racing PATCH handlers write.
ActiveHasRider ==
    \A o \in Orders : status[o] \in RiderBoundStatuses => riderOf[o] # NoRider

\* assignRider: a lost race leaves nothing half-assigned, so a BUSY rider has
\* been bound to some order.
NothingHalfAssigned ==
    \A r \in Riders : riderStatus[r] = "BUSY" => \E o \in Orders : riderOf[o] = r

\* acceptOrder: no order is bound to a rider whose papers no admin ever reviewed.
OnlyReviewedRidersCarry ==
    \A o \in Orders : riderOf[o] # NoRider => verification[riderOf[o]] # "PENDING"

\* confirmDelivery is the only way into settlement for the shipped clients.
ConfirmedWithOtp ==
    \A o \in Orders :
        status[o] \in {"CUSTOMER_CONFIRMED", "COMPLETED"} => otpVerified[o]

\* Every status change is an edge of the transition map, a claim or a permitted
\* cancellation of the order as it is when the change is made.
Lifecycle == INSTANCE OrderLifecycle WITH
    Orders <- Orders, Riders <- Riders, NoRider <- NoRider, status <- status, riderOf <- riderOf
ImplementsLifecycle == Lifecycle!Spec

\* A status from which the map has no way out is never left.
TerminalIsFinal ==
    [][\A o \in Orders : status[o] \in TerminalStatuses => status'[o] = status[o]]_status

\* releaseRiderIfFree checks for other active orders before it frees a rider:
\* an AVAILABLE rider carries none.
AvailableRiderCarriesNothing ==
    \A r \in Riders : riderStatus[r] = "AVAILABLE" => ActiveOrdersOf(r) = {}

\* The requests that will still bind an order to r or free r.
WorkingFor(r) ==
    \E w \in Slots :
        /\ call[w].op \in {"bundleCount", "bundleFind", "bundle", "release", "free", "cancelling"}
        /\ call[w].rider = r

\* A rider without active orders is not left BUSY with nobody about to free them.
NoStrandedRider ==
    \A r \in Riders :
        riderStatus[r] = "BUSY" /\ ActiveOrdersOf(r) = {} => WorkingFor(r)

\* The same as a promise: such a rider is freed, or given another order.
RiderIsFreed ==
    \A r \in Riders :
        (riderStatus[r] = "BUSY" /\ ActiveOrdersOf(r) = {})
            ~> (riderStatus[r] # "BUSY" \/ ActiveOrdersOf(r) # {})

\* One rider carries at most MAX_ORDERS_PER_RIDER_BATCH orders at once.
BatchCap ==
    \A r \in Riders : Cardinality(ActiveOrdersOf(r)) <= MAX_ORDERS_PER_RIDER_BATCH
================================================================================
