---------------------------- MODULE ChangeRequests ----------------------------
(****************************************************************************)
(* ChangeRequestsService on top of PaymentsService, and the part of the     *)
(* settlement that reads the total: a station raises a change, the customer *)
(* rejects it or pays for it, and the listener of payment.completed         *)
(* approves it and adds its amount to the order's total.                    *)
(*                                                                          *)
(* approve and the listener are requests of the slots of Payments; what     *)
(* the listener has read is in hearing[w], beside the event in call[w].     *)
(****************************************************************************)
EXTENDS Payments, FiniteSetsExt

CONSTANTS
    Requests,           \* change requests of the order
    Amount,             \* their additionalAmount
    Base                \* orders.total at the start

ASSUME ChangeRequestsAssumption ==
    /\ Keys = {NoKey} \cup ClientKeys \cup Requests
    /\ ({NoKey} \cup ClientKeys) \cap Requests = {}
    /\ Subscribers = {"approve"}
    /\ "none" \notin Payments
    /\ Amount \in [Requests -> Nat \ {0}]
    /\ Base \in Nat \ {0}

VARIABLES
    status,             \* order_change_requests.status
    reference,          \* order_change_requests.payment_reference
    total,              \* orders.total
    split,              \* the total settle has split, 0 before it
    hearing             \* what the listener of each slot keeps

requestVars == <<status, reference, total, split, hearing>>
vars == <<world, call, paymentVars, requestVars>>

ChangeRequestStatus == {"PENDING", "APPROVED", "REJECTED"}

Deaf == [stage |-> "none"]

Hearing ==
         {Deaf}
    \cup [stage : {"approve", "read"}, request : Requests]
    \cup [stage : {"add"}, request : Requests, read : Nat]

Calls ==
         PaymentCalls
    \cup [op : {"pay", "reject"}, request : Requests]
    \cup [op : {"settle"}, read : Nat]

TypeOK ==
    /\ PaymentsTypeOK
    /\ call \in [Slots -> Calls]
    /\ status \in [Requests -> {"none"} \cup ChangeRequestStatus]
    /\ reference \in [Requests -> {"none"} \cup Payments]
    /\ total \in Nat
    /\ split \in Nat
    /\ hearing \in [Slots -> Hearing]

Init ==
    /\ PaymentsInit
    /\ status = [r \in Requests |-> "none"]
    /\ reference = [r \in Requests |-> "none"]
    /\ total = Base
    /\ split = 0
    /\ hearing = [w \in Slots |-> Deaf]

--------------------------------------------------------------------------------
(* The station, and the customer's answer.                                  *)

\* create looks at the order's station, not at its status: a change may be raised
\* after the order has been settled.
Create(r) ==
    /\ status[r] = "none"
    /\ serial => AtRest
    /\ status' = [status EXCEPT ![r] = "PENDING"]
    /\ NoRequest
    /\ UNCHANGED <<paymentVars, reference, total, split, hearing>>

\* approve: the request is still PENDING, then initiate under its own key.
Approve(w, r) ==
    /\ MayStart(w)
    /\ status[r] = "PENDING"
    /\ Continue(w, [op |-> "pay", request |-> r])
    /\ UNCHANGED <<paymentVars, requestVars>>

ApproveInitiate(w) ==
    /\ call[w].op = "pay"
    /\ InitiateFind(w, call[w].request)
    /\ UNCHANGED requestVars

\* Bug: the reference of the charge is not stored.
ApproveStoreNothing(w) ==
    /\ call[w].op = "initiated"
    /\ call[w].key \in Requests
    /\ Finish(w)
    /\ UNCHANGED <<paymentVars, requestVars>>

\* initiate has returned: store the reference the event will be matched with.
ApproveStore(w) ==
    /\ call[w].op = "initiated"
    /\ call[w].key \in Requests
    /\ reference' = [reference EXCEPT ![call[w].key] = call[w].payment]
    /\ Finish(w)
    /\ UNCHANGED <<paymentVars, status, total, split, hearing>>

\* reject asks for the status alone: a charge may be open for the change.
Reject(w, r) ==
    /\ MayStart(w)
    /\ status[r] = "PENDING"
    /\ Continue(w, [op |-> "reject", request |-> r])
    /\ UNCHANGED <<paymentVars, requestVars>>

RejectWrite(w) ==
    /\ call[w].op = "reject"
    /\ status' = [status EXCEPT ![call[w].request] = "REJECTED"]
    /\ Finish(w)
    /\ UNCHANGED <<paymentVars, reference, total, split, hearing>>

--------------------------------------------------------------------------------
(* handlePaymentCompleted                                                   *)

Listening(w) ==
    /\ call[w].op = "emitted"
    /\ "approve" \in call[w].todo

Hear(w, h) == hearing' = [hearing EXCEPT ![w] = h]

\* Bug: any payment of the order approves whatever is pending.
MatchesAnyPayment(p) == {r \in Requests : status[r] = "PENDING"}

\* The WHERE of findOne.
Matches(p) == {r \in Requests : status[r] = "PENDING" /\ reference[r] = p}

HearFind(w) ==
    /\ Listening(w)
    /\ hearing[w] = Deaf
    /\ \/ /\ Matches(call[w].payment) = {}
          /\ Heard(w, "approve")
          /\ UNCHANGED hearing
       \/ /\ \E r \in Matches(call[w].payment) : Hear(w, [stage |-> "approve", request |-> r])
          /\ NoRequest
    /\ UNCHANGED <<paymentVars, status, reference, total, split>>

HearApprove(w) ==
    /\ hearing[w].stage = "approve"
    /\ status' = [status EXCEPT ![hearing[w].request] = "APPROVED"]
    /\ Hear(w, [hearing[w] EXCEPT !.stage = "read"])
    /\ NoRequest
    /\ UNCHANGED <<paymentVars, reference, total, split>>

HearRead(w) ==
    /\ hearing[w].stage = "read"
    /\ Hear(w, [stage |-> "add", request |-> hearing[w].request, read |-> total])
    /\ NoRequest
    /\ UNCHANGED <<paymentVars, status, reference, total, split>>

HearAdd(w) ==
    /\ hearing[w].stage = "add"
    /\ total' = hearing[w].read + Amount[hearing[w].request]
    /\ Hear(w, Deaf)
    /\ Heard(w, "approve")
    /\ UNCHANGED <<paymentVars, status, reference, split>>

--------------------------------------------------------------------------------
(* SettlementService.settle, as far as the total goes.                      *)

\* Bug: an order that is settled may be settled again.
SettleAgain(w) ==
    /\ MayStart(w)
    /\ Continue(w, [op |-> "settle", read |-> total])
    /\ UNCHANGED <<paymentVars, requestVars>>

\* settle reads the order and no change request: some may still be PENDING.
Settle(w) ==
    /\ MayStart(w)
    /\ split = 0
    /\ Continue(w, [op |-> "settle", read |-> total])
    /\ UNCHANGED <<paymentVars, requestVars>>

SettleWrite(w) ==
    /\ call[w].op = "settle"
    /\ split' = call[w].read
    /\ Finish(w)
    /\ UNCHANGED <<paymentVars, status, reference, total, hearing>>

--------------------------------------------------------------------------------
Request(w) ==
    \/ \E r \in Requests : Approve(w, r) \/ Reject(w, r)
    \/ Settle(w)

Proceed(w) ==
    \/ ApproveInitiate(w)
    \/ ApproveStore(w)
    \/ RejectWrite(w)
    \/ HearFind(w)
    \/ HearApprove(w)
    \/ HearRead(w)
    \/ HearAdd(w)
    \/ SettleWrite(w)
    \/ PaymentsProceed(w) /\ UNCHANGED requestVars

\* The handler and its listener go together.
Lost(w) ==
    /\ Crash(w)
    /\ Hear(w, Deaf)
    /\ UNCHANGED <<paymentVars, status, reference, total, split>>

Next ==
    \/ \E w \in Slots : Request(w) \/ Proceed(w) \/ Lost(w)
    \/ \E w \in Slots : PaymentsRequest(w) /\ UNCHANGED requestVars
    \/ \E p \in Payments : ProviderCollects(p) /\ UNCHANGED requestVars
    \/ \E r \in Requests : Create(r)

Spec == Init /\ [][Next]_vars

--------------------------------------------------------------------------------
(* Properties.                                                              *)

\* approve: "Approval IS payment".  However approvals, rejections and events
\* race, a change is approved only if a charge made for it was collected: not
\* by the payment of the order, and not by that of another change.
ApprovedMeansPaid ==
    \A r \in Requests : status[r] = "APPROVED" =>
        \E p \in PaymentsWithKey(r) : Collected(p)

\* initiate: "return existing payment if key already used".  While requests
\* follow each other nothing is charged twice under one key, however often it is
\* approved or initiated and whatever is cut short in between: a change is
\* charged once, and so is the order if its client sends a key.
SerialChargesOnce == serial => OnePaymentPerKey

\* approve and settle seen from the money: the total the listener is about to
\* write still counts as not approved.
BeingAdded(r) ==
    \E w \in Slots : hearing[w].stage \in {"read", "add"} /\ hearing[w].request = r

InEscrow(r) ==
    CASE ~ calm -> "none"
      [] calm /\ status[r] = "APPROVED" /\ BeingAdded(r) -> "PENDING"
      [] OTHER -> status[r]

Books == INSTANCE Escrow WITH
            response <- [r \in Requests |-> InEscrow(r)],
            total <- IF calm THEN total ELSE Base,
            split <- IF calm THEN split ELSE 0

\* While nobody races, the five database calls of an approval are one step: a
\* change is in the total once, from the step that approves it, and settle splits
\* a total with every change approved before it and no other.
ImplementsEscrow == Books!Spec

\* What the customer was charged for and the total agree whenever no request is
\* being served in a calm world, but for the changes that were rejected while
\* their charge was open: the charge is collected and nothing matches it.
CalmBooksBalance ==
    calm /\ AtRest
        => LET paid == {r \in Requests :
                            \E p \in PaymentsWithKey(r) : payment[p].status = "COMPLETED"}
           IN  total = Base + SumFunctionOnSet(Amount, {r \in paid : status[r] # "REJECTED"})
================================================================================
