------------------------------- MODULE Payments -------------------------------
(****************************************************************************)
(* PaymentsService: initiating a charge under an idempotency key, verifying *)
(* it with the provider on the word of a client, a webhook or the retry     *)
(* job, and the listener that mirrors the result into the order.            *)
(*                                                                          *)
(* One order.  A payment is named by its reference.  A slot serves a        *)
(* request and then the listeners of the event it emitted; the answer of    *)
(* the provider stays in call[w] from the question to the UPDATE it leads   *)
(* to.                                                                      *)
(*                                                                          *)
(* The listener of the change requests is in ChangeRequests, which extends  *)
(* this module.                                                             *)
(****************************************************************************)
EXTENDS Requests, Naturals, FiniteSets

CONSTANTS
    Payments,           \* references
    Keys,               \* what a charge carries as its idempotency key
    NoKey,              \* no key at all: InitiatePaymentDto leaves it optional
    ClientKeys,         \* what clients send along when they pay for the order
    Subscribers,        \* listeners of payment.completed besides the mirror
    MaxRetries          \* retryCount at which the retry job gives up

ASSUME PaymentsAssumption ==
    /\ NoKey \in Keys
    /\ ClientKeys \subseteq Keys
    /\ MaxRetries \in Nat

VARIABLES
    payment,            \* payments, by reference
    provider,           \* what the provider knows of a reference
    paymentStatus       \* orders.payment_status

paymentVars == <<payment, provider, paymentStatus>>

PaymentStatus == {"PENDING", "PROCESSING", "COMPLETED", "FAILED"}

\* What VerifyPaymentResult.status may say.
Answers == {"completed", "failed", "pending"}

NoPayment == [status |-> "absent"]
PaymentRow == [status : PaymentStatus, key : Keys, retryCount : 0 .. MaxRetries]

PaymentCalls ==
         {Idle}
    \cup [op : {"insert"}, key : Keys]
    \cup [op : {"charge", "processing", "initiated"}, key : Keys, payment : Payments]
    \cup [op : {"retry"}, payment : Payments, read : 0 .. MaxRetries]
    \cup [op : {"look", "ask"}, payment : Payments]
    \cup [op : {"answer"}, payment : Payments, answer : Answers]
    \cup [op : {"emitted"}, payment : Payments, event : {"completed", "failed"},
          todo : SUBSET ({"mirror"} \cup Subscribers)]

PaymentsTypeOK ==
    /\ world \in Worlds
    /\ payment \in [Payments -> {NoPayment} \cup PaymentRow]
    /\ provider \in [Payments -> {"none"} \cup Answers]
    /\ paymentStatus \in PaymentStatus

PaymentsInit ==
    /\ RequestsInit
    /\ payment = [p \in Payments |-> NoPayment]
    /\ provider = [p \in Payments |-> "none"]
    /\ paymentStatus = "PENDING"

Exists(p) == payment[p] # NoPayment

--------------------------------------------------------------------------------
(* initiate                                                                 *)

PaymentsWithKey(k) == {p \in Payments : Exists(p) /\ payment[p].key = k}

\* What initiate hands back to its caller.
Initiated(k, p) == [op |-> "initiated", key |-> k, payment |-> p]

\* Bug: the key is not looked up.
InitiateFindNothing(w, k) ==
    /\ Continue(w, [op |-> "insert", key |-> k])
    /\ UNCHANGED paymentVars

\* Look up the key, if there is one; an existing payment is returned as it is.
InitiateFind(w, k) ==
    /\ \/ /\ k = NoKey \/ PaymentsWithKey(k) = {}
          /\ Continue(w, [op |-> "insert", key |-> k])
       \/ /\ k # NoKey
          /\ \E p \in PaymentsWithKey(k) : Continue(w, Initiated(k, p))
    /\ UNCHANGED paymentVars

\* Save the row under a fresh reference.
InitiateSave(w) ==
    /\ call[w].op = "insert"
    /\ \E p \in Payments :
          /\ ~ Exists(p)
          /\ payment' = [payment EXCEPT ![p] =
                [status |-> "PENDING", key |-> call[w].key, retryCount |-> 0]]
          /\ Continue(w, [op |-> "charge", key |-> call[w].key, payment |-> p])
    /\ UNCHANGED <<provider, paymentStatus>>

InitiateCharge(w) ==
    /\ call[w].op = "charge"
    /\ provider' = [provider EXCEPT ![call[w].payment] = "pending"]
    /\ Continue(w, [call[w] EXCEPT !.op = "processing"])
    /\ UNCHANGED <<payment, paymentStatus>>

\* UPDATE ... SET status = PROCESSING WHERE id, whatever the row says by now.
InitiateUpdate(w) ==
    /\ call[w].op = "processing"
    /\ payment' = [payment EXCEPT ![call[w].payment].status = "PROCESSING"]
    /\ Continue(w, Initiated(call[w].key, call[w].payment))
    /\ UNCHANGED <<provider, paymentStatus>>

\* POST /payments/initiate ends; other callers of initiate go on.
InitiateAnswer(w) ==
    /\ call[w].op = "initiated"
    /\ call[w].key \in ClientKeys
    /\ Finish(w)
    /\ UNCHANGED paymentVars

--------------------------------------------------------------------------------
(* verify, handleWebhook, and retryFailedPayments, a job the service offers *)
(* although no scheduler of the repository starts it.                       *)

\* GET /payments/verify/:reference or a webhook, about a charge the provider
\* knows.  The two clients in providers/ are placeholders that answer
\* "completed"; what they stand for is in provider.
Verify(w, p) ==
    /\ MayStart(w)
    /\ provider[p] # "none"
    /\ Continue(w, [op |-> "look", payment |-> p])
    /\ UNCHANGED paymentVars

\* Bug: the job does not look at retryCount.
RetryFindForever(w, p) ==
    /\ MayStart(w)
    /\ payment[p].status = "FAILED"
    /\ Continue(w, [op |-> "retry", payment |-> p, read |-> payment[p].retryCount])
    /\ UNCHANGED paymentVars

RetryFind(w, p) ==
    /\ MayStart(w)
    /\ payment[p].status = "FAILED"
    /\ payment[p].retryCount < MaxRetries
    /\ Continue(w, [op |-> "retry", payment |-> p, read |-> payment[p].retryCount])
    /\ UNCHANGED paymentVars

RetryCount(w) ==
    /\ call[w].op = "retry"
    /\ payment' = [payment EXCEPT ![call[w].payment].retryCount = call[w].read + 1]
    /\ Continue(w, [op |-> "look", payment |-> call[w].payment])
    /\ UNCHANGED <<provider, paymentStatus>>

\* A payment that is COMPLETED is returned as it is.
VerifyRead(w) ==
    /\ call[w].op = "look"
    /\ Continue(w, IF payment[call[w].payment].status = "COMPLETED"
                   THEN Idle ELSE [call[w] EXCEPT !.op = "ask"])
    /\ UNCHANGED paymentVars

VerifyAsk(w) ==
    /\ call[w].op = "ask"
    /\ Continue(w, [op |-> "answer", payment |-> call[w].payment,
                    answer |-> provider[call[w].payment]])
    /\ UNCHANGED paymentVars

\* The event verify emits and who hears it.
Emitted(p, e) ==
    [op |-> "emitted", payment |-> p, event |-> e,
     todo |-> {"mirror"} \cup (IF e = "completed" THEN Subscribers ELSE {})]

Outcome(answer) == IF answer = "completed" THEN "COMPLETED" ELSE "FAILED"

\* Bug: anything that is not a failure counts as paid.
VerifyWritePendingAsPaid(w) ==
    LET p == call[w].payment
        e == IF call[w].answer = "failed" THEN "failed" ELSE "completed"
    IN  /\ call[w].op = "answer"
        /\ payment' = [payment EXCEPT ![p].status = Outcome(e)]
        /\ Continue(w, Emitted(p, e))
        /\ UNCHANGED <<provider, paymentStatus>>

\* UPDATE WHERE id with what the provider answered, and the event.
VerifyWrite(w) ==
    LET p == call[w].payment
        answer == call[w].answer
    IN  /\ call[w].op = "answer"
        /\ IF answer = "pending"
           THEN Finish(w) /\ UNCHANGED payment
           ELSE /\ payment' = [payment EXCEPT ![p].status = Outcome(answer)]
                /\ Continue(w, Emitted(p, answer))
        /\ UNCHANGED <<provider, paymentStatus>>

--------------------------------------------------------------------------------
(* PaymentEventListener and the provider.                                   *)

\* One listener of the event is through; the slot ends with the last.
Heard(w, listener) ==
    LET left == call[w].todo \ {listener}
    IN  Continue(w, IF left = {} THEN Idle ELSE [call[w] EXCEPT !.todo = left])

\* handlePaymentCompleted and handlePaymentFailed of PaymentEventListener.
Mirror(w) ==
    /\ call[w].op = "emitted"
    /\ "mirror" \in call[w].todo
    /\ paymentStatus' = Outcome(call[w].event)
    /\ Heard(w, "mirror")
    /\ UNCHANGED <<payment, provider>>

\* The customer pays or fails to; a charge that failed may be paid after all.
ProviderCollects(p) ==
    /\ \/ provider[p] = "pending" /\ provider' = [provider EXCEPT ![p] = "failed"]
       \/ provider[p] \in {"pending", "failed"}
          /\ provider' = [provider EXCEPT ![p] = "completed"]
    /\ serial => AtRest
    /\ NoRequest
    /\ UNCHANGED <<payment, paymentStatus>>

--------------------------------------------------------------------------------
PaymentsRequest(w) ==
    \/ MayStart(w) /\ \E k \in ClientKeys : InitiateFind(w, k)
    \/ \E p \in Payments : Verify(w, p) \/ RetryFind(w, p)

PaymentsProceed(w) ==
    \/ InitiateSave(w)
    \/ InitiateCharge(w)
    \/ InitiateUpdate(w)
    \/ InitiateAnswer(w)
    \/ RetryCount(w)
    \/ VerifyRead(w)
    \/ VerifyAsk(w)
    \/ VerifyWrite(w)
    \/ Mirror(w)

PaymentsNext ==
    \/ \E w \in Slots : PaymentsRequest(w) \/ PaymentsProceed(w) \/ (Crash(w) /\ UNCHANGED paymentVars)
    \/ \E p \in Payments : ProviderCollects(p)

--------------------------------------------------------------------------------
(* Properties.                                                              *)

Collected(p) == provider[p] = "completed"

\* verify: "never trust frontend".  An order, or a payment, that counts as paid
\* was paid: the provider has collected at least one charge of it, though
\* questions, answers and writes of several verifications interleave.
PaidMeansCollected ==
    /\ \A p \in Payments : payment[p].status = "COMPLETED" => Collected(p)
    /\ paymentStatus = "COMPLETED" => \E p \in Payments : Collected(p)

\* initiate's idempotency: what is initiated under a key has one payment.  A charge
\* without a key is a new one every time.
OnePaymentPerKey == \A k \in Keys \ {NoKey} : Cardinality(PaymentsWithKey(k)) <= 1
================================================================================
