-------------------------- MODULE ChangeRequestsProofs --------------------------
(****************************************************************************)
(* Who has paid for what, for any number of charges, keys, change requests, *)
(* concurrent requests and crashes.                                         *)
(****************************************************************************)
EXTENDS ChangeRequests, SumTheorems

--------------------------------------------------------------------------------
(* The invariant.                                                           *)

\* A charge that exists was initiated, and only what the provider has answered is
\* written into a payment.
Ledger ==
    \A p \in Payments :
        /\ provider[p] # "none" => Exists(p)
        /\ payment[p].status \in {"FAILED", "COMPLETED"} => provider[p] # "none"
        /\ payment[p].status = "COMPLETED" => Collected(p)

\* What a request keeps of a payment is still so: whose charge it initiates, and
\* what the provider answered when it says that the charge was collected.
Known(c, pay, prov) ==
    /\ c.op = "charge" => prov[c.payment] = "none"
    /\ c.op \in {"charge", "processing", "initiated"} =>
          pay[c.payment] # NoPayment /\ pay[c.payment].key = c.key
    /\ c.op \in {"retry", "look", "ask", "answer", "emitted"} => prov[c.payment] # "none"
    /\ c.op = "answer" /\ c.answer = "completed" => prov[c.payment] = "completed"
    /\ c.op = "emitted" /\ c.event = "completed" => prov[c.payment] = "completed"
    /\ c.op = "emitted" /\ c.event = "failed" => c.todo \subseteq {"mirror"}
    /\ c.op = "retry" => c.read < MaxRetries

\* A payment is charged by the request that saved it.
OneCharges ==
    \A v, w \in Slots :
        v # w /\ call[v].op = "charge" /\ call[w].op = "charge" =>
            call[v].payment # call[w].payment

Marked == paymentStatus = "COMPLETED" => \E p \in Payments : Collected(p)

PaymentsInv ==
    /\ PaymentsTypeOK
    /\ call \in [Slots -> Calls]
    /\ Ledger
    /\ \A w \in Slots : Known(call[w], payment, provider)
    /\ OneCharges
    /\ Marked

\* The customer has paid for change r.
Paid(r, pay, prov) ==
    \E p \in Payments : pay[p] # NoPayment /\ pay[p].key = r /\ prov[p] = "completed"

RequestsInv ==
    /\ status \in [Requests -> {"none"} \cup ChangeRequestStatus]
    /\ reference \in [Requests -> {"none"} \cup Payments]
    /\ total \in Nat
    /\ split \in Nat
    /\ hearing \in [Slots -> Hearing]
    /\ \A r \in Requests : reference[r] # "none" =>
          Exists(reference[r]) /\ payment[reference[r]].key = r
    /\ \A w \in Slots : hearing[w] # Deaf => Paid(hearing[w].request, payment, provider)
    /\ \A r \in Requests : status[r] = "APPROVED" => Paid(r, payment, provider)

\* Whoever keeps something as a listener still owes the event an answer.
Attending ==
    \A w \in Slots : hearing[w] # Deaf => call[w].op = "emitted" /\ "approve" \in call[w].todo

Inv == PaymentsInv /\ RequestsInv
IInv == Inv /\ Attending

--------------------------------------------------------------------------------
(* Fields, forms and small steps.                                           *)

LEMMA CallFields ==
    ASSUME PaymentsInv, NEW w \in Slots
    PROVE  /\ call[w].op \in {"insert", "charge", "processing", "initiated"} =>
                  call[w].key \in Keys
           /\ call[w].op \in {"charge", "processing", "initiated", "retry", "look", "ask",
                              "answer", "emitted"} => call[w].payment \in Payments
           /\ call[w].op = "retry" => call[w].read \in 0 .. MaxRetries
           /\ call[w].op = "answer" => call[w].answer \in Answers
           /\ call[w].op = "emitted" => call[w].event \in {"completed", "failed"}
           /\ call[w].op = "emitted" => call[w].todo \subseteq {"mirror"} \cup Subscribers
           /\ call[w].op \in {"pay", "reject"} => call[w].request \in Requests
           /\ call[w].op = "settle" => call[w].read \in Nat
  <1>1. call[w] \in Calls
    BY DEF PaymentsInv
  <1> QED
    BY <1>1 DEF Calls, PaymentCalls, Idle

LEMMA CallForms ==
    /\ Idle \in Calls
    /\ \A k \in Keys :
          /\ [op |-> "insert", key |-> k] \in Calls
          /\ \A p \in Payments, op \in {"charge", "processing", "initiated"} :
                [op |-> op, key |-> k, payment |-> p] \in Calls
    /\ \A p \in Payments :
          /\ \A op \in {"look", "ask"} : [op |-> op, payment |-> p] \in Calls
          /\ \A n \in 0 .. MaxRetries : [op |-> "retry", payment |-> p, read |-> n] \in Calls
          /\ \A a \in Answers : [op |-> "answer", payment |-> p, answer |-> a] \in Calls
          /\ \A e \in {"completed", "failed"}, T \in SUBSET ({"mirror"} \cup Subscribers) :
                [op |-> "emitted", payment |-> p, event |-> e, todo |-> T] \in Calls
    /\ \A r \in Requests, op \in {"pay", "reject"} : [op |-> op, request |-> r] \in Calls
    /\ \A n \in Nat : [op |-> "settle", read |-> n] \in Calls
  BY DEF Calls, PaymentCalls

\* A row that exists is a payment.
LEMMA Rows ==
    ASSUME PaymentsTypeOK, NEW p \in Payments
    PROVE  /\ Exists(p) => payment[p] \in PaymentRow
           /\ payment[p].status # "absent" => Exists(p)
           /\ Exists(p) => payment[p].status \in PaymentStatus
  BY DEF PaymentsTypeOK, PaymentRow, Exists, NoPayment, PaymentStatus

\* UPDATE payments SET status WHERE reference.
LEMMA StatusSet ==
    ASSUME PaymentsTypeOK, NEW p \in Payments, Exists(p), NEW s \in PaymentStatus,
           payment' = [payment EXCEPT ![p].status = s]
    PROVE  /\ payment' \in [Payments -> {NoPayment} \cup PaymentRow]
           /\ Exists(p)' /\ payment'[p].status = s /\ payment'[p].key = payment[p].key
           /\ \A q \in Payments \ {p} : payment'[q] = payment[q]
  <1>1. payment[p] \in PaymentRow
    BY Rows
  <1>2. payment'[p] = [payment[p] EXCEPT !.status = s]
    BY DEF PaymentsTypeOK
  <1>3. /\ payment'[p] \in PaymentRow /\ payment'[p].status = s
        /\ payment'[p].key = payment[p].key
    BY <1>1, <1>2 DEF PaymentRow
  <1>4. payment'[p] # NoPayment
    BY <1>3 DEF NoPayment, PaymentStatus
  <1> QED
    BY <1>3, <1>4 DEF PaymentsTypeOK, Exists

\* Nothing that was known of payments is taken back.
Grows ==
    \A p \in Payments :
        /\ Exists(p) => Exists(p)' /\ payment'[p].key = payment[p].key
        /\ provider[p] # "none" => provider'[p] # "none"
        /\ Collected(p) => Collected(p)'

LEMMA PaidStays ==
    ASSUME Grows, NEW r, Paid(r, payment, provider)
    PROVE  Paid(r, payment', provider')
  BY DEF Grows, Paid, Exists, Collected

LEMMA ContinueExact ==
    ASSUME PaymentsInv, NEW w \in Slots, NEW c \in Calls, Continue(w, c)
    PROVE  /\ call' \in [Slots -> Calls] /\ world' = world
           /\ call'[w] = c
           /\ \A v \in Slots \ {w} : call'[v] = call[v]
  BY DEF PaymentsInv, Continue

\* A slot goes on to c; the payments grow, and no charge appears for a payment that
\* another slot is about to charge.
LEMMA PaymentsAfter ==
    ASSUME PaymentsInv, NEW w \in Slots, NEW c \in Calls, Continue(w, c),
           PaymentsTypeOK', Ledger', Marked', Grows,
           Known(c, payment', provider'),
           \A v \in Slots \ {w} :
               call[v].op = "charge" => provider'[call[v].payment] = "none",
           c.op = "charge" =>
               \A v \in Slots \ {w} : call[v].op = "charge" => call[v].payment # c.payment
    PROVE  PaymentsInv'
  <1>1. /\ call' \in [Slots -> Calls] /\ call'[w] = c
        /\ \A v \in Slots \ {w} : call'[v] = call[v]
    BY ContinueExact
  <1>2. ASSUME NEW v \in Slots
        PROVE  Known(call'[v], payment', provider')
    <2>1. CASE v = w
      BY <1>1, <2>1
    <2>2. CASE v # w
      <3>1. call'[v] = call[v] /\ Known(call[v], payment, provider)
        BY <1>1, <2>2 DEF PaymentsInv
      <3> QED
        BY <2>2, <3>1, CallFields DEF Known, Grows, Exists, Collected
    <2> QED
      BY <2>1, <2>2
  <1>3. OneCharges'
    BY <1>1 DEF PaymentsInv, OneCharges
  <1> QED
    BY <1>1, <1>2, <1>3 DEF PaymentsInv

\* A step that leaves the payments as they are.
LEMMA PaymentsKept ==
    ASSUME PaymentsInv, NEW w \in Slots, NEW c \in Calls, Continue(w, c),
           UNCHANGED paymentVars, Known(c, payment, provider), c.op # "charge"
    PROVE  PaymentsInv' /\ Grows
  <1>1. Grows
    BY DEF Grows, Exists, Collected, paymentVars
  <1>2. PaymentsTypeOK' /\ Ledger' /\ Marked'
    BY ContinueExact
    DEF PaymentsInv, PaymentsTypeOK, Ledger, Marked, Exists, Collected, paymentVars
  <1>3. /\ Known(c, payment', provider')
        /\ \A v \in Slots \ {w} :
               call[v].op = "charge" => provider'[call[v].payment] = "none"
    BY DEF PaymentsInv, Known, paymentVars
  <1> QED
    BY <1>1, <1>2, <1>3, PaymentsAfter

\* What the change requests know of the payments is not taken back.
LEMMA RequestsKept ==
    ASSUME RequestsInv, Grows, UNCHANGED requestVars
    PROVE  RequestsInv'
  <1>1. /\ status' = status /\ reference' = reference /\ total' = total /\ split' = split
        /\ hearing' = hearing
    BY DEF requestVars
  <1>2. ASSUME NEW r \in Requests, reference[r] # "none"
        PROVE  payment'[reference[r]] # NoPayment /\ payment'[reference[r]].key = r
    BY <1>2 DEF RequestsInv, Grows, Exists
  <1>3. \A r : Paid(r, payment, provider) => Paid(r, payment', provider')
    BY PaidStays
  <1> QED
    BY <1>1, <1>2, <1>3 DEF RequestsInv, Exists

--------------------------------------------------------------------------------
(* The initial states.                                                      *)

LEMMA InvInit ==
    Init => Inv
  <1> SUFFICES ASSUME Init PROVE Inv
    OBVIOUS
  <1> USE DEF Init, PaymentsInit, RequestsInit
  <1>1. Idle \in Calls
    BY CallForms
  <1>2. PaymentsTypeOK
    BY DEF PaymentsTypeOK, Worlds, NoPayment, PaymentStatus
  <1>3. Ledger /\ OneCharges /\ Marked
    BY DEF Ledger, OneCharges, Marked, Exists, NoPayment, Idle
  <1>4. \A w \in Slots : Known(call[w], payment, provider)
    BY DEF Known, Idle
  <1>5. RequestsInv
    BY ChangeRequestsAssumption DEF RequestsInv, Hearing, Deaf
  <1> QED
    BY <1>1, <1>2, <1>3, <1>4, <1>5 DEF Inv, PaymentsInv

--------------------------------------------------------------------------------
(* The steps of the payments.                                               *)

LEMMA FindStep ==
    ASSUME PaymentsInv, NEW w \in Slots, NEW k \in Keys, InitiateFind(w, k)
    PROVE  PaymentsInv' /\ Grows
  <1>1. CASE Continue(w, [op |-> "insert", key |-> k])
    <2>1. [op |-> "insert", key |-> k] \in Calls
      BY CallForms
    <2>2. Known([op |-> "insert", key |-> k], payment, provider)
      BY DEF Known
    <2> QED
      BY <1>1, <2>1, <2>2, PaymentsKept DEF InitiateFind
  <1>2. ASSUME NEW p \in PaymentsWithKey(k), Continue(w, Initiated(k, p))
        PROVE  PaymentsInv' /\ Grows
    <2>1. p \in Payments /\ payment[p] # NoPayment /\ payment[p].key = k
      BY DEF PaymentsWithKey, Exists
    <2>2. Initiated(k, p) \in Calls
      BY <2>1, CallForms DEF Initiated
    <2>3. Known(Initiated(k, p), payment, provider) /\ Initiated(k, p).op # "charge"
      BY <2>1 DEF Known, Initiated
    <2> QED
      BY <1>2, <2>2, <2>3, PaymentsKept DEF InitiateFind
  <1> QED
    BY <1>1, <1>2 DEF InitiateFind

LEMMA FinishStep ==
    ASSUME PaymentsInv, NEW w \in Slots, Finish(w), UNCHANGED paymentVars
    PROVE  PaymentsInv' /\ Grows
  <1>1. Idle \in Calls /\ Known(Idle, payment, provider) /\ Idle.op # "charge"
    BY CallForms DEF Known, Idle
  <1> QED
    BY <1>1, PaymentsKept DEF Finish

LEMMA VerifyStep ==
    ASSUME PaymentsInv, NEW w \in Slots, NEW p \in Payments, Verify(w, p)
    PROVE  PaymentsInv' /\ Grows
  <1> DEFINE c == [op |-> "look", payment |-> p]
  <1>1. c \in Calls
    BY CallForms
  <1>2. Known(c, payment, provider) /\ c.op # "charge"
    BY DEF Known, Verify
  <1>3. Continue(w, c) /\ UNCHANGED paymentVars
    BY DEF Verify
  <1> QED
    BY <1>1, <1>2, <1>3, PaymentsKept

LEMMA RetryFindStep ==
    ASSUME PaymentsInv, NEW w \in Slots, NEW p \in Payments, RetryFind(w, p)
    PROVE  PaymentsInv' /\ Grows
  <1> DEFINE c == [op |-> "retry", payment |-> p, read |-> payment[p].retryCount]
  <1>1. /\ payment[p].status = "FAILED" /\ payment[p].retryCount < MaxRetries
        /\ Continue(w, c) /\ UNCHANGED paymentVars
    BY DEF RetryFind
  <1>2. provider[p] # "none" /\ payment[p] \in PaymentRow
    BY <1>1, Rows DEF PaymentsInv, Ledger
  <1>3. payment[p].retryCount \in 0 .. MaxRetries
    BY <1>2 DEF PaymentRow
  <1>4. c \in Calls
    BY <1>3, CallForms
  <1>5. Known(c, payment, provider) /\ c.op # "charge"
    BY <1>1, <1>2 DEF Known
  <1> QED
    BY <1>1, <1>4, <1>5, PaymentsKept

LEMMA VerifyReadStep ==
    ASSUME PaymentsInv, NEW w \in Slots, VerifyRead(w)
    PROVE  PaymentsInv' /\ Grows
  <1> DEFINE p == call[w].payment
  <1>1. call[w].op = "look" /\ p \in Payments /\ provider[p] # "none"
    BY CallFields DEF VerifyRead, PaymentsInv, Known
  <1>2. CASE Finish(w)
    BY <1>2, FinishStep DEF VerifyRead
  <1>3. CASE Continue(w, [call[w] EXCEPT !.op = "ask"])
    <2>1. call[w] = [op |-> "look", payment |-> p]
      BY <1>1 DEF PaymentsInv, Calls, PaymentCalls, Idle
    <2>2. [call[w] EXCEPT !.op = "ask"] = [op |-> "ask", payment |-> p]
      BY <2>1
    <2>3. [op |-> "ask", payment |-> p] \in Calls
      BY <1>1, CallForms
    <2>4. Known([op |-> "ask", payment |-> p], payment, provider)
      BY <1>1 DEF Known
    <2> QED
      BY <1>3, <2>2, <2>3, <2>4, PaymentsKept DEF VerifyRead
  <1> QED
    BY <1>2, <1>3 DEF VerifyRead, Finish

LEMMA VerifyAskStep ==
    ASSUME PaymentsInv, NEW w \in Slots, VerifyAsk(w)
    PROVE  PaymentsInv' /\ Grows
  <1> DEFINE p == call[w].payment
             c == [op |-> "answer", payment |-> p, answer |-> provider[p]]
  <1>1. p \in Payments /\ provider[p] # "none"
    BY CallFields DEF VerifyAsk, PaymentsInv, Known
  <1>2. provider[p] \in Answers
    BY <1>1 DEF PaymentsInv, PaymentsTypeOK
  <1>3. c \in Calls
    BY <1>1, <1>2, CallForms
  <1>4. Known(c, payment, provider) /\ c.op # "charge"
    BY <1>1 DEF Known
  <1>5. Continue(w, c) /\ UNCHANGED paymentVars
    BY DEF VerifyAsk
  <1> QED
    BY <1>3, <1>4, <1>5, PaymentsKept

\* A row that exists gets another row of the same key.
LEMMA RowStep ==
    ASSUME PaymentsInv, NEW w \in Slots, NEW c \in Calls, Continue(w, c),
           NEW p \in Payments, Exists(p), NEW row \in PaymentRow, row.key = payment[p].key,
           payment' = [payment EXCEPT ![p] = row], UNCHANGED <<provider, paymentStatus>>,
           row.status \in {"FAILED", "COMPLETED"} => provider[p] # "none",
           row.status = "COMPLETED" => Collected(p),
           Known(c, payment', provider), c.op # "charge"
    PROVE  PaymentsInv' /\ Grows
  <1>1. /\ payment' \in [Payments -> {NoPayment} \cup PaymentRow]
        /\ payment'[p] = row
        /\ \A q \in Payments \ {p} : payment'[q] = payment[q]
    BY DEF PaymentsInv, PaymentsTypeOK
  <1>2. row # NoPayment
    BY DEF PaymentRow, NoPayment, PaymentStatus
  <1>3. PaymentsTypeOK'
    BY <1>1, ContinueExact DEF PaymentsInv, PaymentsTypeOK
  <1>4. Grows
    BY <1>1, <1>2 DEF Grows, Exists, Collected
  <1>5. Ledger'
    BY <1>1, <1>2 DEF PaymentsInv, Ledger, Exists, Collected
  <1>6. Marked'
    BY DEF PaymentsInv, Marked, Collected
  <1>7. \A v \in Slots \ {w} : call[v].op = "charge" => provider'[call[v].payment] = "none"
    BY DEF PaymentsInv, Known
  <1>8. Known(c, payment', provider')
    OBVIOUS
  <1> QED
    BY <1>3, <1>4, <1>5, <1>6, <1>7, <1>8, PaymentsAfter

LEMMA InitiateSaveStep ==
    ASSUME PaymentsInv, NEW w \in Slots, InitiateSave(w)
    PROVE  PaymentsInv' /\ Grows
  <1> DEFINE k == call[w].key
             row == [status |-> "PENDING", key |-> k, retryCount |-> 0]
  <1>1. k \in Keys
    BY CallFields DEF InitiateSave
  <1>2. PICK p \in Payments :
            /\ ~ Exists(p)
            /\ payment' = [payment EXCEPT ![p] = row]
            /\ Continue(w, [op |-> "charge", key |-> k, payment |-> p])
    BY DEF InitiateSave
  <1> DEFINE c == [op |-> "charge", key |-> k, payment |-> p]
  <1>3. provider' = provider /\ paymentStatus' = paymentStatus
    BY DEF InitiateSave
  <1>4. row \in PaymentRow /\ row # NoPayment
    BY <1>1, PaymentsAssumption DEF PaymentRow, NoPayment, PaymentStatus
  <1>5. /\ payment' \in [Payments -> {NoPayment} \cup PaymentRow]
        /\ payment'[p] = row
        /\ \A q \in Payments \ {p} : payment'[q] = payment[q]
    BY <1>2, <1>4 DEF PaymentsInv, PaymentsTypeOK
  <1>6. c \in Calls
    BY <1>1, CallForms
  <1>7. PaymentsTypeOK'
    BY <1>2, <1>3, <1>5, <1>6, ContinueExact DEF PaymentsInv, PaymentsTypeOK
  <1>8. Grows
    BY <1>2, <1>3, <1>5 DEF Grows, Exists, Collected
  <1>9. Ledger'
    BY <1>3, <1>4, <1>5 DEF PaymentsInv, Ledger, Exists, Collected
  <1>10. Marked'
    BY <1>3 DEF PaymentsInv, Marked, Collected
  <1>11. Known(c, payment', provider')
    BY <1>2, <1>3, <1>4, <1>5 DEF Known, PaymentsInv, Ledger
  <1>12. \A v \in Slots \ {w} : call[v].op = "charge" =>
            provider'[call[v].payment] = "none" /\ call[v].payment # p
    BY <1>2, <1>3 DEF PaymentsInv, Known, Exists
  <1>13. c.payment = p
    OBVIOUS
  <1> HIDE DEF c
  <1> QED
    BY <1>2, <1>6, <1>7, <1>8, <1>9, <1>10, <1>11, <1>12, <1>13, PaymentsAfter DEF c

LEMMA InitiateChargeStep ==
    ASSUME PaymentsInv, NEW w \in Slots, InitiateCharge(w)
    PROVE  PaymentsInv' /\ Grows
  <1> DEFINE p == call[w].payment
             k == call[w].key
             c == [op |-> "processing", key |-> k, payment |-> p]
  <1>1. /\ call[w].op = "charge" /\ p \in Payments /\ k \in Keys
        /\ provider[p] = "none" /\ payment[p] # NoPayment /\ payment[p].key = k
    BY CallFields DEF InitiateCharge, PaymentsInv, Known
  <1>2. /\ provider' = [provider EXCEPT ![p] = "pending"]
        /\ payment' = payment /\ paymentStatus' = paymentStatus
        /\ Continue(w, [call[w] EXCEPT !.op = "processing"])
    BY DEF InitiateCharge
  <1>3. call[w] = [op |-> "charge", key |-> k, payment |-> p]
    BY <1>1 DEF PaymentsInv, Calls, PaymentCalls, Idle
  <1>4. [call[w] EXCEPT !.op = "processing"] = c
    BY <1>3
  <1>5. c \in Calls
    BY <1>1, CallForms
  <1>6. /\ provider' \in [Payments -> {"none"} \cup Answers] /\ provider'[p] = "pending"
        /\ \A q \in Payments \ {p} : provider'[q] = provider[q]
    BY <1>1, <1>2 DEF PaymentsInv, PaymentsTypeOK, Answers
  <1>7. PaymentsTypeOK'
    BY <1>2, <1>4, <1>5, <1>6, ContinueExact DEF PaymentsInv, PaymentsTypeOK
  <1>8. Grows
    BY <1>1, <1>2, <1>6 DEF Grows, Exists, Collected
  <1>9. Ledger'
    BY <1>1, <1>2, <1>6 DEF PaymentsInv, Ledger, Exists, Collected
  <1>10. Marked'
    BY <1>1, <1>2, <1>6 DEF PaymentsInv, Marked, Collected
  <1>11. Known(c, payment', provider')
    BY <1>1, <1>2 DEF Known
  <1>12. \A v \in Slots \ {w} : call[v].op = "charge" => provider'[call[v].payment] = "none"
    <2>1. ASSUME NEW v \in Slots \ {w}, call[v].op = "charge"
          PROVE  provider'[call[v].payment] = "none"
      <3>1. call[v].payment # p
        BY <1>1, <2>1 DEF PaymentsInv, OneCharges
      <3>2. call[v].payment \in Payments /\ provider[call[v].payment] = "none"
        BY <2>1, CallFields DEF PaymentsInv, Known
      <3> QED
        BY <1>6, <3>1, <3>2
    <2> QED
      BY <2>1
  <1>13. c.op # "charge" /\ Continue(w, c)
    BY <1>2, <1>4
  <1> QED
    BY <1>5, <1>7, <1>8, <1>9, <1>10, <1>11, <1>12, <1>13, PaymentsAfter

LEMMA InitiateUpdateStep ==
    ASSUME PaymentsInv, NEW w \in Slots, InitiateUpdate(w)
    PROVE  PaymentsInv' /\ Grows
  <1> DEFINE p == call[w].payment
             k == call[w].key
             c == Initiated(k, p)
             row == [payment[p] EXCEPT !.status = "PROCESSING"]
  <1>1. /\ p \in Payments /\ k \in Keys
        /\ payment[p] # NoPayment /\ payment[p].key = k
    BY CallFields DEF InitiateUpdate, PaymentsInv, Known
  <1>2. /\ payment' = [payment EXCEPT ![p] = row]
        /\ provider' = provider /\ paymentStatus' = paymentStatus
        /\ Continue(w, c)
    BY <1>1 DEF InitiateUpdate, PaymentsInv, PaymentsTypeOK
  <1>3. payment[p] \in PaymentRow
    BY <1>1, Rows DEF PaymentsInv, Exists
  <1>4. row \in PaymentRow /\ row.status = "PROCESSING" /\ row.key = k
    BY <1>1, <1>3 DEF PaymentRow, PaymentStatus
  <1>5. payment'[p] = row
    BY <1>1, <1>2 DEF PaymentsInv, PaymentsTypeOK
  <1>6. c \in Calls
    BY <1>1, CallForms DEF Initiated
  <1>7. Known(c, payment', provider) /\ c.op # "charge"
    BY <1>4, <1>5 DEF Known, Initiated, PaymentRow, NoPayment, PaymentStatus
  <1> HIDE DEF c, row
  <1> QED
    BY <1>1, <1>2, <1>4, <1>6, <1>7, RowStep DEF Exists

LEMMA RetryCountStep ==
    ASSUME PaymentsInv, NEW w \in Slots, RetryCount(w)
    PROVE  PaymentsInv' /\ Grows
  <1> DEFINE p == call[w].payment
             c == [op |-> "look", payment |-> p]
             row == [payment[p] EXCEPT !.retryCount = call[w].read + 1]
  <1>1. /\ p \in Payments /\ call[w].read \in 0 .. MaxRetries
        /\ provider[p] # "none" /\ call[w].read < MaxRetries
    BY CallFields DEF RetryCount, PaymentsInv, Known
  <1>2. Exists(p) /\ payment[p] \in PaymentRow
    BY <1>1, Rows DEF PaymentsInv, Ledger
  <1>3. /\ payment' = [payment EXCEPT ![p] = row]
        /\ provider' = provider /\ paymentStatus' = paymentStatus
        /\ Continue(w, c)
    BY <1>1 DEF RetryCount, PaymentsInv, PaymentsTypeOK
  <1>4. call[w].read + 1 \in 0 .. MaxRetries
    BY <1>1, PaymentsAssumption
  <1>5. row \in PaymentRow /\ row.status = payment[p].status /\ row.key = payment[p].key
    BY <1>2, <1>4 DEF PaymentRow
  <1>6. c \in Calls /\ c.op # "charge" /\ Known(c, payment', provider)
    BY <1>1, CallForms DEF Known
  <1>7. /\ row.status \in {"FAILED", "COMPLETED"} => provider[p] # "none"
        /\ row.status = "COMPLETED" => Collected(p)
    BY <1>1, <1>5 DEF PaymentsInv, Ledger
  <1> HIDE DEF c, row
  <1> QED
    BY <1>1, <1>2, <1>3, <1>5, <1>6, <1>7, RowStep

LEMMA VerifyWriteStep ==
    ASSUME PaymentsInv, Subscribers = {"approve"}, NEW w \in Slots, VerifyWrite(w)
    PROVE  PaymentsInv' /\ Grows
  <1> DEFINE p == call[w].payment
             answer == call[w].answer
             c == Emitted(p, answer)
             row == [payment[p] EXCEPT !.status = Outcome(answer)]
  <1>1. /\ p \in Payments /\ answer \in Answers /\ provider[p] # "none"
        /\ answer = "completed" => provider[p] = "completed"
    BY CallFields DEF VerifyWrite, PaymentsInv, Known
  <1>2. Exists(p) /\ payment[p] \in PaymentRow
    BY <1>1, Rows DEF PaymentsInv, Ledger
  <1>3. CASE answer = "pending"
    BY <1>3, FinishStep DEF VerifyWrite, paymentVars
  <1>4. CASE answer # "pending"
    <2>1. /\ payment' = [payment EXCEPT ![p] = row]
          /\ provider' = provider /\ paymentStatus' = paymentStatus
          /\ Continue(w, c)
      BY <1>1, <1>4 DEF VerifyWrite, PaymentsInv, PaymentsTypeOK
    <2>2. /\ row \in PaymentRow /\ row.key = payment[p].key
          /\ row.status = "COMPLETED" => answer = "completed"
      BY <1>2 DEF PaymentRow, PaymentStatus, Outcome
    <2>3. answer \in {"completed", "failed"}
      BY <1>1, <1>4 DEF Answers
    <2>4. c \in Calls
      BY <1>1, <2>3, CallForms DEF Emitted
    <2>5. c.op # "charge" /\ Known(c, payment', provider)
      BY <1>1, <2>3 DEF Known, Emitted
    <2> HIDE DEF c, row
    <2> QED
      BY <1>1, <1>2, <2>1, <2>2, <2>4, <2>5, RowStep DEF Collected
  <1> QED
    BY <1>3, <1>4

\* What is left of an event when one listener is through.
LEMMA HeardForm ==
    ASSUME PaymentsInv, NEW w \in Slots, call[w].op = "emitted", NEW listener,
           Heard(w, listener)
    PROVE  \E c \in Calls :
               Continue(w, c) /\ Known(c, payment, provider) /\ c.op # "charge"
  <1> DEFINE p == call[w].payment
             e == call[w].event
             left == call[w].todo \ {listener}
             c == [op |-> "emitted", payment |-> p, event |-> e, todo |-> left]
  <1>1. /\ p \in Payments /\ e \in {"completed", "failed"}
        /\ call[w].todo \subseteq {"mirror"} \cup Subscribers
    BY CallFields
  <1>2. call[w] = [op |-> "emitted", payment |-> p, event |-> e, todo |-> call[w].todo]
    BY DEF PaymentsInv, Calls, PaymentCalls, Idle
  <1>3. CASE left = {}
    <2>1. Continue(w, Idle)
      BY <1>3 DEF Heard
    <2>2. Idle \in Calls /\ Known(Idle, payment, provider) /\ Idle.op # "charge"
      BY CallForms DEF Known, Idle
    <2> QED
      BY <2>1, <2>2
  <1>4. CASE left # {}
    <2>1. [call[w] EXCEPT !.todo = left] = c
      BY <1>2
    <2>2. Continue(w, c)
      BY <1>4, <2>1 DEF Heard
    <2>3. left \in SUBSET ({"mirror"} \cup Subscribers)
      BY <1>1
    <2>4. c \in Calls
      BY <1>1, <2>3, CallForms
    <2>5. Known(c, payment, provider) /\ c.op # "charge"
      BY DEF PaymentsInv, Known
    <2> QED
      BY <2>2, <2>4, <2>5
  <1> QED
    BY <1>3, <1>4

LEMMA MirrorStep ==
    ASSUME PaymentsInv, NEW w \in Slots, Mirror(w)
    PROVE  PaymentsInv' /\ Grows
  <1>1. /\ call[w].op = "emitted" /\ Heard(w, "mirror")
        /\ paymentStatus' = Outcome(call[w].event)
        /\ payment' = payment /\ provider' = provider
    BY DEF Mirror
  <1>2. PICK c \in Calls :
            Continue(w, c) /\ Known(c, payment, provider) /\ c.op # "charge"
    BY <1>1, HeardForm
  <1>3. call[w].payment \in Payments
    BY <1>1, CallFields
  <1>4. Grows
    BY <1>1 DEF Grows, Exists, Collected
  <1>5. PaymentsTypeOK' /\ Ledger'
    BY <1>1, <1>2, ContinueExact
    DEF PaymentsInv, PaymentsTypeOK, PaymentStatus, Outcome, Ledger, Exists, Collected
  <1>6. Marked'
    <2>1. CASE call[w].event = "completed"
      BY <1>1, <1>3, <2>1 DEF PaymentsInv, Known, Marked, Collected
    <2>2. CASE call[w].event # "completed"
      BY <1>1, <2>2 DEF Marked, Outcome
    <2> QED
      BY <2>1, <2>2
  <1>7. /\ Known(c, payment', provider')
        /\ \A v \in Slots \ {w} : call[v].op = "charge" => provider'[call[v].payment] = "none"
    BY <1>1, <1>2 DEF PaymentsInv, Known
  <1> QED
    BY <1>2, <1>4, <1>5, <1>6, <1>7, PaymentsAfter

LEMMA ProviderStep ==
    ASSUME PaymentsInv, NEW p \in Payments, ProviderCollects(p)
    PROVE  PaymentsInv' /\ Grows
  <1>1. /\ provider[p] \in {"pending", "failed"}
        /\ \E a \in {"failed", "completed"} : provider' = [provider EXCEPT ![p] = a]
        /\ world' = world /\ call' = call
        /\ payment' = payment /\ paymentStatus' = paymentStatus
    BY DEF ProviderCollects, NoRequest
  <1>2. /\ provider' \in [Payments -> {"none"} \cup Answers]
        /\ provider'[p] \in {"failed", "completed"}
        /\ \A q \in Payments \ {p} : provider'[q] = provider[q]
    BY <1>1 DEF PaymentsInv, PaymentsTypeOK, Answers
  <1>3. Grows
    BY <1>1, <1>2 DEF Grows, Exists, Collected
  <1>4. PaymentsTypeOK' /\ Ledger'
    BY <1>1, <1>2 DEF PaymentsInv, PaymentsTypeOK, Ledger, Exists, Collected
  <1>5. Marked'
    BY <1>1, <1>3 DEF PaymentsInv, Marked, Grows
  <1>6. ASSUME NEW v \in Slots
        PROVE  Known(call[v], payment, provider')
    <2>1. Known(call[v], payment, provider)
      BY DEF PaymentsInv
    <2> QED
      BY <1>1, <1>2, <2>1, CallFields DEF Known
  <1>7. OneCharges'
    BY <1>1 DEF PaymentsInv, OneCharges
  <1> QED
    BY <1>1, <1>3, <1>4, <1>5, <1>6, <1>7 DEF PaymentsInv

--------------------------------------------------------------------------------
(* The steps of the change requests.                                        *)

\* A step that changes the status and the reference of one request r at most, and
\* the ears of one slot w.
RequestStep(r, w) ==
    /\ status' \in [Requests -> {"none"} \cup ChangeRequestStatus]
    /\ reference' \in [Requests -> {"none"} \cup Payments]
    /\ total' \in Nat /\ split' \in Nat
    /\ hearing' \in [Slots -> Hearing]
    /\ \A q \in Requests \ {r} : status'[q] = status[q] /\ reference'[q] = reference[q]
    /\ \A v \in Slots \ {w} : hearing'[v] = hearing[v]

LEMMA RequestsAfter ==
    ASSUME RequestsInv, Grows, NEW r \in Requests, NEW w \in Slots, RequestStep(r, w),
           reference'[r] # "none" =>
               payment'[reference'[r]] # NoPayment /\ payment'[reference'[r]].key = r,
           hearing'[w] # Deaf => Paid(hearing'[w].request, payment', provider'),
           status'[r] = "APPROVED" => Paid(r, payment', provider')
    PROVE  RequestsInv'
  <1>1. \A q : Paid(q, payment, provider) => Paid(q, payment', provider')
    BY PaidStays
  <1>2. ASSUME NEW q \in Requests, reference'[q] # "none"
        PROVE  payment'[reference'[q]] # NoPayment /\ payment'[reference'[q]].key = q
    <2>1. CASE q = r
      BY <1>2, <2>1
    <2>2. CASE q # r
      <3>1. reference'[q] = reference[q] /\ reference[q] \in Payments
        BY <1>2, <2>2 DEF RequestsInv, RequestStep
      <3> QED
        BY <1>2, <3>1 DEF RequestsInv, Grows, Exists
    <2> QED
      BY <2>1, <2>2
  <1>3. \A v \in Slots : hearing'[v] # Deaf => Paid(hearing'[v].request, payment', provider')
    BY <1>1 DEF RequestsInv, RequestStep
  <1>4. \A q \in Requests : status'[q] = "APPROVED" => Paid(q, payment', provider')
    BY <1>1 DEF RequestsInv, RequestStep
  <1> QED
    BY <1>2, <1>3, <1>4 DEF RequestsInv, RequestStep, Exists

LEMMA GrowsKept ==
    ASSUME UNCHANGED paymentVars
    PROVE  Grows
  BY DEF Grows, Exists, Collected, paymentVars

LEMMA PaymentsStill ==
    ASSUME PaymentsInv, UNCHANGED <<world, call, paymentVars>>
    PROVE  PaymentsInv'
  BY DEF PaymentsInv, PaymentsTypeOK, Ledger, OneCharges, Marked, Exists, Collected, paymentVars

LEMMA CreateStep ==
    ASSUME Inv, NEW r \in Requests, Create(r)
    PROVE  Inv'
  <1>1. PaymentsInv'
    BY PaymentsStill DEF Inv, Create, NoRequest
  <1>2. \A q \in Requests : status'[q] = "APPROVED" => status[q] = "APPROVED"
    BY DEF Inv, RequestsInv, Create
  <1>3. status' \in [Requests -> {"none"} \cup ChangeRequestStatus]
    BY DEF Inv, RequestsInv, Create, ChangeRequestStatus
  <1>4. RequestsInv'
    BY <1>2, <1>3 DEF Inv, RequestsInv, Create, Exists, paymentVars
  <1> QED
    BY <1>1, <1>4 DEF Inv

LEMMA ApproveStep ==
    ASSUME Inv, NEW w \in Slots, NEW r \in Requests, Approve(w, r) \/ Reject(w, r)
    PROVE  Inv'
  <1>1. PICK op \in {"pay", "reject"} : Continue(w, [op |-> op, request |-> r])
    BY DEF Approve, Reject
  <1> DEFINE c == [op |-> op, request |-> r]
  <1>2. c \in Calls /\ c.op # "charge" /\ Known(c, payment, provider)
    BY CallForms DEF Known
  <1>3. UNCHANGED paymentVars /\ UNCHANGED requestVars
    BY DEF Approve, Reject
  <1> QED
    BY <1>1, <1>2, <1>3, PaymentsKept, RequestsKept DEF Inv

LEMMA ApproveInitiateStep ==
    ASSUME Inv, NEW w \in Slots, ApproveInitiate(w)
    PROVE  Inv'
  <1>1. call[w].request \in Keys
    BY CallFields, ChangeRequestsAssumption DEF Inv, ApproveInitiate
  <1> QED
    BY <1>1, FindStep, RequestsKept DEF Inv, ApproveInitiate

LEMMA ApproveStoreStep ==
    ASSUME Inv, NEW w \in Slots, ApproveStore(w)
    PROVE  Inv'
  <1> DEFINE r == call[w].key
             p == call[w].payment
  <1>1. /\ r \in Requests /\ p \in Payments
        /\ payment[p] # NoPayment /\ payment[p].key = r
    BY CallFields DEF Inv, ApproveStore, PaymentsInv, Known
  <1>2. PaymentsInv' /\ Grows
    BY FinishStep DEF Inv, ApproveStore
  <1>3. /\ reference' = [reference EXCEPT ![r] = p]
        /\ status' = status /\ total' = total /\ split' = split /\ hearing' = hearing
        /\ payment' = payment /\ provider' = provider
    BY DEF ApproveStore, paymentVars
  <1>4. RequestStep(r, w)
    BY <1>1, <1>3 DEF Inv, RequestsInv, RequestStep
  <1>5. reference'[r] = p
    BY <1>1, <1>3 DEF Inv, RequestsInv
  <1>6. /\ reference'[r] # "none" =>
               payment'[reference'[r]] # NoPayment /\ payment'[reference'[r]].key = r
        /\ hearing'[w] # Deaf => Paid(hearing'[w].request, payment', provider')
        /\ status'[r] = "APPROVED" => Paid(r, payment', provider')
    BY <1>1, <1>3, <1>5 DEF Inv, RequestsInv
  <1> QED
    BY <1>1, <1>2, <1>4, <1>6, RequestsAfter DEF Inv

LEMMA RejectWriteStep ==
    ASSUME Inv, NEW w \in Slots, RejectWrite(w)
    PROVE  Inv'
  <1> DEFINE r == call[w].request
  <1>1. r \in Requests
    BY CallFields DEF Inv, RejectWrite
  <1>2. PaymentsInv' /\ Grows
    BY FinishStep DEF Inv, RejectWrite
  <1>3. /\ status' = [status EXCEPT ![r] = "REJECTED"]
        /\ reference' = reference /\ total' = total /\ split' = split /\ hearing' = hearing
        /\ payment' = payment /\ provider' = provider
    BY DEF RejectWrite, paymentVars
  <1>4. RequestStep(r, w) /\ status'[r] = "REJECTED"
    BY <1>1, <1>3 DEF Inv, RequestsInv, RequestStep, ChangeRequestStatus
  <1>5. /\ reference'[r] # "none" =>
               payment'[reference'[r]] # NoPayment /\ payment'[reference'[r]].key = r
        /\ hearing'[w] # Deaf => Paid(hearing'[w].request, payment', provider')
    BY <1>1, <1>3 DEF Inv, RequestsInv, Exists
  <1> QED
    BY <1>1, <1>2, <1>4, <1>5, RequestsAfter DEF Inv

\* The fields of what a listener keeps.
LEMMA HearingFields ==
    ASSUME RequestsInv, NEW w \in Slots
    PROVE  /\ hearing[w].stage \in {"approve", "read", "add"} =>
                  /\ hearing[w].request \in Requests
                  /\ Paid(hearing[w].request, payment, provider)
           /\ hearing[w].stage = "add" => hearing[w].read \in Nat
           /\ hearing[w].stage \in {"approve", "read"} =>
                  hearing[w] = [stage |-> hearing[w].stage, request |-> hearing[w].request]
  <1>1. hearing[w] \in Hearing /\ (hearing[w] # Deaf => Paid(hearing[w].request, payment, provider))
    BY DEF RequestsInv
  <1> QED
    BY <1>1 DEF Hearing, Deaf

LEMMA HearFindStep ==
    ASSUME Inv, NEW w \in Slots, HearFind(w)
    PROVE  Inv'
  <1> DEFINE p == call[w].payment
  <1>1. call[w].op = "emitted" /\ "approve" \in call[w].todo /\ UNCHANGED paymentVars
    BY DEF HearFind, Listening
  <1>2. p \in Payments /\ provider[p] = "completed"
    BY <1>1, CallFields DEF Inv, PaymentsInv, Known
  <1>3. Grows
    BY <1>1, GrowsKept
  <1>4. CASE Heard(w, "approve") /\ UNCHANGED hearing
    <2>1. PICK c \in Calls :
              Continue(w, c) /\ Known(c, payment, provider) /\ c.op # "charge"
      BY <1>1, <1>4, HeardForm DEF Inv
    <2>2. UNCHANGED requestVars
      BY <1>4 DEF HearFind, requestVars
    <2> QED
      BY <1>1, <2>1, <2>2, PaymentsKept, RequestsKept DEF Inv
  <1>5. ASSUME NEW r \in Matches(p), Hear(w, [stage |-> "approve", request |-> r]), NoRequest
        PROVE  Inv'
    <2>1. r \in Requests /\ reference[r] = p
      BY DEF Matches
    <2>2. payment[p] # NoPayment /\ payment[p].key = r
      BY <1>2, <2>1, ChangeRequestsAssumption DEF Inv, RequestsInv, Exists
    <2>3. Paid(r, payment, provider)
      BY <1>2, <2>2 DEF Paid
    <2>4. /\ hearing' = [hearing EXCEPT ![w] = [stage |-> "approve", request |-> r]]
          /\ status' = status /\ reference' = reference /\ total' = total /\ split' = split
          /\ payment' = payment /\ provider' = provider
      BY <1>5 DEF HearFind, Hear, paymentVars
    <2>5. [stage |-> "approve", request |-> r] \in Hearing
      BY <2>1 DEF Hearing
    <2>6. RequestStep(r, w)
      BY <2>4, <2>5 DEF Inv, RequestsInv, RequestStep
    <2>7. /\ reference'[r] # "none" =>
                 payment'[reference'[r]] # NoPayment /\ payment'[reference'[r]].key = r
          /\ hearing'[w] # Deaf => Paid(hearing'[w].request, payment', provider')
          /\ status'[r] = "APPROVED" => Paid(r, payment', provider')
      BY <2>1, <2>2, <2>3, <2>4 DEF Inv, RequestsInv
    <2>8. PaymentsInv'
      BY <1>1, <1>5, PaymentsStill DEF Inv, NoRequest
    <2> QED
      BY <1>3, <2>1, <2>6, <2>7, <2>8, RequestsAfter DEF Inv
  <1> QED
    BY <1>4, <1>5 DEF HearFind

LEMMA HearApproveStep ==
    ASSUME Inv, NEW w \in Slots, HearApprove(w)
    PROVE  Inv'
  <1> DEFINE r == hearing[w].request
             h == [stage |-> "read", request |-> r]
  <1>1. /\ r \in Requests /\ Paid(r, payment, provider)
        /\ hearing[w] = [stage |-> "approve", request |-> r]
    BY HearingFields DEF Inv, HearApprove
  <1>2. [hearing[w] EXCEPT !.stage = "read"] = h
    BY <1>1
  <1>3. /\ status' = [status EXCEPT ![r] = "APPROVED"]
        /\ hearing' = [hearing EXCEPT ![w] = h]
        /\ reference' = reference /\ total' = total /\ split' = split
        /\ payment' = payment /\ provider' = provider
        /\ UNCHANGED <<world, call, paymentVars>>
    BY <1>2 DEF HearApprove, Hear, NoRequest, paymentVars
  <1>4. h \in Hearing
    BY <1>1 DEF Hearing
  <1>5. RequestStep(r, w)
    BY <1>1, <1>3, <1>4 DEF Inv, RequestsInv, RequestStep, ChangeRequestStatus
  <1>6. /\ reference'[r] # "none" =>
               payment'[reference'[r]] # NoPayment /\ payment'[reference'[r]].key = r
        /\ hearing'[w] # Deaf => Paid(hearing'[w].request, payment', provider')
        /\ status'[r] = "APPROVED" => Paid(r, payment', provider')
    BY <1>1, <1>3 DEF Inv, RequestsInv, Exists
  <1>7. PaymentsInv' /\ Grows
    BY <1>3, PaymentsStill, GrowsKept DEF Inv
  <1> QED
    BY <1>1, <1>5, <1>6, <1>7, RequestsAfter DEF Inv

LEMMA HearReadStep ==
    ASSUME Inv, NEW w \in Slots, HearRead(w)
    PROVE  Inv'
  <1> DEFINE r == hearing[w].request
             h == [stage |-> "add", request |-> r, read |-> total]
  <1>1. r \in Requests /\ Paid(r, payment, provider)
    BY HearingFields DEF Inv, HearRead
  <1>2. /\ hearing' = [hearing EXCEPT ![w] = h]
        /\ status' = status /\ reference' = reference /\ total' = total /\ split' = split
        /\ payment' = payment /\ provider' = provider
        /\ UNCHANGED <<world, call, paymentVars>>
    BY DEF HearRead, Hear, NoRequest, paymentVars
  <1>3. h \in Hearing
    BY <1>1 DEF Inv, RequestsInv, Hearing
  <1>4. RequestStep(r, w)
    BY <1>2, <1>3 DEF Inv, RequestsInv, RequestStep
  <1>5. /\ reference'[r] # "none" =>
               payment'[reference'[r]] # NoPayment /\ payment'[reference'[r]].key = r
        /\ hearing'[w] # Deaf => Paid(hearing'[w].request, payment', provider')
        /\ status'[r] = "APPROVED" => Paid(r, payment', provider')
    BY <1>1, <1>2 DEF Inv, RequestsInv, Exists
  <1>6. PaymentsInv' /\ Grows
    BY <1>2, PaymentsStill, GrowsKept DEF Inv
  <1> QED
    BY <1>1, <1>4, <1>5, <1>6, RequestsAfter DEF Inv

LEMMA HearAddStep ==
    ASSUME Inv, NEW w \in Slots, HearAdd(w), call[w].op = "emitted"
    PROVE  Inv'
  <1> DEFINE r == hearing[w].request
  <1>1. r \in Requests /\ hearing[w].read \in Nat
    BY HearingFields DEF Inv, HearAdd
  <1>2. /\ hearing' = [hearing EXCEPT ![w] = Deaf]
        /\ total' = hearing[w].read + Amount[r]
        /\ status' = status /\ reference' = reference /\ split' = split
        /\ payment' = payment /\ provider' = provider
        /\ UNCHANGED paymentVars
    BY DEF HearAdd, Hear, paymentVars
  <1>3. Deaf \in Hearing /\ total' \in Nat
    BY <1>1, <1>2, ChangeRequestsAssumption DEF Hearing
  <1>4. RequestStep(r, w)
    BY <1>2, <1>3 DEF Inv, RequestsInv, RequestStep
  <1>5. /\ reference'[r] # "none" =>
               payment'[reference'[r]] # NoPayment /\ payment'[reference'[r]].key = r
        /\ hearing'[w] # Deaf => Paid(hearing'[w].request, payment', provider')
        /\ status'[r] = "APPROVED" => Paid(r, payment', provider')
    BY <1>1, <1>2 DEF Inv, RequestsInv, Exists
  <1>6. PICK c \in Calls : Continue(w, c) /\ Known(c, payment, provider) /\ c.op # "charge"
    BY HeardForm DEF Inv, HearAdd
  <1>7. PaymentsInv' /\ Grows
    BY <1>2, <1>6, PaymentsKept DEF Inv
  <1> QED
    BY <1>1, <1>4, <1>5, <1>7, RequestsAfter DEF Inv

--------------------------------------------------------------------------------
(* All steps.                                                               *)

\* Only the listener of slot w, or what it listens to, may have changed.
LEMMA OthersAttend ==
    ASSUME Inv, Attending, NEW w \in Slots,
           \A v \in Slots \ {w} : hearing'[v] = hearing[v] /\ call'[v] = call[v],
           hearing'[w] # Deaf => call'[w].op = "emitted" /\ "approve" \in call'[w].todo
    PROVE  Attending'
  BY DEF Attending

\* A request whose slot hears no event leaves the listeners alone.
LEMMA QuietSlot ==
    ASSUME Inv, Attending, NEW w \in Slots, call[w].op # "emitted", NEW c, Continue(w, c),
           hearing' = hearing
    PROVE  Attending'
  <1>1. hearing[w] = Deaf
    BY DEF Attending
  <1>2. \A v \in Slots \ {w} : call'[v] = call[v]
    BY DEF Inv, PaymentsInv, Continue
  <1> QED
    BY <1>1, <1>2, OthersAttend

LEMMA RequestsAttend ==
    ASSUME Inv, Attending, NEW w \in Slots,
           \/ Request(w)
           \/ PaymentsRequest(w) /\ UNCHANGED requestVars
           \/ ApproveInitiate(w) \/ ApproveStore(w) \/ RejectWrite(w) \/ SettleWrite(w)
           \/ /\ \/ InitiateSave(w) \/ InitiateCharge(w) \/ InitiateUpdate(w)
                 \/ InitiateAnswer(w) \/ RetryCount(w) \/ VerifyRead(w)
                 \/ VerifyAsk(w) \/ VerifyWrite(w)
              /\ UNCHANGED requestVars
    PROVE  Attending'
  <1>1. ASSUME Request(w) \/ (PaymentsRequest(w) /\ UNCHANGED requestVars)
        PROVE  call[w].op # "emitted" /\ hearing' = hearing /\ \E c : Continue(w, c)
    <2>1. ASSUME Request(w)
          PROVE  call[w] = Idle /\ UNCHANGED requestVars /\ \E c : Continue(w, c)
      BY <2>1 DEF Request, Approve, Reject, Settle, MayStart
    <2>2. ASSUME PaymentsRequest(w)
          PROVE  call[w] = Idle /\ \E c : Continue(w, c)
      BY <2>2 DEF PaymentsRequest, Verify, RetryFind, InitiateFind, MayStart
    <2>3. Idle.op = "idle"
      BY DEF Idle
    <2> QED
      BY <1>1, <2>1, <2>2, <2>3 DEF requestVars
  <1>2. ASSUME ApproveInitiate(w) \/ ApproveStore(w) \/ RejectWrite(w) \/ SettleWrite(w)
        PROVE  call[w].op # "emitted" /\ hearing' = hearing /\ \E c : Continue(w, c)
    BY <1>2 DEF ApproveInitiate, InitiateFind, ApproveStore, RejectWrite, SettleWrite, Finish,
                requestVars
  <1>3. ASSUME \/ InitiateSave(w) \/ InitiateCharge(w) \/ InitiateUpdate(w)
               \/ InitiateAnswer(w) \/ RetryCount(w) \/ VerifyRead(w)
               \/ VerifyAsk(w) \/ VerifyWrite(w)
        PROVE  call[w].op # "emitted" /\ \E c : Continue(w, c)
    BY <1>3 DEF InitiateSave, InitiateCharge, InitiateUpdate, InitiateAnswer, RetryCount,
                VerifyRead, VerifyAsk, VerifyWrite, Finish
  <1> QED
    BY <1>1, <1>2, <1>3, QuietSlot DEF requestVars

LEMMA ListenersAttend ==
    ASSUME Inv, Attending, NEW w \in Slots,
           \/ Mirror(w) /\ UNCHANGED requestVars
           \/ HearFind(w) \/ HearApprove(w) \/ HearRead(w) \/ HearAdd(w) \/ Lost(w)
    PROVE  Attending'
  <1>1. CASE Mirror(w) /\ UNCHANGED requestVars
    <2>1. call[w].op = "emitted" /\ Heard(w, "mirror") /\ hearing' = hearing
      BY <1>1 DEF Mirror, requestVars
    <2>2. PICK c \in Calls : Continue(w, c)
      BY <2>1, HeardForm DEF Inv
    <2>3. \A v \in Slots \ {w} : call'[v] = call[v]
      BY <2>2, ContinueExact DEF Inv
    <2>4. CASE hearing[w] = Deaf
      BY <2>1, <2>3, <2>4, OthersAttend
    <2>5. CASE hearing[w] # Deaf
      <3> DEFINE left == call[w].todo \ {"mirror"}
      <3>1. "approve" \in left
        BY <2>5 DEF Attending
      <3>2. Continue(w, [call[w] EXCEPT !.todo = left])
        BY <2>1, <3>1 DEF Heard
      <3>3. call[w] = [op |-> "emitted", payment |-> call[w].payment,
                       event |-> call[w].event, todo |-> call[w].todo]
        BY <2>1 DEF Inv, PaymentsInv, Calls, PaymentCalls, Idle
      <3>4. call'[w] = [call[w] EXCEPT !.todo = left]
        BY <3>2 DEF Continue, Inv, PaymentsInv
      <3>5. call'[w].op = "emitted" /\ call'[w].todo = left
        BY <3>3, <3>4
      <3> QED
        BY <2>1, <2>3, <3>1, <3>5, OthersAttend
    <2> QED
      BY <2>4, <2>5
  <1>2. CASE HearFind(w)
    <2>1. call[w].op = "emitted" /\ "approve" \in call[w].todo /\ hearing[w] = Deaf
      BY <1>2 DEF HearFind, Listening
    <2>2. CASE Heard(w, "approve") /\ UNCHANGED hearing
      <3>1. PICK c \in Calls : Continue(w, c)
        BY <2>1, <2>2, HeardForm DEF Inv
      <3>2. \A v \in Slots \ {w} : call'[v] = call[v]
        BY <3>1, ContinueExact DEF Inv
      <3> QED
        BY <2>1, <2>2, <3>2, OthersAttend
    <2>3. ASSUME NEW h, Hear(w, h), NoRequest
          PROVE  Attending'
      BY <2>1, <2>3, OthersAttend DEF Hear, NoRequest, Inv, RequestsInv
    <2> QED
      BY <1>2, <2>2, <2>3 DEF HearFind
  <1>3. ASSUME HearApprove(w) \/ HearRead(w)
        PROVE  Attending'
    <2>1. /\ hearing[w].stage # "none"
          /\ call' = call
          /\ \A v \in Slots \ {w} : hearing'[v] = hearing[v]
      BY <1>3 DEF HearApprove, HearRead, Hear, NoRequest, Inv, RequestsInv
    <2>2. hearing[w] # Deaf
      BY <2>1 DEF Deaf
    <2> QED
      BY <2>1, <2>2, OthersAttend DEF Attending
  <1>4. ASSUME HearAdd(w) \/ Lost(w)
        PROVE  Attending'
    <2>1. Hear(w, Deaf)
      BY <1>4 DEF HearAdd, Lost
    <2>2. \E c : Continue(w, c)
      BY <1>4 DEF HearAdd, Heard, Lost, Crash, Finish
    <2>3. /\ hearing'[w] = Deaf
          /\ \A v \in Slots \ {w} : hearing'[v] = hearing[v] /\ call'[v] = call[v]
      BY <2>1, <2>2 DEF Hear, Continue, Inv, PaymentsInv, RequestsInv
    <2> QED
      BY <2>3, OthersAttend
  <1> QED
    BY <1>1, <1>2, <1>3, <1>4

LEMMA SettleStep ==
    ASSUME Inv, NEW w \in Slots, Settle(w) \/ SettleWrite(w)
    PROVE  Inv'
  <1>1. CASE Settle(w)
    <2> DEFINE c == [op |-> "settle", read |-> total]
    <2>1. c \in Calls /\ c.op # "charge" /\ Known(c, payment, provider)
      BY CallForms DEF Known, Inv, RequestsInv
    <2> QED
      BY <1>1, <2>1, PaymentsKept, RequestsKept DEF Inv, Settle
  <1>2. CASE SettleWrite(w)
    <2>1. PaymentsInv' /\ Grows
      BY <1>2, FinishStep DEF Inv, SettleWrite
    <2>2. split' \in Nat
      BY <1>2, CallFields DEF Inv, SettleWrite
    <2>3. /\ status' = status /\ reference' = reference /\ total' = total
          /\ hearing' = hearing /\ payment' = payment /\ provider' = provider
      BY <1>2 DEF SettleWrite, paymentVars
    <2>4. RequestsInv'
      BY <2>2, <2>3 DEF Inv, RequestsInv, Exists
    <2> QED
      BY <2>1, <2>4 DEF Inv
  <1> QED
    BY <1>1, <1>2

LEMMA LostStep ==
    ASSUME Inv, NEW w \in Slots, Lost(w)
    PROVE  Inv'
  <1>1. PaymentsInv' /\ Grows
    BY FinishStep DEF Inv, Lost, Crash
  <1>2. /\ hearing' = [hearing EXCEPT ![w] = Deaf]
        /\ status' = status /\ reference' = reference /\ total' = total /\ split' = split
        /\ payment' = payment /\ provider' = provider
    BY DEF Lost, Hear, paymentVars
  <1>3. RequestsInv'
    BY <1>2 DEF Inv, RequestsInv, Exists, Hearing
  <1> QED
    BY <1>1, <1>3 DEF Inv

LEMMA PaymentsProceedStep ==
    ASSUME Inv, NEW w \in Slots, PaymentsProceed(w), UNCHANGED requestVars
    PROVE  Inv'
  <1>1. PaymentsInv' /\ Grows
    BY InitiateSaveStep, InitiateChargeStep, InitiateUpdateStep, FinishStep, RetryCountStep,
       VerifyReadStep, VerifyAskStep, VerifyWriteStep, MirrorStep, ChangeRequestsAssumption
    DEF Inv, PaymentsProceed, InitiateAnswer
  <1> QED
    BY <1>1, RequestsKept DEF Inv

LEMMA PaymentsRequestStep ==
    ASSUME Inv, NEW w \in Slots, PaymentsRequest(w), UNCHANGED requestVars
    PROVE  Inv'
  <1>1. PaymentsInv' /\ Grows
    BY FindStep, VerifyStep, RetryFindStep, PaymentsAssumption DEF Inv, PaymentsRequest
  <1> QED
    BY <1>1, RequestsKept DEF Inv

LEMMA NextStep ==
    ASSUME IInv, Next
    PROVE  IInv'
  <1> USE DEF IInv
  <1>1. ASSUME NEW w \in Slots, Request(w)
        PROVE  IInv'
    <2>1. Inv'
      BY <1>1, ApproveStep, SettleStep DEF Request
    <2> QED
      BY <1>1, <2>1, RequestsAttend
  <1>2. ASSUME NEW w \in Slots, Proceed(w)
        PROVE  IInv'
    <2>1. ASSUME ApproveInitiate(w) \/ ApproveStore(w) \/ RejectWrite(w) \/ SettleWrite(w)
          PROVE  IInv'
      BY <2>1, ApproveInitiateStep, ApproveStoreStep, RejectWriteStep, SettleStep, RequestsAttend
    <2>2. CASE HearAdd(w)
      <3>1. hearing[w] # Deaf
        BY <2>2 DEF HearAdd, Deaf
      <3>2. call[w].op = "emitted"
        BY <3>1 DEF Attending
      <3> QED
        BY <2>2, <3>2, HearAddStep, ListenersAttend
    <2>3. ASSUME HearFind(w) \/ HearApprove(w) \/ HearRead(w)
          PROVE  IInv'
      BY <2>3, HearFindStep, HearApproveStep, HearReadStep, ListenersAttend
    <2>4. CASE PaymentsProceed(w) /\ UNCHANGED requestVars
      <3>1. Inv'
        BY <2>4, PaymentsProceedStep
      <3>2. Attending'
        BY <2>4, RequestsAttend, ListenersAttend DEF PaymentsProceed
      <3> QED
        BY <3>1, <3>2
    <2> QED
      BY <1>2, <2>1, <2>2, <2>3, <2>4 DEF Proceed
  <1>3. ASSUME NEW w \in Slots, Lost(w)
        PROVE  IInv'
    BY <1>3, LostStep, ListenersAttend
  <1>4. ASSUME NEW w \in Slots, PaymentsRequest(w), UNCHANGED requestVars
        PROVE  IInv'
    BY <1>4, PaymentsRequestStep, RequestsAttend
  <1>5. ASSUME NEW p \in Payments, ProviderCollects(p), UNCHANGED requestVars
        PROVE  IInv'
    <2>1. Inv'
      BY <1>5, ProviderStep, RequestsKept DEF Inv
    <2>2. Attending'
      BY <1>5 DEF Attending, ProviderCollects, NoRequest, requestVars
    <2> QED
      BY <2>1, <2>2
  <1>6. ASSUME NEW r \in Requests, Create(r)
        PROVE  IInv'
    BY <1>6, CreateStep DEF Attending, Create, NoRequest
  <1> QED
    BY <1>1, <1>2, <1>3, <1>4, <1>5, <1>6 DEF Next

LEMMA Stutter ==
    ASSUME IInv, UNCHANGED vars
    PROVE  IInv'
  <1>1. UNCHANGED <<world, call, paymentVars>> /\ UNCHANGED requestVars
    BY DEF vars
  <1>2. Inv'
    BY <1>1, PaymentsStill, GrowsKept, RequestsKept DEF IInv, Inv
  <1>3. Attending'
    BY <1>1 DEF IInv, Attending, requestVars
  <1> QED
    BY <1>2, <1>3 DEF IInv

LEMMA Inductive ==
    Spec => []IInv
  <1>1. Init => IInv
    BY InvInit DEF IInv, Attending, Init
  <1>2. IInv /\ [Next]_vars => IInv'
    BY NextStep, Stutter
  <1> QED
    BY <1>1, <1>2, PTL DEF Spec

--------------------------------------------------------------------------------
(* Theorems.                                                                *)

\* Every row, charge, request and listener keeps its type.
THEOREM TypeCorrect == Spec => []TypeOK
  <1>1. IInv => TypeOK
    BY DEF IInv, Inv, PaymentsInv, RequestsInv, TypeOK
  <1> QED
    BY <1>1, Inductive, PTL

\* For any number of charges, keys, requests and pods, with answers of the provider
\* that are late, repeated or lost: what counts as paid was collected.
THEOREM PaidMeansCollectedHolds == Spec => []PaidMeansCollected
  <1>1. IInv => PaidMeansCollected
    BY DEF IInv, Inv, PaymentsInv, Ledger, Marked, PaidMeansCollected
  <1> QED
    BY <1>1, Inductive, PTL

\* Approval is payment: a change is approved only when a charge made for this very
\* change was collected, however approvals, rejections and events race.
THEOREM ApprovedMeansPaidHolds == Spec => []ApprovedMeansPaid
  <1>1. IInv => ApprovedMeansPaid
    BY DEF IInv, Inv, RequestsInv, Paid, ApprovedMeansPaid, PaymentsWithKey, Exists, Collected
  <1> QED
    BY <1>1, Inductive, PTL

--------------------------------------------------------------------------------
(* Nothing is charged twice while requests follow each other.               *)

\* In a serial world one request at most is being served.
OneAtATime ==
    serial => \A v, w \in Slots : call[v] # Idle /\ call[w] # Idle => v = w

\* A step is taken by one slot, which serves a request already or may start one.
LEMMA OneSlot ==
    ASSUME IInv, Next
    PROVE  \/ NoRequest
           \/ \E w \in Slots : (MayStart(w) \/ call[w] # Idle) /\ \E c : Continue(w, c)
  <1>0. Idle.op = "idle" /\ Deaf.stage = "none"
    BY DEF Idle, Deaf
  <1>1. ASSUME NEW w \in Slots, Request(w)
        PROVE  MayStart(w) /\ \E c : Continue(w, c)
    BY <1>1 DEF Request, Approve, Reject, Settle
  <1>2. ASSUME NEW w \in Slots, PaymentsRequest(w)
        PROVE  MayStart(w) /\ \E c : Continue(w, c)
    BY <1>2 DEF PaymentsRequest, Verify, RetryFind, InitiateFind
  <1>3. ASSUME NEW w \in Slots, PaymentsProceed(w)
        PROVE  call[w] # Idle /\ \E c : Continue(w, c)
    BY <1>0, <1>3
    DEF PaymentsProceed, InitiateSave, InitiateCharge, InitiateUpdate, InitiateAnswer,
        RetryCount, VerifyRead, VerifyAsk, VerifyWrite, Mirror, Heard, Finish
  <1>4. ASSUME NEW w \in Slots,
               ApproveInitiate(w) \/ ApproveStore(w) \/ RejectWrite(w) \/ SettleWrite(w)
        PROVE  call[w] # Idle /\ \E c : Continue(w, c)
    BY <1>0, <1>4 DEF ApproveInitiate, InitiateFind, ApproveStore, RejectWrite, SettleWrite, Finish
  <1>5. ASSUME NEW w \in Slots, HearFind(w)
        PROVE  NoRequest \/ (call[w] # Idle /\ \E c : Continue(w, c))
    BY <1>0, <1>5 DEF HearFind, Listening, Heard
  <1>6. ASSUME NEW w \in Slots, HearAdd(w)
        PROVE  call[w] # Idle /\ \E c : Continue(w, c)
    BY <1>0, <1>6 DEF HearAdd, Heard, IInv, Attending
  <1>7. ASSUME NEW w \in Slots, Lost(w)
        PROVE  call[w] # Idle /\ \E c : Continue(w, c)
    BY <1>7 DEF Lost, Crash, Finish
  <1>8. ASSUME NEW w \in Slots, HearApprove(w) \/ HearRead(w)
        PROVE  NoRequest
    BY <1>8 DEF HearApprove, HearRead
  <1> QED
    BY <1>1, <1>2, <1>3, <1>4, <1>5, <1>6, <1>7, <1>8
    DEF Next, Proceed, ProviderCollects, Create

LEMMA OneAtATimeStep ==
    ASSUME IInv, OneAtATime, Next
    PROVE  OneAtATime' /\ world' = world
  <1>1. CASE NoRequest
    BY <1>1 DEF NoRequest, OneAtATime, serial
  <1>2. ASSUME NEW w \in Slots, MayStart(w) \/ call[w] # Idle, NEW c, Continue(w, c)
        PROVE  OneAtATime' /\ world' = world
    <2>1. /\ world' = world
          /\ \A v \in Slots \ {w} : call'[v] = call[v]
      BY <1>2 DEF Continue, IInv, Inv, PaymentsInv
    <2>2. serial => \A v \in Slots \ {w} : call[v] = Idle
      BY <1>2 DEF MayStart, AtRest, OneAtATime
    <2> QED
      BY <2>1, <2>2 DEF OneAtATime, serial
  <1> QED
    BY <1>1, <1>2, OneSlot

\* No payment appears, none loses its key.
KeysKept ==
    \A p \in Payments : (Exists(p)' <=> Exists(p)) /\ (Exists(p) => payment'[p].key = payment[p].key)

LEMMA SavesOrKeeps ==
    ASSUME IInv, Next
    PROVE  KeysKept \/ \E w \in Slots : InitiateSave(w)
  <1>1. ASSUME payment' = payment
        PROVE  KeysKept
    BY <1>1 DEF KeysKept, Exists
  <1>2. ASSUME NEW p \in Payments, Exists(p), NEW s \in PaymentStatus,
               payment' = [payment EXCEPT ![p].status = s]
        PROVE  KeysKept
    BY <1>2, StatusSet DEF KeysKept, Exists, IInv, Inv, PaymentsInv
  <1>3. ASSUME NEW w \in Slots, InitiateUpdate(w)
        PROVE  KeysKept
    <2>1. call[w].payment \in Payments /\ Exists(call[w].payment)
      BY <1>3, CallFields DEF InitiateUpdate, IInv, Inv, PaymentsInv, Known, Exists
    <2> QED
      BY <1>2, <1>3, <2>1 DEF InitiateUpdate, PaymentStatus
  <1>4. ASSUME NEW w \in Slots, VerifyWrite(w)
        PROVE  KeysKept
    <2>1. call[w].payment \in Payments /\ Exists(call[w].payment)
      BY <1>4, CallFields DEF VerifyWrite, IInv, Inv, PaymentsInv, Known, Ledger
    <2>2. Outcome(call[w].answer) \in PaymentStatus
      BY DEF Outcome, PaymentStatus
    <2> QED
      BY <1>1, <1>2, <1>4, <2>1, <2>2 DEF VerifyWrite
  <1>5. ASSUME NEW w \in Slots, RetryCount(w)
        PROVE  KeysKept
    <2> DEFINE p == call[w].payment
               row == [payment[p] EXCEPT !.retryCount = call[w].read + 1]
    <2>1. p \in Payments /\ Exists(p)
      BY <1>5, CallFields DEF RetryCount, IInv, Inv, PaymentsInv, Known, Ledger
    <2>2. payment[p] \in PaymentRow
      BY <2>1, Rows DEF IInv, Inv, PaymentsInv
    <2>3. row.status \in PaymentStatus /\ row.key = payment[p].key
      BY <2>2 DEF PaymentRow
    <2>4. payment' = [payment EXCEPT ![p] = row]
      BY <1>5, <2>1 DEF RetryCount, IInv, Inv, PaymentsInv, PaymentsTypeOK
    <2>5. row # NoPayment
      BY <2>3 DEF NoPayment, PaymentStatus
    <2> HIDE DEF row
    <2>6. payment'[p] = row /\ \A q \in Payments \ {p} : payment'[q] = payment[q]
      BY <2>1, <2>4 DEF IInv, Inv, PaymentsInv, PaymentsTypeOK
    <2> QED
      BY <2>1, <2>3, <2>5, <2>6 DEF KeysKept, Exists
  <1>6. ASSUME NEW w \in Slots, PaymentsProceed(w)
        PROVE  InitiateSave(w) \/ KeysKept
    BY <1>1, <1>3, <1>4, <1>5, <1>6
    DEF PaymentsProceed, InitiateCharge, InitiateAnswer, VerifyRead, VerifyAsk, Mirror, paymentVars
  <1>7. ASSUME NEW w \in Slots, PaymentsRequest(w)
        PROVE  payment' = payment
    BY <1>7 DEF PaymentsRequest, InitiateFind, Verify, RetryFind, paymentVars
  <1>8. ASSUME NEW w \in Slots, Request(w)
        PROVE  payment' = payment
    BY <1>8 DEF Request, Approve, Reject, Settle, paymentVars
  <1>9. ASSUME NEW w \in Slots,
               \/ ApproveInitiate(w) \/ ApproveStore(w) \/ RejectWrite(w) \/ HearFind(w)
               \/ HearApprove(w) \/ HearRead(w) \/ HearAdd(w) \/ SettleWrite(w) \/ Lost(w)
        PROVE  payment' = payment
    BY <1>9
    DEF ApproveInitiate, InitiateFind, ApproveStore, RejectWrite, HearFind, HearApprove, HearRead,
        HearAdd, SettleWrite, Lost, paymentVars
  <1> QED
    BY <1>1, <1>6, <1>7, <1>8, <1>9 DEF Next, Proceed, ProviderCollects, Create, paymentVars

\* How the handlers of the payments go on.
LEMMA ProceedForm ==
    ASSUME IInv, NEW w \in Slots, PaymentsProceed(w)
    PROVE  \E c : Continue(w, c) /\ c.op \notin {"insert", "reject", "settle"}
  <1>1. Idle.op \notin {"insert", "reject", "settle"}
    BY DEF Idle
  <1>2. CASE Mirror(w)
    <2>1. call[w] = [op |-> "emitted", payment |-> call[w].payment,
                     event |-> call[w].event, todo |-> call[w].todo]
      BY <1>2 DEF Mirror, IInv, Inv, PaymentsInv, Calls, PaymentCalls, Idle
    <2>2. \A T : [call[w] EXCEPT !.todo = T].op = "emitted"
      BY <2>1
    <2> QED
      BY <1>1, <1>2, <2>2 DEF Mirror, Heard
  <1>3. CASE VerifyRead(w)
    <2>1. call[w] = [op |-> "look", payment |-> call[w].payment]
      BY <1>3 DEF VerifyRead, IInv, Inv, PaymentsInv, Calls, PaymentCalls, Idle
    <2>2. [call[w] EXCEPT !.op = "ask"].op = "ask"
      BY <2>1
    <2> QED
      BY <1>1, <1>3, <2>2 DEF VerifyRead
  <1>4. CASE InitiateCharge(w)
    <2>1. call[w] = [op |-> "charge", key |-> call[w].key, payment |-> call[w].payment]
      BY <1>4 DEF InitiateCharge, IInv, Inv, PaymentsInv, Calls, PaymentCalls, Idle
    <2>2. [call[w] EXCEPT !.op = "processing"].op = "processing"
      BY <2>1
    <2> QED
      BY <1>4, <2>2 DEF InitiateCharge
  <1>5. CASE VerifyWrite(w) \/ InitiateAnswer(w)
    BY <1>1, <1>5 DEF VerifyWrite, Emitted, InitiateAnswer, Finish
  <1>6. CASE InitiateSave(w)
    <2>1. PICK p \in Payments :
              Continue(w, [op |-> "charge", key |-> call[w].key, payment |-> p])
      BY <1>6 DEF InitiateSave
    <2> QED
      BY <2>1
  <1>7. CASE InitiateUpdate(w) \/ RetryCount(w) \/ VerifyAsk(w)
    BY <1>7 DEF InitiateUpdate, Initiated, RetryCount, VerifyAsk
  <1> QED
    BY <1>2, <1>3, <1>4, <1>5, <1>6, <1>7 DEF PaymentsProceed

\* The same of an event that one listener has heard.
LEMMA HeardOn ==
    ASSUME IInv, NEW w \in Slots, call[w].op = "emitted", NEW listener, Heard(w, listener)
    PROVE  \E c : Continue(w, c) /\ c.op \notin {"insert", "reject", "settle"}
  <1>1. call[w] = [op |-> "emitted", payment |-> call[w].payment,
                   event |-> call[w].event, todo |-> call[w].todo]
    BY DEF IInv, Inv, PaymentsInv, Calls, PaymentCalls, Idle
  <1>2. \A T : [call[w] EXCEPT !.todo = T].op = "emitted"
    BY <1>1
  <1>3. Idle.op \notin {"insert", "reject", "settle"}
    BY DEF Idle
  <1> QED
    BY <1>2, <1>3 DEF Heard

\* Who is about to insert has just looked, or goes on as before.
LEMMA Inserting ==
    ASSUME IInv, Next, NEW v \in Slots, call'[v].op = "insert"
    PROVE  \/ call'[v] = call[v]
           \/ call'[v].key = NoKey
           \/ PaymentsWithKey(call'[v].key) = {} /\ payment' = payment
  <1>1. ASSUME NEW w \in Slots, NEW c, Continue(w, c), c.op # "insert"
        PROVE  call'[v] = call[v]
    BY <1>1 DEF Continue, IInv, Inv, PaymentsInv
  <1>2. ASSUME NEW w \in Slots, NEW k, InitiateFind(w, k)
        PROVE  \/ call'[v] = call[v]
               \/ call'[v].key = NoKey
               \/ PaymentsWithKey(call'[v].key) = {} /\ payment' = payment
    <2>1. CASE /\ k = NoKey \/ PaymentsWithKey(k) = {}
               /\ Continue(w, [op |-> "insert", key |-> k])
      BY <1>2, <2>1 DEF InitiateFind, Continue, IInv, Inv, PaymentsInv, paymentVars
    <2> QED
      BY <1>1, <1>2, <2>1 DEF InitiateFind, Initiated
  <1>3. ASSUME NEW w \in Slots, Finish(w)
        PROVE  call'[v] = call[v]
    BY <1>1, <1>3 DEF Finish, Idle
  <1>4. ASSUME NEW w \in Slots, call[w].op = "emitted", NEW listener, Heard(w, listener)
        PROVE  call'[v] = call[v]
    BY <1>1, <1>4, HeardOn
  <1>6. ASSUME NEW w \in Slots, PaymentsProceed(w)
        PROVE  call'[v] = call[v]
    BY <1>1, <1>6, ProceedForm
  <1>7. ASSUME NEW w \in Slots, Request(w)
        PROVE  call'[v] = call[v]
    BY <1>1, <1>7 DEF Request, Approve, Reject, Settle
  <1>8. ASSUME NEW w \in Slots, PaymentsRequest(w)
        PROVE  \/ call'[v] = call[v]
               \/ call'[v].key = NoKey
               \/ PaymentsWithKey(call'[v].key) = {} /\ payment' = payment
    BY <1>1, <1>2, <1>8 DEF PaymentsRequest, Verify, RetryFind
  <1>9. ASSUME NEW w \in Slots, HearAdd(w) \/ HearFind(w)
        PROVE  call'[v] = call[v]
    <2>1. HearAdd(w) => call[w].op = "emitted"
      BY DEF HearAdd, IInv, Attending, Deaf
    <2> QED
      BY <1>4, <1>9, <2>1 DEF HearAdd, HearFind, Listening, NoRequest
  <1>10. ASSUME NEW w \in Slots,
                \/ ApproveStore(w) \/ RejectWrite(w) \/ SettleWrite(w) \/ Lost(w)
                \/ HearApprove(w) \/ HearRead(w)
         PROVE  call'[v] = call[v]
    BY <1>3, <1>10
    DEF ApproveStore, RejectWrite, SettleWrite, Lost, Crash, HearApprove, HearRead, NoRequest
  <1> QED
    BY <1>2, <1>6, <1>7, <1>8, <1>9, <1>10
    DEF Next, Proceed, ApproveInitiate, ProviderCollects, Create, NoRequest

\* The lookup of the key, and what it means for the insert that follows.
ChargedOnce ==
    serial =>
        /\ \A p, q \in Payments :
              Exists(p) /\ Exists(q) /\ payment[p].key = payment[q].key /\ payment[p].key # NoKey
                  => p = q
        /\ \A w \in Slots :
              call[w].op = "insert" /\ call[w].key # NoKey => PaymentsWithKey(call[w].key) = {}

LEMMA ChargedOnceStep ==
    ASSUME IInv, OneAtATime, ChargedOnce, Next
    PROVE  ChargedOnce'
  <1> SUFFICES ASSUME serial' PROVE ChargedOnce'
    BY DEF ChargedOnce
  <1>1. serial /\ world' = world
    BY OneAtATimeStep DEF serial
  <1>2. CASE KeysKept
    <2>1. \A p, q \in Payments :
              Exists(p)' /\ Exists(q)' /\ payment'[p].key = payment'[q].key /\ payment'[p].key # NoKey
                  => p = q
      BY <1>1, <1>2 DEF ChargedOnce, KeysKept
    <2>2. \A k : PaymentsWithKey(k) = {} => PaymentsWithKey(k)' = {}
      BY <1>2 DEF KeysKept, PaymentsWithKey
    <2>3. ASSUME NEW w \in Slots, call'[w].op = "insert", call'[w].key # NoKey
          PROVE  \A p \in Payments : ~ (Exists(p)' /\ payment'[p].key = call'[w].key)
      <3>1. PaymentsWithKey(call'[w].key) = {}
        BY <1>1, <2>3, Inserting DEF ChargedOnce
      <3> QED
        BY <1>2, <3>1 DEF KeysKept, PaymentsWithKey
    <2> QED
      BY <2>1, <2>3 DEF ChargedOnce, PaymentsWithKey
  <1>3. ASSUME NEW w \in Slots, InitiateSave(w)
        PROVE  ChargedOnce'
    <2> DEFINE k == call[w].key
               row == [status |-> "PENDING", key |-> k, retryCount |-> 0]
    <2>1. PICK p \in Payments :
              /\ ~ Exists(p)
              /\ payment' = [payment EXCEPT ![p] = row]
              /\ Continue(w, [op |-> "charge", key |-> k, payment |-> p])
      BY <1>3 DEF InitiateSave
    <2>2. call[w].op = "insert" /\ (k # NoKey => PaymentsWithKey(k) = {})
      BY <1>1, <1>3 DEF InitiateSave, ChargedOnce
    <2>3. /\ payment'[p].key = k
          /\ \A q \in Payments \ {p} : payment'[q] = payment[q]
      BY <2>1 DEF IInv, Inv, PaymentsInv, PaymentsTypeOK
    <2>4. \A q, r \in Payments :
              Exists(q)' /\ Exists(r)' /\ payment'[q].key = payment'[r].key /\ payment'[q].key # NoKey
                  => q = r
      BY <1>1, <2>2, <2>3 DEF ChargedOnce, Exists, PaymentsWithKey
    <2>5. call'[w].op = "charge" /\ \A v \in Slots \ {w} : call'[v] = call[v]
      BY <2>1 DEF Continue, IInv, Inv, PaymentsInv
    <2>6. \A v \in Slots : call'[v].op # "insert"
      BY <1>1, <2>2, <2>5 DEF OneAtATime, Idle
    <2> QED
      BY <2>4, <2>6 DEF ChargedOnce
  <1> QED
    BY <1>2, <1>3, SavesOrKeeps

\* While requests follow each other nothing is charged twice under one key, for any
\* number of payments and keys, however often a request is approved or a payment
\* initiated, and wherever a handler is cut short.
THEOREM SerialChargesOnceHolds == Spec => []SerialChargesOnce
  <1> DEFINE J == OneAtATime /\ ChargedOnce
  <1>1. Init => J
    BY DEF Init, PaymentsInit, RequestsInit, OneAtATime, ChargedOnce, Exists, Idle
  <1>2. IInv /\ J /\ [Next]_vars => J'
    <2> SUFFICES ASSUME IInv, J, [Next]_vars PROVE J'
      OBVIOUS
    <2>1. CASE Next
      BY <2>1, OneAtATimeStep, ChargedOnceStep
    <2>2. CASE UNCHANGED vars
      BY <2>2 DEF vars, paymentVars, OneAtATime, ChargedOnce, PaymentsWithKey, Exists, serial
    <2> QED
      BY <2>1, <2>2
  <1>3. J => SerialChargesOnce
    <2> SUFFICES ASSUME J, serial, NEW k \in Keys \ {NoKey}
                 PROVE  Cardinality(PaymentsWithKey(k)) <= 1
      BY DEF SerialChargesOnce, OnePaymentPerKey
    <2>1. CASE PaymentsWithKey(k) = {}
      BY <2>1, FS_EmptySet
    <2>2. ASSUME NEW p \in PaymentsWithKey(k)
          PROVE  Cardinality(PaymentsWithKey(k)) <= 1
      <3>1. k # NoKey /\ p \in Payments /\ Exists(p) /\ payment[p].key = k
        BY <2>2 DEF PaymentsWithKey
      <3>2. \A q \in PaymentsWithKey(k) : q = p
        BY <3>1 DEF ChargedOnce, PaymentsWithKey
      <3>3. PaymentsWithKey(k) = {p}
        BY <2>2, <3>2
      <3>4. Cardinality({p}) = 1
        BY FS_Singleton
      <3> HIDE DEF J
      <3> QED
        BY <3>3, <3>4
    <2> QED
      BY <2>1, <2>2
  <1> QED
    BY <1>1, <1>2, <1>3, Inductive, PTL DEF Spec

--------------------------------------------------------------------------------
(* While nobody races, the books are kept as Escrow promises.               *)

\* What a request, a listener and the settlement rely on between their steps.
Bookkeeping ==
    calm =>
        \A w \in Slots :
              /\ call[w].op = "reject" => status[call[w].request] = "PENDING"
              /\ call[w].op = "settle" => call[w].read = total /\ split = 0
              /\ hearing[w].stage = "approve" => status[hearing[w].request] = "PENDING"
              /\ hearing[w].stage \in {"read", "add"} =>
                    status[hearing[w].request] = "APPROVED"
              /\ hearing[w].stage = "add" => hearing[w].read = total

\* The slot that takes a step is the only one that is busy.
Alone(w) == \A v \in Slots \ {w} : call[v] = Idle /\ hearing[v] = Deaf

LEMMA WorksAlone ==
    ASSUME IInv, OneAtATime, serial, NEW w \in Slots, MayStart(w) \/ call[w] # Idle
    PROVE  Alone(w)
  <1>1. \A v \in Slots \ {w} : call[v] = Idle
    BY DEF MayStart, AtRest, OneAtATime
  <1>2. Idle.op # "emitted"
    BY DEF Idle
  <1> QED
    BY <1>1, <1>2 DEF Alone, IInv, Attending

LEMMA NobodyHears ==
    ASSUME IInv, AtRest
    PROVE  \A w \in Slots : hearing[w] = Deaf
  <1>1. Idle.op # "emitted"
    BY DEF Idle
  <1> QED
    BY <1>1 DEF IInv, Attending, AtRest

\* A step that the books do not notice.
Unnoticed(w) ==
    /\ \E c : Continue(w, c) /\ c.op \notin {"reject", "settle"}
    /\ UNCHANGED <<status, total, split, hearing>>

LEMMA UnnoticedBooks ==
    ASSUME IInv, Bookkeeping, NEW w \in Slots, Unnoticed(w)
    PROVE  Bookkeeping'
  <1>1. PICK c : Continue(w, c) /\ c.op \notin {"reject", "settle"}
    BY DEF Unnoticed
  <1>2. /\ world' = world /\ call'[w] = c
        /\ \A v \in Slots \ {w} : call'[v] = call[v]
        /\ status' = status /\ total' = total /\ split' = split /\ hearing' = hearing
    BY <1>1 DEF Unnoticed, Continue, IInv, Inv, PaymentsInv
  <1>3. calm' = calm
    BY <1>2 DEF calm
  <1> QED
    BY <1>1, <1>2, <1>3 DEF Bookkeeping

\* The steps there are in a calm world.
LEMMA CalmSteps ==
    ASSUME IInv, calm, Next
    PROVE  \/ \E w \in Slots : (MayStart(w) \/ call[w] # Idle) /\ Unnoticed(w)
           \/ \E w \in Slots :
                 \/ Settle(w) \/ SettleWrite(w) \/ RejectWrite(w)
                 \/ \E r \in Requests : Reject(w, r)
                 \/ \E r \in Matches(call[w].payment) :
                       /\ Listening(w) /\ hearing[w] = Deaf
                       /\ Hear(w, [stage |-> "approve", request |-> r]) /\ NoRequest
                       /\ UNCHANGED <<status, total, split>>
                 \/ HearApprove(w) \/ HearRead(w) \/ HearAdd(w)
           \/ \E r \in Requests : Create(r)
           \/ NoRequest /\ UNCHANGED <<status, total, split, hearing>>
  <1>1. ASSUME NEW w \in Slots, PaymentsProceed(w), UNCHANGED requestVars
        PROVE  call[w] # Idle /\ Unnoticed(w)
    <2>1. call[w] # Idle
      BY <1>1
      DEF PaymentsProceed, InitiateSave, InitiateCharge, InitiateUpdate, InitiateAnswer,
          RetryCount, VerifyRead, VerifyAsk, VerifyWrite, Mirror, Idle
    <2> QED
      BY <1>1, <2>1, ProceedForm DEF Unnoticed, requestVars
  <1>2. ASSUME NEW w \in Slots, NEW k, InitiateFind(w, k), UNCHANGED requestVars
        PROVE  Unnoticed(w)
    <2>1. CASE Continue(w, [op |-> "insert", key |-> k])
      BY <1>2, <2>1 DEF Unnoticed, requestVars
    <2>2. ASSUME NEW p, Continue(w, Initiated(k, p))
          PROVE  Unnoticed(w)
      BY <1>2, <2>2 DEF Initiated, Unnoticed, requestVars
    <2> QED
      BY <1>2, <2>1, <2>2 DEF InitiateFind
  <1>3. ASSUME NEW w \in Slots, PaymentsRequest(w), UNCHANGED requestVars
        PROVE  MayStart(w) /\ Unnoticed(w)
    <2>1. ASSUME NEW p \in Payments, Verify(w, p) \/ RetryFind(w, p)
          PROVE  MayStart(w) /\ Unnoticed(w)
      BY <1>3, <2>1 DEF Verify, RetryFind, Unnoticed, requestVars
    <2> QED
      BY <1>2, <1>3, <2>1 DEF PaymentsRequest
  <1>4. ASSUME NEW w \in Slots, ApproveInitiate(w) \/ ApproveStore(w)
        PROVE  call[w] # Idle /\ Unnoticed(w)
    <2>1. CASE ApproveInitiate(w)
      BY <1>2, <2>1 DEF ApproveInitiate, Idle
    <2>2. CASE ApproveStore(w)
      BY <2>2 DEF ApproveStore, Finish, Unnoticed, Idle
    <2> QED
      BY <1>4, <2>1, <2>2
  <1>5. ASSUME NEW w \in Slots, NEW r \in Requests, Approve(w, r)
        PROVE  MayStart(w) /\ Unnoticed(w)
    BY <1>5 DEF Approve, Unnoticed, requestVars
  <1>6. ASSUME NEW w \in Slots, HearFind(w), Heard(w, "approve"), UNCHANGED hearing
        PROVE  call[w] # Idle /\ Unnoticed(w)
    <2>1. call[w].op = "emitted" /\ call[w] # Idle
      BY <1>6 DEF HearFind, Listening, Idle
    <2> QED
      BY <1>6, <2>1, HeardOn DEF HearFind, Unnoticed
  <1>7. ASSUME NEW w \in Slots, HearFind(w)
        PROVE  \/ call[w] # Idle /\ Unnoticed(w)
               \/ \E r \in Matches(call[w].payment) :
                       /\ Listening(w) /\ hearing[w] = Deaf
                       /\ Hear(w, [stage |-> "approve", request |-> r]) /\ NoRequest
                       /\ UNCHANGED <<status, total, split>>
    BY <1>6, <1>7 DEF HearFind
  <1>8. \A w \in Slots : ~ Lost(w)
    BY DEF Lost, Crash
  <1>9. ASSUME NEW p \in Payments, ProviderCollects(p), UNCHANGED requestVars
        PROVE  NoRequest /\ UNCHANGED <<status, total, split, hearing>>
    BY <1>9 DEF ProviderCollects, requestVars
  <1> QED
    BY <1>1, <1>3, <1>4, <1>5, <1>7, <1>8, <1>9 DEF Next, Request, Proceed

LEMMA BookkeepingStep ==
    ASSUME IInv, OneAtATime, Bookkeeping, Next
    PROVE  Bookkeeping'
  <1> SUFFICES ASSUME calm' PROVE Bookkeeping'
    BY DEF Bookkeeping
  <1>0. calm /\ world' = world /\ serial
    BY OneAtATimeStep DEF calm, serial
  <1>t. /\ call \in [Slots -> Calls] /\ hearing \in [Slots -> Hearing]
        /\ status \in [Requests -> {"none"} \cup ChangeRequestStatus]
        /\ total \in Nat /\ split \in Nat
    BY DEF IInv, Inv, PaymentsInv, RequestsInv
  <1>i. Idle.op = "idle" /\ Deaf.stage = "none"
    BY DEF Idle, Deaf
  <1>1. ASSUME NEW w \in Slots, Settle(w)
        PROVE  Bookkeeping'
    <2>1. Alone(w) /\ \A v \in Slots : hearing[v] = Deaf
      BY <1>0, <1>1, WorksAlone, NobodyHears DEF Settle, MayStart
    <2>2. /\ call'[w] = [op |-> "settle", read |-> total]
          /\ \A v \in Slots \ {w} : call'[v] = Idle
          /\ status' = status /\ total' = total /\ split' = split /\ hearing' = hearing
      BY <1>1, <1>t, <2>1 DEF Settle, Continue, Alone, requestVars
    <2>3. split = 0
      BY <1>1 DEF Settle
    <2> QED
      BY <1>i, <2>1, <2>2, <2>3 DEF Bookkeeping
  <1>2. ASSUME NEW w \in Slots, NEW r \in Requests, Reject(w, r)
        PROVE  Bookkeeping'
    <2>1. Alone(w) /\ \A v \in Slots : hearing[v] = Deaf
      BY <1>0, <1>2, WorksAlone, NobodyHears DEF Reject, MayStart
    <2>2. /\ call'[w] = [op |-> "reject", request |-> r]
          /\ \A v \in Slots \ {w} : call'[v] = Idle
          /\ status' = status /\ total' = total /\ split' = split /\ hearing' = hearing
      BY <1>2, <1>t, <2>1 DEF Reject, Continue, Alone, requestVars
    <2> QED
      BY <1>0, <1>2, <1>i, <2>1, <2>2 DEF Reject, Bookkeeping
  <1>3. ASSUME NEW w \in Slots, SettleWrite(w) \/ RejectWrite(w)
        PROVE  Bookkeeping'
    <2>1. call[w].op \in {"settle", "reject"} /\ Finish(w) /\ hearing' = hearing /\ total' = total
      BY <1>3 DEF SettleWrite, RejectWrite
    <2>2. Alone(w) /\ hearing[w] = Deaf
      BY <1>0, <1>i, <2>1, WorksAlone DEF IInv, Attending
    <2>3. \A v \in Slots : call'[v] = Idle /\ hearing'[v] = Deaf
      BY <1>t, <2>1, <2>2 DEF Finish, Continue, Alone
    <2> QED
      BY <1>i, <2>3 DEF Bookkeeping
  <1>4. ASSUME NEW w \in Slots, NEW r \in Matches(call[w].payment),
               Listening(w), hearing[w] = Deaf, NoRequest,
               Hear(w, [stage |-> "approve", request |-> r]),
               UNCHANGED <<status, total, split>>
        PROVE  Bookkeeping'
    <2>1. r \in Requests /\ status[r] = "PENDING"
      BY <1>4 DEF Matches
    <2>2. /\ hearing'[w] = [stage |-> "approve", request |-> r]
          /\ \A v \in Slots \ {w} : hearing'[v] = hearing[v]
          /\ call' = call
      BY <1>4, <1>t DEF Hear, NoRequest
    <2>3. status' = status /\ total' = total /\ split' = split
      BY <1>4
    <2> QED
      BY <1>0, <2>1, <2>2, <2>3 DEF Bookkeeping
  <1>5. ASSUME NEW w \in Slots, HearApprove(w) \/ HearRead(w) \/ HearAdd(w)
        PROVE  /\ Alone(w) /\ call[w].op = "emitted"
               /\ hearing[w].request \in Requests
               /\ \A v \in Slots \ {w} : hearing'[v] = Deaf /\ call'[v] = Idle
               /\ call'[w].op \notin {"reject", "settle"}
    <2>1. hearing[w].stage \in {"approve", "read", "add"} /\ hearing[w] # Deaf
      BY <1>5, <1>i DEF HearApprove, HearRead, HearAdd
    <2>2. call[w].op = "emitted" /\ hearing[w].request \in Requests
      BY <2>1, HearingFields DEF IInv, Inv, Attending
    <2>3. Alone(w)
      BY <1>0, <1>i, <2>2, WorksAlone
    <2>4. \E h : hearing' = [hearing EXCEPT ![w] = h]
      BY <1>5 DEF HearApprove, HearRead, HearAdd, Hear
    <2>5. CASE NoRequest
      BY <1>t, <2>2, <2>3, <2>4, <2>5 DEF Alone, NoRequest
    <2>6. CASE HearAdd(w)
      <3>1. PICK c : Continue(w, c) /\ c.op \notin {"insert", "reject", "settle"}
        BY <2>2, <2>6, HeardOn DEF HearAdd
      <3> QED
        BY <1>t, <2>2, <2>3, <2>4, <3>1 DEF Alone, Continue
    <2> QED
      BY <1>5, <2>5, <2>6 DEF HearApprove, HearRead
  <1>6. ASSUME NEW w \in Slots, HearApprove(w)
        PROVE  Bookkeeping'
    <2> DEFINE r == hearing[w].request
    <2>1. status[r] = "PENDING" /\ r \in Requests
      BY <1>0, <1>5, <1>6 DEF HearApprove, Bookkeeping
    <2>2. hearing'[w] = [stage |-> "read", request |-> r]
      <3>1. hearing[w] = [stage |-> "approve", request |-> r]
        BY <1>6, HearingFields DEF HearApprove, IInv, Inv
      <3>2. [hearing[w] EXCEPT !.stage = "read"] = [stage |-> "read", request |-> r]
        BY <3>1
      <3> QED
        BY <1>6, <1>t, <3>2 DEF HearApprove, Hear
    <2>3. status'[r] = "APPROVED"
      BY <1>6, <1>t, <2>1 DEF HearApprove
    <2> QED
      BY <1>5, <1>6, <1>i, <2>2, <2>3 DEF Bookkeeping
  <1>7. ASSUME NEW w \in Slots, HearRead(w)
        PROVE  Bookkeeping'
    <2> DEFINE r == hearing[w].request
    <2>1. status[r] = "APPROVED"
      BY <1>0, <1>7 DEF HearRead, Bookkeeping
    <2>2. /\ hearing'[w] = [stage |-> "add", request |-> r, read |-> total]
          /\ status' = status /\ split' = split /\ total' = total
      BY <1>7, <1>t DEF HearRead, Hear
    <2> QED
      BY <1>5, <1>7, <1>i, <2>1, <2>2 DEF Bookkeeping
  <1>8. ASSUME NEW w \in Slots, HearAdd(w)
        PROVE  Bookkeeping'
    <2>1. hearing'[w] = Deaf /\ status' = status /\ split' = split
      BY <1>8, <1>t DEF HearAdd, Hear
    <2> QED
      BY <1>0, <1>5, <1>8, <1>i, <2>1 DEF Bookkeeping
  <1>9. ASSUME NEW r \in Requests, Create(r)
        PROVE  Bookkeeping'
    <2>1. \A v \in Slots : call'[v] = Idle /\ hearing'[v] = Deaf
      BY <1>0, <1>9, NobodyHears DEF Create, NoRequest, AtRest
    <2> QED
      BY <1>i, <2>1 DEF Bookkeeping
  <1>10. CASE NoRequest /\ UNCHANGED <<status, total, split, hearing>>
    BY <1>0, <1>10 DEF NoRequest, Bookkeeping
  <1> QED
    BY <1>0, <1>1, <1>2, <1>3, <1>4, <1>6, <1>7, <1>8, <1>9, <1>10, CalmSteps, UnnoticedBooks

\* In a calm world only the one who has approved and not yet added makes a
\* difference between the status of a request and its place in the books.
LEMMA NotBeingAdded ==
    ASSUME calm, NEW r \in Requests, \A v \in Slots : hearing[v].stage \notin {"read", "add"}
    PROVE  InEscrow(r) = status[r]
  BY DEF InEscrow, BeingAdded

LEMMA EscrowStep ==
    ASSUME IInv, OneAtATime, Bookkeeping, Next
    PROVE  [Books!Next]_(Books!vars)
  <1> DEFINE Seen == [r \in Requests |-> InEscrow(r)]
  <1>t. /\ call \in [Slots -> Calls] /\ hearing \in [Slots -> Hearing]
        /\ status \in [Requests -> {"none"} \cup ChangeRequestStatus]
    BY DEF IInv, Inv, PaymentsInv, RequestsInv
  <1>i. Idle.op = "idle" /\ Deaf.stage = "none"
    BY DEF Idle, Deaf
  <1>w. world' = world /\ (calm' <=> calm)
    BY OneAtATimeStep DEF calm
  <1>1. CASE ~ calm
    <2>1. Seen' = Seen
      BY <1>1, <1>w DEF InEscrow
    <2> QED
      BY <1>1, <1>w, <2>1 DEF Books!vars
  <1>2. CASE calm
    <2>0. calm /\ calm' /\ serial
      BY <1>2, <1>w DEF calm, serial
    <2>s. ASSUME UNCHANGED <<status, total, split>>,
                 \A r \in Requests : BeingAdded(r)' <=> BeingAdded(r)
          PROVE  UNCHANGED Books!vars
      <3>1. Seen' = Seen
        BY <2>0, <2>s DEF InEscrow
      <3> QED
        BY <2>0, <2>s, <3>1 DEF Books!vars
    <2>q. ASSUME UNCHANGED <<status, total, split, hearing>>
          PROVE  UNCHANGED Books!vars
      BY <2>s, <2>q DEF BeingAdded
    <2>1. ASSUME NEW w \in Slots, SettleWrite(w)
          PROVE  Books!Next
      <3>1. call[w].read = total /\ split = 0
        BY <2>0, <2>1 DEF SettleWrite, Bookkeeping
      <3>2. Seen' = Seen
        BY <2>0, <2>1 DEF SettleWrite, InEscrow, BeingAdded
      <3> QED
        BY <2>0, <2>1, <3>1, <3>2 DEF SettleWrite, Books!Next, Books!Settle
    <2>2. ASSUME NEW w \in Slots, RejectWrite(w)
          PROVE  Books!Next
      <3> DEFINE r == call[w].request
      <3>1. r \in Requests /\ status[r] = "PENDING"
        BY <2>0, <2>2, CallFields DEF RejectWrite, Bookkeeping, IInv, Inv
      <3>2. Alone(w) /\ hearing[w] = Deaf
        BY <1>i, <2>0, <2>2, WorksAlone DEF RejectWrite, IInv, Attending
      <3>3. /\ \A v \in Slots : hearing[v].stage = "none"
            /\ hearing' = hearing /\ total' = total /\ split' = split
            /\ status' = [status EXCEPT ![r] = "REJECTED"]
        BY <1>i, <2>2, <3>2 DEF Alone, RejectWrite
      <3>4. \A q \in Requests : InEscrow(q) = status[q] /\ InEscrow(q)' = status'[q]
        BY <2>0, <3>3 DEF InEscrow, BeingAdded
      <3>5. Seen' = [Seen EXCEPT ![r] = "REJECTED"]
        BY <1>t, <3>1, <3>3, <3>4
      <3>6. Seen[r] = "PENDING"
        BY <3>1, <3>4
      <3> QED
        BY <2>0, <3>1, <3>3, <3>5, <3>6 DEF Books!Next, Books!Reject
    <2>3. ASSUME NEW w \in Slots, NEW r, hearing[w] = Deaf,
                 Hear(w, [stage |-> "approve", request |-> r]),
                 UNCHANGED <<status, total, split>>
          PROVE  UNCHANGED Books!vars
      <3>1. /\ hearing'[w].stage = "approve"
            /\ \A v \in Slots \ {w} : hearing'[v] = hearing[v]
        BY <1>t, <2>3 DEF Hear
      <3>2. \A q \in Requests : BeingAdded(q)' <=> BeingAdded(q)
        BY <1>i, <2>3, <3>1 DEF BeingAdded
      <3> QED
        BY <2>3, <2>s, <3>2
    <2>4. ASSUME NEW w \in Slots, HearApprove(w)
          PROVE  UNCHANGED Books!vars
      <3> DEFINE r == hearing[w].request
      <3>1. r \in Requests /\ status[r] = "PENDING" /\ hearing[w].stage = "approve"
        BY <2>0, <2>4, HearingFields DEF HearApprove, Bookkeeping, IInv, Inv
      <3>2. hearing'[w] = [stage |-> "read", request |-> r]
        <4>1. hearing[w] = [stage |-> "approve", request |-> r]
          BY <3>1, HearingFields DEF IInv, Inv
        <4>2. [hearing[w] EXCEPT !.stage = "read"] = [stage |-> "read", request |-> r]
          BY <4>1
        <4> QED
          BY <1>t, <2>4, <4>2 DEF HearApprove, Hear
      <3>3. /\ \A v \in Slots \ {w} : hearing'[v] = hearing[v]
            /\ status' = [status EXCEPT ![r] = "APPROVED"] /\ total' = total /\ split' = split
        BY <1>t, <2>4 DEF HearApprove, Hear
      <3>4. ASSUME NEW q \in Requests
            PROVE  InEscrow(q)' = InEscrow(q)
        <4>1. CASE q = r
          <5>1. status'[q] = "APPROVED" /\ BeingAdded(q)'
            BY <1>t, <3>1, <3>2, <3>3, <4>1 DEF BeingAdded
          <5>2. InEscrow(q)' = "PENDING"
            BY <2>0, <5>1 DEF InEscrow
          <5>3. InEscrow(q) = "PENDING"
            BY <2>0, <3>1, <4>1 DEF InEscrow
          <5> QED
            BY <5>2, <5>3
        <4>2. CASE q # r
          <5>1. BeingAdded(q)' <=> BeingAdded(q)
            BY <3>1, <3>2, <3>3, <4>2 DEF BeingAdded
          <5>2. status'[q] = status[q]
            BY <1>t, <3>1, <3>3, <4>2
          <5> QED
            BY <2>0, <5>1, <5>2 DEF InEscrow
        <4> QED
          BY <4>1, <4>2
      <3>5. Seen' = Seen
        BY <3>4
      <3> QED
        BY <2>0, <3>3, <3>5 DEF Books!vars
    <2>5. ASSUME NEW w \in Slots, HearRead(w)
          PROVE  UNCHANGED Books!vars
      <3>1. /\ hearing[w].stage = "read"
            /\ hearing'[w].stage = "add" /\ hearing'[w].request = hearing[w].request
            /\ \A v \in Slots \ {w} : hearing'[v] = hearing[v]
        BY <1>t, <2>5 DEF HearRead, Hear
      <3>2. \A q \in Requests : BeingAdded(q)' <=> BeingAdded(q)
        BY <3>1 DEF BeingAdded
      <3> QED
        BY <2>5, <2>s, <3>2 DEF HearRead
    <2>6. ASSUME NEW w \in Slots, HearAdd(w)
          PROVE  Books!Next
      <3> DEFINE r == hearing[w].request
      <3>1. /\ hearing[w].stage = "add" /\ r \in Requests
            /\ status[r] = "APPROVED" /\ hearing[w].read = total
        BY <2>0, <2>6, HearingFields DEF HearAdd, Bookkeeping, IInv, Inv
      <3>2. Alone(w)
        <4>1. call[w].op = "emitted"
          BY <1>i, <3>1 DEF IInv, Attending
        <4> QED
          BY <1>i, <2>0, <4>1, WorksAlone
      <3>3. /\ hearing' = [hearing EXCEPT ![w] = Deaf]
            /\ status' = status /\ split' = split /\ total' = total + Amount[r]
        BY <2>6, <3>1 DEF HearAdd, Hear
      <3>4. \A v \in Slots : hearing'[v].stage = "none"
        BY <1>i, <1>t, <3>2, <3>3 DEF Alone
      <3>5. \A q \in Requests : InEscrow(q)' = status[q]
        BY <2>0, <3>3, <3>4 DEF InEscrow, BeingAdded
      <3>6. InEscrow(r) = "PENDING"
        BY <2>0, <3>1 DEF InEscrow, BeingAdded
      <3>7. \A q \in Requests \ {r} : InEscrow(q) = status[q]
        BY <1>i, <2>0, <3>2 DEF InEscrow, BeingAdded, Alone
      <3>8. Seen' = [Seen EXCEPT ![r] = "APPROVED"]
        BY <3>1, <3>5, <3>7
      <3>9. Seen[r] = "PENDING"
        BY <3>1, <3>6
      <3> QED
        BY <2>0, <3>1, <3>3, <3>8, <3>9 DEF Books!Next, Books!Approve
    <2>7. ASSUME NEW r \in Requests, Create(r)
          PROVE  Books!Next
      <3>1. /\ status[r] = "none" /\ status' = [status EXCEPT ![r] = "PENDING"]
            /\ total' = total /\ split' = split /\ hearing' = hearing
        BY <2>7 DEF Create
      <3>2. \A v \in Slots : hearing[v].stage = "none"
        BY <1>i, <2>0, <2>7, NobodyHears DEF Create
      <3>3. \A q \in Requests : InEscrow(q) = status[q] /\ InEscrow(q)' = status'[q]
        BY <2>0, <3>1, <3>2 DEF InEscrow, BeingAdded
      <3>4. Seen' = [Seen EXCEPT ![r] = "PENDING"]
        BY <1>t, <3>1, <3>3
      <3>5. Seen[r] = "none"
        BY <3>1, <3>3
      <3> QED
        BY <2>0, <3>1, <3>4, <3>5 DEF Books!Next, Books!Raise
    <2>8. ASSUME NEW w \in Slots, Settle(w) \/ \E r \in Requests : Reject(w, r)
          PROVE  UNCHANGED Books!vars
      BY <2>8, <2>q DEF Settle, Reject, requestVars
    <2> QED
      BY <2>0, <2>1, <2>2, <2>3, <2>4, <2>5, <2>6, <2>7, <2>8, <2>q, CalmSteps DEF Unnoticed
  <1> QED
    BY <1>1, <1>2

CalmInv == OneAtATime /\ Bookkeeping

LEMMA CalmInvAlways == Spec => []CalmInv
  <1>1. Init => CalmInv
    BY DEF Init, PaymentsInit, RequestsInit, CalmInv, OneAtATime, Bookkeeping, Idle, Deaf
  <1>2. IInv /\ CalmInv /\ [Next]_vars => CalmInv'
    <2> SUFFICES ASSUME IInv, CalmInv, [Next]_vars PROVE CalmInv'
      OBVIOUS
    <2>1. CASE Next
      BY <2>1, OneAtATimeStep, BookkeepingStep DEF CalmInv
    <2>2. CASE UNCHANGED vars
      BY <2>2 DEF vars, requestVars, CalmInv, OneAtATime, Bookkeeping, serial, calm
    <2> QED
      BY <2>1, <2>2
  <1> QED
    BY <1>1, <1>2, Inductive, PTL DEF Spec

\* The five database calls of an approval are one step of the books, for any number
\* of change requests and any amounts: an approved change joins the total once, and
\* the settlement splits the total of one moment.
THEOREM EscrowImplemented == Spec => ImplementsEscrow
  <1>1. Init => Books!Init
    <2> SUFFICES ASSUME Init PROVE Books!Init
      OBVIOUS
    <2>1. \A r \in Requests : InEscrow(r) = "none"
      BY DEF Init, InEscrow, BeingAdded, Deaf
    <2> QED
      BY <2>1 DEF Init, Books!Init
  <1>2. IInv /\ CalmInv /\ [Next]_vars => [Books!Next]_(Books!vars)
    <2> SUFFICES ASSUME IInv, CalmInv, UNCHANGED vars PROVE UNCHANGED Books!vars
      BY EscrowStep DEF CalmInv
    <2>1. \A r \in Requests : InEscrow(r)' = InEscrow(r)
      BY DEF vars, requestVars, InEscrow, BeingAdded, calm
    <2>2. (calm' <=> calm) /\ total' = total /\ split' = split
      BY DEF vars, requestVars, calm
    <2>3. [r \in Requests |-> InEscrow(r)]' = [r \in Requests |-> InEscrow(r)]
      BY <2>1
    <2> QED
      BY <2>2, <2>3 DEF Books!vars
  <1> QED
    BY <1>1, <1>2, Inductive, CalmInvAlways, PTL DEF Spec, ImplementsEscrow, Books!Spec

--------------------------------------------------------------------------------
(* The books add up.                                                        *)

\* In the books the total is the base and what has been approved.
Approved == {r \in Requests : InEscrow(r) = "APPROVED"}

BooksAddUp ==
    calm => IsFiniteSet(Approved) /\ total = Base + SumFunctionOnSet(Amount, Approved)

LEMMA BooksAddUpStep ==
    ASSUME IInv, OneAtATime, Bookkeeping, BooksAddUp, Next
    PROVE  BooksAddUp'
  <1> DEFINE Seen == [r \in Requests |-> InEscrow(r)]
  <1> SUFFICES ASSUME calm' PROVE BooksAddUp'
    BY DEF BooksAddUp
  <1>1. calm
    BY OneAtATimeStep DEF calm
  <1>2. [Books!Next]_(Books!vars)
    BY EscrowStep
  <1>3. \A r \in Requests : InEscrow(r) = Seen[r] /\ InEscrow(r)' = Seen'[r]
    OBVIOUS
  <1>4. IsFiniteSet(Approved) /\ total = Base + SumFunctionOnSet(Amount, Approved)
    BY <1>1 DEF BooksAddUp
  <1>5. ASSUME \A r \in Requests : (Seen'[r] = "APPROVED") <=> (Seen[r] = "APPROVED"),
               total' = total
        PROVE  BooksAddUp'
    <2>1. Approved' = Approved
      BY <1>3, <1>5 DEF Approved
    <2> QED
      BY <1>4, <1>5, <2>1 DEF BooksAddUp
  <1>6. CASE UNCHANGED Books!vars
    <2>1. Seen' = Seen /\ total' = total
      BY <1>1, <1>6 DEF Books!vars
    <2> HIDE DEF Seen
    <2> QED
      BY <1>5, <2>1
  <1>7. CASE Books!Settle
    <2>1. Seen' = Seen /\ total' = total
      BY <1>1, <1>7 DEF Books!Settle
    <2> HIDE DEF Seen
    <2> QED
      BY <1>5, <2>1
  <1>8. ASSUME NEW r \in Requests, Books!Raise(r) \/ Books!Reject(r)
        PROVE  BooksAddUp'
    <2>1. /\ Seen[r] \in {"none", "PENDING"} /\ total' = total
          /\ \E a \in {"PENDING", "REJECTED"} : Seen' = [Seen EXCEPT ![r] = a]
      BY <1>1, <1>8 DEF Books!Raise, Books!Reject
    <2>2. Seen = [q \in Requests |-> Seen[q]]
      OBVIOUS
    <2> HIDE DEF Seen
    <2>3. \A q \in Requests : (Seen'[q] = "APPROVED") <=> (Seen[q] = "APPROVED")
      BY <2>1, <2>2
    <2> QED
      BY <1>5, <2>1, <2>3
  <1>9. ASSUME NEW r \in Requests, Books!Approve(r)
        PROVE  BooksAddUp'
    <2>1. /\ Seen[r] = "PENDING" /\ Seen' = [Seen EXCEPT ![r] = "APPROVED"]
          /\ total' = total + Amount[r]
      BY <1>1, <1>9 DEF Books!Approve
    <2>2. Seen = [q \in Requests |-> Seen[q]]
      OBVIOUS
    <2> HIDE DEF Seen
    <2>3. Approved' = Approved \cup {r} /\ r \notin Approved
      BY <1>3, <2>1, <2>2 DEF Approved
    <2>4. IsFiniteSet(Approved')
      BY <1>4, <2>3, FS_AddElement
    <2>5. \A q \in Approved' : Amount[q] \in Int
      BY ChangeRequestsAssumption DEF Approved
    <2>6. r \in Approved' /\ Approved' \ {r} = Approved
      BY <2>3
    <2>7. /\ SumFunctionOnSet(Amount, Approved') = Amount[r] + SumFunctionOnSet(Amount, Approved)
          /\ SumFunctionOnSet(Amount, Approved) \in Int
      BY <2>4, <2>5, <2>6, SumOfRest
    <2>8. Amount[r] \in Nat /\ Base \in Nat
      BY ChangeRequestsAssumption
    <2>9. total' = Base + SumFunctionOnSet(Amount, Approved')
      BY <1>4, <2>1, <2>7, <2>8
    <2> QED
      BY <2>4, <2>9 DEF BooksAddUp
  <1> QED
    BY <1>2, <1>6, <1>7, <1>8, <1>9 DEF Books!Next

--------------------------------------------------------------------------------
(* What the payments say and what the order says.                           *)

\* Payment p was made for r.
For(pay, p, r) == pay[p] # NoPayment /\ pay[p].key = r

\* The slot with call c and listener h knows that r was paid, and has not approved
\* it yet.
Awaited(c, h, pay, r) ==
    /\ c.op = "emitted" /\ c.event = "completed" /\ "approve" \in c.todo
    /\ pay[c.payment].key = r
    /\ h.stage \in {"none", "approve"}

\* It is making or looking up a charge of r, and has not stored it.
Initiating(c, r) == c.op \in {"charge", "processing", "initiated"} /\ c.key = r

\* A change that was not rejected is approved if and only if it was paid, but for
\* the one whose event is being heard; its charge is the one stored with it, but for
\* the one being made.
TrackedAt(c, h, pay, sta, ref) ==
    /\ \A r \in Requests :
          /\ sta[r] # "REJECTED" =>
                ((\E p \in Payments : For(pay, p, r) /\ pay[p].status = "COMPLETED")
                    <=> (sta[r] = "APPROVED" \/ Awaited(c, h, pay, r)))
          /\ Awaited(c, h, pay, r) => sta[r] \in {"PENDING", "REJECTED"}
          /\ Initiating(c, r) => sta[r] = "PENDING"
          /\ \A p \in Payments : For(pay, p, r) =>
                /\ sta[r] \in {"PENDING", "APPROVED", "REJECTED"}
                /\ ref[r] = p \/ Initiating(c, r)
    /\ c.op = "insert" /\ c.key \in Requests => sta[c.key] = "PENDING"
    /\ c.op = "pay" => sta[c.request] = "PENDING"
    /\ c.op \in {"ask", "answer"} => pay[c.payment].status # "COMPLETED"
    /\ h.stage = "approve" =>
          pay[c.payment].key = h.request /\ c.event = "completed" /\ sta[h.request] = "PENDING"

Tracked ==
    calm =>
        /\ \A w \in Slots :
              Alone(w) => TrackedAt(call[w], hearing[w], payment, status, reference)
        /\ AtRest => TrackedAt(Idle, Deaf, payment, status, reference)

\* What slot w goes on to is all there is to look at.
LEMMA TrackedTo ==
    ASSUME IInv, Attending', NEW w \in Slots, Alone(w),
           \A v \in Slots \ {w} : call'[v] = call[v] /\ hearing'[v] = hearing[v],
           TrackedAt(call'[w], hearing'[w], payment', status', reference')
    PROVE  Tracked'
  <1>1. \A v \in Slots \ {w} : call'[v] = Idle /\ hearing'[v] = Deaf
    BY DEF Alone
  <1>2. Idle.op # "emitted"
    BY DEF Idle
  <1>3. ASSUME call'[w] = Idle
        PROVE  hearing'[w] = Deaf
    BY <1>2, <1>3 DEF Attending
  <1>4. ASSUME NEW v \in Slots, Alone(v)'
        PROVE  TrackedAt(call'[v], hearing'[v], payment', status', reference')
    <2>1. CASE v = w
      BY <2>1
    <2>2. CASE v # w
      <3>1. call'[w] = Idle /\ hearing'[w] = Deaf
        BY <1>4, <2>2 DEF Alone
      <3>2. call'[v] = call'[w] /\ hearing'[v] = hearing'[w]
        BY <1>1, <2>2, <3>1
      <3> QED
        BY <3>2
    <2> QED
      BY <2>1, <2>2
  <1>5. ASSUME AtRest'
        PROVE  TrackedAt(Idle, Deaf, payment', status', reference')
    <2>1. call'[w] = Idle
      BY <1>5 DEF AtRest
    <2> QED
      BY <1>3, <2>1
  <1> QED
    BY <1>4, <1>5 DEF Tracked

\* The slot goes on while nothing that was stored changes, and no event is heard.
LEMMA TrackedOn ==
    ASSUME NEW c, NEW d, NEW h, NEW pay, NEW sta, NEW ref,
           TrackedAt(c, h, pay, sta, ref),
           c.op # "emitted", d.op # "emitted", h.stage # "approve",
           \A r \in Requests : Initiating(c, r) => Initiating(d, r),
           \A r \in Requests : Initiating(d, r) => sta[r] = "PENDING",
           d.op = "insert" /\ d.key \in Requests => sta[d.key] = "PENDING",
           d.op = "pay" => sta[d.request] = "PENDING",
           d.op \in {"ask", "answer"} => pay[d.payment].status # "COMPLETED"
    PROVE  TrackedAt(d, h, pay, sta, ref)
  BY DEF TrackedAt, Awaited

\* While no event is heard, a change that is still open has no completed payment.
LEMMA NotPaidYet ==
    ASSUME NEW c, NEW h, TrackedAt(c, h, payment, status, reference), c.op # "emitted",
           NEW p \in Payments, Exists(p), payment[p].key \in Requests,
           status[payment[p].key] = "PENDING"
    PROVE  payment[p].status # "COMPLETED"
  BY DEF TrackedAt, Awaited, For, Exists

\* A row that exists changes its status, and the change it pays for is as it was.
LEMMA RowTracked ==
    ASSUME NEW c, NEW d, NEW h, NEW pay, NEW pay2, NEW sta, NEW ref,
           TrackedAt(c, h, pay, sta, ref), h.stage # "approve",
           c.op # "emitted",
           d.op = "emitted" => d.event # "completed",
           d.op \notin {"insert", "pay", "ask", "answer"},
           \A r \in Requests : Initiating(c, r) <=> Initiating(d, r),
           NEW p \in Payments, pay[p] # NoPayment, pay2[p] # NoPayment,
           pay2[p].key = pay[p].key,
           pay[p].key \in Requests =>
               (pay2[p].status = "COMPLETED" <=> pay[p].status = "COMPLETED"),
           \A q \in Payments \ {p} : pay2[q] = pay[q]
    PROVE  TrackedAt(d, h, pay2, sta, ref)
  <1>1. \A q \in Payments, r \in Requests : For(pay2, q, r) <=> For(pay, q, r)
    BY DEF For
  <1>2. \A q \in Payments, r \in Requests :
            For(pay, q, r) => (pay2[q].status = "COMPLETED" <=> pay[q].status = "COMPLETED")
    BY DEF For
  <1>3. \A r : ~ Awaited(c, h, pay, r) /\ ~ Awaited(d, h, pay2, r)
    BY DEF Awaited
  <1> QED
    BY <1>1, <1>2, <1>3 DEF TrackedAt

Here(w) == TrackedAt(call[w], hearing[w], payment, status, reference)

\* What follows is about a slot w that works alone in a calm world.
LEMMA InitiateFindTracked ==
    ASSUME IInv, NEW w \in Slots, Here(w), call[w].op \in {"idle", "pay"}, NEW k \in Keys,
           InitiateFind(w, k), UNCHANGED requestVars,
           k \in Requests => status[k] = "PENDING"
    PROVE  TrackedAt(call'[w], hearing'[w], payment', status', reference')
  <1>1. payment' = payment /\ status' = status /\ reference' = reference /\ hearing' = hearing
    BY DEF InitiateFind, paymentVars, requestVars
  <1>2. hearing[w] = Deaf
    BY DEF IInv, Attending
  <1>3. \/ call'[w] = [op |-> "insert", key |-> k]
        \/ \E p \in Payments : call'[w] = Initiated(k, p)
    BY DEF InitiateFind, Continue, IInv, Inv, PaymentsInv, PaymentsWithKey
  <1> DEFINE d == call'[w]
  <1>4. /\ d.op \in {"insert", "initiated"} /\ d.key = k
    <2>1. CASE call'[w] = [op |-> "insert", key |-> k]
      BY <2>1
    <2>2. ASSUME NEW p \in Payments, call'[w] = Initiated(k, p)
          PROVE  d.op \in {"insert", "initiated"} /\ d.key = k
      BY <2>2 DEF Initiated
    <2> QED
      BY <1>3, <2>1, <2>2
  <1>5. /\ \A r \in Requests : Initiating(call[w], r) => Initiating(d, r)
        /\ \A r \in Requests : Initiating(d, r) => status[r] = "PENDING"
    BY <1>4 DEF Initiating
  <1>6. Deaf.stage = "none"
    BY DEF Deaf
  <1> HIDE DEF d
  <1>7. TrackedAt(d, hearing[w], payment, status, reference)
    BY <1>2, <1>4, <1>5, <1>6, TrackedOn DEF Here
  <1> QED
    BY <1>1, <1>7 DEF d

LEMMA InitiateSaveTracked ==
    ASSUME IInv, NEW w \in Slots, Here(w), InitiateSave(w), UNCHANGED requestVars
    PROVE  TrackedAt(call'[w], hearing'[w], payment', status', reference')
  <1> DEFINE k == call[w].key
             row == [status |-> "PENDING", key |-> k, retryCount |-> 0]
  <1>1. PICK p \in Payments :
            /\ ~ Exists(p)
            /\ payment' = [payment EXCEPT ![p] = row]
            /\ Continue(w, [op |-> "charge", key |-> k, payment |-> p])
    BY DEF InitiateSave
  <1> DEFINE d == [op |-> "charge", key |-> k, payment |-> p]
  <1>2. /\ call'[w] = d
        /\ payment'[p] = row
        /\ \A q \in Payments \ {p} : payment'[q] = payment[q]
        /\ status' = status /\ reference' = reference /\ hearing' = hearing
    BY <1>1 DEF Continue, IInv, Inv, PaymentsInv, PaymentsTypeOK, requestVars
  <1>3. /\ hearing[w] = Deaf /\ call[w].op = "insert"
        /\ k \in Requests => status[k] = "PENDING"
    BY DEF IInv, Attending, InitiateSave, Here, TrackedAt
  <1>4. row.key = k /\ row.status = "PENDING" /\ row # NoPayment
    BY DEF NoPayment
  <1>5. \A q \in Payments, r \in Requests :
            For(payment', q, r) <=> For(payment, q, r) \/ (q = p /\ r = k)
    BY <1>1, <1>2, <1>4 DEF For, Exists
  <1>6. \A r \in Requests : Initiating(d, r) <=> r = k
    BY DEF Initiating
  <1>7. \A r : ~ Awaited(call[w], hearing[w], payment, r) /\ ~ Awaited(d, Deaf, payment', r)
               /\ ~ Initiating(call[w], r)
    BY <1>3 DEF Awaited, Initiating
  <1>8. \A q \in Payments, r \in Requests :
            (For(payment', q, r) /\ payment'[q].status = "COMPLETED")
            <=> (For(payment, q, r) /\ payment[q].status = "COMPLETED")
    BY <1>1, <1>2, <1>4, <1>5 DEF Exists, For
  <1>9. d.op = "charge" /\ Deaf.stage = "none"
    BY DEF Deaf
  <1> HIDE DEF d, row, k
  <1> QED
    BY <1>2, <1>3, <1>5, <1>6, <1>7, <1>8, <1>9 DEF Here, TrackedAt

LEMMA PaymentsTracked ==
    ASSUME IInv, ChargedOnce, serial, NEW w \in Slots, Here(w), UNCHANGED requestVars,
           \/ InitiateCharge(w) \/ InitiateUpdate(w) \/ InitiateAnswer(w)
           \/ RetryCount(w) \/ VerifyRead(w) \/ VerifyAsk(w)
    PROVE  TrackedAt(call'[w], hearing'[w], payment', status', reference')
  <1> DEFINE c == call[w]
             p == call[w].payment
  <1>1. status' = status /\ reference' = reference /\ hearing' = hearing
    BY DEF requestVars
  <1>2. hearing[w] = Deaf /\ c.op # "emitted" /\ Deaf.stage = "none" /\ Idle.op = "idle"
    BY DEF IInv, Attending, InitiateCharge, InitiateUpdate, InitiateAnswer, RetryCount,
           VerifyRead, VerifyAsk, Deaf, Idle
  <1>3. \A d : Continue(w, d) => call'[w] = d
    BY DEF Continue, IInv, Inv, PaymentsInv
  <1>4. CASE InitiateCharge(w)
    <2> DEFINE d == [op |-> "processing", key |-> c.key, payment |-> p]
    <2>1. c = [op |-> "charge", key |-> c.key, payment |-> p]
      BY <1>4 DEF InitiateCharge, IInv, Inv, PaymentsInv, Calls, PaymentCalls, Idle
    <2>2. [c EXCEPT !.op = "processing"] = d
      BY <2>1
    <2>3. call'[w] = d /\ payment' = payment
      BY <1>3, <1>4, <2>2 DEF InitiateCharge
    <2>4. \A r : Initiating(d, r) <=> Initiating(c, r)
      BY <2>1 DEF Initiating
    <2>5. \A r \in Requests : Initiating(c, r) => status[r] = "PENDING"
      BY DEF Here, TrackedAt
    <2>6. d.op = "processing"
      OBVIOUS
    <2> HIDE DEF d
    <2>7. TrackedAt(d, hearing[w], payment, status, reference)
      BY <1>2, <2>4, <2>5, <2>6, TrackedOn DEF Here
    <2> QED
      BY <1>1, <2>3, <2>7
  <1>5. CASE InitiateUpdate(w)
    <2> DEFINE d == Initiated(c.key, p)
    <2>1. c.op = "processing" /\ p \in Payments /\ Exists(p) /\ payment[p].key = c.key
      BY <1>5, CallFields DEF InitiateUpdate, IInv, Inv, PaymentsInv, Known, Exists
    <2>2. /\ payment'[p].status = "PROCESSING" /\ payment'[p].key = payment[p].key
          /\ payment'[p] # NoPayment
          /\ \A q \in Payments \ {p} : payment'[q] = payment[q]
      <3>1. payment' = [payment EXCEPT ![p].status = "PROCESSING"]
        BY <1>5 DEF InitiateUpdate
      <3>2. "PROCESSING" \in PaymentStatus /\ PaymentsTypeOK
        BY DEF PaymentStatus, IInv, Inv, PaymentsInv
      <3>3. \A q \in Payments :
                Exists(q) /\ payment' = [payment EXCEPT ![q].status = "PROCESSING"] =>
                    /\ payment'[q].status = "PROCESSING" /\ payment'[q].key = payment[q].key
                    /\ payment'[q] # NoPayment
                    /\ \A other \in Payments \ {q} : payment'[other] = payment[other]
        BY <3>2, StatusSet DEF Exists
      <3> QED
        BY <2>1, <3>1, <3>3
    <2>3. call'[w] = d
      BY <1>3, <1>5 DEF InitiateUpdate
    <2>4. \A r : Initiating(d, r) <=> Initiating(c, r)
      BY <2>1 DEF Initiating, Initiated
    <2>5. c.key \in Requests => payment[p].status # "COMPLETED"
      <3>1. c.key \in Requests => status[c.key] = "PENDING"
        BY <2>1 DEF Here, TrackedAt, Initiating
      <3> QED
        BY <1>2, <2>1, <3>1, NotPaidYet DEF Here
    <2>6. d.op = "initiated"
      BY DEF Initiated
    <2> HIDE DEF d
    <2>8. /\ payment[p] # NoPayment /\ payment'[p] # NoPayment
          /\ payment[p].key \in Requests =>
                (payment'[p].status = "COMPLETED" <=> payment[p].status = "COMPLETED")
          /\ hearing[w].stage # "approve"
      BY <1>2, <2>1, <2>2, <2>5 DEF Exists
    <2>7. TrackedAt(d, hearing[w], payment', status, reference)
      BY <1>2, <2>1, <2>2, <2>4, <2>6, <2>8, RowTracked DEF Here
    <2> QED
      BY <1>1, <2>3, <2>7
  <1>6. CASE InitiateAnswer(w)
    <2>1. call'[w] = Idle /\ payment' = payment /\ c.op = "initiated" /\ c.key \in ClientKeys
      BY <1>3, <1>6 DEF InitiateAnswer, Finish, paymentVars
    <2>2. \A r \in Requests : ~ Initiating(c, r) /\ ~ Initiating(Idle, r)
      BY <1>2, <2>1, ChangeRequestsAssumption DEF Initiating
    <2>3. TrackedAt(Idle, hearing[w], payment, status, reference)
      BY <1>2, <2>2, TrackedOn DEF Here
    <2> QED
      BY <1>1, <2>1, <2>3
  <1>7. CASE RetryCount(w)
    <2> DEFINE d == [op |-> "look", payment |-> p]
               row == [payment[p] EXCEPT !.retryCount = c.read + 1]
    <2>1. p \in Payments /\ Exists(p) /\ c.op = "retry"
      BY <1>7, CallFields DEF RetryCount, IInv, Inv, PaymentsInv, Known, Ledger
    <2>2. payment[p] \in PaymentRow
      BY <2>1, Rows DEF IInv, Inv, PaymentsInv
    <2>3. /\ row.status = payment[p].status /\ row.status \in PaymentStatus
          /\ row.key = payment[p].key
      BY <2>2 DEF PaymentRow
    <2>4. payment' = [payment EXCEPT ![p] = row] /\ call'[w] = d
      BY <1>3, <1>7, <2>1 DEF RetryCount, IInv, Inv, PaymentsInv, PaymentsTypeOK
    <2>5. row # NoPayment
      BY <2>3 DEF NoPayment, PaymentStatus
    <2> HIDE DEF row
    <2>6. payment'[p] = row /\ \A q \in Payments \ {p} : payment'[q] = payment[q]
      BY <2>1, <2>4 DEF IInv, Inv, PaymentsInv, PaymentsTypeOK
    <2>7. \A r : ~ Initiating(c, r) /\ ~ Initiating(d, r)
      BY <2>1 DEF Initiating
    <2>8. d.op = "look"
      OBVIOUS
    <2> HIDE DEF d
    <2>9. TrackedAt(d, hearing[w], payment', status, reference)
      BY <1>2, <2>1, <2>3, <2>5, <2>6, <2>7, <2>8, RowTracked DEF Here, Exists
    <2> QED
      BY <1>1, <2>4, <2>9
  <1>8. CASE VerifyRead(w)
    <2> DEFINE d == [op |-> "ask", payment |-> p]
    <2>1. c = [op |-> "look", payment |-> p]
      BY <1>8 DEF VerifyRead, IInv, Inv, PaymentsInv, Calls, PaymentCalls, Idle
    <2>2. [c EXCEPT !.op = "ask"] = d
      BY <2>1
    <2>3. /\ payment' = payment
          /\ \/ call'[w] = Idle
             \/ call'[w] = d /\ payment[p].status # "COMPLETED"
      BY <1>3, <1>8, <2>2 DEF VerifyRead, paymentVars
    <2>4. \A r : ~ Initiating(c, r) /\ ~ Initiating(d, r) /\ ~ Initiating(Idle, r)
      BY <1>2, <2>1 DEF Initiating
    <2>5. d.op = "ask" /\ d.payment = p
      OBVIOUS
    <2> HIDE DEF d
    <2>6. call'[w] = Idle => TrackedAt(Idle, hearing[w], payment, status, reference)
      BY <1>2, <2>4, TrackedOn DEF Here
    <2>7. payment[p].status # "COMPLETED" => TrackedAt(d, hearing[w], payment, status, reference)
      BY <1>2, <2>4, <2>5, TrackedOn DEF Here
    <2> QED
      BY <1>1, <2>3, <2>6, <2>7
  <1>9. CASE VerifyAsk(w)
    <2> DEFINE d == [op |-> "answer", payment |-> p, answer |-> provider[p]]
    <2>1. call'[w] = d /\ payment' = payment /\ c.op = "ask"
      BY <1>3, <1>9 DEF VerifyAsk, paymentVars
    <2>2. \A r : ~ Initiating(c, r) /\ ~ Initiating(d, r)
      BY <2>1 DEF Initiating
    <2>3. payment[p].status # "COMPLETED"
      BY <2>1 DEF Here, TrackedAt
    <2>4. d.op = "answer" /\ d.payment = p
      OBVIOUS
    <2> HIDE DEF d
    <2>5. TrackedAt(d, hearing[w], payment, status, reference)
      BY <1>2, <2>2, <2>3, <2>4, TrackedOn DEF Here
    <2> QED
      BY <1>1, <2>1, <2>5
  <1> QED
    BY <1>4, <1>5, <1>6, <1>7, <1>8, <1>9

LEMMA VerifyWriteTracked ==
    ASSUME IInv, ChargedOnce, serial, NEW w \in Slots, Here(w), UNCHANGED requestVars,
           VerifyWrite(w)
    PROVE  TrackedAt(call'[w], hearing'[w], payment', status', reference')
  <1>1. status' = status /\ reference' = reference /\ hearing' = hearing
    BY DEF requestVars
  <1>2. /\ hearing[w] = Deaf /\ call[w].op = "answer" /\ Deaf.stage = "none"
        /\ Idle.op = "idle"
    BY DEF IInv, Attending, VerifyWrite, Deaf, Idle
  <1>3. \A d : Continue(w, d) => call'[w] = d
    BY DEF Continue, IInv, Inv, PaymentsInv
  <1>4. PICK p \in Payments : p = call[w].payment
    BY <1>2, CallFields DEF IInv, Inv
  <1> DEFINE answer == call[w].answer
             d == Emitted(p, answer)
  <1>5. /\ Exists(p) /\ payment[p].status # "COMPLETED" /\ answer \in Answers
    BY <1>2, <1>4, CallFields DEF IInv, Inv, PaymentsInv, Known, Ledger, Here, TrackedAt
  <1>6. \A r : /\ ~ Initiating(call[w], r) /\ ~ Initiating(Idle, r) /\ ~ Initiating(d, r)
               /\ ~ Awaited(call[w], hearing[w], payment, r)
    BY <1>2 DEF Initiating, Emitted, Awaited
  <1>7. CASE answer = "pending"
    <2>1. call'[w] = Idle /\ payment' = payment
      BY <1>3, <1>7 DEF VerifyWrite, Finish
    <2>2. TrackedAt(Idle, hearing[w], payment, status, reference)
      BY <1>2, <1>6, TrackedOn DEF Here
    <2> QED
      BY <1>1, <2>1, <2>2
  <1>8. CASE answer # "pending"
    <2>1. call'[w] = d /\ payment' = [payment EXCEPT ![p].status = Outcome(answer)]
      BY <1>3, <1>4, <1>8 DEF VerifyWrite
    <2>2. Outcome(answer) \in PaymentStatus /\ PaymentsTypeOK
      BY DEF Outcome, PaymentStatus, IInv, Inv, PaymentsInv
    <2>3. /\ payment'[p].status = Outcome(answer) /\ payment'[p].key = payment[p].key
          /\ payment'[p] # NoPayment
          /\ \A q \in Payments \ {p} : payment'[q] = payment[q]
      BY <1>5, <2>1, <2>2, StatusSet DEF Exists
    <2>4. d.op = "emitted" /\ d.event = answer /\ d.payment = p
      BY DEF Emitted
    <2>5. CASE answer = "failed"
      <3>1. payment'[p].status # "COMPLETED"
        BY <2>3, <2>5 DEF Outcome
      <3> HIDE DEF d
      <3>2. TrackedAt(d, hearing[w], payment', status, reference)
        BY <1>2, <1>5, <1>6, <2>3, <2>4, <2>5, <3>1, RowTracked DEF Here, Exists
      <3> QED
        BY <1>1, <2>1, <3>2
    <2>6. CASE answer = "completed"
      <3>1. payment'[p].status = "COMPLETED"
        BY <2>3, <2>6 DEF Outcome
      <3>2. "approve" \in d.todo
        BY <2>6, ChangeRequestsAssumption DEF Emitted
      <3> HIDE DEF d
      <3> DEFINE k == payment[p].key
      <3>3. \A q \in Payments : \A r : For(payment', q, r) <=> For(payment, q, r)
        BY <1>5, <2>3 DEF For, Exists
      <3>4. \A r : Awaited(d, hearing[w], payment', r) <=> r = k
        BY <1>2, <2>3, <2>4, <2>6, <3>2 DEF Awaited
      <3>5. For(payment, p, k)
        BY <1>5 DEF For, Exists
      <3>6. k \in Requests => \A q \in Payments : For(payment, q, k) => q = p
        BY <1>5, <3>5, ChangeRequestsAssumption DEF ChargedOnce, For, Exists
      <3>7. k \in Requests => status[k] \in {"PENDING", "REJECTED"}
        BY <1>5, <1>6, <3>5, <3>6 DEF Here, TrackedAt
      <3>8. \A r \in Requests \ {k}, q \in Payments :
                For(payment, q, r) => payment'[q].status = payment[q].status
        BY <2>3 DEF For
      <3> HIDE DEF k
      <3>9. ASSUME NEW r \in Requests
            PROVE  /\ status[r] # "REJECTED" =>
                        ((\E q \in Payments :
                              For(payment', q, r) /\ payment'[q].status = "COMPLETED")
                            <=> (status[r] = "APPROVED" \/ Awaited(d, hearing[w], payment', r)))
                   /\ Awaited(d, hearing[w], payment', r) => status[r] \in {"PENDING", "REJECTED"}
                   /\ Initiating(d, r) => status[r] = "PENDING"
        <4>1. CASE r = k
          BY <1>6, <3>1, <3>3, <3>4, <3>5, <3>7, <4>1
        <4>2. CASE r # k
          <5>1. ~ Awaited(d, hearing[w], payment', r)
            BY <3>4, <4>2
          <5>2. (\E q \in Payments : For(payment', q, r) /\ payment'[q].status = "COMPLETED")
                    <=> (\E q \in Payments : For(payment, q, r) /\ payment[q].status = "COMPLETED")
            BY <3>3, <3>8, <4>2
          <5> QED
            BY <1>6, <5>1, <5>2 DEF Here, TrackedAt
        <4> QED
          BY <4>1, <4>2
      <3>10. TrackedAt(d, hearing[w], payment', status, reference)
        BY <1>2, <1>6, <2>4, <3>3, <3>9 DEF Here, TrackedAt
      <3> QED
        BY <1>1, <2>1, <3>10
    <2> QED
      BY <1>5, <1>8, <2>5, <2>6 DEF Answers
  <1> QED
    BY <1>7, <1>8

\* The event as it is when one listener has heard it.
LEMMA HeardExact ==
    ASSUME IInv, NEW w \in Slots, call[w].op = "emitted", NEW listener, Heard(w, listener)
    PROVE  \/ call'[w] = Idle /\ call[w].todo \subseteq {listener}
           \/ /\ call'[w].op = "emitted" /\ call'[w].event = call[w].event
              /\ call'[w].payment = call[w].payment
              /\ call'[w].todo = call[w].todo \ {listener}
  <1>1. call[w] = [op |-> "emitted", payment |-> call[w].payment,
                   event |-> call[w].event, todo |-> call[w].todo]
    BY DEF IInv, Inv, PaymentsInv, Calls, PaymentCalls, Idle
  <1>2. \A T : /\ [call[w] EXCEPT !.todo = T].op = "emitted"
               /\ [call[w] EXCEPT !.todo = T].event = call[w].event
               /\ [call[w] EXCEPT !.todo = T].payment = call[w].payment
               /\ [call[w] EXCEPT !.todo = T].todo = T
    BY <1>1
  <1>3. \A d : Continue(w, d) => call'[w] = d
    BY DEF Continue, IInv, Inv, PaymentsInv
  <1> QED
    BY <1>2, <1>3 DEF Heard

\* One listener more has heard of an event: approving is still to come or not, as
\* before, unless the change was rejected.
LEMMA ListenerTracked ==
    ASSUME NEW c, NEW d, NEW h, NEW g, NEW pay, NEW sta, NEW ref,
           TrackedAt(c, h, pay, sta, ref),
           c.op = "emitted", d = Idle \/ d.op = "emitted",
           \A r \in Requests : Awaited(d, g, pay, r) => Awaited(c, h, pay, r),
           \A r \in Requests :
               Awaited(c, h, pay, r) /\ sta[r] # "REJECTED" => Awaited(d, g, pay, r),
           g.stage = "approve" =>
               pay[d.payment].key = g.request /\ d.event = "completed" /\ sta[g.request] = "PENDING"
    PROVE  TrackedAt(d, g, pay, sta, ref)
  BY DEF TrackedAt, Initiating, Idle

LEMMA MirrorTracked ==
    ASSUME IInv, NEW w \in Slots, Here(w), UNCHANGED requestVars, Mirror(w)
    PROVE  TrackedAt(call'[w], hearing'[w], payment', status', reference')
  <1>1. /\ status' = status /\ reference' = reference /\ hearing' = hearing
        /\ payment' = payment /\ call[w].op = "emitted" /\ Heard(w, "mirror")
    BY DEF requestVars, Mirror
  <1>2. call'[w] = Idle \/ call'[w].op = "emitted"
    BY <1>1, HeardExact
  <1>3. \A r \in Requests : Awaited(call[w], hearing[w], payment, r)
                                <=> Awaited(call'[w], hearing[w], payment, r)
    BY <1>1, HeardExact DEF Awaited, Idle
  <1>4. hearing[w].stage = "approve" =>
            /\ payment[call'[w].payment].key = hearing[w].request
            /\ call'[w].event = "completed" /\ status[hearing[w].request] = "PENDING"
    <2>1. hearing[w].stage = "approve" => "approve" \in call[w].todo
      BY DEF IInv, Attending, Deaf
    <2>2. hearing[w].stage = "approve" =>
              call'[w].payment = call[w].payment /\ call'[w].event = call[w].event
      BY <1>1, <2>1, HeardExact
    <2> QED
      BY <2>2 DEF Here, TrackedAt
  <1> HIDE DEF Here
  <1>5. TrackedAt(call'[w], hearing[w], payment, status, reference)
    BY <1>1, <1>2, <1>3, <1>4, ListenerTracked DEF Here
  <1> QED
    BY <1>1, <1>5

LEMMA HearFindTracked ==
    ASSUME IInv, NEW w \in Slots, Here(w), HearFind(w)
    PROVE  TrackedAt(call'[w], hearing'[w], payment', status', reference')
  <1> DEFINE p == call[w].payment
  <1>1. /\ status' = status /\ reference' = reference /\ payment' = payment
        /\ call[w].op = "emitted" /\ "approve" \in call[w].todo /\ hearing[w] = Deaf
    BY DEF HearFind, Listening, paymentVars
  <1>2. call[w].event = "completed" /\ p \in Payments /\ Exists(p)
    BY <1>1, CallFields DEF IInv, Inv, PaymentsInv, Known, Ledger
  <1>3. Deaf.stage = "none" /\ \A r : ~ Initiating(call[w], r)
    BY <1>1 DEF Deaf, Initiating
  <1>4. CASE Matches(p) = {} /\ Heard(w, "approve") /\ UNCHANGED hearing
    <2>1. \A r \in Requests : status[r] # "REJECTED" => ~ Awaited(call[w], hearing[w], payment, r)
      <3>1. ASSUME NEW r \in Requests, status[r] # "REJECTED",
                   Awaited(call[w], hearing[w], payment, r)
            PROVE  FALSE
        <4>1. status[r] = "PENDING" /\ For(payment, p, r)
          BY <1>2, <3>1 DEF Here, TrackedAt, Awaited, For, Exists
        <4>2. reference[r] = p
          BY <1>2, <1>3, <4>1 DEF Here, TrackedAt
        <4> QED
          BY <1>4, <4>1, <4>2 DEF Matches
      <3> QED
        BY <3>1
    <2>2. \A r \in Requests : ~ Awaited(call'[w], hearing[w], payment, r)
      BY <1>1, <1>4, HeardExact DEF Awaited, Idle
    <2>3. call'[w] = Idle \/ call'[w].op = "emitted"
      BY <1>1, <1>4, HeardExact
    <2>4. TrackedAt(call'[w], hearing[w], payment, status, reference)
      BY <1>1, <1>3, <2>1, <2>2, <2>3, ListenerTracked DEF Here
    <2> QED
      BY <1>1, <1>4, <2>4
  <1>5. ASSUME NEW r \in Matches(p), Hear(w, [stage |-> "approve", request |-> r]), NoRequest
        PROVE  TrackedAt(call'[w], hearing'[w], payment', status', reference')
    <2> DEFINE g == [stage |-> "approve", request |-> r]
    <2>1. hearing'[w] = g /\ call' = call
      BY <1>5 DEF Hear, NoRequest, IInv, Inv, RequestsInv
    <2>2. payment[p].key = r
      BY <1>2, <1>5, ChangeRequestsAssumption DEF Matches, IInv, Inv, RequestsInv
    <2>3. \A q \in Requests : Awaited(call[w], hearing[w], payment, q)
                                <=> Awaited(call[w], g, payment, q)
      BY <1>1, <1>3 DEF Awaited
    <2>4. g.request = r /\ status[r] = "PENDING"
      BY <1>5 DEF Matches
    <2> HIDE DEF g
    <2>5. TrackedAt(call[w], g, payment, status, reference)
      BY <1>1, <1>2, <2>2, <2>3, <2>4, ListenerTracked DEF Here
    <2> QED
      BY <1>1, <2>1, <2>5
  <1> QED
    BY <1>4, <1>5 DEF HearFind

LEMMA HearersTracked ==
    ASSUME IInv, NEW w \in Slots, Here(w), HearApprove(w) \/ HearRead(w) \/ HearAdd(w)
    PROVE  TrackedAt(call'[w], hearing'[w], payment', status', reference')
  <1>0. Deaf.stage = "none" /\ Idle.op = "idle"
    BY DEF Deaf, Idle
  <1>1. /\ hearing[w].stage \in {"approve", "read", "add"}
        /\ call[w].op = "emitted" /\ "approve" \in call[w].todo
        /\ payment' = payment /\ reference' = reference
    <2>1. hearing[w].stage \in {"approve", "read", "add"}
      BY DEF HearApprove, HearRead, HearAdd
    <2>2. hearing[w] # Deaf
      BY <1>0, <2>1
    <2> QED
      BY <2>1, <2>2 DEF HearApprove, HearRead, HearAdd, IInv, Attending, paymentVars
  <1>2. CASE HearApprove(w)
    <2> DEFINE r == hearing[w].request
    <2>1. hearing[w].stage = "approve" /\ r \in Requests
      BY <1>2, HearingFields DEF HearApprove, IInv, Inv
    <2>2. call'[w] = call[w] /\ status' = [status EXCEPT ![r] = "APPROVED"]
      BY <1>2 DEF HearApprove, NoRequest
    <2>3. hearing'[w].stage = "read"
      <3>1. hearing[w] = [stage |-> "approve", request |-> r]
        BY <2>1, HearingFields DEF IInv, Inv
      <3>2. [hearing[w] EXCEPT !.stage = "read"].stage = "read"
        BY <3>1
      <3> QED
        BY <1>2, <3>2 DEF HearApprove, Hear, IInv, Inv, RequestsInv
    <2>4. \A q \in Requests : Awaited(call[w], hearing[w], payment, q) <=> q = r
      BY <1>1, <2>1 DEF Here, TrackedAt, Awaited
    <2>5. \A q : ~ Awaited(call[w], hearing'[w], payment, q) /\ ~ Initiating(call[w], q)
      BY <1>1, <2>3 DEF Awaited, Initiating
    <2>6. /\ status'[r] = "APPROVED" /\ \A q \in Requests \ {r} : status'[q] = status[q]
      BY <2>1, <2>2 DEF IInv, Inv, RequestsInv
    <2>7. status[r] = "PENDING"
      BY <2>1 DEF Here, TrackedAt
    <2> HIDE DEF r
    <2>8. TrackedAt(call[w], hearing'[w], payment, status', reference)
      BY <1>1, <2>1, <2>3, <2>4, <2>5, <2>6, <2>7 DEF Here, TrackedAt
    <2> QED
      BY <1>1, <2>2, <2>8
  <1>3. CASE HearRead(w)
    <2>1. /\ hearing[w].stage = "read" /\ hearing'[w].stage = "add" /\ call'[w] = call[w]
          /\ status' = status
      BY <1>3 DEF HearRead, Hear, NoRequest, IInv, Inv, RequestsInv
    <2>2. \A r \in Requests : Awaited(call[w], hearing[w], payment, r)
                                <=> Awaited(call[w], hearing'[w], payment, r)
      BY <2>1 DEF Awaited
    <2>3. TrackedAt(call[w], hearing'[w], payment, status, reference)
      BY <1>1, <2>1, <2>2, ListenerTracked DEF Here
    <2> QED
      BY <1>1, <2>1, <2>3
  <1>4. CASE HearAdd(w)
    <2>1. /\ hearing[w].stage = "add" /\ hearing'[w] = Deaf /\ status' = status
          /\ Heard(w, "approve")
      BY <1>4 DEF HearAdd, Hear, IInv, Inv, RequestsInv
    <2>2. call'[w] = Idle \/ call'[w].op = "emitted"
      BY <1>1, <2>1, HeardExact
    <2>3. \A r \in Requests : Awaited(call[w], hearing[w], payment, r)
                                <=> Awaited(call'[w], Deaf, payment, r)
      BY <1>0, <1>1, <2>1, HeardExact DEF Awaited
    <2>4. TrackedAt(call'[w], Deaf, payment, status, reference)
      BY <1>0, <1>1, <2>2, <2>3, ListenerTracked DEF Here
    <2> QED
      BY <1>1, <2>1, <2>4
  <1> QED
    BY <1>2, <1>3, <1>4

\* A slot that was idle, or will be, where nothing that was stored changes.
LEMMA RequestsTracked ==
    ASSUME IInv, calm, NEW w \in Slots, Here(w),
           \/ PaymentsRequest(w) /\ UNCHANGED requestVars
           \/ Request(w)
           \/ SettleWrite(w)
    PROVE  TrackedAt(call'[w], hearing'[w], payment', status', reference')
  <1>0. Deaf.stage = "none" /\ Idle.op = "idle"
    BY DEF Deaf, Idle
  <1>1. call[w].op \in {"idle", "settle"} /\ hearing[w] = Deaf
    <2>1. call[w].op \in {"idle", "settle"}
      BY <1>0 DEF PaymentsRequest, InitiateFind, Verify, RetryFind, Request, Approve, Reject,
                  Settle, MayStart, SettleWrite
    <2> QED
      BY <2>1 DEF IInv, Attending
  <1>2. \A d : Continue(w, d) => call'[w] = d
    BY DEF Continue, IInv, Inv, PaymentsInv
  <1>3. \A r : ~ Initiating(call[w], r)
    BY <1>1 DEF Initiating
  <1>4. ASSUME NEW d, Continue(w, d), UNCHANGED <<payment, status, reference, hearing>>,
               d.op \notin {"emitted", "charge", "processing", "initiated", "insert", "ask", "answer"},
               d.op = "pay" => status[d.request] = "PENDING"
        PROVE  TrackedAt(call'[w], hearing'[w], payment', status', reference')
    <2>1. \A r : ~ Initiating(d, r)
      BY <1>4 DEF Initiating
    <2>2. TrackedAt(d, hearing[w], payment, status, reference)
      BY <1>0, <1>1, <1>3, <1>4, <2>1, TrackedOn DEF Here
    <2> QED
      BY <1>2, <1>4, <2>2
  <1>5. CASE PaymentsRequest(w) /\ UNCHANGED requestVars
    <2>1. ASSUME NEW k \in ClientKeys, MayStart(w), InitiateFind(w, k)
          PROVE  TrackedAt(call'[w], hearing'[w], payment', status', reference')
      BY <1>0, <1>5, <2>1, InitiateFindTracked, PaymentsAssumption, ChangeRequestsAssumption
      DEF MayStart
    <2>2. ASSUME NEW p \in Payments, Verify(w, p)
          PROVE  TrackedAt(call'[w], hearing'[w], payment', status', reference')
      BY <1>4, <1>5, <2>2 DEF Verify, paymentVars, requestVars
    <2>3. ASSUME NEW p \in Payments, RetryFind(w, p)
          PROVE  TrackedAt(call'[w], hearing'[w], payment', status', reference')
      BY <1>4, <1>5, <2>3 DEF RetryFind, paymentVars, requestVars
    <2> QED
      BY <1>5, <2>1, <2>2, <2>3 DEF PaymentsRequest
  <1>6. ASSUME NEW r \in Requests, Approve(w, r)
        PROVE  TrackedAt(call'[w], hearing'[w], payment', status', reference')
    BY <1>4, <1>6 DEF Approve, paymentVars, requestVars
  <1>7. ASSUME NEW r \in Requests, Reject(w, r)
        PROVE  TrackedAt(call'[w], hearing'[w], payment', status', reference')
    BY <1>4, <1>7 DEF Reject, paymentVars, requestVars
  <1>8. CASE Settle(w)
    BY <1>4, <1>8 DEF Settle, paymentVars, requestVars
  <1>9. CASE SettleWrite(w)
    BY <1>0, <1>4, <1>9 DEF SettleWrite, Finish, paymentVars
  <1> QED
    BY <1>5, <1>6, <1>7, <1>8, <1>9 DEF Request

LEMMA ApprovalTracked ==
    ASSUME IInv, serial, ChargedOnce, NEW w \in Slots, Here(w),
           ApproveInitiate(w) \/ ApproveStore(w) \/ RejectWrite(w)
    PROVE  TrackedAt(call'[w], hearing'[w], payment', status', reference')
  <1>0. Deaf.stage = "none" /\ Idle.op = "idle"
    BY DEF Deaf, Idle
  <1>1. hearing[w] = Deaf /\ call[w].op \in {"pay", "initiated", "reject"}
    BY DEF ApproveInitiate, ApproveStore, RejectWrite, IInv, Attending
  <1>2. CASE ApproveInitiate(w)
    <2>1. call[w].op = "pay" /\ call[w].request \in Requests
      BY <1>2, CallFields DEF ApproveInitiate, IInv, Inv
    <2>2. status[call[w].request] = "PENDING"
      BY <2>1 DEF Here, TrackedAt
    <2>3. PICK k \in Keys : k = call[w].request
      BY <2>1, ChangeRequestsAssumption
    <2>4. InitiateFind(w, k) /\ UNCHANGED requestVars
      BY <1>2, <2>3 DEF ApproveInitiate
    <2> QED
      BY <2>1, <2>2, <2>3, <2>4, InitiateFindTracked
  <1>3. \A r : ~ Awaited(call[w], hearing[w], payment, r) /\ ~ Awaited(Idle, Deaf, payment, r)
               /\ ~ Initiating(Idle, r)
    BY <1>0, <1>1 DEF Awaited, Initiating
  <1>4. Finish(w) => call'[w] = Idle
    BY DEF Finish, Continue, IInv, Inv, PaymentsInv
  <1>5. CASE ApproveStore(w)
    <2> DEFINE k == call[w].key
               p == call[w].payment
    <2>1. /\ call[w].op = "initiated" /\ k \in Requests /\ p \in Payments
          /\ For(payment, p, k)
      BY <1>5, CallFields DEF ApproveStore, IInv, Inv, PaymentsInv, Known, For
    <2>2. /\ call'[w] = Idle /\ hearing' = hearing /\ payment' = payment /\ status' = status
          /\ reference' = [reference EXCEPT ![k] = p]
      BY <1>4, <1>5 DEF ApproveStore, paymentVars
    <2>3. reference'[k] = p /\ \A r \in Requests \ {k} : reference'[r] = reference[r]
      BY <2>1, <2>2 DEF IInv, Inv, RequestsInv
    <2>4. \A q \in Payments : For(payment, q, k) => q = p
      BY <2>1, ChangeRequestsAssumption DEF ChargedOnce, For, Exists
    <2>5. \A r : Initiating(call[w], r) <=> r = k
      BY <2>1 DEF Initiating
    <2> HIDE DEF k, p
    <2>6. TrackedAt(Idle, Deaf, payment, status, reference')
      BY <1>0, <1>1, <1>3, <2>1, <2>3, <2>4, <2>5 DEF Here, TrackedAt
    <2> QED
      BY <1>1, <2>2, <2>6
  <1>6. CASE RejectWrite(w)
    <2> DEFINE k == call[w].request
    <2>1. call[w].op = "reject" /\ k \in Requests
      BY <1>6, CallFields DEF RejectWrite, IInv, Inv
    <2>2. /\ call'[w] = Idle /\ hearing' = hearing /\ payment' = payment
          /\ reference' = reference /\ status' = [status EXCEPT ![k] = "REJECTED"]
      BY <1>4, <1>6 DEF RejectWrite, paymentVars
    <2>3. /\ status'[k] = "REJECTED" /\ \A r \in Requests \ {k} : status'[r] = status[r]
      BY <2>1, <2>2 DEF IInv, Inv, RequestsInv
    <2>4. \A r : ~ Initiating(call[w], r)
      BY <2>1 DEF Initiating
    <2> HIDE DEF k
    <2>5. TrackedAt(Idle, Deaf, payment, status', reference)
      BY <1>0, <1>1, <1>3, <2>3, <2>4 DEF Here, TrackedAt
    <2> QED
      BY <1>1, <2>2, <2>5
  <1> QED
    BY <1>2, <1>5, <1>6

\* Every slot is at rest, as is what it would look at.
LEMMA CreateTracked ==
    ASSUME IInv, calm, Tracked, NEW r \in Requests, Create(r)
    PROVE  Tracked'
  <1>1. /\ AtRest /\ call' = call /\ hearing' = hearing /\ payment' = payment
        /\ reference' = reference /\ status[r] = "none"
        /\ status' = [status EXCEPT ![r] = "PENDING"]
    BY DEF Create, NoRequest, calm, serial, paymentVars
  <1>2. \A w \in Slots : call[w] = Idle /\ hearing[w] = Deaf
    BY <1>1, NobodyHears DEF AtRest
  <1>3. TrackedAt(Idle, Deaf, payment, status, reference)
    BY <1>1 DEF Tracked
  <1>4. status'[r] = "PENDING" /\ \A q \in Requests \ {r} : status'[q] = status[q]
    BY <1>1 DEF IInv, Inv, RequestsInv
  <1>5. \A q : ~ Awaited(Idle, Deaf, payment, q) /\ ~ Initiating(Idle, q)
    BY DEF Awaited, Initiating, Idle
  <1>6. Idle.op = "idle" /\ Deaf.stage = "none"
    BY DEF Idle, Deaf
  <1>7. TrackedAt(Idle, Deaf, payment, status', reference)
    BY <1>1, <1>3, <1>4, <1>5, <1>6 DEF TrackedAt
  <1>8. \A w \in Slots : call'[w] = Idle /\ hearing'[w] = Deaf
    BY <1>1, <1>2
  <1> QED
    BY <1>1, <1>7, <1>8 DEF Tracked

LEMMA TrackedStep ==
    ASSUME IInv, OneAtATime, ChargedOnce, Tracked, Next
    PROVE  Tracked'
  <1> SUFFICES ASSUME calm' PROVE Tracked'
    BY DEF Tracked
  <1>1. calm /\ serial /\ Attending'
    BY OneAtATimeStep, NextStep DEF calm, serial, IInv
  <1>2. ASSUME NEW w \in Slots, MayStart(w) \/ call[w] # Idle,
               \A v \in Slots \ {w} : call'[v] = call[v] /\ hearing'[v] = hearing[v],
               Here(w) => TrackedAt(call'[w], hearing'[w], payment', status', reference')
        PROVE  Tracked'
    <2>1. Alone(w)
      BY <1>1, <1>2, WorksAlone
    <2>2. Here(w)
      BY <1>1, <2>1 DEF Tracked, Here
    <2> QED
      BY <1>1, <1>2, <2>1, <2>2, TrackedTo
  <1>3. ASSUME NEW w \in Slots, NEW c, Continue(w, c)
        PROVE  \A v \in Slots \ {w} : call'[v] = call[v]
    BY <1>3 DEF Continue, IInv, Inv, PaymentsInv
  <1>4. ASSUME NEW w \in Slots, NEW h, Hear(w, h)
        PROVE  \A v \in Slots \ {w} : hearing'[v] = hearing[v]
    BY <1>4 DEF Hear, IInv, Inv, RequestsInv
  <1>i. Idle.op = "idle" /\ Deaf.stage = "none"
    BY DEF Idle, Deaf
  <1>5. ASSUME NEW w \in Slots, \/ PaymentsRequest(w) /\ UNCHANGED requestVars
                                \/ Request(w)
        PROVE  Tracked'
    <2>1. MayStart(w) /\ hearing' = hearing /\ \E c : Continue(w, c)
      BY <1>5 DEF PaymentsRequest, InitiateFind, Verify, RetryFind, Request, Approve, Reject,
                  Settle, requestVars
    <2> QED
      BY <1>1, <1>2, <1>3, <1>5, <2>1, RequestsTracked
  <1>6. ASSUME NEW w \in Slots,
               ApproveInitiate(w) \/ ApproveStore(w) \/ RejectWrite(w) \/ SettleWrite(w)
        PROVE  Tracked'
    <2>1. call[w] # Idle /\ hearing' = hearing /\ \E c : Continue(w, c)
      BY <1>6, <1>i DEF ApproveInitiate, InitiateFind, ApproveStore, RejectWrite, SettleWrite,
                        Finish, requestVars
    <2> QED
      BY <1>1, <1>2, <1>3, <1>6, <2>1, RequestsTracked, ApprovalTracked
  <1>7. ASSUME NEW w \in Slots, PaymentsProceed(w), UNCHANGED requestVars
        PROVE  Tracked'
    <2>1. call[w] # Idle /\ hearing' = hearing /\ \E c : Continue(w, c)
      <3>1. call[w] # Idle
        BY <1>7, <1>i
        DEF PaymentsProceed, InitiateSave, InitiateCharge, InitiateUpdate, InitiateAnswer,
            RetryCount, VerifyRead, VerifyAsk, VerifyWrite, Mirror
      <3> QED
        BY <1>7, <3>1, ProceedForm DEF requestVars
    <2>2. Here(w) => TrackedAt(call'[w], hearing'[w], payment', status', reference')
      BY <1>1, <1>7, InitiateSaveTracked, PaymentsTracked, VerifyWriteTracked, MirrorTracked
      DEF PaymentsProceed
    <2> QED
      BY <1>2, <1>3, <2>1, <2>2
  <1>8. ASSUME NEW w \in Slots, HearFind(w)
        PROVE  Tracked'
    <2>1. call[w] # Idle
      BY <1>8, <1>i DEF HearFind, Listening
    <2>2. \A v \in Slots \ {w} : call'[v] = call[v] /\ hearing'[v] = hearing[v]
      <3>1. CASE Heard(w, "approve") /\ UNCHANGED hearing
        BY <1>3, <3>1 DEF Heard
      <3>2. ASSUME NEW r, Hear(w, [stage |-> "approve", request |-> r]), NoRequest
            PROVE  \A v \in Slots \ {w} : call'[v] = call[v] /\ hearing'[v] = hearing[v]
        BY <1>4, <3>2 DEF NoRequest
      <3> QED
        BY <1>8, <3>1, <3>2 DEF HearFind
    <2> QED
      BY <1>2, <1>8, <2>1, <2>2, HearFindTracked
  <1>9. ASSUME NEW w \in Slots, HearApprove(w) \/ HearRead(w) \/ HearAdd(w)
        PROVE  Tracked'
    <2>1. call[w] # Idle
      <3>1. hearing[w] # Deaf
        BY <1>9, <1>i DEF HearApprove, HearRead, HearAdd
      <3> QED
        BY <1>i, <3>1 DEF IInv, Attending
    <2>2. \A v \in Slots \ {w} : call'[v] = call[v]
      BY <1>3, <1>9 DEF HearApprove, HearRead, HearAdd, Heard, NoRequest
    <2>3. \A v \in Slots \ {w} : hearing'[v] = hearing[v]
      BY <1>4, <1>9 DEF HearApprove, HearRead, HearAdd
    <2> QED
      BY <1>2, <1>9, <2>1, <2>2, <2>3, HearersTracked
  <1>10. ASSUME NEW p \in Payments, ProviderCollects(p), UNCHANGED requestVars
         PROVE  Tracked'
    BY <1>1, <1>10 DEF ProviderCollects, NoRequest, requestVars, Tracked, Alone, AtRest
  <1>11. \A w \in Slots : ~ Lost(w)
    BY <1>1 DEF Lost, Crash
  <1> QED
    BY <1>1, <1>5, <1>6, <1>7, <1>8, <1>9, <1>10, <1>11, CreateTracked DEF Next, Proceed

\* While nobody races, what was paid and not rejected is what the total counts, for
\* any number of changes and any amounts, whenever no request is being served.
THEOREM CalmBooksBalanceHolds == Spec => []CalmBooksBalance
  <1> DEFINE J == OneAtATime /\ ChargedOnce /\ Bookkeeping /\ BooksAddUp /\ Tracked
  <1>1. Init => J
    <2> SUFFICES ASSUME Init PROVE J
      OBVIOUS
    <2>1. OneAtATime /\ ChargedOnce /\ Bookkeeping
      BY DEF Init, PaymentsInit, RequestsInit, OneAtATime, ChargedOnce, Exists, Bookkeeping,
             Idle, Deaf
    <2>2. BooksAddUp
      <3>1. \A r \in Requests : InEscrow(r) # "APPROVED"
        BY DEF Init, InEscrow, BeingAdded, Deaf
      <3>2. Approved = {}
        BY <3>1 DEF Approved
      <3>3. SumFunctionOnSet(Amount, Approved) = 0 /\ IsFiniteSet(Approved)
        BY <3>2, SumOfNone, FS_EmptySet
      <3> QED
        BY <3>3, ChangeRequestsAssumption DEF BooksAddUp, Init
    <2>3. TrackedAt(Idle, Deaf, payment, status, reference)
      BY DEF Init, PaymentsInit, TrackedAt, Awaited, Initiating, For, Idle, Deaf
    <2>4. \A w \in Slots : call[w] = Idle /\ hearing[w] = Deaf
      BY DEF Init, PaymentsInit, RequestsInit
    <2>5. Tracked
      BY <2>3, <2>4 DEF Tracked
    <2> QED
      BY <2>1, <2>2, <2>5
  <1>2. IInv /\ J /\ [Next]_vars => J'
    <2> SUFFICES ASSUME IInv, J, [Next]_vars PROVE J'
      OBVIOUS
    <2>1. CASE Next
      BY <2>1, OneAtATimeStep, ChargedOnceStep, BookkeepingStep, BooksAddUpStep, TrackedStep
    <2>2. CASE UNCHANGED vars
      <3>1. UNCHANGED <<world, call, payment, status, reference, total, split, hearing>>
        BY <2>2 DEF vars, paymentVars, requestVars
      <3>2. OneAtATime' /\ ChargedOnce' /\ Bookkeeping'
        BY <3>1 DEF OneAtATime, ChargedOnce, PaymentsWithKey, Exists, Bookkeeping, serial, calm
      <3>3. Approved' = Approved
        BY <3>1 DEF Approved, InEscrow, BeingAdded, calm
      <3>4. BooksAddUp'
        BY <3>1, <3>3 DEF BooksAddUp, calm
      <3>5. Tracked'
        BY <3>1 DEF Tracked, Alone, AtRest, calm
      <3> QED
        BY <3>2, <3>4, <3>5
    <2> QED
      BY <2>1, <2>2
  <1>3. IInv /\ J => CalmBooksBalance
    <2> SUFFICES ASSUME IInv, J, calm, AtRest PROVE CalmBooksBalance
      BY DEF CalmBooksBalance
    <2> DEFINE paid == {r \in Requests :
                            \E p \in PaymentsWithKey(r) : payment[p].status = "COMPLETED"}
    <2>1. \A r \in Requests : InEscrow(r) = status[r]
      BY NobodyHears DEF InEscrow, BeingAdded, Deaf
    <2>2. \A r \in Requests : status[r] # "REJECTED" =>
              ((\E p \in Payments : For(payment, p, r) /\ payment[p].status = "COMPLETED")
                  <=> status[r] = "APPROVED")
      BY DEF Tracked, TrackedAt, Awaited, Idle
    <2>3. {r \in paid : status[r] # "REJECTED"} = Approved
      BY <2>1, <2>2 DEF Approved, PaymentsWithKey, For, Exists
    <2>4. total = Base + SumFunctionOnSet(Amount, {r \in paid : status[r] # "REJECTED"})
      BY <2>3 DEF BooksAddUp
    <2> QED
      BY <2>4 DEF CalmBooksBalance
  <1> QED
    BY <1>1, <1>2, <1>3, Inductive, PTL DEF Spec
================================================================================
