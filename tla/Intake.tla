-------------------------------- MODULE Intake --------------------------------
(****************************************************************************)
(* OrdersService.create as its callers see it: counted order numbers and    *)
(* the idempotency key of the request.  What the transaction does to the    *)
(* stock is in Fulfilment.                                                  *)
(*                                                                          *)
(* A tap is one wish for an order and its key.  The customer app makes a    *)
(* new key for each tap, so a customer who gets no answer and taps again is *)
(* a new tap; any other client of the API may send a key again, before or   *)
(* after it was answered.                                                   *)
(****************************************************************************)
EXTENDS Requests, Naturals, FiniteSets

CONSTANTS
    NumOrders,      \* bound: orders that are stored
    Taps

ASSUME IntakeAssumption == NumOrders \in Nat

VARIABLES
    stored,         \* orders: idempotency_key by order_number
    answered        \* taps that were told of an order

intakeVars == <<stored, answered>>

OrderNumbers == 1 .. NumOrders
Taken == DOMAIN stored

IntakeCalls ==
         [op : {"insertOrder"}, number : OrderNumbers, key : Taps]
    \cup [op : {"created"}, key : Taps]

IntakeTypeOK ==
    /\ Taken \subseteq OrderNumbers
    /\ \A n \in Taken : stored[n] \in Taps
    /\ answered \in SUBSET Taps

IntakeInit == stored = <<>> /\ answered = {}

\* Bug: customers are counted, not orders.
CountedByKey == Cardinality({stored[n] : n \in Taken}) + 1

\* generateOrderNumber, which does not run in the transaction of create.
NextNumber == Cardinality(Taken) + 1

CreateOrder(w, t) ==
    /\ MayStart(w)
    /\ NextNumber \in OrderNumbers
    /\ Continue(w, [op |-> "insertOrder", number |-> NextNumber, key |-> t])
    /\ UNCHANGED intakeVars

\* Bug: the conflict of the number is swallowed.
InsertOrderAnyway(w) ==
    LET n == call[w].number
    IN  /\ call[w].op = "insertOrder"
        /\ stored' = IF n \in Taken THEN stored
                     ELSE [m \in Taken \cup {n} |-> IF m = n THEN call[w].key ELSE stored[m]]
        /\ Continue(w, [op |-> "created", key |-> call[w].key])
        /\ UNCHANGED answered

\* order_number is unique: the second of two that counted alike is rolled back.
\* The key is stored, and nobody looks it up.
InsertOrder(w) ==
    LET n == call[w].number
    IN  /\ call[w].op = "insertOrder"
        /\ IF n \in Taken
           THEN Finish(w) /\ UNCHANGED stored
           ELSE /\ stored' = [m \in Taken \cup {n} |-> IF m = n THEN call[w].key ELSE stored[m]]
                /\ Continue(w, [op |-> "created", key |-> call[w].key])
        /\ UNCHANGED answered

CreateOrderAnswer(w) ==
    /\ call[w].op = "created"
    /\ answered' = answered \cup {call[w].key}
    /\ Finish(w)
    /\ UNCHANGED stored

IntakeNext ==
    \E w \in Slots :
        \/ \E t \in Taps : CreateOrder(w, t)
        \/ InsertOrder(w) \/ CreateOrderAnswer(w)
        \/ Crash(w) /\ UNCHANGED intakeVars

--------------------------------------------------------------------------------
(* Properties.                                                              *)

OrdersOf(t) == {n \in Taken : stored[n] = t}

\* An order that nobody races is never refused for its number.
SerialNumberIsFree ==
    serial => \A w \in Slots : call[w].op = "insertOrder" => call[w].number \notin Taken

\* A customer who was told of an order has one.
AnsweredHasOrder == \A t \in answered : OrdersOf(t) # {}

\* "Idempotency key to prevent duplicate orders".  A request repeated because its
\* answer was lost, or sent twice at once, makes a second order.
OneOrderPerKey == \A t \in Taps : Cardinality(OrdersOf(t)) <= 1
================================================================================
