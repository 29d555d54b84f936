------------------------------ MODULE Fulfilment ------------------------------
(****************************************************************************)
(* The stock and the money of an order: OrdersService.create and .cancel,   *)
(* SettlementService.settle, InventoryService.commitReservation and         *)
(* .adjustStock, under concurrent requests at one station.                  *)
(*                                                                          *)
(* A transaction takes row locks one by one (SELECT ... FOR UPDATE or the   *)
(* UPDATE itself) and keeps them; what it has written is in call[w].dirty   *)
(* and reaches the tables when it commits.  Holds and Needs say which locks *)
(* a request has and wants, Granted that nobody else has them.              *)
(*                                                                          *)
(* status names classes of statuses: NEW (no committed row), OPEN (those    *)
(* cancel() accepts), DELIVERED (from CYLINDER_PICKED_UP to DELIVERED).     *)
(* The single statuses and the riders are in Dispatch.                      *)
(*                                                                          *)
(* world and pool are chosen once.  In the racing world clients act on one  *)
(* order at the same time and pods crash; in the orderly world every order  *)
(* has one writer at a time; in the calm world nothing crashes either and   *)
(* the staff leaves the shelf alone.  pool is the number of connections.    *)
(****************************************************************************)
EXTENDS Integers, Sequences, FiniteSetsExt

CONSTANTS
    Orders, Types, Slots,
    NotLocked,          \* a transaction has not locked a stock row
    Basket,             \* the items of each order, as in the create request
    InitialStock,       \* filled cylinders at the start
    Deltas,             \* what the staff adds to the filled count at once
    MaxFilled,          \* bound: the staff does not fill a shelf beyond this
    PatchTargets,       \* what clients PATCH an open order to
    Worlds,             \* the worlds to choose from
    PoolSizes           \* the sizes of the connection pool to choose from

Item == [type : Types, quantity : Nat]

ASSUME FulfilmentAssumption ==
    /\ IsFiniteSet(Slots)
    /\ NotLocked \notin Int
    /\ Basket \in [Orders -> Seq(Item)]
    /\ InitialStock \in [Types -> Nat]
    /\ Deltas \subseteq Int
    /\ MaxFilled \in Nat
    /\ PatchTargets \subseteq {"DELIVERED", "CANCELLED"}
    /\ Worlds \subseteq {"racing", "orderly", "calm"}
    /\ PoolSizes \subseteq Nat \ {0}

VARIABLES
    world,      \* what the environment does
    pool,       \* connections of the pod to the database
    status,     \* orders.status, by class
    filled,     \* cylinder_inventory.filled_count
    reserved,   \* cylinder_inventory.reserved_count
    booked,     \* how often the station's revenue got the order's earning
    credited,   \* how often the rider's wallet got the order's earning
    call,       \* the request each slot is serving
    connected   \* slots with a connection for a statement outside their transaction

stock == <<filled, reserved>>
money == <<booked, credited>>
vars == <<world, pool, status, filled, reserved, booked, credited, call, connected>>

Status == {"NEW", "OPEN", "DELIVERED", "CUSTOMER_CONFIRMED", "COMPLETED", "CANCELLED"}

Idle == [op |-> "idle"]

\* The reserved_count a transaction will commit, for the rows it has locked.
Dirty == [Types -> Int \cup {NotLocked}]

Calls ==
         {Idle}
    \cup [op : {"create", "cancelling"}, order : Orders, left : Seq(Item), dirty : Dirty]
    \cup [op : {"cancelled"}, order : Orders, dirty : Dirty]
    \cup [op : {"update"}, order : Orders, to : PatchTargets]
    \cup [op : {"numbering", "cancel", "finding"}, order : Orders]
    \cup [op : {"confirm", "settle", "settling", "completing", "credit"}, order : Orders]
    \cup [op : {"paying"}, order : Orders, left : Seq(Item)]

TypeOK ==
    /\ world \in Worlds
    /\ pool \in PoolSizes
    /\ status \in [Orders -> Status]
    /\ filled \in [Types -> Int]
    /\ reserved \in [Types -> Int]
    /\ booked \in [Orders -> Nat]
    /\ credited \in [Orders -> Nat]
    /\ call \in [Slots -> Calls]
    /\ connected \subseteq Slots

Init ==
    /\ world \in Worlds
    /\ pool \in PoolSizes
    /\ status = [o \in Orders |-> "NEW"]
    /\ filled = InitialStock
    /\ reserved = [t \in Types |-> 0]
    /\ booked = [o \in Orders |-> 0]
    /\ credited = [o \in Orders |-> 0]
    /\ call = [w \in Slots |-> Idle]
    /\ connected = {}

--------------------------------------------------------------------------------
(* Row locks.                                                               *)

Row(t) == <<"cylinder_inventory", t>>
OrderRow(o) == <<"orders", o>>
StationRow == <<"gas_stations", "station">>

LockedRows(dirty) == {Row(t) : t \in {u \in Types : dirty[u] # NotLocked}}

Holds(v) ==
    CASE call[v].op \in {"create", "cancelling"} -> LockedRows(call[v].dirty)
      [] call[v].op = "cancelled" -> LockedRows(call[v].dirty) \cup {OrderRow(call[v].order)}
      [] call[v].op = "completing" -> {OrderRow(call[v].order)}
      [] call[v].op = "paying" -> {OrderRow(call[v].order), StationRow}
      [] OTHER -> {}

NextRow(items, otherwise) == IF items = <<>> THEN otherwise ELSE {Row(Head(items).type)}

\* The rows a request's next statement locks.
Needs(v) ==
    CASE call[v].op \in {"create", "paying"} -> NextRow(call[v].left, {})
      [] call[v].op = "cancelling" -> NextRow(call[v].left, {OrderRow(call[v].order)})
      [] call[v].op \in {"update", "confirm", "settling"} -> {OrderRow(call[v].order)}
      [] call[v].op = "completing" -> {StationRow}
      [] OTHER -> {}

\* Locks of its own transaction do not block a request, unless it waits on
\* another connection, as settle does in commitReservation.
LocksFree(w) ==
    \A v \in IF call[w].op = "paying" THEN Slots ELSE Slots \ {w} :
        Needs(w) \cap Holds(v) = {}

\* What PostgreSQL sees: commitReservation waits on a connection of its own, so
\* that settle's transaction waits for it is known to Node alone.
WaitsFor(v, u) == v # u /\ call[v].op # "paying" /\ Needs(v) \cap Holds(u) # {}

InCycle(w) ==
    \E S \in SUBSET Slots :
        /\ w \in S
        /\ \A v \in S : /\ \E u \in S : WaitsFor(v, u)
                        /\ \E u \in S : WaitsFor(u, v)

--------------------------------------------------------------------------------
(* Connections.                                                             *)

\* A transaction keeps the connection it began on until it ends.
TransactionOps ==
    {"numbering", "create", "finding", "cancelling", "cancelled", "completing", "paying"}

InTransaction(v) == call[v].op \in TransactionOps

\* Statements on a connection of their own that may wait there for a row lock: the
\* UPDATE of one order, BEGIN and the first UPDATE of settle, and commitReservation,
\* whose transaction is not the one settle has open.
Connects(w) ==
    \/ call[w].op \in {"update", "confirm", "settling"}
    \/ call[w].op = "paying" /\ call[w].left # <<>>

\* These wait for no lock: the reads generateOrderNumber, releaseInventoryReservation
\* and findById, which go through the repository and not through the manager of
\* the open transaction, BEGIN of cancel, the reads of settle, and creditWallet.
BorrowingOps == {"numbering", "cancel", "finding", "cancelled", "settle", "credit"}

NeedsConnection(w) ==
    IF Connects(w) THEN w \notin connected ELSE call[w].op \in BorrowingOps

PoolIsFree == Cardinality({v \in Slots : InTransaction(v)}) + Cardinality(connected) < pool

--------------------------------------------------------------------------------
(* Requests in flight.                                                      *)

WriterOps ==
    {"update", "confirm", "settle", "settling", "completing", "paying",
     "cancel", "finding", "cancelling", "cancelled"}

Writes(w, o) == call[w].op \in WriterOps /\ call[w].order = o

MayStart(w, o) ==
    /\ call[w] = Idle
    /\ PoolIsFree
    /\ world # "racing" => \A v \in Slots : ~ Writes(v, o)

\* A request gets on: it has a connection, or borrows one for the step, and the rows
\* its statement locks.
Granted(w) ==
    /\ Connects(w) => w \in connected
    /\ NeedsConnection(w) => PoolIsFree
    /\ LocksFree(w)

\* The statement is through and gives its connection back, unless it began a
\* transaction that goes on.
Continue(w, next) ==
    /\ call' = [call EXCEPT ![w] = next]
    /\ connected' = connected \ {w}
    /\ UNCHANGED <<world, pool>>

\* The pool has a connection for a statement that may have to wait on it.
Connect(w) ==
    /\ Connects(w)
    /\ NeedsConnection(w)
    /\ PoolIsFree
    /\ connected' = connected \cup {w}
    /\ UNCHANGED <<world, pool, status, stock, money, call>>

\* order_items WHERE order_id, without ORDER BY: in any order.
ItemsOf(o) ==
    LET D == DOMAIN Basket[o]
    IN  {[i \in D |-> Basket[o][p[i]]] :
            p \in {q \in [D -> D] : \A i, j \in D : q[i] = q[j] => i = j}}

\* reserved_count as w's transaction sees it, and with its own UPDATE.
Seen(w, t) == IF call[w].dirty[t] = NotLocked THEN reserved[t] ELSE call[w].dirty[t]

WithUpdate(w, t, n) == [call[w].dirty EXCEPT ![t] = n]

\* Bug: the row of every type is written, locked or not.
CommittedBlindly(w) == call[w].dirty

Committed(w) == [t \in Types |-> Seen(w, t)]

NothingYet == [t \in Types |-> NotLocked]

--------------------------------------------------------------------------------
(* create: every item is reserved under its row lock, or nothing is.        *)

CreateBegin(w, o) ==
    /\ MayStart(w, o)
    /\ status[o] = "NEW"
    /\ \A v \in Slots : ~ (call[v].op \in {"numbering", "create"} /\ call[v].order = o)
    /\ Continue(w, [op |-> "numbering", order |-> o])
    /\ UNCHANGED <<status, stock, money>>

\* orderRepo.count() on a second connection, then the INSERT of the order.
GenerateOrderNumber(w) ==
    /\ call[w].op = "numbering"
    /\ Granted(w)
    /\ LET o == call[w].order
       IN  Continue(w, [op |-> "create", order |-> o, left |-> Basket[o], dirty |-> NothingYet])
    /\ UNCHANGED <<status, stock, money>>

\* Bug: what others have reserved is not subtracted.
AvailableIgnoringReserved(w, t) == filled[t]

Available(w, t) == filled[t] - Seen(w, t)

CreateReserve(w) ==
    /\ call[w].op = "create"
    /\ call[w].left # <<>>
    /\ Granted(w)
    /\ LET item == Head(call[w].left)
       IN  Continue(w,
              IF Available(w, item.type) >= item.quantity
              THEN [op |-> "create", order |-> call[w].order, left |-> Tail(call[w].left),
                    dirty |-> WithUpdate(w, item.type, Seen(w, item.type) + item.quantity)]
              ELSE Idle)
    /\ UNCHANGED <<status, stock, money>>

CreateCommit(w) ==
    /\ call[w].op = "create"
    /\ call[w].left = <<>>
    /\ status' = [status EXCEPT ![call[w].order] = "OPEN"]
    /\ reserved' = Committed(w)
    /\ Continue(w, Idle)
    /\ UNCHANGED <<filled, money>>

--------------------------------------------------------------------------------
(* cancel: the read, then one transaction that releases every item.         *)

CancelRead(w, o) ==
    /\ MayStart(w, o)
    /\ status[o] = "OPEN"
    /\ Continue(w, [op |-> "cancel", order |-> o])
    /\ UNCHANGED <<status, stock, money>>

CancelBegin(w) ==
    /\ call[w].op = "cancel"
    /\ Granted(w)
    /\ Continue(w, [op |-> "finding", order |-> call[w].order])
    /\ UNCHANGED <<status, stock, money>>

\* orderItemRepo.find, on a second connection.
CancelFindItems(w) ==
    /\ call[w].op = "finding"
    /\ Granted(w)
    /\ LET o == call[w].order
       IN  \E items \in ItemsOf(o) :
              Continue(w, [op |-> "cancelling", order |-> o, left |-> items, dirty |-> NothingYet])
    /\ UNCHANGED <<status, stock, money>>

\* Bug: the last reservation is not released.
ReleasedOffByOne(n, quantity) == IF n > quantity THEN n - quantity ELSE n

Released(n, quantity) == IF n >= quantity THEN n - quantity ELSE n

CancelRelease(w) ==
    /\ call[w].op = "cancelling"
    /\ call[w].left # <<>>
    /\ Granted(w)
    /\ LET item == Head(call[w].left)
       IN  Continue(w, [op |-> "cancelling", order |-> call[w].order, left |-> Tail(call[w].left),
                        dirty |-> WithUpdate(w, item.type,
                                     Released(Seen(w, item.type), item.quantity))])
    /\ UNCHANGED <<status, stock, money>>

\* UPDATE orders; nothing compares the status read before.
CancelUpdate(w) ==
    /\ call[w].op = "cancelling"
    /\ call[w].left = <<>>
    /\ Granted(w)
    /\ Continue(w, [op |-> "cancelled", order |-> call[w].order, dirty |-> call[w].dirty])
    /\ UNCHANGED <<status, stock, money>>

\* findById, on a second connection once more, then COMMIT.
CancelCommit(w) ==
    /\ call[w].op = "cancelled"
    /\ Granted(w)
    /\ status' = [status EXCEPT ![call[w].order] = "CANCELLED"]
    /\ reserved' = Committed(w)
    /\ Continue(w, Idle)
    /\ UNCHANGED <<filled, money>>

--------------------------------------------------------------------------------
(* PATCH /orders/:id/status: it moves the order and leaves the stock alone. *)

UpdateStatusRead(w, o, s) ==
    /\ MayStart(w, o)
    /\ status[o] = "OPEN"
    /\ Continue(w, [op |-> "update", order |-> o, to |-> s])
    /\ UNCHANGED <<status, stock, money>>

UpdateStatusWrite(w) ==
    /\ call[w].op = "update"
    /\ Granted(w)
    /\ status' = [status EXCEPT ![call[w].order] = call[w].to]
    /\ Continue(w, Idle)
    /\ UNCHANGED <<stock, money>>

--------------------------------------------------------------------------------
(* confirmDelivery and settle.                                              *)

\* Bug: a settled order may be confirmed again.
ConfirmableAgain(o) == status[o] \in {"DELIVERED", "CUSTOMER_CONFIRMED", "COMPLETED"}

Confirmable(o) == status[o] = "DELIVERED"

ConfirmDeliveryRead(w, o) ==
    /\ MayStart(w, o)
    /\ Confirmable(o)
    /\ Continue(w, [op |-> "confirm", order |-> o])
    /\ UNCHANGED <<status, stock, money>>

\* Bug: order.customer_confirmed is not emitted.
ConfirmDeliveryWriteSilent(w) ==
    /\ call[w].op = "confirm"
    /\ Granted(w)
    /\ status' = [status EXCEPT ![call[w].order] = "CUSTOMER_CONFIRMED"]
    /\ Continue(w, Idle)
    /\ UNCHANGED <<stock, money>>

ConfirmDeliveryWrite(w) ==
    /\ call[w].op = "confirm"
    /\ Granted(w)
    /\ status' = [status EXCEPT ![call[w].order] = "CUSTOMER_CONFIRMED"]
    /\ Continue(w, [op |-> "settle", order |-> call[w].order])
    /\ UNCHANGED <<stock, money>>

SettleRead(w) ==
    /\ call[w].op = "settle"
    /\ Granted(w)
    /\ Continue(w, IF status[call[w].order] = "CUSTOMER_CONFIRMED"
                   THEN [op |-> "settling", order |-> call[w].order]
                   ELSE Idle)
    /\ UNCHANGED <<status, stock, money>>

\* 1. UPDATE orders: the row stays locked, COMPLETED is not visible yet.
SettleOrder(w) ==
    /\ call[w].op = "settling"
    /\ Granted(w)
    /\ Continue(w, [op |-> "completing", order |-> call[w].order])
    /\ UNCHANGED <<status, stock, money>>

\* 3. The station's row is locked and its revenue updated.
SettleStation(w) ==
    /\ call[w].op = "completing"
    /\ Granted(w)
    /\ \E items \in ItemsOf(call[w].order) :
          Continue(w, [op |-> "paying", order |-> call[w].order, left |-> items])
    /\ UNCHANGED <<status, stock, money>>

\* Bug: reserved_count may drop below zero.
DecreasedUnchecked(n, quantity) == n - quantity

\* Math.max(0, n - quantity)
Decreased(n, quantity) == IF n >= quantity THEN n - quantity ELSE 0

\* 4. commitReservation: a transaction of its own for every item.
CommitReservation(w) ==
    /\ call[w].op = "paying"
    /\ call[w].left # <<>>
    /\ Granted(w)
    /\ LET item == Head(call[w].left)
       IN  /\ filled' = [filled EXCEPT ![item.type] = @ - item.quantity]
           /\ reserved' = [reserved EXCEPT ![item.type] = Decreased(@, item.quantity)]
    /\ Continue(w, [op |-> "paying", order |-> call[w].order, left |-> Tail(call[w].left)])
    /\ UNCHANGED <<status, money>>

\* Bug: the wallet is credited before the transaction commits.
SettleCommitCreditFirst(w) ==
    /\ call[w].op = "paying"
    /\ call[w].left = <<>>
    /\ credited' = [credited EXCEPT ![call[w].order] = @ + 1]
    /\ Continue(w, [op |-> "credit", order |-> call[w].order])
    /\ UNCHANGED <<status, booked, stock>>

SettleCommit(w) ==
    /\ call[w].op = "paying"
    /\ call[w].left = <<>>
    /\ status' = [status EXCEPT ![call[w].order] = "COMPLETED"]
    /\ booked' = [booked EXCEPT ![call[w].order] = @ + 1]
    /\ Continue(w, [op |-> "credit", order |-> call[w].order])
    /\ UNCHANGED <<stock, credited>>

\* 5. creditWallet, after the commit (RiderWallet has its steps).
CreditWallet(w) ==
    /\ call[w].op = "credit"
    /\ Granted(w)
    /\ credited' = [credited EXCEPT ![call[w].order] = @ + 1]
    /\ Continue(w, Idle)
    /\ UNCHANGED <<status, stock, booked>>

--------------------------------------------------------------------------------
(* The staff, and what can go wrong.                                        *)

\* adjustStock looks at filled_count alone.
AdjustStock(t, delta) ==
    /\ world # "calm"
    /\ PoolIsFree
    /\ \A v \in Slots : Row(t) \notin Holds(v)
    /\ filled[t] + delta \in 0 .. MaxFilled
    /\ filled' = [filled EXCEPT ![t] = @ + delta]
    /\ UNCHANGED <<world, pool, status, reserved, money, call, connected>>

\* The request is refused after its read: wrong OTP, wrong actor, out of place.
Abandon(w) ==
    /\ call[w].op \in {"update", "confirm", "cancel"}
    /\ w \notin connected
    /\ Continue(w, Idle)
    /\ UNCHANGED <<status, stock, money>>

\* The open transaction is rolled back; what is left of a settlement is only
\* logged (handleConfirmed's catch) or forgotten with the pod.
Crash(w) ==
    /\ world # "calm"
    /\ call[w] # Idle
    /\ Continue(w, Idle)
    /\ UNCHANGED <<status, stock, money>>

\* PostgreSQL aborts a transaction that waits in a cycle.
DeadlockVictim(w) ==
    /\ InCycle(w)
    /\ Continue(w, Idle)
    /\ UNCHANGED <<status, stock, money>>

\* Bug: who waits for a connection waits for ever.
PoolTimeoutNever(w) == FALSE /\ UNCHANGED vars

\* connectionTimeoutMillis: no connection came free, so the request fails and its
\* own transaction is rolled back; what commitReservation did before stays.  Who
\* has a connection waits for row locks without a limit.
PoolTimeout(w) ==
    /\ NeedsConnection(w)
    /\ ~ PoolIsFree
    /\ Continue(w, Idle)
    /\ UNCHANGED <<status, stock, money>>

--------------------------------------------------------------------------------
Request(w) ==
    \E o \in Orders :
        \/ CreateBegin(w, o)
        \/ CancelRead(w, o)
        \/ \E s \in PatchTargets : UpdateStatusRead(w, o, s)
        \/ ConfirmDeliveryRead(w, o)

Proceed(w) ==
    \/ Connect(w)
    \/ GenerateOrderNumber(w)
    \/ CreateReserve(w)
    \/ CreateCommit(w)
    \/ CancelBegin(w)
    \/ CancelFindItems(w)
    \/ CancelRelease(w)
    \/ CancelUpdate(w)
    \/ CancelCommit(w)
    \/ UpdateStatusWrite(w)
    \/ ConfirmDeliveryWrite(w)
    \/ SettleRead(w)
    \/ SettleOrder(w)
    \/ SettleStation(w)
    \/ CommitReservation(w)
    \/ SettleCommit(w)
    \/ CreditWallet(w)
    \/ DeadlockVictim(w)
    \/ PoolTimeout(w)

Next ==
    \/ \E w \in Slots : Request(w) \/ Proceed(w) \/ Abandon(w) \/ Crash(w)
    \/ \E t \in Types, delta \in Deltas : AdjustStock(t, delta)

Spec == Init /\ [][Next]_vars

\* An awaited call returns; the queue of a row lock is served in order, so who
\* waits gets the row though others keep asking for it.
FairSpec == Spec /\ \A w \in Slots : SF_vars(Proceed(w))

--------------------------------------------------------------------------------
(* Properties.                                                              *)

Quantity(items, t) ==
    SumFunction([i \in DOMAIN items |-> IF items[i].type = t THEN items[i].quantity ELSE 0])

\* What the orders that are not handed over yet need.
Demand(t) ==
    SumFunction([o \in {p \in Orders : status[p] \in {"OPEN", "DELIVERED"}} |->
                    Quantity(Basket[o], t)])

\* No cylinder is sold twice: the shelf holds what the open orders need.
NoOversell == \A t \in Types : Demand(t) <= filled[t]

\* Reservations are what prevents it: while nobody races on one order they cover
\* every open order and are covered by the shelf, also after crashes and timeouts
\* in the middle of anything.
ReservationsBacked ==
    world # "racing" => \A t \in Types : Demand(t) <= reserved[t] /\ reserved[t] <= filled[t]

\* adjustStock refuses to make the filled count negative.
FilledNeverNegative == \A t \in Types : filled[t] >= 0

\* Releases and commits that race never take reserved_count below zero.
ReservedNeverNegative == \A t \in Types : reserved[t] >= 0

\* What an order still has on reserve.
Owed(o, t) ==
    IF status[o] \in {"OPEN", "DELIVERED", "CUSTOMER_CONFIRMED"}
    THEN IF \E w \in Slots : call[w].op = "paying" /\ call[w].order = o
         THEN Quantity((CHOOSE c \in {call[w] : w \in Slots} :
                            c.op = "paying" /\ c.order = o).left, t)
         ELSE Quantity(Basket[o], t)
    ELSE 0

Sold(o, t) ==
    IF status[o] \in {"CUSTOMER_CONFIRMED", "COMPLETED"}
    THEN Quantity(Basket[o], t) - Owed(o, t)
    ELSE 0

\* Nothing crashes, and nothing is cut short for want of a connection: no request
\* uses more than two.
Undisturbed == world = "calm" /\ pool >= 2 * Cardinality(Slots)

\* Undisturbed, every cylinder is accounted for: what is reserved is
\* what the orders have on reserve, what has left the shelf is what was sold.
EveryCylinderAccounted ==
    Undisturbed =>
    \A t \in Types :
        /\ reserved[t] = SumFunction([o \in Orders |-> Owed(o, t)])
        /\ filled[t] = InitialStock[t] - SumFunction([o \in Orders |-> Sold(o, t)])

\* settle is idempotent: an order's earnings are paid out once.
SettledOnce == \A o \in Orders : booked[o] <= 1 /\ credited[o] <= 1

\* It is, while every order has one writer.
OrderlySettledOnce == world # "racing" => SettledOnce

\* The rider is paid for settlements that were committed, and only for those.
CreditFollowsSettlement == \A o \in Orders : credited[o] <= booked[o]

\* No money is lost: a settled order is paid out, or about to be.
NoMoneyLost ==
    \A o \in Orders :
        credited[o] < booked[o] => \E w \in Slots : call[w].op = "credit" /\ call[w].order = o

\* Undisturbed, an order that is confirmed is completed and its rider paid.
SettlementCompletes ==
    Undisturbed => \A o \in Orders : status[o] = "CUSTOMER_CONFIRMED" ~> credited[o] = 1

\* Waiting ends, for locks and for connections: every request is answered, whatever
\* order it locks rows in and however many transactions hold the connections that
\* they and others wait for.
RequestsFinish == \A w \in Slots : call[w] # Idle ~> call[w] = Idle
================================================================================
