# PowerGas: a TLA+ verification

PowerGas sells LPG cylinder refills: a customer orders, a station reserves and
prepares, a rider carries, the customer confirms with a one-time password, and
the money is split between station, rider and platform. The backend
(`src/backend/src`, NestJS on PostgreSQL) runs as several pods behind a proxy.
Each request is an `async` function whose database calls interleave with those
of every other request, on the same pod and on others; events
(`order.delivered`, `payment.completed`, ...) call listeners in the same process
and are kept nowhere. A web console and two mobile apps are its clients. This
directory holds models of that behaviour, the TLC instances that check them and
the TLAPS proofs about them.

Paths below are under `src/backend/src/` unless they start with `src/`.

## 1. The system

| component | state | operations | talks to | correct when |
|---|---|---|---|---|
| Order lifecycle and dispatch (`orders/orders.service.ts`, `orders/events/order-event.listener.ts`) | `orders.status`, `rider_id`, `otp_verified`, `delivery_tier`; `riders.status` | `updateStatus`, `acceptOrder`, `assignRider`, `attachNearbySameStationOrders`, `confirmDelivery`, `cancel`, `releaseRiderIfFree` | writes riders' rows; emits `order.*`; the listener calls it back | every status change is an edge of the map; an order has one rider for good; a rider is BUSY exactly while carrying |
| Stock (`inventory/inventory.service.ts`, reserve and release in `orders.service.ts`) | `filled_count`, `reserved_count` per station and type | `reserveInventory`, `releaseInventoryReservation`, `commitReservation`, `adjustStock` | called by `create`, `cancel`, `settle` and the station's staff | what is promised is on the shelf; every reservation ends in a sale or a release |
| Settlement (`orders/settlement.service.ts`) | `orders.status`, the earnings, `gas_stations.total_revenue` | `settle` | listener of `order.customer_confirmed`; stock; wallet; commission | each confirmed order is paid out once |
| Rider wallet (`riders/riders.service.ts:96-139`) | `rider_wallets`, `wallet_transactions` | `creditWallet`, `requestWithdrawal` | called by `settle` and the rider | never overdrawn; the ledger explains the balance |
| Rider availability and verification (`riders/riders.service.ts`) | `riders.status`, `verification_status` | `setAvailability`, `reviewVerification` | read by `acceptOrder`, written by `assignRider` and the listener | only reviewed riders carry |
| Batching job (`orders/batching.service.ts`) | `delivery_batches`, `orders.batch_id` | `runBatchingCycle`: cluster, then match | calls `assignRider` | a batch is what its row says |
| Payments (`payments/`, `orders/events/payment-event.listener.ts`) | `payments.status`, `reference`, `idempotency_key`, `retry_count`; `orders.payment_status` | `initiate`, `verify`, `handleWebhook`, `retryFailed` | Paystack and mobile money; emits `payment.completed` | charged once per key; what counts as paid was collected |
| Change requests (`change-requests/`) | `order_change_requests`; `orders.total` | `create`, `approve`, `reject`, `handlePaymentCompleted` | payments, both ways | what was approved was paid, is in the total once, and is split if it was approved before the settlement |
| Order intake (`orders.service.ts:46-107, 607-611`) | `order_number`, `idempotency_key` | `create` | customer app | one order per request |
| Commission (`admin/admin.service.ts:31-45`) | `platform_commissions` | `setCommission`; read by `getCommissionPercent` | settlement | one active rule per scope, the one last set |
| Sessions (`auth/`, `src/frontend/src/services/api.ts`) | `refresh_tokens`; the browser's cookie; a tab's access token | `login`, `refreshTokens`, `logout`, sign-out button | browser | an exchanged token is spent; a refresh ends no session |
| Accounts and codes (`auth/`, `users/`) | `users.status`, failed logins, lock; `otp_records` | `register`, `validateUser`, `sendPhoneOtp`, `verifyOtp`, `suspend` | SMS | the lock counts failures; only the newest code works |
| Tracking (`tracking/`, the two apps) | `order_tracking_events`; socket rooms in the memory of a pod; state of both apps | `recordLocation`, `handleConnection`, `subscribe_order`, `useLocationSharing`, `TrackingScreen` | the proximity check reads the last position | the customer sees a rider who shares; sharing ends with the delivery |
| Stations and staff (`stations/`) | codes, signals, strikes; `gas_station_staff` | `create`, the PATCHes, `reportFalseAvailability`, `assignStaff`, `removeStaff`, `resolveStationForUser` | console | codes are free; strikes are the reports; a user sees a station he works at |
| Customers (`customers/`) | profile, addresses | `findByUserId`, `addAddress`, `updateAddress`, `deleteAddress` | app | one default, the one chosen |
| Prices (`inventory.service.ts:28-48, 95-107`) | `price`, `pricing_history` | `setPricing` | console | the price is the last one recorded |
| Disputes, reviews, files (`disputes/`, `reviews/`, `files/`) | records; objects in a bucket | open, assign, resolve; review; upload | emits `dispute.resolved` | what is announced is so; a row has its object |
| Notifications, reports, settings, framework, database set-up, deployment | - | - | - | - |

What is hard here:

* **stale reads**: `updateStatus`, `confirmDelivery`, `cancel` and `settle` check
  a row they read earlier and then `UPDATE ... WHERE id`; so do most other services;
* **two-step decisions**: `releaseRiderIfFree` counts and then sets; order numbers,
  station codes, strikes and failed logins are read, counted and written; defaults,
  commission rules and codes are cleared first and set next;
* **events**: `order.cancelled` is emitted before its COMMIT, `payment.completed`
  may come before the reference it is matched with is stored, and a crash between
  an event and its listener loses the event;
* **connections inside transactions**: `settle` calls `commitReservation`, which
  wants a connection of its own; `create` counts the orders and `cancel` finds the items and
  re-reads the order through a repository and not through their manager, on a second
  connection as well; `settle` credits the wallet after its own COMMIT;
* **row locks in an order the data decides**: two baskets can cross;
* **two parties that fail on their own**: the payment provider, the phones;
* **input nobody validates**: the amount of a withdrawal, the optional keys.

`PROJECT.json` lists the hazards, each at its line with the properties aimed at it.

## 2. The modules

| module | what it is | state it keeps |
|---|---|---|
| `OrderStates` | the enums, the transition map, the sets of statuses the services compare with, the statuses the two shipped clients send | - |
| `OrderLifecycle` | abstract: an order walks the map, is bound to one rider, can be cancelled before pickup; one step each | `status`, `riderOf` |
| `Dispatch` | `updateStatus`, `acceptOrder`, `assignRider`, bundling, `confirmDelivery`, the status half of `settle`, `cancel`, the listeners, `setAvailability`, `reviewVerification` | `status`, `riderOf`, `tier`, `otpVerified`, `riderStatus`, `verification`, `call` |
| `Batching` | extends `Dispatch`: the job of one or several pods beside all of it | `batch`, `batchOf`, `cycle`, `alone`, `query` |
| `Fulfilment` | the stock half of `create` and `cancel`, `updateStatus` as it concerns them, `confirmDelivery`, all of `settle`, `commitReservation`, `adjustStock`, with row locks held across statements, PostgreSQL's deadlock detection and the connection pool, from which `create`, `cancel` and `settle` each want a second connection | `world`, `pool`, `status` (by class), `filled`, `reserved`, `booked`, `credited`, `call`, `connected` |
| `RiderWallet` | `creditWallet`, `requestWithdrawal` with whatever amount its endpoint lets through | `wallet`, `ledger`, `lock`, `tx` |
| `Requests` | what the modules below share: slots, the three worlds, a request cut short | `world`, `call` |
| `Payments` | initiation with or without a key, verification, webhooks, the retry job, the mirror of the order; the provider as an external party | `payment`, `provider`, `paymentStatus` |
| `Escrow` | abstract: a change that is paid for joins the total in the step that approves it, the settlement splits what the total is by then | `response`, `total`, `split` |
| `ChangeRequests` | extends `Payments`: `create`, `approve`, `reject`, the listener, and `settle` as a reader of the total | `status`, `reference`, `total`, `split`, `hearing` |
| `Accounts`, `Sessions`, `Commission`, `Stations`, `StationStaff`, `Customers`, `Catalogue`, `Disputes`, `Intake`, `Files` | one service each, on top of `Requests` | their tables |
| `Tracking` | one delivery: rider app, gateway, customer screen, the two requests that end it | `status`, `latest`, `recorded`, `rider`, `sent`, `screen`, `expired`, `faults` |
| `DispatchProofs`, `BatchingProofs`, `FulfilmentProofs`, `ChangeRequestsProofs`, `RiderWalletProofs`, `TrackingProofs`, `ServicesProofs` | theorems and their proofs; `BatchingProofs` extends `DispatchProofs`, `ServicesProofs` is about `MCServices` and the ten modules it puts together with the wallet | - |
| `SumTheorems` | what sums over finite sets are, for `FulfilmentProofs` and `ChangeRequestsProofs` | - |
| `MCDispatch`, `MCFulfilment`, `MCBatching`, `MCChangeRequests`, `MCServices`, `MCTracking` | instances for TLC | - |

`Dispatch` and `Fulfilment` look at the same handlers from two sides: who may do
what to an order, and what happens to stock and money meanwhile. They share the
operation names; `Fulfilment` knows statuses only by the classes `cancel`,
`confirmDelivery` and `settle` distinguish, and needs no riders. `RiderWallet`
opens up the one step `CreditWallet` of `Fulfilment`. `Intake` is the part of `create`
that `Fulfilment` leaves out, `Commission` what `settle` looks up.

### How a handler becomes actions

A *slot* serves one request and the listeners that request triggers.
`call[w]` is the slot's program counter together with the local variables that
live across its `await`s. Every database or network call that other requests can
tell apart is an action; between two actions of a slot every other slot may run.
So `updateStatus` is `UpdateStatusRead` (read, check the map), then possibly
`Abandon` (the position check refuses), then `UpdateStatusWrite` (the
unconditional UPDATE, history row, re-read and emit); `cancel` is `CancelRead`,
`CancelWrite` (UPDATE inside the transaction, not visible yet), the listener's
`CancelListenerCount` and `CancelListenerSet`, which may run before or after
`CancelCommit`; in `Fulfilment` the same `cancel` is `CancelBegin`, `CancelFindItems`, a
`CancelRelease` for every item, `CancelUpdate` and `CancelCommit`. `initiate` is `InitiateFind`, `InitiateSave`, `InitiateCharge`,
`InitiateUpdate`, `InitiateAnswer`; `approve` is its own check, all of those, and
`ApproveStore`.

A transaction's uncommitted writes live in `call[w]` and reach the tables at its
commit. A row it has locked blocks other writers and no reader (READ COMMITTED).
`assignRider`'s transaction is two conditional UPDATEs and a COMMIT, all or
nothing and with nobody able to see the middle, hence one step. Bundling claims
one transaction per candidate, hence one step per candidate.

The pool of a pod has 20 connections, and who does not get one within 3 s fails
(`config/database.config.ts:18-19`). A transaction keeps the connection it began on
(`InTransaction`). A statement outside it needs one for itself (`NeedsConnection`): those that
may wait for a row lock on it get it in a step of their own (`Connect`, the variable
`connected`) and have it while they wait, the others borrow it for the step they are.
Waiting for a connection ends with `PoolTimeout`; waiting for a row lock has no limit.

### Worlds

Much of this code is right when requests follow each other and wrong when they
overlap, and its documents promise nothing about the difference. Instead of
dropping such properties or the races, the modules on `Requests` choose a
`world` once, in `Init`:

* `calm`: requests wait for each other and none is cut short, what a single-user
  test would see. That is all it means: every request the code accepts may come,
  in any order. (The one guard beyond that is `Tracking!KillRiderApp`: in a calm
  world the rider does not close the app while it is to learn that the delivery
  is over.)
* `serial`: they wait for each other, and any of them may end after any of its
  calls (the pod dies, a call fails, the answer is lost);
* `racing`: they interleave at every await as well.

A property named `Calm...` or `Serial...` says from which world on it holds; one
without prefix holds in all three. All three are in every run, so that each
action fires in the racing world too. `Fulfilment` has `calm`, `orderly` (one
writer per order, crashes) and `racing`; `Dispatch` has the constants `AllowCrash`,
`AllowCancel` and `OneWriterPerOrder`; `Batching` has `alone`, whether cycles overlap.

### What is abstracted

* An UPDATE, the status history it writes, the re-read and the emit that follow
  it in one handler are one step. What the emitted event's listener does is
  steps of its own.
* The position check of `updateStatus`, a wrong OTP and a wrong actor are one
  action, `Abandon`: the request may be refused after its read.
* `orders.version` and the other version columns are incremented by TypeORM and
  compared nowhere, so they are not state.
* Earnings are whole minor units (`toFixed(2)`), and so is everything the columns hold
  (`numeric(15, 2)`). The amount of a withdrawal is not: `@Body('amount')` in
  `riders/riders.controller.ts:61` has no DTO and no pipe converts it, so numbers below
  zero, fractions of a unit and text arrive. `RiderWallet` keeps of such an amount the
  units below it, where the rest lies (none, less than a half, a half, more) and whether
  it is text. A column rounds what it is given; a half that was computed may fall to
  either side. Text is a number to `<` and `-` and digits to `+`: the total it is appended to
  becomes any of `Misread`. What is no number at all (null, an object, NaN)
  fails the UPDATE or the INSERT and is rolled back, as a refusal is.
* `Fulfilment` counts how often an order's earnings were paid, not how much they
  are, and takes every delivered order to have a rider with a share.
* Positions are places: on the road, and near enough for the proximity check. A fix
  comes whenever the phone has moved ten metres (`distanceFilter`, `useLocationSharing.ts:45`),
  so a rider at rest sends none.
  Batches form from any group of candidates up to the maximum: the distances
  `haversineKm` compares are data.
* `findNearestAvailable` uses HAVING on an alias without GROUP BY, which
  PostgreSQL rejects. `Batching` has both answers, `query = "rejected"`, as
  today, and `query = "works"`, as it is meant; its properties hold under either.
* The provider keeps what its interface says: a charge it was asked for is at some
  time collected or refused for good, and every question is answered with that. The
  clients in `payments/providers/` are placeholders that answer "completed".
* The key of an initiation is optional (`payments/dto/initiate-payment.dto.ts:28-31`):
  `ClientKeys` is what clients send for the order, and `NoKey` among them is none. Without a
  key nothing is looked up and every initiation charges. The column is not unique
  (`payments/entities/payment.entity.ts:19`), so a key alone prevents no second row either.
* `created_at` of a staff link is its place in the order of insertion (`since`); a
  revived link keeps it, as the row does. `posted` is what the admin gave a user and did not
  take away: the comment "A user can belong to one station"
  (`stations/entities/gas-station-staff.entity.ts:7`) is enforced nowhere.
* TypeORM leaves out a find condition that is `null`: the fallback of
  `getCommissionPercent` is modelled as any active rule.

## 3. The runs

Every run names the bounds it sets in its `.cfg`. Symmetry is used for slots
(and riders, where they are interchangeable), and for none of the liveness runs.

| run | instance | what it asks |
|---|---|---|
| `racing` | `Dispatch`: 1 order, 2 riders who toggle, admins who change their verdict, 3 requests that race, cancellations, crashes; the statuses the shipped clients send | `TypeOK`; `ActiveHasRider`: no stale write puts an order under way, delivered or settled without a rider; `NothingHalfAssigned`: a BUSY rider is bound to something; `ConfirmedWithOtp`: settlement is reached through `confirmDelivery` only; `OnlyReviewedRidersCarry`; `RiderNeverReplaced` |
| `onewriter` | `Dispatch`: 2 orders, 2 riders, 3 requests, hand assignment, cancellations, crashes, one writer per order | `ImplementsLifecycle`: `Dispatch` implements `OrderLifecycle` |
| `release` | `Dispatch`: 2 orders of both tiers, 2 riders, 2 requests, fair, no cancellation, no crash | `NoStrandedRider` (nobody is BUSY for nothing unless somebody is about to free them), `RiderIsFreed` (they are) |
| `stock` | `Fulfilment`: 2 orders sharing a type that is short, 2 requests, the worlds `racing` and `orderly`, a pool of 2 connections or of 8 | `TypeOK`, `ReservedNeverNegative`, `CreditFollowsSettlement`; `ReservationsBacked` and `OrderlySettledOnce` in the orderly world |
| `settling` | `Fulfilment`: 3 orders, two of them crossing, 3 requests, fair, calm, a pool of 2 or 6 | `EveryCylinderAccounted`, `SettlementCompletes` with connections for all; `RequestsFinish` with both pools: every wait ends, for locks that cross and for a pool that two creations, cancellations or settlements use up |
| `changes` | `ChangeRequests`: one order paid without a key and one change, raised at any time, 2 payments, 2 requests, one retry | `ApprovedMeansPaid` and `PaidMeansCollected` in every world; `SerialChargesOnce`: one payment per key; `CalmBooksBalance`, `ImplementsEscrow` |
| `batching` | `Batching`: 2 orders, 2 riders, 1 request of dispatch, 2 pods that run the job, crashes | `CountIsTrue`, `BatchKept` |
| `services` | ten services and the wallet, 2 requests each (3 on the wallet) | below |
| `tracking` | `Tracking`: 1 pod, 2 messages at once, 2 places, 1 fix waiting, 2 faults, fair | `ShownIsRecorded`; `CalmLatestIsCurrent`; `CalmSharingEnds`; `PositionArrives`: a customer who watches a rider who shares and keeps moving hears of him, after every dropped connection, crash and restart |

`services` puts eleven modules that share no tables into one instance. `focus`,
chosen in `Init`, says which of them moves in a behaviour, and the others stay at
their initial states: the states are the sum of eleven small systems, not their
product, and nothing is lost because no action of one module reads another's
variables. Its conjunctive properties have one conjunct per service, and each such
conjunct a mutant of its own: `SerialOnlyOne` (one rule of a scope, one default
address, one usable code, one token for a token), `CalmAnswersHold` (what a
console was told it had set is what readers find), `SerialCountsAreTrue` (codes and
numbers are free, strikes are the reports), `ToldIsSo` (an answered order, a
file's object, an announced resolution exist). `ParentsAreRevoked` holds in every
world: exchanging a token ends it, also when two tabs do it at once and a pod
dies between the two writes. `CalmCookieIsNewest`: a refresh does not sign anybody out.
`CalmCountIsTrue`: the lock counts wrong passwords in a row and does not come early.
`NoOverdraft` holds for every amount a withdrawal may ask for, `LedgerExplainsBalance` up to the
unit by which the rounding of a half can part a debit from its balance, and `TotalsKeepStep` for
credits and for withdrawals of whole amounts given as numbers: a fraction may be rounded
differently in the balance and the total, and text is appended to `total_withdrawn` and not
added (`riders/riders.service.ts:130`), so that from then on the totals explain nothing.
`CalmAnswersHold` asks of the staff that a console shows a station its user works at, and none
if he works at none; which of several it shows is the newest link, and assign A, remove A,
assign B, assign A shows B, for a revived link keeps its date.

Three runs show where the code does not do what its own comments say. Each
checks one property and TLC finds the counterexample:

| run | property | the shortest story |
|---|---|---|
| `doublebooked` | `AvailableRiderCarriesNothing` | a rider accepts and is about to bundle; the first order is delivered and its listener counts none active; the bundle claims a second; the listener sets AVAILABLE |
| `twice` | `SettledOnce` | two confirmations race, both settle, both pay |
| `repeated` | `OneOrderPerKey` | a request is sent twice with one key, the second time before the first was answered, and two orders are made; after the answer it is the same |

Further instances lie beside them. Each refutes one more statement of a comment,
document or error message, or a promise one would expect; they are kept small for
whoever mends that part of the code:

| instance | property | the shortest story |
|---|---|---|
| `MCDispatch_terminal.cfg` | `TerminalIsFinal` | a PATCH reads PENDING, a cancellation commits, the PATCH writes ACCEPTED over CANCELLED (`src/docs/ARCHITECTURE.md:55`: every transition is validated) |
| `MCDispatch_stranded.cfg` | `NoStrandedRider` | the listener of `order.cancelled` counts before the COMMIT, finds the order active and gives up; nobody frees the rider afterwards |
| `MCDispatch_cap.cfg` | `BatchCap` | orders already under way are not counted, so a rider with three takes a fourth |
| `MCDispatch_staff.cfg` | `OnlyReviewedRidersCarry` | `PATCH assign-rider` does not look at the verification |
| `MCFulfilment_oversold.cfg` | `NoOversell` | two cancellations of one order both pass the check and both release, the second somebody else's cylinder |
| `MCFulfilment_negative.cfg` | `FilledNeverNegative` | staff write off a reserved cylinder, then its order settles |
| `MCFulfilment_patched.cfg` | `EveryCylinderAccounted` | `PATCH status CANCELLED` leaves the reservation in place |
| `MCFulfilment_lost.cfg` | `NoMoneyLost` | a crash between the settlement's COMMIT and `creditWallet` |
| `MCBatching_claimed.cfg` | `AssignedBatchIsClaimed` | the rider found for a batch accepts something else first; every claim is skipped and the batch becomes ASSIGNED all the same |
| `MCTracking_pods.cfg` | `PositionArrives` | rider and customer are connected to different pods, each with rooms of its own (`src/docs/ARCHITECTURE.md:7`: horizontally scalable) |
| `MCTracking_status.cfg` | `ScreenFollowsStatus` | nothing calls `emitOrderStatusUpdate`, so a screen keeps the status it was opened with: one opened before RIDER_ARRIVED_DELIVERY never shows the box for the code. One opened at RIDER_ARRIVED_DELIVERY does show it (`TrackingScreen.tsx:119`) and can confirm, though it never learns of DELIVERED |

### Why these bounds

A race in this code is between two requests on one row, or between two requests
and a listener: two slots show the pairs, three the case of a pair plus one that
profits. One order is enough for races on one order; two per rider are the least at
which "other active orders" means anything; `MCDispatch_cap` needs one more than
the cap of three. In stock, two types and two crossing baskets are the least for
a lock cycle, the third order is the one that finds the shelf empty, and a pool
of two is the least that requests can exhaust (each needs two; one alone gets through).
Six connections are enough for three requests and eight for two. Payments are two: for one thing
to be charged twice in place of the other, or twice without a key. That a client does send a
key for the order is not in the run (with it, the run takes more than four minutes and
finds nothing else: the lookup is the one the change's key takes); the theorems are about any
`ClientKeys`. Sessions need three tokens for a token, its
successor and a rival. A ledger of two entries has a link from one to the next. Tracking needs two
places because the gate tells two apart, and two faults for one to follow the other.

Counters that would grow are bounded by constants named for it: `MaxEntries`,
`MaxFilled`, `MaxFailures`, `MaxStrikes`, `MaxRatings`, `MaxUnsent`,
`MaxFaults`, `NumTokens`, `NumCodes`, `NumRules`, `NumStations`, `NumAddresses`,
`NumOrders`. `MAX_LOGIN_ATTEMPTS`, `MAX_OTP_ATTEMPTS` and `MaxRetries` are the code's
own limits, made smaller than its 5, 5 and 3.

`CHECK_DEADLOCK FALSE` is set everywhere: when all orders are completed or
cancelled, or a bound is reached, the instance has nothing left to do. That
requests do not wait for each other for ever is checked as `RequestsFinish`.

### Fairness

`Dispatch` has `WF_vars(Proceed(w))`: an awaited call returns, so a handler under way
takes its next step. No fairness is put on requests, toggles, refusals or
crashes: no client is obliged to act. `Fulfilment` has `SF_vars(Proceed(w))`, because a
request may be granted a row, lose it to a release and another request, and so on:
PostgreSQL queues waiters per row and serves them in order, and so does the pool with those who wait
for a connection, so a request that could get what it waits for again and again does get
it; the deadlock detector and the pool's timeout of 3 s are part of `Proceed`. The liveness runs exclude crashes: the code has no
recovery (the listener's `catch` logs and forgets), so with them the promises are
false, as `MCFulfilment_lost.cfg` shows. `SettlementCompletes` and `EveryCylinderAccounted`
further assume two connections for every request (`Undisturbed`): a settlement that cannot get its
second connection fails after 3 s, does not put back what `commitReservation` took off the
shelf, and is not repeated.

`Tracking` is fair to the machinery and to nobody else: sockets reconnect
(Socket.IO does so by default), messages are handled, an app that was opened loads its
active order. Faults are
limited by `MaxFaults` and never owed; a token that runs out, a screen that is left and
an app that is closed end the promise.

No fairness is put on positions, since nothing makes a rider move and the last
position is not sent to who subscribes. `PositionArrives` says it as a premise instead:
`KeepsMoving`, that fixes keep coming while the app is able to send them. A rider at rest, say at the
station while the cylinder is filled, shows nothing to a customer who opens the screen then.

`RequestsFinish` needs one writer per order. With two, TLC finds a wait nobody
can break: a stale `cancel` holds a stock row and waits for the order's row;
`settle` holds the order's row while `commitReservation`, on another connection,
waits for the stock row. PostgreSQL sees two transactions and no cycle, and the pool's
timeout concerns nobody who has a connection. No passing property covers that wait.

## 4. The refinements

* `Dispatch` implements `OrderLifecycle` (same variables): checked in
  `onewriter`, proved as `LifecycleImplemented`.
* `Dispatch` with the job implements it as well: proved as `LifecycleBesideJob`.
* `ChangeRequests` implements `Escrow` while nothing races: `ImplementsEscrow`, checked in
  `changes`, proved as `EscrowImplemented`. The
  mapping `InEscrow` shows a change as APPROVED only when the listener has written the
  total: the step that writes the total is the abstract `Approve`, all other steps of
  `approve`, `initiate`, `verify` and the listener are stutters. In the other worlds the mapping
  is constant and says nothing, because the code does not keep the promise there: two
  listeners lose an amount, and a settlement that overlaps a listener splits the total before it.

  `Escrow` promises what the code gives when requests follow each other, which is less than the
  comment on `approve` says (`change-requests/change-requests.service.ts:55-57`: the approved amount
  folds into the total, "which SettlementService later splits"). `create` looks at the station of the
  order and not at its status, so a change may be raised and approved after the settlement:
  it is charged, joins the total and is never split. `reject` looks at the status of the
  change and not at its reference, so a change may be rejected when its charge is open: what is
  then collected stays with the platform and is in no total. Neither takes a race; `CalmBooksBalance`
  names the second as its exception.

## 5. The proofs

Every invariant, action property and refinement that a passing run checks is also a
theorem, for every value of the constants the modules' named assumptions allow
(`DispatchAssumption`, `FulfilmentAssumption`, ...; TLC evaluates them in every run).
A theorem that needs more says so in its statement; the tables give the reason. Few
of the properties are inductive: a handler acts on what it read some awaits ago, so an
inductive invariant has to say what every handler under way still relies on. That is
what each of the names below adds.

### `DispatchProofs`: any finite set of orders, any riders, slots and batch cap

| theorem | says | under |
|---|---|---|
| `TypeCorrect` | `[]TypeOK` | - |
| `RiderNeverReplacedHolds` | `RiderNeverReplaced` | - |
| `ActiveHasRiderHolds` | `[]ActiveHasRider` | no client PATCHes RIDER_ASSIGNED |
| `ConfirmedWithOtpHolds` | `[]ConfirmedWithOtp` | no client PATCHes CUSTOMER_CONFIRMED or COMPLETED |
| `NothingHalfAssignedHolds` | `[]NothingHalfAssigned` | riders do not declare themselves BUSY |
| `OnlyReviewedRidersCarryHolds` | `[]OnlyReviewedRidersCarry` | the station does not assign by hand (`MCDispatch_staff.cfg` shows why) |
| `LifecycleImplemented` | `Spec => Lifecycle!Spec` | shipped clients and one writer per order (`MCDispatch_terminal.cfg` shows why) |
| `NoStrandedRiderHolds` | `[]NoStrandedRider` | the same, no cancellation (`MCDispatch_stranded.cfg` shows why), no crash, riders do not declare themselves BUSY |

* `ActiveHasRider` is not inductive: a stale `updateStatus` writes a status it
  chose long before. `BoundInv` adds that a handler about to write a rider-bound
  status works on an order that has a rider; a rider is never taken away, so the
  fact outlives any amount of waiting. `OtpInv` does the same for the password.
* `OnlyReviewedRidersCarry` becomes inductive as `ReviewedInv`: the riders for
  whom a claim or a bundling is under way are reviewed too. No admin's verdict
  leads back to PENDING (`DispatchAssumption`: `Reviews` excludes it).
* The refinement rests on `CurrentInv`: at most one slot is going to write an
  order (`Exclusive`), and what that slot has read of it is still true. The one thing
  that moves an order without being a writer is a claim, and it only changes
  PREPARING into RIDER_ASSIGNED, which leaves a cancellation's check true
  and which no shipped update starts from (`ClaimKeepsCurrent`).
* `NoStrandedRider` lets a bundling count as somebody who will free the rider, and
  a bundling may end without an order: not inductive. `FreedInv` says that a BUSY rider
  who carries nothing is met by a handler that counts or frees (`release`, `free`),
  and `FreedAfter` that whoever takes the last order off a rider goes on as such a
  handler. The run `release` lets no rider toggle and no station assign; the theorem does.

### `BatchingProofs`: the same, and any pods, batches and cycles

The theorems of `DispatchProofs` hold beside the job, by the same invariants: every step is
one of dispatch or one of the job (`JobOrDispatch`), and the job keeps each
of them (`JobKeepsBound`, `JobKeepsOtp`, `JobKeepsHalf`, `JobKeepsCurrent`,
`JobKeepsFreed`; `ChosenReviewed` for the rider a cycle has chosen and not yet claimed). So
`RiderNeverReplacedByJob`, `ActiveHasRiderBesideJob`, `ConfirmedWithOtpBesideJob`,
`NothingHalfAssignedByJob`, `OnlyReviewedRidersCarryBesideJob`, `LifecycleBesideJob` and
`NoStrandedRiderBesideJob`, under the hypotheses above.

`CountIsTrueHolds` and `BatchKeptHolds` rest on `BatchesInv`: while cycles do not overlap,
what a cycle has still to put into batches is in none, and a batch saved for a
group is empty until the group is told, so the UPDATE takes no order out of
another batch and fills an empty one. `BatchingTyped` adds to the types that a
cycle matches batches that were saved.

### `FulfilmentProofs`: any orders, baskets, types, requests and pool sizes

* `TypeCorrect`, `ReservedNeverNegativeHolds` and `CreditFollowsSettlementHolds`, in every
  world. `ReservedInv`: also what a transaction has written and not yet committed is
  not negative; the guards of `Released` and `Decreased` do the rest. `MoneyInv`: the
  credits given together with the credits that handlers are about to give are no more
  than the settlements committed; a credit under way is a slot, so it is a cardinality.
* `OrderlySettledOnceHolds`, by `OnceInv`: while every order has one writer, an order
  was booked only when it is COMPLETED, and a handler that is about to settle it works on one
  that is not.
* `ReservationsBackedHolds`, if the staff only adds cylinders (`Deltas \subseteq Nat`;
  `MCFulfilment_negative.cfg` shows why), and `EveryCylinderAccountedHolds`, for finitely many
  orders if no client PATCHes CANCELLED (`MCFulfilment_patched.cfg` shows why). Both
  are sums over all orders that single requests change item by item. `StockInv` keeps,
  per type, the balance of each transaction: what it has added so far and what
  is left of its basket make up the basket (`Balance`), and the total of what orders hold, or
  will hold when the transactions under way are through, is covered by
  `reserved_count` (equal to it where nothing is cut short). `OneHolder`, that two
  transactions never hold one stock row, makes the uncommitted value of one
  the row's next value; without the locks the balance is lost. `LiveFinite` keeps the
  sums finite when there are infinitely many orders; `BeingSettled` adds that a confirmed
  order is being settled.

### `ChangeRequestsProofs`: any payments, requests, keys and slots

* `TypeCorrect`, `PaidMeansCollectedHolds`, `ApprovedMeansPaidHolds`, in every world. The
  inductive invariant `IInv` has three parts. `PaymentsInv`: types; `Ledger` (a payment is
  written FAILED or COMPLETED only after the provider has heard of it, COMPLETED only if it
  collected); `Known` (what a handler keeps of a payment, its key and the provider's
  answer, is still so when it acts on it: answers are final, keys do not change);
  `OneCharges` (no two handlers charge one payment); `Marked` (the order's mirror).
  `RequestsInv`: the reference stored with a change is a payment with that change's own key, and
  a change that is approved or about to be was paid under it, which is why the
  payment of the order cannot approve a change. `Attending`: a listener is under way only
  in a slot whose event it belongs to.
* `SerialChargesOnceHolds`, by `OneAtATime` and `ChargedOnce`: whoever is about to insert a
  payment with a key has found none with it, and nobody else inserts meanwhile. Of payments
  without a key it says nothing.
* `EscrowImplemented`, by `Bookkeeping`: the total a listener or the settlement has read is
  still the total, and a change whose event is heard is still pending. `EscrowStep` is the simulation: every step is a stutter of the
  books but the ones the mapping names.
* `CalmBooksBalanceHolds` goes through the refinement: in the books the total is the base
  and what was approved (`BooksAddUp`: four actions to look at instead of all those of
  `ChangeRequests` and `Payments`),
  and `Tracked` says that at rest the changes approved are exactly those paid and not rejected.
  `Tracked` has to follow the one busy slot from the charge to the listener.

### `RiderWalletProofs`: any riders, transactions, earnings in `Nat`, and withdrawals of any amount

`TypeCorrect`, `NeverOverdrawn`, `LedgerExplains`, `TotalsKeepStepHolds`. The invariant `IInv`
adds `ReadIsCurrent` to the properties: whoever has read a wallet holds its row,
so the value read is still the row's. That is the whole point of the pessimistic lock. The
rest is arithmetic of the rounding: a balance that is not less than the amount does not
round below zero (`NeverOverdrawn`), and `balance - amount` and `amount`, each rounded, differ
from the balance by a unit at most (`LedgerExplains`).

### `TrackingProofs`: any pods, places, messages and faults

* `TypeCorrect`; `ShownIsRecordedHolds`, by `ShownInv`: a position about to be broadcast is a
  row already, because the gateway awaits `recordLocation` first.
* `CalmLatestIsCurrentHolds` and `CalmSharingEndsHolds`, by `CalmInv`: the last fix is the newest
  row, about to be inserted, or the last one that waits in the app (`Current`), as long
  as the rider has the order; a delivery whose answer is under way will close the view.

### `ServicesProofs`: any tokens, codes, stations, staff, addresses, rules, orders and slots

`ServicesTypeCorrect`, `SessionsTypeCorrect`, `ParentsAreRevokedHolds`, `CalmCookieIsNewestHolds`,
`CalmCountIsTrueHolds`, `SerialOnlyOneHolds`, `CalmAnswersHoldHolds`, `SerialCountsAreTrueHolds`,
`ToldIsSoHolds`. Each service has an invariant of its own, `ServicesInv` puts them
together (the part in focus keeps its own, all others their initial state):

| invariant | what it adds |
|---|---|
| all | `OneRequest`: requests that wait for each other are served one at a time |
| `SessionsInv` | a handler that issues a token for another has revoked that other one (every world); nothing else was exchanged for it (serial); the cookie has no successor, unless the answer that brings it is under way (calm) |
| `AccountsInv` | who is about to issue a code has used up the others; the attempts a login has read are the failures so far, and one that is about to book a failure is one behind |
| `CommissionInv`, `CustomersInv` | who is about to set a rule or a default has left none; what was agreed is what is active, or is on its way |
| `StationsInv`, `IntakeInv` | codes and numbers are given from 1 without a gap, so "count + 1" is the first free one; whoever has drawn one has seen all smaller ones |
| `StaffInv` | finitely many links, so that a user who has one has a newest one; the active links of a user are the stations he was given and not deprived of, but for what the request under way is about to write |
| `CatalogueInv`, `DisputesInv`, `FilesInv` | between two writes the first is still so when the second comes |

### `SumTheorems`

Sums are folds of the community modules (`SumFunctionOnSet`), defined by a recursive
function that chooses the order. The library's set induction takes an operator and is out
of reach, so the lemmas argue by a least counterexample: the proper subsets of a
finite set are well-founded (`FS_StrictSubsetOrderingWellFounded`), so a set on which a
formula fails has a smallest subset on which it does (`LeastSet`). `SumOfRest` (any element
may be added first) is what all the others rest on: `SumChanged`, `SumMonotone`,
`SumAgrees`, `SumNatural`, `SumOfPart`, `SumRenamed`.

### What the proofs changed in the models

* `ChangeRequests!InEscrow` had two arms of a CASE that both applied to an approved change outside
  the calm world; the second now says `calm`.
* `Disputes` allowed `MaxRatings = 0`, for which its type invariant is false.
* `SumFunction` over a function replaces folds over sets of pairs in `Fulfilment` and
  `ChangeRequests`; `Batching` names the stage of the claiming loop (`Claiming`).

### Only model-checked

* Liveness: `RiderIsFreed`, `SettlementCompletes`, `RequestsFinish`, `PositionArrives`. The prover has no
  rule for fairness or ENABLED.
* The violations, which are refutations, and the instances beside them.

## 6. Mutants

Each property of each passing run has a mutant in `PROJECT.json`: a definition
the code has, and the same definition with a plausible bug (`Claimable` without
`rider_id IS NULL`, `Available` that ignores other reservations, a listener that is
not registered, a token handed out before the old one is revoked). The bug is an
operator of the same module whose comment starts with "Bug:", before the
definition it would replace.

## 7. Not modelled

* Notifications: nothing in the repository calls `NotificationsService.send`; what
  remains marks rows as read.
* Reports, analytics, audit log, pagination: they read, and nothing reads them back.
* System settings, station profiles, user profiles, push tokens: one row, one write.
* Single cylinders (`cylinders`): registered by the console and read by no order.
* The percentages of the split: arithmetic on decimals, no control.
* `RidersService.createProfile`: called by the seeds only, which is how riders exist here.
* Guards, filters, interceptors, migrations, deployment: configuration; roles are
  taken to be enforced.
* Pages of the console and screens of the apps that show data and keep no
  state a later step depends on. The customer app orders from a placeholder
  station; `Intake` takes the request as it would be with a real one.

Observations that no run covers: `StationsService.findNearby` has the same rejected HAVING
query as `findNearestAvailable`; `recordLocation` passes a user id to
`updateLocation`, which updates by rider id, so the rider's own position is not written
(`tracking/tracking.service.ts:34`); the sign-out button of the console leaves the
refresh token live (`src/frontend/src/components/DashboardLayout.tsx:38-41`).

Behaviours the models have and no property judges, because no doc says what should
happen: an initiation repeated under the key of a FAILED payment gets that payment back
(`payments/payments.service.ts:27`); the listener marks an order paid or failed for any
payment of it, change requests included (`orders/events/payment-event.listener.ts:20`);
`markPhoneVerified` makes an account active that was suspended in between
(`users/users.service.ts:45`); a withdrawal of a negative amount raises the balance
(`riders/riders.service.ts:125`), and `LedgerExplainsBalance` holds of it.

## 8. What could follow

1. The converse of the hypotheses: for each theorem with one, the weakest hypothesis under which
   it holds (`MCDispatch_stranded.cfg` shows that a cancellation strands a rider; a crash does as well).
2. An abstract stock, shown to be implemented by `Fulfilment` in the orderly world, and an
   abstract wallet for `RiderWallet`.
3. The split as an operator checked against `orders/settlement.service.spec.ts`.

## 9. Running it

    tlc -workers 2 -config MCDispatch_racing.cfg MCDispatch.tla
    tlc -workers 2 -config MCServices.cfg MCServices.tla
    tlapm DispatchProofs.tla
    tlapm ServicesProofs.tla

Each module of proofs takes between half a minute and some minutes.
