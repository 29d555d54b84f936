------------------------------- MODULE Batching -------------------------------
(****************************************************************************)
(* BatchingService beside the other writers of orders and riders: this      *)
(* module extends Dispatch, whose steps leave the batches alone.            *)
(*                                                                          *)
(* A cycle clusters the STANDARD orders nobody has claimed and then gives   *)
(* every pending batch one rider.  The cron job starts one on every pod and *)
(* an admin may start more, so cycles run side by side; each makes one      *)
(* database call per step.  Distances are data: any group of at most        *)
(* MAX_BATCH_SIZE orders may be close enough, and any matchable rider, or   *)
(* none, near enough.  (Only a rider with a recorded position can be: the   *)
(* socket gateway records positions under user ids, which match no rider.)  *)
(*                                                                          *)
(* PostgreSQL rejects the query of findNearestAvailable (HAVING over        *)
(* ungrouped columns); query says whether the database takes it, so that    *)
(* what follows the query is checked as well.                               *)
(****************************************************************************)
EXTENDS Dispatch

CONSTANTS
    Batches,            \* bound: the batches that are created
    Cycles,             \* cycles that may run side by side
    NoBatch,            \* batch_id IS NULL
    MAX_BATCH_SIZE

ASSUME BatchingAssumption ==
    /\ NoBatch \notin Batches
    /\ MAX_BATCH_SIZE \in Nat \ {0}

VARIABLES
    alone,      \* chosen once: cycles do not overlap
    query,      \* chosen once: what the database makes of the rider query
    batch,      \* delivery_batches
    batchOf,    \* orders.batch_id
    cycle       \* what each cycle is doing

batchVars == <<batch, batchOf>>
dispatchVars == <<status, riderOf, tier, otpVerified, riderStatus, verification, call>>

BatchStatus == {"PENDING", "ASSIGNED", "COMPLETED"}

NotSaved == [status |-> "absent"]
DeliveryBatch ==
    [status : BatchStatus, riderId : Riders \cup {NoRider}, orderCount : Nat]

Resting == [op |-> "resting"]

CycleStates ==
         {Resting}
    \cup [op : {"cluster"}, todo : SUBSET Orders]
    \cup [op : {"update"}, todo : SUBSET Orders, batch : Batches, group : SUBSET Orders]
    \cup [op : {"match"}, todo : SUBSET Batches]
    \cup [op : {"orders"}, todo : SUBSET Batches, batch : Batches, rider : Riders]
    \cup [op : {"claim"}, todo : SUBSET Batches, batch : Batches, rider : Riders,
          left : SUBSET Orders, riderClaimed : BOOLEAN]

BatchingTypeOK ==
    /\ TypeOK
    /\ alone \in BOOLEAN
    /\ query \in {"works", "rejected"}
    /\ batch \in [Batches -> {NotSaved} \cup DeliveryBatch]
    /\ batchOf \in [Orders -> Batches \cup {NoBatch}]
    /\ cycle \in [Cycles -> CycleStates]

BatchingInit ==
    /\ Init
    /\ alone \in BOOLEAN
    /\ query \in {"works", "rejected"}
    /\ batch = [b \in Batches |-> NotSaved]
    /\ batchOf = [o \in Orders |-> NoBatch]
    /\ cycle = [k \in Cycles |-> Resting]

GoOn(k, next) ==
    /\ cycle' = [cycle EXCEPT ![k] = next]
    /\ UNCHANGED <<alone, query>>

--------------------------------------------------------------------------------
(* clusterPendingOrders                                                     *)

\* Bug: orders that are in a batch already are clustered again.
CandidatesBatchedOrNot ==
    {o \in Orders : tier[o] = "STANDARD" /\ status[o] = "PREPARING" /\ riderOf[o] = NoRider}

\* What find selects.
Candidates ==
    {o \in Orders : /\ tier[o] = "STANDARD"
                    /\ status[o] = "PREPARING"
                    /\ batchOf[o] = NoBatch
                    /\ riderOf[o] = NoRider}

\* The candidates whose address has coordinates.
ClusterFind(k) ==
    /\ cycle[k] = Resting
    /\ alone => \A j \in Cycles : cycle[j] = Resting
    /\ \E located \in SUBSET Candidates :
          GoOn(k, [op |-> "cluster", todo |-> located])
    /\ UNCHANGED <<dispatchVars, batchVars>>

\* A seed and those near it: the batch is saved, its orders are told later.
ClusterSave(k) ==
    /\ cycle[k].op = "cluster"
    /\ \E group \in SUBSET cycle[k].todo \ {{}}, b \in Batches :
          /\ Cardinality(group) <= MAX_BATCH_SIZE
          /\ batch[b] = NotSaved
          /\ batch' = [batch EXCEPT ![b] = [status |-> "PENDING", riderId |-> NoRider,
                                            orderCount |-> Cardinality(group)]]
          /\ GoOn(k, [op |-> "update", todo |-> cycle[k].todo \ group,
                      batch |-> b, group |-> group])
    /\ UNCHANGED <<dispatchVars, batchOf>>

\* Bug: the last order of the group is forgotten.
ClusterUpdateTooFew(k) ==
    /\ cycle[k].op = "update"
    /\ \E o \in cycle[k].group :
          batchOf' = [x \in Orders |->
                          IF x \in cycle[k].group \ {o} THEN cycle[k].batch ELSE batchOf[x]]
    /\ GoOn(k, [op |-> "cluster", todo |-> cycle[k].todo])
    /\ UNCHANGED <<dispatchVars, batch>>

\* UPDATE orders SET batch_id WHERE id IN group, whatever they look like by now.
ClusterUpdate(k) ==
    /\ cycle[k].op = "update"
    /\ \A o \in cycle[k].group : RowFree(o)
    /\ batchOf' = [o \in Orders |->
                      IF o \in cycle[k].group THEN cycle[k].batch ELSE batchOf[o]]
    /\ GoOn(k, [op |-> "cluster", todo |-> cycle[k].todo])
    /\ UNCHANGED <<dispatchVars, batch>>

--------------------------------------------------------------------------------
(* matchRidersToBatches                                                     *)

PendingBatches == {b \in Batches : batch[b].status = "PENDING"}

MatchFind(k) ==
    /\ cycle[k] = [op |-> "cluster", todo |-> {}]
    /\ GoOn(k, [op |-> "match", todo |-> PendingBatches])
    /\ UNCHANGED <<dispatchVars, batchVars>>

\* What findNearestAvailable chooses from.
Matchable == {r \in Riders : riderStatus[r] = "AVAILABLE" /\ verification[r] = "VERIFIED"}

\* The rider for one batch.  When nobody is near the batch stays PENDING; an
\* error of the query ends the cycle.
MatchRider(k) ==
    /\ cycle[k].op = "match"
    /\ \E b \in cycle[k].todo :
          LET rest == cycle[k].todo \ {b}
          IN  \/ /\ query = "rejected"
                 /\ GoOn(k, Resting)
              \/ /\ query = "works"
                 /\ GoOn(k, [op |-> "match", todo |-> rest])
              \/ /\ query = "works"
                 /\ \E r \in Matchable :
                       GoOn(k, [op |-> "orders", todo |-> rest, batch |-> b, rider |-> r])
    /\ UNCHANGED <<dispatchVars, batchVars>>

\* The loop over the orders of a batch: which are left, and whether the rider has one.
Claiming(c, left, riderClaimed) ==
    [op |-> "claim", todo |-> c.todo, batch |-> c.batch, rider |-> c.rider,
     left |-> left, riderClaimed |-> riderClaimed]

MatchOrders(k) ==
    LET c == cycle[k]
    IN  /\ c.op = "orders"
        /\ GoOn(k, Claiming(c, {o \in Orders : batchOf[o] = c.batch}, FALSE))
        /\ UNCHANGED <<dispatchVars, batchVars>>

\* assignRider for one order of the batch: the rider is claimed with the first
\* that succeeds, and not looked at again.  A failure is skipped.
MatchClaim(k, o) ==
    LET c == cycle[k]
    IN  /\ c.op = "claim"
        /\ o \in c.left
        /\ RowFree(o)
        /\ IF (c.riderClaimed \/ RiderClaimable(c.rider)) /\ Claimable(o)
           THEN /\ ClaimOrder(o, c.rider)
                /\ riderStatus' = IF c.riderClaimed THEN riderStatus
                                  ELSE [riderStatus EXCEPT ![c.rider] = "BUSY"]
                /\ GoOn(k, Claiming(c, c.left \ {o}, TRUE))
           ELSE /\ GoOn(k, Claiming(c, c.left \ {o}, c.riderClaimed))
                /\ UNCHANGED <<status, riderOf, riderStatus>>
        /\ UNCHANGED <<tier, otpVerified, verification, call, batchVars>>

\* The batch is ASSIGNED, however many of its orders were claimed.
MatchSave(k) ==
    LET c == cycle[k]
    IN  /\ c.op = "claim"
        /\ c.left = {}
        /\ batch' = [batch EXCEPT ![c.batch] =
                        [status |-> "ASSIGNED", riderId |-> c.rider, orderCount |-> @.orderCount]]
        /\ GoOn(k, [op |-> "match", todo |-> c.todo])
        /\ UNCHANGED <<dispatchVars, batchOf>>

CycleDone(k) ==
    /\ cycle[k] = [op |-> "match", todo |-> {}]
    /\ GoOn(k, Resting)
    /\ UNCHANGED <<dispatchVars, batchVars>>

\* The pod dies or a statement fails.
CycleCrash(k) ==
    /\ AllowCrash
    /\ cycle[k] # Resting
    /\ GoOn(k, Resting)
    /\ UNCHANGED <<dispatchVars, batchVars>>

--------------------------------------------------------------------------------
CycleStep(k) ==
    \/ ClusterFind(k) \/ ClusterSave(k) \/ ClusterUpdate(k)
    \/ MatchFind(k) \/ MatchRider(k) \/ MatchOrders(k)
    \/ \E o \in Orders : MatchClaim(k, o)
    \/ MatchSave(k) \/ CycleDone(k) \/ CycleCrash(k)

BatchingNext ==
    \/ Next /\ UNCHANGED <<alone, query, batchVars, cycle>>
    \/ \E k \in Cycles : CycleStep(k)

BatchingSpec ==
    BatchingInit /\ [][BatchingNext]_<<vars, alone, query, batchVars, cycle>>

--------------------------------------------------------------------------------
(* Properties.                                                              *)

OrdersIn(b) == {o \in Orders : batchOf[o] = b}

\* order_count counts the orders of a batch, unless the pod died before they were
\* told.  Two pods at once break it: the later UPDATE takes the orders away.
CountIsTrue ==
    alone => \A b \in Batches :
        \/ batch[b] = NotSaved
        \/ OrdersIn(b) = {}
        \/ Cardinality(OrdersIn(b)) = batch[b].orderCount

\* What is in a batch stays in it, while cycles do not overlap.
BatchKept ==
    [][alone => \A o \in Orders : batchOf[o] # NoBatch => batchOf'[o] = batchOf[o]]_batchOf

\* "ASSIGNED: rider matched to the whole batch".  It is not: when the rider was
\* claimed for something else first, every order is skipped and none looked at again.
AssignedBatchIsClaimed ==
    \A b \in Batches : batch[b].status = "ASSIGNED" =>
        \A o \in OrdersIn(b) : ~ Claimable(o)
================================================================================
