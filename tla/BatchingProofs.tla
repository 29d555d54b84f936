---------------------------- MODULE BatchingProofs ----------------------------
(****************************************************************************)
(* The batch job beside the other writers of orders and riders, for any     *)
(* number of orders, riders, pods and cycles: what batches promise, and     *)
(* that the job keeps what Dispatch promises.                               *)
(****************************************************************************)
EXTENDS Batching, DispatchProofs

batchingVars == <<vars, alone, query, batchVars, cycle>>

--------------------------------------------------------------------------------
(* Type correctness.                                                        *)

\* A cycle that matches riders works on batches that were saved.
MatchesSaved(c, rows) ==
    /\ c.op \in {"match", "orders", "claim"} => \A b \in c.todo : rows[b] \in DeliveryBatch
    /\ c.op \in {"update", "orders", "claim"} => rows[c.batch] \in DeliveryBatch

BatchingTyped ==
    /\ BatchingTypeOK
    /\ \A k \in Cycles : MatchesSaved(cycle[k], batch)

\* The fields of each stage of a cycle.
LEMMA CycleFields ==
    ASSUME BatchingTypeOK, NEW k \in Cycles
    PROVE  /\ cycle[k].op \in {"cluster", "update"} => cycle[k].todo \subseteq Orders
           /\ cycle[k].op \in {"match", "orders", "claim"} => cycle[k].todo \subseteq Batches
           /\ cycle[k].op = "update" => cycle[k].group \subseteq Orders
           /\ cycle[k].op \in {"update", "orders", "claim"} => cycle[k].batch \in Batches
           /\ cycle[k].op \in {"orders", "claim"} => cycle[k].rider \in Riders
           /\ cycle[k].op = "claim" => /\ cycle[k].left \subseteq Orders
                                       /\ cycle[k].riderClaimed \in BOOLEAN
  <1>1. cycle[k] \in CycleStates
    BY DEF BatchingTypeOK
  <1> QED
    BY <1>1 DEF CycleStates, Resting

\* The stages the job goes on to.
LEMMA CycleForms ==
    /\ Resting \in CycleStates
    /\ \A T \in SUBSET Orders : [op |-> "cluster", todo |-> T] \in CycleStates
    /\ \A T \in SUBSET Orders, b \in Batches, G \in SUBSET Orders :
          [op |-> "update", todo |-> T, batch |-> b, group |-> G] \in CycleStates
    /\ \A T \in SUBSET Batches :
          /\ [op |-> "match", todo |-> T] \in CycleStates
          /\ \A b \in Batches, r \in Riders :
                /\ [op |-> "orders", todo |-> T, batch |-> b, rider |-> r] \in CycleStates
                /\ \A L \in SUBSET Orders, claimed \in BOOLEAN :
                      [op |-> "claim", todo |-> T, batch |-> b, rider |-> r,
                       left |-> L, riderClaimed |-> claimed] \in CycleStates
  BY DEF CycleStates

\* One cycle goes on, the others stay where they are.
LEMMA GoOnExact ==
    ASSUME BatchingTypeOK, NEW k \in Cycles, NEW c, GoOn(k, c)
    PROVE  /\ cycle'[k] = c
           /\ \A j \in Cycles \ {k} : cycle'[j] = cycle[j]
           /\ alone' = alone /\ query' = query
           /\ c \in CycleStates => cycle' \in [Cycles -> CycleStates]
  BY DEF BatchingTypeOK, GoOn

\* A step of one cycle that leaves every saved batch saved.
LEMMA TypedAfter ==
    ASSUME BatchingTyped, NEW k \in Cycles, NEW c \in CycleStates, GoOn(k, c),
           TypeOK', batch' \in [Batches -> {NotSaved} \cup DeliveryBatch],
           batchOf' \in [Orders -> Batches \cup {NoBatch}],
           \A b \in Batches : batch[b] \in DeliveryBatch => batch'[b] \in DeliveryBatch,
           MatchesSaved(c, batch')
    PROVE  BatchingTyped'
  <1>1. BatchingTypeOK'
    BY GoOnExact DEF BatchingTyped, BatchingTypeOK
  <1>2. ASSUME NEW j \in Cycles
        PROVE  MatchesSaved(cycle'[j], batch')
    <2>1. CASE j = k
      BY <2>1, GoOnExact DEF BatchingTyped, MatchesSaved
    <2>2. CASE j # k
      <3>1. cycle'[j] = cycle[j] /\ MatchesSaved(cycle[j], batch)
        BY <2>2, GoOnExact DEF BatchingTyped
      <3>2. /\ cycle[j].op \in {"match", "orders", "claim"} => cycle[j].todo \subseteq Batches
            /\ cycle[j].op \in {"update", "orders", "claim"} => cycle[j].batch \in Batches
        BY CycleFields DEF BatchingTyped
      <3> QED
        BY <3>1, <3>2 DEF MatchesSaved
    <2> QED
      BY <2>1, <2>2
  <1> QED
    BY <1>1, <1>2 DEF BatchingTyped

LEMMA BatchingInitTyped == BatchingInit => BatchingTyped
  BY TypeInit, BatchingAssumption
  DEF BatchingInit, BatchingTyped, BatchingTypeOK, CycleStates, Resting, MatchesSaved

\* The steps of a cycle that keep the batches and the orders' batches.
LEMMA QuietTyped ==
    ASSUME BatchingTyped, NEW k \in Cycles, NEW c \in CycleStates, GoOn(k, c),
           UNCHANGED <<dispatchVars, batchVars>>, MatchesSaved(c, batch)
    PROVE  BatchingTyped'
  <1>1. TypeOK'
    BY DEF BatchingTyped, BatchingTypeOK, TypeOK, dispatchVars
  <1>2. batch' = batch /\ batchOf' = batchOf
    BY DEF batchVars
  <1> QED
    BY <1>1, <1>2, TypedAfter DEF BatchingTyped, BatchingTypeOK

LEMMA ClaimTyped ==
    ASSUME BatchingTyped, NEW k \in Cycles, NEW o \in Orders, MatchClaim(k, o)
    PROVE  BatchingTyped'
  <1> DEFINE c == cycle[k]
  <1>1. /\ c.op = "claim" /\ MatchesSaved(c, batch)
        /\ c \in [op : {"claim"}, todo : SUBSET Batches, batch : Batches, rider : Riders,
                  left : SUBSET Orders, riderClaimed : BOOLEAN]
    <2>1. c \in CycleStates /\ c.op = "claim" /\ MatchesSaved(c, batch)
      BY DEF MatchClaim, BatchingTyped, BatchingTypeOK
    <2> QED
      BY <2>1 DEF CycleStates, Resting
  <1>2. batch' = batch /\ batchOf' = batchOf
    BY DEF MatchClaim, batchVars
  <1>3. TypeOK'
    BY <1>1
    DEF MatchClaim, ClaimOrder, BatchingTyped, BatchingTypeOK, TypeOK, OrderStatus, RiderStatus
  <1>4. PICK claimed \in BOOLEAN : GoOn(k, Claiming(c, c.left \ {o}, claimed))
    BY <1>1 DEF MatchClaim
  <1> DEFINE next == Claiming(c, c.left \ {o}, claimed)
  <1>6. next \in CycleStates /\ MatchesSaved(next, batch')
    BY <1>1, <1>2, CycleForms DEF MatchesSaved, Claiming
  <1> QED
    BY <1>2, <1>3, <1>4, <1>6, TypedAfter DEF BatchingTyped, BatchingTypeOK

LEMMA CycleTyped ==
    ASSUME BatchingTyped, NEW k \in Cycles, CycleStep(k)
    PROVE  BatchingTyped'
  <1>1. ASSUME ClusterFind(k)
        PROVE  BatchingTyped'
    <2>1. PICK located \in SUBSET Candidates : GoOn(k, [op |-> "cluster", todo |-> located])
      BY <1>1 DEF ClusterFind
    <2>2. located \in SUBSET Orders
      BY DEF Candidates
    <2> QED
      BY <1>1, <2>1, <2>2, CycleForms, QuietTyped DEF ClusterFind, MatchesSaved
  <1>2. ASSUME ClusterSave(k)
        PROVE  BatchingTyped'
    <2>1. PICK group \in SUBSET cycle[k].todo \ {{}}, b \in Batches :
             /\ batch[b] = NotSaved
             /\ batch' = [batch EXCEPT ![b] = [status |-> "PENDING", riderId |-> NoRider,
                                               orderCount |-> Cardinality(group)]]
             /\ GoOn(k, [op |-> "update", todo |-> cycle[k].todo \ group,
                         batch |-> b, group |-> group])
      BY <1>2 DEF ClusterSave
    <2> DEFINE row == [status |-> "PENDING", riderId |-> NoRider,
                       orderCount |-> Cardinality(group)]
               c == [op |-> "update", todo |-> cycle[k].todo \ group, batch |-> b, group |-> group]
    <2>2. cycle[k].todo \subseteq Orders
      BY <1>2, CycleFields DEF ClusterSave, BatchingTyped
    <2>3. Cardinality(group) \in Nat
      BY <2>2, DispatchAssumption, FS_Subset, FS_CardinalityType
    <2>4. row \in DeliveryBatch
      BY <2>3 DEF DeliveryBatch, BatchStatus
    <2>5. /\ batch' \in [Batches -> {NotSaved} \cup DeliveryBatch]
          /\ \A x \in Batches : batch[x] \in DeliveryBatch => batch'[x] \in DeliveryBatch
          /\ batch'[b] \in DeliveryBatch
      BY <2>1, <2>4 DEF BatchingTyped, BatchingTypeOK
    <2>6. TypeOK' /\ batchOf' = batchOf
      BY <1>2 DEF ClusterSave, BatchingTyped, BatchingTypeOK, TypeOK, dispatchVars
    <2>7. c \in CycleStates /\ MatchesSaved(c, batch')
      BY <2>2, <2>5, CycleForms DEF MatchesSaved
    <2> QED
      BY <2>1, <2>5, <2>6, <2>7, TypedAfter DEF BatchingTyped, BatchingTypeOK
  <1>3. ASSUME ClusterUpdate(k)
        PROVE  BatchingTyped'
    <2> DEFINE c == [op |-> "cluster", todo |-> cycle[k].todo]
    <2>1. c \in CycleStates /\ cycle[k].batch \in Batches
      BY <1>3, CycleFields, CycleForms DEF ClusterUpdate, BatchingTyped
    <2>2. batchOf' \in [Orders -> Batches \cup {NoBatch}] /\ batch' = batch
      BY <1>3, <2>1 DEF ClusterUpdate, BatchingTyped, BatchingTypeOK
    <2>3. TypeOK'
      BY <1>3 DEF ClusterUpdate, BatchingTyped, BatchingTypeOK, TypeOK, dispatchVars
    <2> QED
      BY <1>3, <2>1, <2>2, <2>3, TypedAfter
      DEF ClusterUpdate, MatchesSaved, BatchingTyped, BatchingTypeOK
  <1>4. ASSUME MatchFind(k)
        PROVE  BatchingTyped'
    <2> DEFINE c == [op |-> "match", todo |-> PendingBatches]
    <2>1. c \in CycleStates
      BY CycleForms DEF PendingBatches
    <2>2. \A b \in PendingBatches : batch[b] \in DeliveryBatch
      BY DEF PendingBatches, BatchingTyped, BatchingTypeOK, NotSaved
    <2> QED
      BY <1>4, <2>1, <2>2, QuietTyped DEF MatchFind, MatchesSaved
  <1>5. ASSUME MatchRider(k)
        PROVE  BatchingTyped'
    <2>1. PICK b \in cycle[k].todo :
             \/ GoOn(k, Resting)
             \/ GoOn(k, [op |-> "match", todo |-> cycle[k].todo \ {b}])
             \/ \E r \in Matchable :
                   GoOn(k, [op |-> "orders", todo |-> cycle[k].todo \ {b},
                            batch |-> b, rider |-> r])
      BY <1>5 DEF MatchRider
    <2>2. /\ cycle[k].todo \subseteq Batches
          /\ \A x \in cycle[k].todo : batch[x] \in DeliveryBatch
      BY <1>5, CycleFields DEF MatchRider, BatchingTyped, MatchesSaved
    <2>3. UNCHANGED <<dispatchVars, batchVars>>
      BY <1>5 DEF MatchRider
    <2>4. CASE GoOn(k, Resting)
      BY <2>3, <2>4, CycleForms, QuietTyped DEF MatchesSaved, Resting
    <2>5. CASE GoOn(k, [op |-> "match", todo |-> cycle[k].todo \ {b}])
      <3> DEFINE c == [op |-> "match", todo |-> cycle[k].todo \ {b}]
      <3>1. c \in CycleStates /\ MatchesSaved(c, batch)
        BY <2>2, CycleForms DEF MatchesSaved
      <3> QED
        BY <2>3, <2>5, <3>1, QuietTyped
    <2>6. ASSUME NEW r \in Matchable,
                 GoOn(k, [op |-> "orders", todo |-> cycle[k].todo \ {b}, batch |-> b, rider |-> r])
          PROVE  BatchingTyped'
      <3> DEFINE c == [op |-> "orders", todo |-> cycle[k].todo \ {b}, batch |-> b, rider |-> r]
      <3>1. c \in CycleStates /\ MatchesSaved(c, batch)
        BY <2>2, CycleForms DEF MatchesSaved, Matchable
      <3> QED
        BY <2>3, <2>6, <3>1, QuietTyped
    <2> QED
      BY <2>1, <2>4, <2>5, <2>6
  <1>6. ASSUME MatchOrders(k)
        PROVE  BatchingTyped'
    <2> DEFINE c == Claiming(cycle[k], {o \in Orders : batchOf[o] = cycle[k].batch}, FALSE)
    <2>1. /\ cycle[k].todo \subseteq Batches /\ cycle[k].batch \in Batches
          /\ cycle[k].rider \in Riders
          /\ MatchesSaved(cycle[k], batch) /\ cycle[k].op = "orders"
      BY <1>6, CycleFields DEF MatchOrders, BatchingTyped
    <2>2. c \in CycleStates /\ MatchesSaved(c, batch)
      BY <2>1, CycleForms DEF MatchesSaved, Claiming
    <2> QED
      BY <1>6, <2>2, QuietTyped DEF MatchOrders
  <1>7. ASSUME MatchSave(k)
        PROVE  BatchingTyped'
    <2> DEFINE b == cycle[k].batch
               c == [op |-> "match", todo |-> cycle[k].todo]
    <2>1. /\ cycle[k].todo \subseteq Batches /\ b \in Batches /\ cycle[k].rider \in Riders
          /\ MatchesSaved(cycle[k], batch) /\ cycle[k].op = "claim"
      BY <1>7, CycleFields DEF MatchSave, BatchingTyped
    <2>2. batch[b] \in DeliveryBatch
      BY <2>1 DEF MatchesSaved
    <2>3. batch' = [batch EXCEPT ![b] = [status |-> "ASSIGNED", riderId |-> cycle[k].rider,
                                         orderCount |-> batch[b].orderCount]]
      BY <1>7 DEF MatchSave
    <2>4. /\ batch' \in [Batches -> {NotSaved} \cup DeliveryBatch]
          /\ \A x \in Batches : batch[x] \in DeliveryBatch => batch'[x] \in DeliveryBatch
      BY <2>1, <2>2, <2>3 DEF BatchingTyped, BatchingTypeOK, DeliveryBatch, BatchStatus
    <2>5. c \in CycleStates /\ MatchesSaved(c, batch')
      BY <2>1, <2>4, CycleForms DEF MatchesSaved
    <2>6. TypeOK' /\ batchOf' = batchOf
      BY <1>7 DEF MatchSave, BatchingTyped, BatchingTypeOK, TypeOK, dispatchVars
    <2> QED
      BY <1>7, <2>4, <2>5, <2>6, TypedAfter DEF MatchSave, BatchingTyped, BatchingTypeOK
  <1>8. ASSUME CycleDone(k) \/ CycleCrash(k)
        PROVE  BatchingTyped'
    BY <1>8, CycleForms, QuietTyped DEF CycleDone, CycleCrash, MatchesSaved, Resting
  <1> QED
    BY <1>1, <1>2, <1>3, <1>4, <1>5, <1>6, <1>7, <1>8, ClaimTyped DEF CycleStep

LEMMA BatchingStepTyped == BatchingTyped /\ [BatchingNext]_batchingVars => BatchingTyped'
  <1> SUFFICES ASSUME BatchingTyped, [BatchingNext]_batchingVars
               PROVE  BatchingTyped'
    OBVIOUS
  <1>1. ASSUME [Next]_vars, UNCHANGED <<alone, query, batchVars, cycle>>
        PROVE  BatchingTyped'
    BY <1>1, TypeStep DEF BatchingTyped, BatchingTypeOK, batchVars, MatchesSaved
  <1> QED
    BY <1>1, CycleTyped DEF BatchingNext, batchingVars

\* Type correctness of the job beside the requests: among others, a rider is only
\* ever written into a batch that was saved.
THEOREM BatchingTypeCorrect == BatchingSpec => []BatchingTypeOK
  <1>1. BatchingTyped => BatchingTypeOK
    BY DEF BatchingTyped
  <1> QED
    BY <1>1, BatchingInitTyped, BatchingStepTyped, PTL DEF BatchingSpec, batchingVars

--------------------------------------------------------------------------------
(* The orders of a batch, while cycles do not overlap.                      *)

OneCycle == \A j, k \in Cycles : cycle[j] # Resting /\ cycle[k] # Resting => j = k

\* What a cycle has still to put into batches is in none, and a batch that was
\* saved for a group is empty until the group is told.
Clusters(c, rows, of) ==
    /\ c.op \in {"cluster", "update"} => \A o \in c.todo : of[o] = NoBatch
    /\ c.op = "update" =>
          /\ \A o \in c.group : of[o] = NoBatch /\ o \notin c.todo
          /\ \A o \in Orders : of[o] # c.batch
          /\ rows[c.batch].orderCount = Cardinality(c.group)

BatchesInv ==
    /\ BatchingTyped
    /\ \A o \in Orders : batchOf[o] # NoBatch => batch[batchOf[o]] # NotSaved
    /\ alone => OneCycle /\ \A k \in Cycles : Clusters(cycle[k], batch, batchOf)
    /\ CountIsTrue

LEMMA BatchesInit == BatchingInit => BatchesInv
  BY BatchingInitTyped
  DEF BatchingInit, BatchesInv, OneCycle, Clusters, CountIsTrue, NotSaved, Resting

\* A cycle that moves is the only one.
LEMMA OthersRest ==
    ASSUME BatchesInv, alone, NEW k \in Cycles, CycleStep(k)
    PROVE  \A j \in Cycles \ {k} : cycle[j] = Resting
  <1>1. ASSUME ClusterSave(k) \/ ClusterUpdate(k) \/ MatchRider(k)
        PROVE  cycle[k] # Resting
    BY <1>1 DEF ClusterSave, ClusterUpdate, MatchRider, Resting
  <1>2. ASSUME MatchFind(k) \/ CycleDone(k)
        PROVE  cycle[k] # Resting
    <2>1. cycle[k].op \in {"cluster", "match"}
      BY <1>2 DEF MatchFind, CycleDone
    <2> QED
      BY <2>1 DEF Resting
  <1>3. ASSUME MatchOrders(k) \/ MatchSave(k)
        PROVE  cycle[k] # Resting
    <2>1. cycle[k].op \in {"orders", "claim"}
      <3>1. CASE MatchOrders(k)
        BY <3>1 DEF MatchOrders
      <3>2. CASE MatchSave(k)
        BY <3>2 DEF MatchSave
      <3> QED
        BY <1>3, <3>1, <3>2
    <2> QED
      BY <2>1 DEF Resting
  <1>4. ASSUME NEW o \in Orders, MatchClaim(k, o)
        PROVE  cycle[k] # Resting
    BY <1>4 DEF MatchClaim, Resting
  <1>5. cycle[k] # Resting \/ ClusterFind(k)
    BY <1>1, <1>2, <1>3, <1>4 DEF CycleStep, CycleCrash
  <1> QED
    BY <1>5 DEF BatchesInv, OneCycle, ClusterFind

\* So it is enough to look at what that one goes on with.
LEMMA BatchesAfter ==
    ASSUME BatchesInv, BatchingTyped', NEW k \in Cycles, CycleStep(k), NEW c, GoOn(k, c),
           \A o \in Orders : batchOf'[o] # NoBatch => batch'[batchOf'[o]] # NotSaved,
           alone => Clusters(c, batch', batchOf'),
           CountIsTrue'
    PROVE  BatchesInv'
  <1>1. /\ cycle'[k] = c /\ alone' = alone
        /\ \A j \in Cycles \ {k} : cycle'[j] = cycle[j]
    BY GoOnExact DEF BatchesInv, BatchingTyped
  <1>2. alone => \A j \in Cycles \ {k} : cycle'[j] = Resting
    BY <1>1, OthersRest
  <1>3. alone' => OneCycle'
    BY <1>1, <1>2 DEF OneCycle
  <1>4. alone' => \A j \in Cycles : Clusters(cycle'[j], batch', batchOf')
    BY <1>1, <1>2 DEF Clusters, Resting
  <1> QED
    BY <1>3, <1>4 DEF BatchesInv

\* The stages that know of no batch to come keep the batches as they are.
LEMMA BatchesKept ==
    ASSUME BatchesInv, BatchingTyped', NEW k \in Cycles, CycleStep(k), NEW c, GoOn(k, c),
           UNCHANGED batchVars, c.op \notin {"cluster", "update"}
    PROVE  BatchesInv'
  <1>1. batch' = batch /\ batchOf' = batchOf /\ alone' = alone
    BY DEF batchVars, GoOn
  <1>2. CountIsTrue'
    BY <1>1 DEF BatchesInv, CountIsTrue, OrdersIn
  <1> QED
    BY <1>1, <1>2, BatchesAfter DEF BatchesInv, Clusters

LEMMA SaveKeepsBatches ==
    ASSUME BatchesInv, BatchingTyped', NEW k \in Cycles, ClusterSave(k)
    PROVE  BatchesInv'
  <1>1. PICK group \in SUBSET cycle[k].todo \ {{}}, b \in Batches :
           /\ batch[b] = NotSaved
           /\ batch' = [batch EXCEPT ![b] = [status |-> "PENDING", riderId |-> NoRider,
                                             orderCount |-> Cardinality(group)]]
           /\ GoOn(k, [op |-> "update", todo |-> cycle[k].todo \ group,
                       batch |-> b, group |-> group])
    BY DEF ClusterSave
  <1> DEFINE c == [op |-> "update", todo |-> cycle[k].todo \ group, batch |-> b, group |-> group]
             row == [status |-> "PENDING", riderId |-> NoRider, orderCount |-> Cardinality(group)]
  <1>2. cycle[k].op = "cluster" /\ batchOf' = batchOf /\ alone' = alone
    BY <1>1 DEF ClusterSave, GoOn
  <1>3. /\ batch'[b] = row
        /\ \A x \in Batches \ {b} : batch'[x] = batch[x]
    BY <1>1 DEF BatchesInv, BatchingTyped, BatchingTypeOK
  <1>4. row # NotSaved /\ row.orderCount = Cardinality(group)
    BY DEF NotSaved
  <1>5. \A o \in Orders : batchOf[o] # b
    BY <1>1, BatchingAssumption DEF BatchesInv
  <1>6. alone => Clusters(c, batch', batchOf')
    <2> SUFFICES ASSUME alone PROVE Clusters(c, batch', batchOf')
      OBVIOUS
    <2>1. \A o \in cycle[k].todo : batchOf[o] = NoBatch
      BY <1>2 DEF BatchesInv, Clusters
    <2> QED
      BY <1>2, <1>3, <1>4, <1>5, <2>1 DEF Clusters
  <1>7. CountIsTrue'
    <2> SUFFICES ASSUME alone, NEW x \in Batches, x # b
                 PROVE  \/ batch'[x] = NotSaved
                        \/ OrdersIn(x) = {}
                        \/ Cardinality(OrdersIn(x)) = batch'[x].orderCount
      BY <1>2, <1>5 DEF CountIsTrue, OrdersIn
    <2> QED
      BY <1>3 DEF BatchesInv, CountIsTrue
  <1>8. \A o \in Orders : batchOf'[o] # NoBatch => batch'[batchOf'[o]] # NotSaved
    BY <1>2, <1>3, <1>4, <1>5 DEF BatchesInv, BatchingTyped, BatchingTypeOK
  <1>9. CycleStep(k)
    BY DEF CycleStep
  <1> QED
    BY <1>1, <1>6, <1>7, <1>8, <1>9, BatchesAfter

LEMMA UpdateKeepsBatches ==
    ASSUME BatchesInv, BatchingTyped', NEW k \in Cycles, ClusterUpdate(k)
    PROVE  BatchesInv'
  <1> DEFINE b == cycle[k].batch
             group == cycle[k].group
             c == [op |-> "cluster", todo |-> cycle[k].todo]
  <1>1. /\ b \in Batches /\ group \subseteq Orders /\ cycle[k].op = "update"
        /\ batch[b] \in DeliveryBatch
    BY CycleFields DEF ClusterUpdate, BatchesInv, BatchingTyped, MatchesSaved
  <1>2. /\ batch' = batch /\ alone' = alone
        /\ \A o \in Orders : batchOf'[o] = IF o \in group THEN b ELSE batchOf[o]
    BY DEF ClusterUpdate, GoOn
  <1>3. \A o \in Orders : batchOf'[o] # NoBatch => batch'[batchOf'[o]] # NotSaved
    BY <1>1, <1>2 DEF BatchesInv, DeliveryBatch, NotSaved
  <1>4. alone => Clusters(c, batch', batchOf')
    <2> SUFFICES ASSUME alone PROVE Clusters(c, batch', batchOf')
      OBVIOUS
    <2>1. Clusters(cycle[k], batch, batchOf) /\ cycle[k].todo \subseteq Orders
      BY <1>1, CycleFields DEF BatchesInv, BatchingTyped
    <2> QED
      BY <1>1, <1>2, <2>1 DEF Clusters
  <1>5. CountIsTrue'
    <2> SUFFICES ASSUME alone, NEW x \in Batches
                 PROVE  \/ batch'[x] = NotSaved
                        \/ OrdersIn(x)' = {}
                        \/ Cardinality(OrdersIn(x)') = batch'[x].orderCount
      BY <1>2 DEF CountIsTrue
    <2>1. Clusters(cycle[k], batch, batchOf)
      BY DEF BatchesInv
    <2>2. CASE x = b
      <3>1. OrdersIn(x)' = group
        BY <1>1, <1>2, <2>1, <2>2 DEF Clusters, OrdersIn
      <3> QED
        BY <1>1, <1>2, <2>1, <2>2, <3>1 DEF Clusters
    <2>3. CASE x # b
      <3>1. OrdersIn(x)' = OrdersIn(x)
        BY <1>1, <1>2, <2>1, <2>3, BatchingAssumption DEF Clusters, OrdersIn
      <3> QED
        BY <1>2, <3>1 DEF BatchesInv, CountIsTrue
    <2> QED
      BY <2>2, <2>3
  <1>6. CycleStep(k) /\ GoOn(k, c)
    BY DEF CycleStep, ClusterUpdate
  <1> QED
    BY <1>3, <1>4, <1>5, <1>6, BatchesAfter

LEMMA SavedRiderKeepsBatches ==
    ASSUME BatchesInv, BatchingTyped', NEW k \in Cycles, MatchSave(k)
    PROVE  BatchesInv'
  <1> DEFINE b == cycle[k].batch
             c == [op |-> "match", todo |-> cycle[k].todo]
  <1>1. b \in Batches /\ batch[b] \in DeliveryBatch
    BY CycleFields DEF MatchSave, BatchesInv, BatchingTyped, MatchesSaved
  <1>2. /\ batchOf' = batchOf /\ alone' = alone
        /\ \A x \in Batches \ {b} : batch'[x] = batch[x]
        /\ batch'[b] = [status |-> "ASSIGNED", riderId |-> cycle[k].rider,
                        orderCount |-> batch[b].orderCount]
    BY <1>1 DEF MatchSave, GoOn, BatchesInv, BatchingTyped, BatchingTypeOK
  <1>3. batch'[b].orderCount = batch[b].orderCount /\ batch'[b] # NotSaved /\ batch[b] # NotSaved
    BY <1>1, <1>2 DEF DeliveryBatch, NotSaved
  <1>4. CountIsTrue'
    BY <1>1, <1>2, <1>3 DEF BatchesInv, CountIsTrue, OrdersIn
  <1>5. \A o \in Orders : batchOf'[o] # NoBatch => batch'[batchOf'[o]] # NotSaved
    BY <1>2, <1>3 DEF BatchesInv, BatchingTyped, BatchingTypeOK
  <1>6. CycleStep(k) /\ GoOn(k, c) /\ Clusters(c, batch', batchOf')
    BY DEF CycleStep, MatchSave, Clusters
  <1> QED
    BY <1>4, <1>5, <1>6, BatchesAfter

LEMMA CycleKeepsBatches ==
    ASSUME BatchesInv, NEW k \in Cycles, CycleStep(k)
    PROVE  BatchesInv'
  <1>1. BatchingTyped'
    BY CycleTyped DEF BatchesInv
  <1>2. ASSUME ClusterFind(k)
        PROVE  BatchesInv'
    <2>1. PICK located \in SUBSET Candidates : GoOn(k, [op |-> "cluster", todo |-> located])
      BY <1>2 DEF ClusterFind
    <2>2. batch' = batch /\ batchOf' = batchOf /\ alone' = alone
      BY <1>2, <2>1 DEF ClusterFind, batchVars, GoOn
    <2>3. Clusters([op |-> "cluster", todo |-> located], batch', batchOf')
      BY <2>2 DEF Clusters, Candidates
    <2>4. CountIsTrue'
      BY <2>2 DEF BatchesInv, CountIsTrue, OrdersIn
    <2> QED
      BY <1>1, <2>1, <2>2, <2>3, <2>4, BatchesAfter DEF BatchesInv
  <1>3. ASSUME \/ MatchFind(k) \/ MatchRider(k) \/ MatchOrders(k)
               \/ CycleDone(k) \/ CycleCrash(k)
        PROVE  BatchesInv'
    <2>1. \E c : GoOn(k, c) /\ c.op \notin {"cluster", "update"}
      <3>1. CASE MatchFind(k)
        BY <3>1 DEF MatchFind
      <3>2. CASE MatchRider(k)
        <4>1. PICK b \in cycle[k].todo :
                 \/ GoOn(k, Resting)
                 \/ GoOn(k, [op |-> "match", todo |-> cycle[k].todo \ {b}])
                 \/ \E r \in Matchable :
                       GoOn(k, [op |-> "orders", todo |-> cycle[k].todo \ {b},
                                batch |-> b, rider |-> r])
          BY <3>2 DEF MatchRider
        <4>2. CASE GoOn(k, Resting)
          BY <4>2 DEF Resting
        <4>3. CASE GoOn(k, [op |-> "match", todo |-> cycle[k].todo \ {b}])
          BY <4>3
        <4>4. ASSUME NEW r \in Matchable,
                     GoOn(k, [op |-> "orders", todo |-> cycle[k].todo \ {b},
                              batch |-> b, rider |-> r])
              PROVE  \E c : GoOn(k, c) /\ c.op \notin {"cluster", "update"}
          BY <4>4
        <4> QED
          BY <4>1, <4>2, <4>3, <4>4
      <3>3. CASE MatchOrders(k)
        BY <3>3 DEF MatchOrders, Claiming
      <3>4. CASE CycleDone(k) \/ CycleCrash(k)
        BY <3>4 DEF CycleDone, CycleCrash, Resting
      <3> QED
        BY <1>3, <3>1, <3>2, <3>3, <3>4
    <2>2. UNCHANGED batchVars
      BY <1>3 DEF MatchFind, MatchRider, MatchOrders, CycleDone, CycleCrash
    <2> QED
      BY <1>1, <2>1, <2>2, BatchesKept
  <1>4. ASSUME NEW o \in Orders, MatchClaim(k, o)
        PROVE  BatchesInv'
    <2>1. \E c : GoOn(k, c) /\ c.op \notin {"cluster", "update"}
      BY <1>4 DEF MatchClaim, Claiming
    <2>2. UNCHANGED batchVars
      BY <1>4 DEF MatchClaim
    <2> QED
      BY <1>1, <2>1, <2>2, BatchesKept
  <1> QED
    BY <1>1, <1>2, <1>3, <1>4, SaveKeepsBatches, UpdateKeepsBatches, SavedRiderKeepsBatches
    DEF CycleStep

\* The requests leave the batches alone.
LEMMA RequestsKeepBatches ==
    ASSUME BatchesInv, BatchingTyped', UNCHANGED <<alone, batchVars, cycle>>
    PROVE  BatchesInv'
  BY DEF BatchesInv, batchVars, OneCycle, CountIsTrue, OrdersIn

LEMMA BatchesStep == BatchesInv /\ [BatchingNext]_batchingVars => BatchesInv'
  <1> SUFFICES ASSUME BatchesInv, [BatchingNext]_batchingVars PROVE BatchesInv'
    OBVIOUS
  <1>1. BatchingTyped'
    BY BatchingStepTyped DEF BatchesInv
  <1>2. ASSUME UNCHANGED <<alone, query, batchVars, cycle>>
        PROVE  BatchesInv'
    BY <1>1, <1>2, RequestsKeepBatches
  <1> QED
    BY <1>2, CycleKeepsBatches DEF BatchingNext, batchingVars

\* order_count of a batch is the number of its orders, or the pod died before any
\* was told: whatever is claimed, cancelled or PATCHed between find, save and UPDATE.
THEOREM CountIsTrueHolds == BatchingSpec => []CountIsTrue
  <1>1. BatchesInv => CountIsTrue
    BY DEF BatchesInv
  <1> QED
    BY <1>1, BatchesInit, BatchesStep, PTL DEF BatchingSpec, batchingVars

\* An order that is in a batch is never moved to another one.
THEOREM BatchKeptHolds == BatchingSpec => BatchKept
  <1> DEFINE Kept == alone => \A o \in Orders : batchOf[o] # NoBatch => batchOf'[o] = batchOf[o]
  <1>1. ASSUME BatchesInv, NEW k \in Cycles, CycleStep(k), alone, NEW o \in Orders,
               batchOf[o] # NoBatch
        PROVE  batchOf'[o] = batchOf[o]
    <2>1. CASE ClusterUpdate(k)
      BY <1>1, <2>1 DEF ClusterUpdate, BatchesInv, Clusters
    <2>2. CASE ~ ClusterUpdate(k)
      BY <1>1, <2>2
      DEF CycleStep, ClusterFind, ClusterSave, MatchFind, MatchRider, MatchOrders, MatchClaim,
          MatchSave, CycleDone, CycleCrash, batchVars
    <2> QED
      BY <2>1, <2>2
  <1>2. BatchesInv /\ [BatchingNext]_batchingVars => [Kept]_batchOf
    BY <1>1 DEF BatchingNext, batchingVars, batchVars
  <1> QED
    BY <1>2, BatchesInit, BatchesStep, PTL DEF BatchingSpec, batchingVars, BatchKept

--------------------------------------------------------------------------------
(* The job keeps what Dispatch promises.                                    *)

\* All the job does to orders and riders: order o, claimable now, becomes r's, and r
\* is BUSY from the first claim on.
JobClaims(o, r) ==
    /\ Claimable(o)
    /\ ClaimOrder(o, r)
    /\ \/ riderStatus' = riderStatus
       \/ RiderClaimable(r) /\ riderStatus' = [riderStatus EXCEPT ![r] = "BUSY"]
    /\ UNCHANGED <<otpVerified, tier, verification, call>>

\* The rider a cycle has chosen was VERIFIED then, whatever the verdict is now.
ChosenReviewed(c, verdict) == c.op \in {"orders", "claim"} => verdict[c.rider] # "PENDING"

LEMMA JobStep ==
    ASSUME BatchingTyped, NEW k \in Cycles, CycleStep(k)
    PROVE  \/ UNCHANGED vars
           \/ \E o \in Orders : cycle[k].op = "claim" /\ JobClaims(o, cycle[k].rider)
  <1>1. ASSUME NEW o \in Orders, MatchClaim(k, o)
        PROVE  \/ UNCHANGED vars
               \/ cycle[k].op = "claim" /\ JobClaims(o, cycle[k].rider)
    <2> DEFINE c == cycle[k]
    <2>1. CASE (c.riderClaimed \/ RiderClaimable(c.rider)) /\ Claimable(o)
      <3>1. c.op = "claim" /\ c.riderClaimed \in BOOLEAN
        BY <1>1, CycleFields DEF MatchClaim, BatchingTyped
      <3> QED
        BY <1>1, <2>1, <3>1 DEF MatchClaim, JobClaims
    <2>2. CASE ~ ((c.riderClaimed \/ RiderClaimable(c.rider)) /\ Claimable(o))
      <3>1. UNCHANGED <<status, riderOf, riderStatus>>
        BY <1>1, <2>2 DEF MatchClaim
      <3>2. UNCHANGED <<tier, otpVerified, verification, call>>
        BY <1>1 DEF MatchClaim
      <3> QED
        BY <3>1, <3>2 DEF vars
    <2> QED
      BY <2>1, <2>2
  <1>2. ASSUME \/ ClusterFind(k) \/ ClusterSave(k) \/ ClusterUpdate(k) \/ MatchFind(k)
               \/ MatchRider(k) \/ MatchOrders(k) \/ MatchSave(k) \/ CycleDone(k) \/ CycleCrash(k)
        PROVE  UNCHANGED vars
    <2>1. UNCHANGED dispatchVars
      BY <1>2
      DEF ClusterFind, ClusterSave, ClusterUpdate, MatchFind, MatchRider, MatchOrders, MatchSave,
          CycleDone, CycleCrash
    <2> QED
      BY <2>1 DEF dispatchVars, vars
  <1> QED
    BY <1>1, <1>2 DEF CycleStep

\* A step is one of Dispatch, or a claim of the job.
LEMMA JobOrDispatch ==
    ASSUME BatchingTyped, [BatchingNext]_batchingVars
    PROVE  \/ [Next]_vars
           \/ \E o \in Orders, r \in Riders : JobClaims(o, r)
  <1>1. ASSUME NEW k \in Cycles, NEW o \in Orders, cycle[k].op = "claim",
               JobClaims(o, cycle[k].rider)
        PROVE  \E r \in Riders : JobClaims(o, r)
    BY <1>1, CycleFields DEF BatchingTyped
  <1> QED
    BY <1>1, JobStep DEF BatchingNext, batchingVars

\* An order claimed by the job was nobody's.
LEMMA JobReplacesNobody ==
    ASSUME TypeOK, NEW o \in Orders, NEW r \in Riders, JobClaims(o, r),
           NEW x \in Orders, riderOf[x] # NoRider
    PROVE  riderOf'[x] = riderOf[x]
  BY DEF JobClaims, Claimable, ClaimOrder, TypeOK

LEMMA JobKeepsBound ==
    ASSUME TypeOK, BoundInv, NEW o \in Orders, NEW r \in Riders, JobClaims(o, r)
    PROVE  BoundInv'
  <1>1. ActiveHasRider'
    BY DispatchAssumption DEF BoundInv, ActiveHasRider, JobClaims, ClaimOrder, TypeOK
  <1>2. ASSUME NEW w \in Slots
        PROVE  BoundCall(call'[w], riderOf')
    <2>1. call'[w] = call[w] /\ BoundCall(call[w], riderOf)
      BY DEF JobClaims, BoundInv
    <2>2. call[w].op \in {"update", "confirm", "settling"} => call[w].order \in Orders
      BY CallFields DEF WriterOps
    <2> QED
      BY <2>1, <2>2, JobReplacesNobody DEF BoundCall
  <1> QED
    BY <1>1, <1>2 DEF BoundInv

LEMMA JobKeepsOtp ==
    ASSUME TypeOK, OtpInv, NEW o \in Orders, NEW r \in Riders, JobClaims(o, r)
    PROVE  OtpInv'
  <1>1. otpVerified' = otpVerified /\ call' = call
    BY DEF JobClaims
  <1>2. \A x \in Orders : status'[x] \in Confirmed => status[x] \in Confirmed
    BY DEF JobClaims, ClaimOrder, TypeOK, Confirmed
  <1> QED
    BY <1>1, <1>2 DEF OtpInv

LEMMA JobKeepsHalf ==
    ASSUME TypeOK, NothingHalfAssigned, NEW o \in Orders, NEW r \in Riders, JobClaims(o, r)
    PROVE  NothingHalfAssigned'
  <1> SUFFICES ASSUME NEW q \in Riders, riderStatus'[q] = "BUSY"
               PROVE  \E x \in Orders : riderOf'[x] = q
    BY DEF NothingHalfAssigned
  <1>1. CASE q = r
    BY <1>1 DEF JobClaims, ClaimOrder, TypeOK
  <1>2. CASE q # r
    <2>1. riderStatus[q] = "BUSY"
      BY <1>2 DEF JobClaims, TypeOK
    <2>2. PICK x \in Orders : riderOf[x] = q
      BY <2>1 DEF NothingHalfAssigned
    <2> QED
      BY <2>2, JobReplacesNobody, DispatchAssumption
  <1> QED
    BY <1>1, <1>2

LEMMA JobKeepsCurrent ==
    ASSUME TypeOK, CurrentInv, NEW o \in Orders, NEW r \in Riders, JobClaims(o, r)
    PROVE  CurrentInv'
  <1>1. ASSUME NEW w \in Slots
        PROVE  CurrentCall(call'[w], status')
    BY ClaimKeepsCurrent DEF JobClaims, Claimable, ClaimOrder, CurrentInv
  <1> QED
    BY <1>1 DEF CurrentInv, Exclusive, JobClaims

LEMMA JobKeepsFreed ==
    ASSUME TypeOK, FreedInv, NEW o \in Orders, NEW r \in Riders, JobClaims(o, r)
    PROVE  FreedInv'
  <1>1. \A q \in Riders : Forgotten(q)' => Forgotten(q)
    BY ClaimForgetsNobody DEF JobClaims
  <1> QED
    BY <1>1 DEF FreedInv, Freeing, JobClaims

\* A claim by a cycle that has chosen a reviewed rider.
LEMMA JobKeepsReviewed ==
    ASSUME TypeOK, ReviewedInv, NEW o \in Orders, NEW r \in Riders, JobClaims(o, r),
           verification[r] # "PENDING"
    PROVE  ReviewedInv'
  <1>1. call' = call /\ verification' = verification
    BY DEF JobClaims
  <1>2. OnlyReviewedRidersCarry'
    BY <1>1 DEF ReviewedInv, OnlyReviewedRidersCarry, JobClaims, ClaimOrder, TypeOK
  <1> QED
    BY <1>1, <1>2 DEF ReviewedInv, ReviewedCall

\* The cycles keep to the riders they have chosen.
LEMMA ChosenStep ==
    ASSUME BatchingTyped, \A k \in Cycles : ChosenReviewed(cycle[k], verification),
           [BatchingNext]_batchingVars
    PROVE  \A k \in Cycles : ChosenReviewed(cycle'[k], verification')
  <1> SUFFICES ASSUME NEW k \in Cycles
               PROVE  ChosenReviewed(cycle'[k], verification')
    OBVIOUS
  <1>1. ASSUME UNCHANGED cycle, [Next]_vars
        PROVE  ChosenReviewed(cycle'[k], verification')
    <2>1. cycle[k].op \in {"orders", "claim"} => cycle[k].rider \in Riders
      BY CycleFields DEF BatchingTyped
    <2> QED
      BY <1>1, <2>1, ReviewedStays DEF BatchingTyped, BatchingTypeOK, ChosenReviewed
  <1>2. ASSUME NEW j \in Cycles, CycleStep(j)
        PROVE  ChosenReviewed(cycle'[k], verification')
    <2>1. verification' = verification
      BY <1>2, JobStep DEF vars, JobClaims
    <2>2. ASSUME NEW c, GoOn(j, c), ChosenReviewed(c, verification)
          PROVE  ChosenReviewed(cycle'[k], verification')
      BY <2>1, <2>2, GoOnExact DEF BatchingTyped
    <2>3. CASE ClusterFind(j) \/ ClusterSave(j) \/ ClusterUpdate(j)
      BY <2>2, <2>3 DEF ClusterFind, ClusterSave, ClusterUpdate, ChosenReviewed
    <2>4. CASE MatchFind(j) \/ MatchSave(j) \/ CycleDone(j) \/ CycleCrash(j)
      BY <2>2, <2>4 DEF MatchFind, MatchSave, CycleDone, CycleCrash, ChosenReviewed, Resting
    <2>5. CASE MatchRider(j)
      <3>1. ASSUME NEW T, NEW b, NEW r \in Matchable,
                   GoOn(j, [op |-> "orders", todo |-> T, batch |-> b, rider |-> r])
            PROVE  ChosenReviewed(cycle'[k], verification')
        <4> DEFINE c == [op |-> "orders", todo |-> T, batch |-> b, rider |-> r]
        <4>1. ChosenReviewed(c, verification)
          BY DEF Matchable, ChosenReviewed
        <4> QED
          BY <2>2, <3>1, <4>1
      <3>2. ASSUME NEW c, GoOn(j, c), c.op \in {"match", "resting"}
            PROVE  ChosenReviewed(cycle'[k], verification')
        BY <2>2, <3>2 DEF ChosenReviewed
      <3>3. PICK b \in cycle[j].todo :
                \/ GoOn(j, Resting)
                \/ GoOn(j, [op |-> "match", todo |-> cycle[j].todo \ {b}])
                \/ \E r \in Matchable :
                      GoOn(j, [op |-> "orders", todo |-> cycle[j].todo \ {b}, batch |-> b,
                               rider |-> r])
        BY <2>5 DEF MatchRider
      <3>4. CASE GoOn(j, Resting)
        BY <3>2, <3>4 DEF Resting
      <3>5. CASE GoOn(j, [op |-> "match", todo |-> cycle[j].todo \ {b}])
        BY <3>2, <3>5
      <3> QED
        BY <3>1, <3>3, <3>4, <3>5
    <2>6. CASE MatchOrders(j) \/ \E o \in Orders : MatchClaim(j, o)
      <3>1. cycle[j].op \in {"orders", "claim"} /\ verification[cycle[j].rider] # "PENDING"
        BY <2>6 DEF MatchOrders, MatchClaim, ChosenReviewed
      <3>2. ASSUME NEW left, NEW claimed, GoOn(j, Claiming(cycle[j], left, claimed))
            PROVE  ChosenReviewed(cycle'[k], verification')
        BY <2>2, <3>1, <3>2 DEF Claiming, ChosenReviewed
      <3>3. CASE MatchOrders(j)
        BY <3>2, <3>3 DEF MatchOrders
      <3>4. ASSUME NEW o \in Orders, MatchClaim(j, o)
            PROVE  ChosenReviewed(cycle'[k], verification')
        BY <3>2, <3>4 DEF MatchClaim
      <3> QED
        BY <2>6, <3>3, <3>4
    <2> QED
      BY <1>2, <2>3, <2>4, <2>5, <2>6 DEF CycleStep
  <1>3. CASE UNCHANGED batchingVars
    BY <1>1, <1>3 DEF batchingVars
  <1> QED
    BY <1>1, <1>2, <1>3 DEF BatchingNext

--------------------------------------------------------------------------------
(* So what Dispatch promises holds beside the job.                          *)

\* "Conditional claim": beside any number of cycles, requests and crashes an order keeps
\* the first rider bound to it.
THEOREM RiderNeverReplacedByJob == BatchingSpec => RiderNeverReplaced
  <1> DEFINE Kept == \A o \in Orders : riderOf[o] # NoRider => riderOf'[o] = riderOf[o]
  <1>1. BatchingTyped /\ [BatchingNext]_batchingVars => [Kept]_riderOf
    BY JobOrDispatch, BoundStays, JobReplacesNobody DEF BatchingTyped, BatchingTypeOK
  <1>2. BatchingInit => BatchingTyped
    BY BatchingInitTyped
  <1>3. BatchingTyped /\ [BatchingNext]_batchingVars => BatchingTyped'
    BY BatchingStepTyped
  <1> QED
    BY <1>1, <1>2, <1>3, PTL DEF BatchingSpec, batchingVars, RiderNeverReplaced

\* No order is under way without a rider, whoever bound him: the app, a station, the
\* bundling or the job.
THEOREM ActiveHasRiderBesideJob ==
    "RIDER_ASSIGNED" \notin ClientStatuses => (BatchingSpec => []ActiveHasRider)
  <1> SUFFICES ASSUME "RIDER_ASSIGNED" \notin ClientStatuses
               PROVE  BatchingSpec => []ActiveHasRider
    OBVIOUS
  <1> DEFINE I == BatchingTyped /\ BoundInv
  <1>1. BatchingInit => I
    BY BatchingInitTyped, BoundInit DEF BatchingInit
  <1>2. I /\ [BatchingNext]_batchingVars => I'
    BY BatchingStepTyped, JobOrDispatch, BoundStep, JobKeepsBound
    DEF BatchingTyped, BatchingTypeOK
  <1>3. I => ActiveHasRider
    BY DEF BoundInv
  <1> QED
    BY <1>1, <1>2, <1>3, PTL DEF BatchingSpec, batchingVars

\* Settlement still asks for the one-time password.
THEOREM ConfirmedWithOtpBesideJob ==
    ClientStatuses \cap Confirmed = {} => (BatchingSpec => []ConfirmedWithOtp)
  <1> SUFFICES ASSUME ClientStatuses \cap Confirmed = {}
               PROVE  BatchingSpec => []ConfirmedWithOtp
    OBVIOUS
  <1> DEFINE I == BatchingTyped /\ OtpInv
  <1>1. BatchingInit => I
    BY BatchingInitTyped, OtpInit DEF BatchingInit
  <1>2. I /\ [BatchingNext]_batchingVars => I'
    BY BatchingStepTyped, JobOrDispatch, OtpStep, JobKeepsOtp DEF BatchingTyped, BatchingTypeOK
  <1>3. I => ConfirmedWithOtp
    BY DEF OtpInv, ConfirmedWithOtp, Confirmed
  <1> QED
    BY <1>1, <1>2, <1>3, PTL DEF BatchingSpec, batchingVars

\* A rider the job has made BUSY has an order: the first claim of a batch binds both.
THEOREM NothingHalfAssignedByJob ==
    "BUSY" \notin RiderToggles => (BatchingSpec => []NothingHalfAssigned)
  <1> SUFFICES ASSUME "BUSY" \notin RiderToggles
               PROVE  BatchingSpec => []NothingHalfAssigned
    OBVIOUS
  <1> DEFINE I == BatchingTyped /\ NothingHalfAssigned
  <1>1. BatchingInit => I
    BY BatchingInitTyped DEF BatchingInit, Init, NothingHalfAssigned
  <1>2. I /\ [BatchingNext]_batchingVars => I'
    BY BatchingStepTyped, JobOrDispatch, HalfStep, JobKeepsHalf DEF BatchingTyped, BatchingTypeOK
  <1> QED
    BY <1>1, <1>2, PTL DEF BatchingSpec, batchingVars

\* The job matches VERIFIED riders only, and a later verdict makes nobody unreviewed.
THEOREM OnlyReviewedRidersCarryBesideJob ==
    ~ StaffAssigns => (BatchingSpec => []OnlyReviewedRidersCarry)
  <1> SUFFICES ASSUME ~ StaffAssigns
               PROVE  BatchingSpec => []OnlyReviewedRidersCarry
    OBVIOUS
  <1> DEFINE Chosen == \A k \in Cycles : ChosenReviewed(cycle[k], verification)
             I == BatchingTyped /\ ReviewedInv /\ Chosen
  <1>1. BatchingInit => I
    BY BatchingInitTyped, ReviewedInit DEF BatchingInit, ChosenReviewed, Resting
  <1>2. I /\ [BatchingNext]_batchingVars => I'
    <2> SUFFICES ASSUME I, [BatchingNext]_batchingVars PROVE I'
      OBVIOUS
    <2>1. BatchingTyped' /\ Chosen'
      BY BatchingStepTyped, ChosenStep
    <2>2. ASSUME NEW k \in Cycles, CycleStep(k)
          PROVE  ReviewedInv'
      <3>1. CASE UNCHANGED vars
        BY <3>1, ReviewedStep DEF BatchingTyped, BatchingTypeOK
      <3>2. ASSUME NEW o \in Orders, cycle[k].op = "claim", JobClaims(o, cycle[k].rider)
            PROVE  ReviewedInv'
        <4>1. cycle[k].rider \in Riders /\ verification[cycle[k].rider] # "PENDING"
          BY <3>2, CycleFields DEF BatchingTyped, ChosenReviewed
        <4> QED
          BY <3>2, <4>1, JobKeepsReviewed DEF BatchingTyped, BatchingTypeOK
      <3> QED
        BY <2>2, <3>1, <3>2, JobStep
    <2>3. ASSUME [Next]_vars
          PROVE  ReviewedInv'
      BY <2>3, ReviewedStep DEF BatchingTyped, BatchingTypeOK
    <2> QED
      BY <2>1, <2>2, <2>3 DEF BatchingNext, batchingVars
  <1>3. I => OnlyReviewedRidersCarry
    BY DEF ReviewedInv
  <1> QED
    BY <1>1, <1>2, <1>3, PTL DEF BatchingSpec, batchingVars

\* With shipped clients that do not race on one order, the order lifecycle is
\* implemented by the requests and the job together.
THEOREM LifecycleBesideJob == OneShippedWriter => (BatchingSpec => ImplementsLifecycle)
  <1> SUFFICES ASSUME OneShippedWriter
               PROVE  BatchingSpec => ImplementsLifecycle
    OBVIOUS
  <1> DEFINE I == BatchingTyped /\ CurrentInv
  <1>1. BatchingInit => I /\ Lifecycle!Init
    BY BatchingInitTyped, CurrentInit DEF BatchingInit, Init, Lifecycle!Init
  <1>2. I /\ [BatchingNext]_batchingVars => I'
    BY BatchingStepTyped, JobOrDispatch, CurrentStep, JobKeepsCurrent
    DEF BatchingTyped, BatchingTypeOK
  <1>3. ASSUME NEW o \in Orders, NEW r \in Riders, JobClaims(o, r)
        PROVE  Lifecycle!Next
    BY <1>3 DEF JobClaims, Claimable, ClaimOrder, Lifecycle!Next, Lifecycle!Claim
  <1>4. I /\ [BatchingNext]_batchingVars => [Lifecycle!Next]_(Lifecycle!vars)
    BY <1>3, JobOrDispatch, LifecycleStep DEF BatchingTyped, BatchingTypeOK
  <1> QED
    BY <1>1, <1>2, <1>4, PTL
    DEF BatchingSpec, batchingVars, ImplementsLifecycle, Lifecycle!Spec

\* Whom the job has made BUSY is freed as well.
THEOREM NoStrandedRiderBesideJob == Undisturbed => (BatchingSpec => []NoStrandedRider)
  <1> SUFFICES ASSUME Undisturbed
               PROVE  BatchingSpec => []NoStrandedRider
    OBVIOUS
  <1> DEFINE I == BatchingTyped /\ CurrentInv /\ FreedInv
  <1>1. BatchingInit => I
    BY BatchingInitTyped, CurrentInit, FreedInit DEF BatchingInit
  <1>2. I /\ [BatchingNext]_batchingVars => I'
    BY BatchingStepTyped, JobOrDispatch, CurrentStep, JobKeepsCurrent, FreedStep, JobKeepsFreed
    DEF BatchingTyped, BatchingTypeOK, Undisturbed
  <1>3. I => NoStrandedRider
    BY FreedNotStranded
  <1> QED
    BY <1>1, <1>2, <1>3, PTL DEF BatchingSpec, batchingVars
================================================================================
