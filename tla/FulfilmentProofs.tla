--------------------------- MODULE FulfilmentProofs ---------------------------
(****************************************************************************)
(* The stock and the money for any number of orders, items, requests and    *)
(* connections, in every world.                                             *)
(****************************************************************************)
EXTENDS Fulfilment, SumTheorems, SequenceTheorems, FiniteSetTheorems, TLAPS

--------------------------------------------------------------------------------
(* Type correctness.                                                        *)

\* The transactions that have written stock rows and not committed them.
HoldingOps == {"create", "cancelling", "cancelled"}

\* The fields of each kind of request.
LEMMA CallFields ==
    ASSUME TypeOK, NEW w \in Slots
    PROVE  /\ call[w] # Idle => call[w].order \in Orders
           /\ call[w].op \in WriterOps \cup {"numbering", "create", "credit"} =>
                  call[w].order \in Orders
           /\ call[w].op = "update" => call[w].to \in PatchTargets
           /\ call[w].op \in {"create", "cancelling", "paying"} => call[w].left \in Seq(Item)
           /\ call[w].op \in HoldingOps => call[w].dirty \in Dirty
  <1>1. call[w] \in Calls
    BY DEF TypeOK
  <1> QED
    BY <1>1 DEF Calls, Idle, WriterOps, HoldingOps

\* The requests the handlers continue with.
LEMMA CallForms ==
    /\ Idle \in Calls
    /\ \A o \in Orders :
          /\ \A op \in {"numbering", "cancel", "finding", "confirm", "settle", "settling",
                        "completing", "credit"} :
                [op |-> op, order |-> o] \in Calls
          /\ \A s \in PatchTargets : [op |-> "update", order |-> o, to |-> s] \in Calls
          /\ \A dirty \in Dirty : [op |-> "cancelled", order |-> o, dirty |-> dirty] \in Calls
          /\ \A items \in Seq(Item) :
                /\ [op |-> "paying", order |-> o, left |-> items] \in Calls
                /\ \A op \in {"create", "cancelling"}, dirty \in Dirty :
                      [op |-> op, order |-> o, left |-> items, dirty |-> dirty] \in Calls
  BY DEF Calls

LEMMA NothingYetTyped == NothingYet \in Dirty
  BY DEF NothingYet, Dirty

\* The items of an order, in whatever order the query returns them.
LEMMA ItemsTyped ==
    ASSUME NEW o \in Orders, NEW items \in ItemsOf(o)
    PROVE  items \in Seq(Item)
  <1> DEFINE D == DOMAIN Basket[o]
  <1>1. Basket[o] \in Seq(Item) /\ D = 1 .. Len(Basket[o]) /\ Len(Basket[o]) \in Nat
    BY FulfilmentAssumption
  <1>2. PICK p \in [D -> D] : items = [i \in D |-> Basket[o][p[i]]]
    BY DEF ItemsOf
  <1>3. \A i \in D : Basket[o][p[i]] \in Item
    BY <1>1, <1>2, ElementOfSeq
  <1>4. items \in [1 .. Len(Basket[o]) -> Item]
    BY <1>1, <1>2, <1>3
  <1> QED
    BY <1>1, <1>4, SeqDef

\* The next item, and what is left after it.
LEMMA NextItem ==
    ASSUME NEW items \in Seq(Item), items # <<>>
    PROVE  /\ Head(items) \in Item
           /\ Head(items).type \in Types
           /\ Head(items).quantity \in Nat
           /\ Tail(items) \in Seq(Item)
  <1>1. Head(items) \in Item /\ Tail(items) \in Seq(Item)
    BY HeadTailProperties
  <1> QED
    BY <1>1 DEF Item

\* What a transaction sees and will commit are numbers.
LEMMA SeenTyped ==
    ASSUME TypeOK, NEW w \in Slots, call[w].op \in HoldingOps, NEW t \in Types
    PROVE  /\ Seen(w, t) \in Int
           /\ \A n \in Int : WithUpdate(w, t, n) \in Dirty
  <1>1. call[w].dirty \in [Types -> Int \cup {NotLocked}]
    BY CallFields DEF Dirty
  <1>2. Seen(w, t) \in Int
    BY <1>1 DEF Seen, TypeOK
  <1>3. ASSUME NEW n \in Int
        PROVE  WithUpdate(w, t, n) \in Dirty
    BY <1>1, <1>3 DEF WithUpdate, Dirty
  <1> QED
    BY <1>2, <1>3

LEMMA CommittedTyped ==
    ASSUME TypeOK, NEW w \in Slots, call[w].op \in HoldingOps
    PROVE  Committed(w) \in [Types -> Int]
  BY SeenTyped DEF Committed

LEMMA ReleasedTyped ==
    ASSUME NEW n \in Int, NEW quantity \in Nat
    PROVE  /\ Released(n, quantity) \in Int
           /\ n >= 0 => Released(n, quantity) >= 0
           /\ Decreased(n, quantity) \in Nat
  BY DEF Released, Decreased

LEMMA ContinueTyped ==
    ASSUME TypeOK, NEW w \in Slots, NEW c \in Calls, Continue(w, c)
    PROVE  /\ call' \in [Slots -> Calls] /\ connected' \subseteq Slots
           /\ world' \in Worlds /\ pool' \in PoolSizes
  <1>1. connected' \subseteq Slots
    BY DEF TypeOK, Continue
  <1>2. call' \in [Slots -> Calls] /\ world' \in Worlds /\ pool' \in PoolSizes
    BY DEF TypeOK, Continue
  <1> QED
    BY <1>1, <1>2

LEMMA TypeInit == Init => TypeOK
  <1> SUFFICES ASSUME Init PROVE TypeOK
    OBVIOUS
  <1>1. call \in [Slots -> Calls] /\ connected \subseteq Slots
    BY CallForms DEF Init
  <1> QED
    BY <1>1, FulfilmentAssumption DEF Init, TypeOK, Status

LEMMA TypeStep == TypeOK /\ [Next]_vars => TypeOK'
  <1> SUFFICES ASSUME TypeOK, [Next]_vars PROVE TypeOK'
    OBVIOUS
  <1> USE FulfilmentAssumption
  \* A step that only continues with c.
  <1>0. ASSUME NEW w \in Slots, NEW c \in Calls, Continue(w, c), UNCHANGED <<status, stock, money>>
        PROVE  TypeOK'
    BY <1>0, ContinueTyped DEF TypeOK, stock, money
  <1>1. ASSUME NEW w \in Slots, NEW o \in Orders, CreateBegin(w, o)
        PROVE  TypeOK'
    BY <1>0, <1>1, CallForms DEF CreateBegin
  <1>16. ASSUME NEW w \in Slots, GenerateOrderNumber(w)
         PROVE  TypeOK'
    <2>1. call[w].order \in Orders
      BY <1>16, CallFields DEF GenerateOrderNumber
    <2>2. Basket[call[w].order] \in Seq(Item)
      BY <2>1
    <2> QED
      BY <1>0, <1>16, <2>1, <2>2, CallForms, NothingYetTyped DEF GenerateOrderNumber
  <1>2. ASSUME NEW w \in Slots, CreateReserve(w)
        PROVE  TypeOK'
    <2> DEFINE item == Head(call[w].left)
               n == Seen(w, item.type) + item.quantity
               c == [op |-> "create", order |-> call[w].order, left |-> Tail(call[w].left),
                     dirty |-> WithUpdate(w, item.type, n)]
    <2>1. /\ call[w].order \in Orders /\ Tail(call[w].left) \in Seq(Item)
          /\ item.type \in Types /\ item.quantity \in Nat
      BY <1>2, CallFields, NextItem DEF CreateReserve
    <2>2. WithUpdate(w, item.type, n) \in Dirty
      BY <1>2, <2>1, SeenTyped DEF CreateReserve, HoldingOps
    <2>3. c \in Calls /\ Idle \in Calls
      BY <2>1, <2>2, CallForms
    <2>4. Continue(w, c) \/ Continue(w, Idle)
      BY <1>2 DEF CreateReserve
    <2> QED
      BY <1>0, <1>2, <2>3, <2>4 DEF CreateReserve
  <1>3. ASSUME NEW w \in Slots, CreateCommit(w) \/ CancelCommit(w)
        PROVE  TypeOK'
    <2>1. call[w].order \in Orders /\ Committed(w) \in [Types -> Int]
      BY <1>3, CallFields, CommittedTyped DEF CreateCommit, CancelCommit, WriterOps, HoldingOps
    <2> QED
      BY <1>3, <2>1, CallForms, ContinueTyped
      DEF CreateCommit, CancelCommit, TypeOK, Status, money
  <1>17. ASSUME NEW w \in Slots,
                \/ \E o \in Orders : CancelRead(w, o)
                \/ CancelBegin(w)
         PROVE  TypeOK'
    BY <1>0, <1>17, CallFields, CallForms DEF CancelRead, CancelBegin, WriterOps
  <1>4. ASSUME NEW w \in Slots, CancelFindItems(w)
        PROVE  TypeOK'
    <2>1. call[w].order \in Orders
      BY <1>4, CallFields DEF CancelFindItems, WriterOps
    <2>2. PICK items \in ItemsOf(call[w].order) :
             Continue(w, [op |-> "cancelling", order |-> call[w].order, left |-> items,
                          dirty |-> NothingYet])
      BY <1>4 DEF CancelFindItems
    <2> QED
      BY <1>0, <1>4, <2>1, <2>2, CallForms, NothingYetTyped, ItemsTyped DEF CancelFindItems
  <1>18. ASSUME NEW w \in Slots, CancelUpdate(w)
         PROVE  TypeOK'
    <2>1. call[w].order \in Orders /\ call[w].dirty \in Dirty
      BY <1>18, CallFields DEF CancelUpdate, WriterOps, HoldingOps
    <2> QED
      BY <1>0, <1>18, <2>1, CallForms DEF CancelUpdate
  <1>19. ASSUME NEW w \in Slots, Connect(w)
         PROVE  TypeOK'
    BY <1>19 DEF Connect, TypeOK, stock, money
  <1>5. ASSUME NEW w \in Slots, CancelRelease(w)
        PROVE  TypeOK'
    <2> DEFINE item == Head(call[w].left)
               n == Released(Seen(w, item.type), item.quantity)
    <2>1. /\ call[w].order \in Orders /\ Tail(call[w].left) \in Seq(Item)
          /\ item.type \in Types /\ item.quantity \in Nat
      BY <1>5, CallFields, NextItem DEF CancelRelease, WriterOps
    <2>2. WithUpdate(w, item.type, n) \in Dirty
      BY <1>5, <2>1, SeenTyped, ReleasedTyped DEF CancelRelease, HoldingOps
    <2> QED
      BY <1>0, <1>5, <2>1, <2>2, CallForms DEF CancelRelease
  <1>6. ASSUME NEW w \in Slots, NEW o \in Orders,
               ConfirmDeliveryRead(w, o) \/ \E s \in PatchTargets : UpdateStatusRead(w, o, s)
        PROVE  TypeOK'
    BY <1>0, <1>6, CallForms DEF ConfirmDeliveryRead, UpdateStatusRead
  <1>7. ASSUME NEW w \in Slots, UpdateStatusWrite(w) \/ ConfirmDeliveryWrite(w)
        PROVE  TypeOK'
    BY <1>7, CallFields, CallForms, ContinueTyped
    DEF UpdateStatusWrite, ConfirmDeliveryWrite, TypeOK, Status, WriterOps, stock, money
  <1>8. ASSUME NEW w \in Slots, SettleRead(w) \/ SettleOrder(w)
        PROVE  TypeOK'
    BY <1>0, <1>8, CallFields, CallForms DEF SettleRead, SettleOrder, WriterOps
  <1>9. ASSUME NEW w \in Slots, SettleStation(w)
        PROVE  TypeOK'
    <2>1. call[w].order \in Orders
      BY <1>9, CallFields DEF SettleStation, WriterOps
    <2>2. PICK items \in ItemsOf(call[w].order) :
             Continue(w, [op |-> "paying", order |-> call[w].order, left |-> items])
      BY <1>9 DEF SettleStation
    <2> QED
      BY <1>0, <1>9, <2>1, <2>2, CallForms, ItemsTyped DEF SettleStation
  <1>10. ASSUME NEW w \in Slots, CommitReservation(w)
         PROVE  TypeOK'
    <2> DEFINE item == Head(call[w].left)
    <2>1. /\ call[w].order \in Orders /\ Tail(call[w].left) \in Seq(Item)
          /\ item.type \in Types /\ item.quantity \in Nat
      BY <1>10, CallFields, NextItem DEF CommitReservation, WriterOps
    <2>2. Decreased(reserved[item.type], item.quantity) \in Int
      <3>1. reserved[item.type] \in Int
        BY <2>1 DEF TypeOK
      <3>2. Decreased(reserved[item.type], item.quantity) \in Nat
        BY <2>1, <3>1, ReleasedTyped
      <3> QED
        BY <3>2
    <2>3. /\ filled' = [filled EXCEPT ![item.type] = @ - item.quantity]
          /\ reserved' = [reserved EXCEPT ![item.type] = Decreased(@, item.quantity)]
          /\ Continue(w, [op |-> "paying", order |-> call[w].order,
                          left |-> Tail(call[w].left)])
          /\ UNCHANGED <<status, money>>
      BY <1>10 DEF CommitReservation
    <2>4. filled' \in [Types -> Int] /\ reserved' \in [Types -> Int]
      BY <2>1, <2>2, <2>3 DEF TypeOK
    <2>5. [op |-> "paying", order |-> call[w].order, left |-> Tail(call[w].left)] \in Calls
      BY <2>1, CallForms
    <2> QED
      BY <2>3, <2>4, <2>5, ContinueTyped DEF TypeOK, money
  <1>11. ASSUME NEW w \in Slots, SettleCommit(w)
         PROVE  TypeOK'
    <2>1. call[w].order \in Orders
      BY <1>11, CallFields DEF SettleCommit, WriterOps
    <2>2. status' \in [Orders -> Status] /\ booked' \in [Orders -> Nat]
      BY <1>11, <2>1 DEF SettleCommit, TypeOK, Status
    <2> QED
      BY <1>11, <2>1, <2>2, CallForms, ContinueTyped DEF SettleCommit, TypeOK, stock
  <1>15. ASSUME NEW w \in Slots, CreditWallet(w)
         PROVE  TypeOK'
    <2>1. credited' \in [Orders -> Nat]
      BY <1>15, CallFields DEF CreditWallet, TypeOK
    <2> QED
      BY <1>15, <2>1, CallForms, ContinueTyped DEF CreditWallet, TypeOK, stock
  <1>12. ASSUME NEW w \in Slots,
                Abandon(w) \/ Crash(w) \/ DeadlockVictim(w) \/ PoolTimeout(w)
         PROVE  TypeOK'
    BY <1>0, <1>12, CallForms DEF Abandon, Crash, DeadlockVictim, PoolTimeout
  <1>13. ASSUME NEW t \in Types, NEW delta \in Deltas, AdjustStock(t, delta)
         PROVE  TypeOK'
    <2>1. filled' \in [Types -> Int]
      BY <1>13 DEF AdjustStock, TypeOK
    <2> QED
      BY <1>13, <2>1 DEF AdjustStock, TypeOK, money
  <1>14. CASE UNCHANGED vars
    BY <1>14 DEF vars, stock, money, TypeOK
  <1> QED
    BY <1>1, <1>2, <1>3, <1>4, <1>5, <1>6, <1>7, <1>8, <1>9, <1>10, <1>11, <1>12, <1>13, <1>14,
       <1>15, <1>16, <1>17, <1>18, <1>19
    DEF Next, Request, Proceed

\* Type correctness of the stock and the money.
THEOREM TypeCorrect == Spec => []TypeOK
  BY TypeInit, TypeStep, PTL DEF Spec

--------------------------------------------------------------------------------
(* Reservations never become negative.                                      *)

\* What transactions will commit is not negative either.
ReservedInv ==
    /\ \A t \in Types : reserved[t] >= 0
    /\ \A w \in Slots : call[w].op \in HoldingOps =>
          \A t \in Types : call[w].dirty[t] # NotLocked => call[w].dirty[t] >= 0

LEMMA ContinueExact ==
    ASSUME TypeOK, NEW w \in Slots, NEW c, Continue(w, c)
    PROVE  /\ call'[w] = c
           /\ \A v \in Slots \ {w} : call'[v] = call[v]
  BY DEF TypeOK, Continue

LEMMA SeenNotNegative ==
    ASSUME TypeOK, ReservedInv, NEW w \in Slots, call[w].op \in HoldingOps,
           NEW t \in Types
    PROVE  Seen(w, t) >= 0
  BY DEF ReservedInv, Seen

\* A slot goes on to c, and what is reserved is not negative.
LEMMA ReservedAfter ==
    ASSUME TypeOK, ReservedInv, NEW w \in Slots, NEW c, Continue(w, c),
           \A t \in Types : reserved'[t] >= 0,
           c.op \in HoldingOps =>
               \A t \in Types : c.dirty[t] # NotLocked => c.dirty[t] >= 0
    PROVE  ReservedInv'
  BY ContinueExact DEF ReservedInv

\* One more row is locked and written.
LEMMA DirtyAfter ==
    ASSUME TypeOK, ReservedInv, NEW w \in Slots, call[w].op \in HoldingOps,
           NEW u \in Types, NEW n \in Int, n >= 0
    PROVE  \A t \in Types : WithUpdate(w, u, n)[t] # NotLocked => WithUpdate(w, u, n)[t] >= 0
  <1>1. call[w].dirty \in [Types -> Int \cup {NotLocked}]
    BY CallFields DEF Dirty
  <1> QED
    BY <1>1 DEF WithUpdate, ReservedInv

LEMMA ReservedStep == TypeOK /\ ReservedInv /\ [Next]_vars => ReservedInv'
  <1> SUFFICES ASSUME TypeOK, ReservedInv, [Next]_vars PROVE ReservedInv'
    OBVIOUS
  <1>0. ASSUME NEW w \in Slots, NEW c, Continue(w, c), UNCHANGED reserved,
               c.op \notin HoldingOps
        PROVE  ReservedInv'
    BY <1>0, ReservedAfter DEF ReservedInv
  <1>1. ASSUME NEW w \in Slots, GenerateOrderNumber(w) \/ CancelFindItems(w)
        PROVE  ReservedInv'
    <2>1. \A t \in Types : NothingYet[t] = NotLocked
      BY DEF NothingYet
    <2>2. PICK items, op :
             /\ op \in {"create", "cancelling"}
             /\ Continue(w, [op |-> op, order |-> call[w].order, left |-> items,
                             dirty |-> NothingYet])
      BY <1>1 DEF GenerateOrderNumber, CancelFindItems
    <2>3. UNCHANGED reserved
      BY <1>1 DEF GenerateOrderNumber, CancelFindItems, stock
    <2> QED
      BY <2>1, <2>2, <2>3, ReservedAfter DEF ReservedInv
  <1>2. ASSUME NEW w \in Slots, CreateReserve(w)
        PROVE  ReservedInv'
    <2> DEFINE item == Head(call[w].left)
               n == Seen(w, item.type) + item.quantity
               d == WithUpdate(w, item.type, n)
               c == [op |-> "create", order |-> call[w].order, left |-> Tail(call[w].left),
                     dirty |-> d]
    <2>1. item.type \in Types /\ item.quantity \in Nat
      BY <1>2, CallFields, NextItem DEF CreateReserve
    <2>2. n \in Int /\ n >= 0
      BY <1>2, <2>1, SeenTyped, SeenNotNegative DEF CreateReserve, HoldingOps
    <2>3. \A t \in Types : d[t] # NotLocked => d[t] >= 0
      BY <1>2, <2>1, <2>2, DirtyAfter DEF CreateReserve, HoldingOps
    <2>4. (Continue(w, c) \/ Continue(w, Idle)) /\ UNCHANGED reserved
      BY <1>2 DEF CreateReserve, stock
    <2>5. CASE Continue(w, c)
      BY <2>3, <2>4, <2>5, ReservedAfter DEF ReservedInv
    <2>6. CASE Continue(w, Idle)
      BY <1>0, <2>4, <2>6 DEF Idle, HoldingOps
    <2> QED
      BY <2>4, <2>5, <2>6
  <1>8. ASSUME NEW w \in Slots, CancelUpdate(w)
        PROVE  ReservedInv'
    <2>1. /\ Continue(w, [op |-> "cancelled", order |-> call[w].order, dirty |-> call[w].dirty])
          /\ UNCHANGED reserved /\ call[w].op \in HoldingOps
      BY <1>8 DEF CancelUpdate, HoldingOps, stock
    <2> QED
      BY <2>1, ReservedAfter DEF ReservedInv
  <1>3. ASSUME NEW w \in Slots, CancelRelease(w)
        PROVE  ReservedInv'
    <2> DEFINE item == Head(call[w].left)
               n == Released(Seen(w, item.type), item.quantity)
               d == WithUpdate(w, item.type, n)
               c == [op |-> "cancelling", order |-> call[w].order, left |-> Tail(call[w].left),
                     dirty |-> d]
    <2>1. item.type \in Types /\ item.quantity \in Nat
      BY <1>3, CallFields, NextItem DEF CancelRelease
    <2>2. n \in Int /\ n >= 0
      BY <1>3, <2>1, SeenTyped, SeenNotNegative, ReleasedTyped DEF CancelRelease, HoldingOps
    <2>3. \A t \in Types : d[t] # NotLocked => d[t] >= 0
      BY <1>3, <2>1, <2>2, DirtyAfter DEF CancelRelease, HoldingOps
    <2>4. Continue(w, c) /\ UNCHANGED reserved
      BY <1>3 DEF CancelRelease, stock
    <2> QED
      BY <2>3, <2>4, ReservedAfter DEF ReservedInv
  <1>4. ASSUME NEW w \in Slots, CreateCommit(w) \/ CancelCommit(w)
        PROVE  ReservedInv'
    <2>1. /\ call[w].op \in HoldingOps /\ reserved' = Committed(w)
          /\ Continue(w, Idle)
      BY <1>4 DEF CreateCommit, CancelCommit, HoldingOps
    <2>2. \A t \in Types : reserved'[t] >= 0
      BY <2>1, SeenNotNegative DEF Committed
    <2> QED
      BY <2>1, <2>2, ReservedAfter DEF Idle, HoldingOps
  <1>5. ASSUME NEW w \in Slots, CommitReservation(w)
        PROVE  ReservedInv'
    <2> DEFINE item == Head(call[w].left)
               c == [op |-> "paying", order |-> call[w].order, left |-> Tail(call[w].left)]
    <2>1. item.type \in Types /\ item.quantity \in Nat
      BY <1>5, CallFields, NextItem DEF CommitReservation
    <2>2. Decreased(reserved[item.type], item.quantity) >= 0
      <3>1. reserved[item.type] \in Int
        BY <2>1 DEF TypeOK
      <3>2. Decreased(reserved[item.type], item.quantity) \in Nat
        BY <2>1, <3>1, ReleasedTyped
      <3> QED
        BY <3>2
    <2>3. /\ reserved' = [reserved EXCEPT ![item.type] = Decreased(@, item.quantity)]
          /\ Continue(w, c)
      BY <1>5 DEF CommitReservation
    <2>4. \A t \in Types : reserved'[t] >= 0
      BY <2>2, <2>3 DEF ReservedInv, TypeOK
    <2> QED
      BY <2>3, <2>4, ReservedAfter DEF HoldingOps
  <1>6. ASSUME NEW w \in Slots,
               \/ \E o \in Orders :
                     \/ CreateBegin(w, o) \/ CancelRead(w, o)
                     \/ ConfirmDeliveryRead(w, o)
                     \/ \E s \in PatchTargets : UpdateStatusRead(w, o, s)
               \/ CancelBegin(w) \/ UpdateStatusWrite(w) \/ ConfirmDeliveryWrite(w)
               \/ SettleRead(w) \/ SettleOrder(w) \/ SettleStation(w) \/ SettleCommit(w)
               \/ CreditWallet(w)
               \/ Abandon(w) \/ Crash(w) \/ DeadlockVictim(w) \/ PoolTimeout(w)
        PROVE  ReservedInv'
    <2>1. UNCHANGED reserved
      BY <1>6
      DEF CreateBegin, CancelRead, CancelBegin,
          ConfirmDeliveryRead, UpdateStatusRead, UpdateStatusWrite, ConfirmDeliveryWrite,
          SettleRead, SettleOrder, SettleStation, SettleCommit, CreditWallet, Abandon, Crash,
          DeadlockVictim, PoolTimeout, stock
    <2>2. \E c : Continue(w, c) /\ c.op \notin HoldingOps
      <3>1. CASE \/ Abandon(w) \/ Crash(w) \/ DeadlockVictim(w) \/ PoolTimeout(w)
                 \/ UpdateStatusWrite(w) \/ CreditWallet(w)
        BY <3>1
        DEF Abandon, Crash, DeadlockVictim, PoolTimeout, UpdateStatusWrite, CreditWallet, Idle,
            HoldingOps
      <3>2. CASE \/ CancelBegin(w) \/ ConfirmDeliveryWrite(w) \/ SettleOrder(w)
                 \/ SettleCommit(w)
        BY <3>2 DEF CancelBegin, ConfirmDeliveryWrite, SettleOrder, SettleCommit, HoldingOps
      <3>3. CASE SettleStation(w)
        <4>1. PICK items \in ItemsOf(call[w].order) :
                 Continue(w, [op |-> "paying", order |-> call[w].order, left |-> items])
          BY <3>3 DEF SettleStation
        <4> QED
          BY <4>1 DEF HoldingOps
      <3>6. CASE SettleRead(w)
        <4>1. \/ Continue(w, [op |-> "settling", order |-> call[w].order])
              \/ Continue(w, Idle)
          BY <3>6 DEF SettleRead
        <4> QED
          BY <4>1 DEF Idle, HoldingOps
      <3>4. ASSUME NEW o \in Orders, ConfirmDeliveryRead(w, o)
            PROVE  \E c : Continue(w, c) /\ c.op \notin HoldingOps
        BY <3>4 DEF ConfirmDeliveryRead, HoldingOps
      <3>5. ASSUME NEW o \in Orders, NEW s \in PatchTargets, UpdateStatusRead(w, o, s)
            PROVE  \E c : Continue(w, c) /\ c.op \notin HoldingOps
        BY <3>5 DEF UpdateStatusRead, HoldingOps
      <3>7. ASSUME NEW o \in Orders, CreateBegin(w, o) \/ CancelRead(w, o)
            PROVE  \E c : Continue(w, c) /\ c.op \notin HoldingOps
        BY <3>7 DEF CreateBegin, CancelRead, HoldingOps
      <3> QED
        BY <1>6, <3>1, <3>2, <3>3, <3>4, <3>5, <3>6, <3>7
    <2> QED
      BY <1>0, <2>1, <2>2
  <1>7. CASE \/ UNCHANGED vars
             \/ \E t \in Types, delta \in Deltas : AdjustStock(t, delta)
             \/ \E w \in Slots : Connect(w)
    BY <1>7 DEF vars, AdjustStock, Connect, stock, ReservedInv
  <1> QED
    BY <1>1, <1>2, <1>3, <1>4, <1>5, <1>6, <1>7, <1>8 DEF Next, Request, Proceed

\* reserved_count: releases, commits, refused creations and crashes that race,
\* on any number of cylinder types, never take it below zero.
THEOREM ReservedNeverNegativeHolds == Spec => []ReservedNeverNegative
  <1>1. Init => ReservedInv
    BY DEF Init, ReservedInv, Idle, HoldingOps
  <1>2. ReservedInv => ReservedNeverNegative
    BY DEF ReservedInv, ReservedNeverNegative
  <1> QED
    BY <1>1, <1>2, ReservedStep, TypeCorrect, PTL DEF Spec
--------------------------------------------------------------------------------
(* The rider is paid for committed settlements only.                        *)

\* The requests about to credit the rider of an order.
Crediting(o) == {w \in Slots : call[w].op = "credit" /\ call[w].order = o}

\* Every credit, made or about to be made, has its own committed settlement.
MoneyInv == \A o \in Orders : credited[o] + Cardinality(Crediting(o)) <= booked[o]

LEMMA CreditingFinite ==
    ASSUME NEW o \in Orders
    PROVE  IsFiniteSet(Crediting(o)) /\ Cardinality(Crediting(o)) \in Nat
  BY FulfilmentAssumption, FS_Subset, FS_CardinalityType DEF Crediting

\* Going on with anything but a credit adds no credit.
LEMMA CreditingShrinks ==
    ASSUME TypeOK, NEW w \in Slots, NEW c, Continue(w, c), c.op # "credit", NEW o \in Orders
    PROVE  /\ Cardinality(Crediting(o)') \in Nat
           /\ Cardinality(Crediting(o)') <= Cardinality(Crediting(o))
           /\ w \in Crediting(o) => Cardinality(Crediting(o)') = Cardinality(Crediting(o)) - 1
  <1>1. Crediting(o)' = Crediting(o) \ {w}
    BY ContinueExact DEF Crediting
  <1>2. IsFiniteSet(Crediting(o)) /\ Cardinality(Crediting(o)) \in Nat
    BY CreditingFinite
  <1>3. /\ Cardinality(Crediting(o) \ {w}) =
              IF w \in Crediting(o) THEN Cardinality(Crediting(o)) - 1
                                    ELSE Cardinality(Crediting(o))
        /\ Cardinality(Crediting(o) \ {w}) \in Nat
    BY <1>2, FS_RemoveElement, FS_CardinalityType
  <1>4. Cardinality(Crediting(o)') = Cardinality(Crediting(o) \ {w})
    BY <1>1
  <1> QED
    BY <1>2, <1>3, <1>4

\* Going on with the credit of o adds one to the credits of o.
LEMMA CreditingGrows ==
    ASSUME TypeOK, NEW w \in Slots, call[w].op # "credit", NEW o \in Orders,
           Continue(w, [op |-> "credit", order |-> o]), NEW p \in Orders
    PROVE  /\ Cardinality(Crediting(p)') \in Nat
           /\ p = o => Cardinality(Crediting(p)') = Cardinality(Crediting(p)) + 1
           /\ p # o => Cardinality(Crediting(p)') = Cardinality(Crediting(p))
  <1>1. p = o => Crediting(p)' = Crediting(p) \cup {w} /\ w \notin Crediting(p)
    BY ContinueExact DEF Crediting
  <1>2. p # o => Crediting(p)' = Crediting(p)
    BY ContinueExact DEF Crediting
  <1>3. IsFiniteSet(Crediting(p)) /\ Cardinality(Crediting(p)) \in Nat
    BY CreditingFinite
  <1>4. w \notin Crediting(p) => Cardinality(Crediting(p) \cup {w}) = Cardinality(Crediting(p)) + 1
    BY <1>3, FS_AddElement
  <1>5. CASE p = o
    <2>1. Cardinality(Crediting(p)') = Cardinality(Crediting(p)) + 1
      BY <1>1, <1>4, <1>5
    <2> QED
      BY <1>3, <1>5, <2>1
  <1>6. CASE p # o
    <2>1. Cardinality(Crediting(p)') = Cardinality(Crediting(p))
      BY <1>2, <1>6
    <2> QED
      BY <1>3, <1>6, <2>1
  <1> QED
    BY <1>5, <1>6

\* A step other than a settlement's commit or a credit.
LEMMA MoneyKept ==
    ASSUME TypeOK, MoneyInv, NEW w \in Slots, NEW c, Continue(w, c), c.op # "credit",
           UNCHANGED money
    PROVE  MoneyInv'
  <1> SUFFICES ASSUME NEW o \in Orders
               PROVE  credited'[o] + Cardinality(Crediting(o)') <= booked'[o]
    BY DEF MoneyInv
  <1>1. /\ credited' = credited /\ booked' = booked
        /\ credited[o] \in Nat /\ booked[o] \in Nat
    BY DEF money, TypeOK
  <1>2. credited[o] + Cardinality(Crediting(o)) <= booked[o]
    BY DEF MoneyInv
  <1> QED
    BY <1>1, <1>2, CreditingShrinks, CreditingFinite

\* The steps that move no money go on with something else than a credit.
LEMMA Quiet ==
    ASSUME NEW w \in Slots,
           \/ Request(w) \/ Abandon(w) \/ Crash(w)
           \/ GenerateOrderNumber(w) \/ CreateReserve(w) \/ CreateCommit(w)
           \/ CancelBegin(w) \/ CancelFindItems(w) \/ CancelRelease(w)
           \/ CancelUpdate(w) \/ CancelCommit(w)
           \/ UpdateStatusWrite(w) \/ ConfirmDeliveryWrite(w) \/ SettleRead(w)
           \/ SettleOrder(w) \/ SettleStation(w) \/ CommitReservation(w)
           \/ DeadlockVictim(w) \/ PoolTimeout(w)
    PROVE  UNCHANGED money /\ \E c : Continue(w, c) /\ c.op # "credit"
  <1>1. CASE Request(w)
    <2>1. ASSUME NEW o \in Orders, CreateBegin(w, o)
          PROVE  UNCHANGED money /\ \E c : Continue(w, c) /\ c.op # "credit"
      BY <2>1 DEF CreateBegin
    <2>2. ASSUME NEW o \in Orders, CancelRead(w, o)
          PROVE  UNCHANGED money /\ \E c : Continue(w, c) /\ c.op # "credit"
      BY <2>2 DEF CancelRead
    <2>3. ASSUME NEW o \in Orders, NEW s \in PatchTargets, UpdateStatusRead(w, o, s)
          PROVE  UNCHANGED money /\ \E c : Continue(w, c) /\ c.op # "credit"
      BY <2>3 DEF UpdateStatusRead
    <2>4. ASSUME NEW o \in Orders, ConfirmDeliveryRead(w, o)
          PROVE  UNCHANGED money /\ \E c : Continue(w, c) /\ c.op # "credit"
      BY <2>4 DEF ConfirmDeliveryRead
    <2> QED
      BY <1>1, <2>1, <2>2, <2>3, <2>4 DEF Request
  <1>2. CASE \/ Abandon(w) \/ Crash(w) \/ DeadlockVictim(w) \/ PoolTimeout(w)
             \/ CreateCommit(w) \/ CancelCommit(w) \/ UpdateStatusWrite(w)
    BY <1>2
    DEF Abandon, Crash, DeadlockVictim, PoolTimeout, CreateCommit, CancelCommit,
        UpdateStatusWrite, Idle
  <1>3. CASE ConfirmDeliveryWrite(w) \/ SettleOrder(w)
    BY <1>3 DEF ConfirmDeliveryWrite, SettleOrder
  <1>4. CASE CommitReservation(w)
    BY <1>4 DEF CommitReservation
  <1>5. CASE GenerateOrderNumber(w) \/ CancelBegin(w) \/ CancelRelease(w) \/ CancelUpdate(w)
    BY <1>5 DEF GenerateOrderNumber, CancelBegin, CancelRelease, CancelUpdate
  <1>9. CASE CancelFindItems(w)
    <2>1. PICK items \in ItemsOf(call[w].order) :
             Continue(w, [op |-> "cancelling", order |-> call[w].order, left |-> items,
                          dirty |-> NothingYet])
      BY <1>9 DEF CancelFindItems
    <2> QED
      BY <1>9, <2>1 DEF CancelFindItems
  <1>6. CASE SettleRead(w)
    <2>1. \/ Continue(w, [op |-> "settling", order |-> call[w].order])
          \/ Continue(w, Idle)
      BY <1>6 DEF SettleRead
    <2> QED
      BY <1>6, <2>1 DEF SettleRead, Idle
  <1>7. CASE SettleStation(w)
    <2>1. PICK items \in ItemsOf(call[w].order) :
             Continue(w, [op |-> "paying", order |-> call[w].order, left |-> items])
      BY <1>7 DEF SettleStation
    <2> QED
      BY <1>7, <2>1 DEF SettleStation
  <1>8. CASE CreateReserve(w)
    <2> DEFINE item == Head(call[w].left)
               c == [op |-> "create", order |-> call[w].order, left |-> Tail(call[w].left),
                     dirty |-> WithUpdate(w, item.type, Seen(w, item.type) + item.quantity)]
    <2>1. Continue(w, c) \/ Continue(w, Idle)
      BY <1>8 DEF CreateReserve
    <2> QED
      BY <1>8, <2>1 DEF CreateReserve, Idle
  <1> QED
    BY <1>1, <1>2, <1>3, <1>4, <1>5, <1>6, <1>7, <1>8, <1>9

LEMMA MoneyStep == TypeOK /\ MoneyInv /\ [Next]_vars => MoneyInv'
  <1> SUFFICES ASSUME TypeOK, MoneyInv, [Next]_vars PROVE MoneyInv'
    OBVIOUS
  <1>1. ASSUME NEW w \in Slots,
               \/ Request(w) \/ Abandon(w) \/ Crash(w)
               \/ GenerateOrderNumber(w) \/ CreateReserve(w) \/ CreateCommit(w)
               \/ CancelBegin(w) \/ CancelFindItems(w) \/ CancelRelease(w)
               \/ CancelUpdate(w) \/ CancelCommit(w)
               \/ UpdateStatusWrite(w) \/ ConfirmDeliveryWrite(w) \/ SettleRead(w)
               \/ SettleOrder(w) \/ SettleStation(w) \/ CommitReservation(w)
               \/ DeadlockVictim(w) \/ PoolTimeout(w)
        PROVE  MoneyInv'
    BY <1>1, Quiet, MoneyKept
  <1>2. ASSUME NEW w \in Slots, SettleCommit(w)
        PROVE  MoneyInv'
    <2> DEFINE o == call[w].order
    <2>1. /\ o \in Orders /\ call[w].op # "credit" /\ credited' = credited
          /\ booked' = [booked EXCEPT ![o] = @ + 1]
          /\ Continue(w, [op |-> "credit", order |-> o])
      BY <1>2, CallFields DEF SettleCommit, WriterOps
    <2>2. ASSUME NEW p \in Orders
          PROVE  credited'[p] + Cardinality(Crediting(p)') <= booked'[p]
      <3>1. /\ credited[p] \in Nat /\ booked[p] \in Nat
            /\ credited[p] + Cardinality(Crediting(p)) <= booked[p]
        BY DEF MoneyInv, TypeOK
      <3>2. booked'[p] = IF p = o THEN booked[p] + 1 ELSE booked[p]
        BY <2>1 DEF TypeOK
      <3> QED
        BY <2>1, <3>1, <3>2, CreditingGrows, CreditingFinite
    <2> QED
      BY <2>2 DEF MoneyInv
  <1>3. ASSUME NEW w \in Slots, CreditWallet(w)
        PROVE  MoneyInv'
    <2> DEFINE o == call[w].order
    <2>1. /\ o \in Orders /\ call[w].op = "credit" /\ booked' = booked
          /\ credited' = [credited EXCEPT ![o] = @ + 1]
          /\ Continue(w, Idle) /\ Idle.op # "credit"
      BY <1>3, CallFields DEF CreditWallet, Idle
    <2>2. ASSUME NEW p \in Orders
          PROVE  credited'[p] + Cardinality(Crediting(p)') <= booked'[p]
      <3>1. /\ credited[p] \in Nat /\ booked[p] \in Nat
            /\ credited[p] + Cardinality(Crediting(p)) <= booked[p]
        BY DEF MoneyInv, TypeOK
      <3>2. credited'[p] = IF p = o THEN credited[p] + 1 ELSE credited[p]
        BY <2>1 DEF TypeOK
      <3>3. w \in Crediting(o)
        BY <2>1 DEF Crediting
      <3> QED
        BY <2>1, <3>1, <3>2, <3>3, CreditingShrinks, CreditingFinite
    <2> QED
      BY <2>2 DEF MoneyInv
  <1>4. CASE \/ UNCHANGED vars
             \/ \E t \in Types, delta \in Deltas : AdjustStock(t, delta)
             \/ \E w \in Slots : Connect(w)
    BY <1>4 DEF vars, AdjustStock, Connect, money, MoneyInv, Crediting
  <1> QED
    BY <1>1, <1>2, <1>3, <1>4 DEF Next, Proceed

LEMMA MoneyInit == Init => MoneyInv
  <1> SUFFICES ASSUME Init, NEW o \in Orders
               PROVE  credited[o] + Cardinality(Crediting(o)) <= booked[o]
    BY DEF MoneyInv
  <1>1. Crediting(o) = {}
    BY DEF Init, Crediting, Idle
  <1> QED
    BY <1>1, FS_EmptySet DEF Init

LEMMA MoneyCovers == TypeOK /\ MoneyInv => CreditFollowsSettlement
  <1> SUFFICES ASSUME TypeOK, MoneyInv, NEW o \in Orders PROVE credited[o] <= booked[o]
    BY DEF CreditFollowsSettlement
  <1>1. /\ credited[o] \in Nat /\ booked[o] \in Nat
        /\ credited[o] + Cardinality(Crediting(o)) <= booked[o]
    BY DEF MoneyInv, TypeOK
  <1> QED
    BY <1>1, CreditingFinite

\* settle credits the wallet after its transaction has committed: whatever races,
\* crashes or times out, no rider is paid for a settlement that was rolled back.
THEOREM CreditFollowsSettlementHolds == Spec => []CreditFollowsSettlement
  BY MoneyInit, MoneyStep, MoneyCovers, TypeCorrect, PTL DEF Spec
--------------------------------------------------------------------------------
(* One settlement, while every order has one writer.                        *)

ActingOps == WriterOps \cup {"numbering", "create"}

\* The status a request has read is still the status of its order.
Foreseen(c, st) ==
    /\ c.op \in {"numbering", "create"} => st[c.order] = "NEW"
    /\ c.op \in {"update", "cancel", "finding", "cancelling", "cancelled"} =>
          st[c.order] = "OPEN"
    /\ c.op = "confirm" => st[c.order] = "DELIVERED"
    /\ c.op \in {"settle", "settling", "completing", "paying"} =>
          st[c.order] = "CUSTOMER_CONFIRMED"

\* No two requests act on one order.
Exclusive ==
    \A v, w \in Slots :
        v # w /\ call[v].op \in ActingOps /\ call[w].op \in ActingOps =>
            call[v].order # call[w].order

BookedWhenCompleted ==
    \A o \in Orders : booked[o] = IF status[o] = "COMPLETED" THEN 1 ELSE 0

OneWriter == Exclusive /\ \A w \in Slots : Foreseen(call[w], status)

OnceInv == world # "racing" => OneWriter /\ BookedWhenCompleted

\* A slot goes on to c, and neither c nor the others are surprised.
LEMMA OneWriterAfter ==
    ASSUME TypeOK, OneWriter, NEW w \in Slots, NEW c, Continue(w, c),
           Foreseen(c, status'),
           \A v \in Slots \ {w} : Foreseen(call[v], status'),
           c.op \in ActingOps =>
               \A v \in Slots \ {w} : ~ (call[v].op \in ActingOps /\ call[v].order = c.order)
    PROVE  OneWriter'
  <1>1. call'[w] = c /\ \A v \in Slots \ {w} : call'[v] = call[v]
    BY ContinueExact
  <1>2. \A v \in Slots : Foreseen(call'[v], status')
    BY <1>1
  <1>3. Exclusive'
    BY <1>1 DEF OneWriter, Exclusive
  <1> QED
    BY <1>2, <1>3 DEF OneWriter

\* A slot that acts on its order and writes its status surprises nobody.
LEMMA OthersForesee ==
    ASSUME TypeOK, OneWriter, NEW w \in Slots, call[w].op \in ActingOps, NEW s,
           status' = [status EXCEPT ![call[w].order] = s],
           NEW v \in Slots \ {w}
    PROVE  Foreseen(call[v], status')
  <1>1. CASE call[v].op \in ActingOps
    <2>1. call[v].order # call[w].order
      BY <1>1 DEF OneWriter, Exclusive
    <2>2. call[v].order \in Orders /\ call[w].order \in Orders
      BY <1>1, CallFields DEF ActingOps
    <2>3. status'[call[v].order] = status[call[v].order]
      BY <2>1, <2>2 DEF TypeOK
    <2> QED
      BY <2>3 DEF OneWriter, Foreseen
  <1>2. CASE call[v].op \notin ActingOps
    BY <1>2 DEF Foreseen, ActingOps, WriterOps
  <1> QED
    BY <1>1, <1>2

LEMMA OnceStep == TypeOK /\ OnceInv /\ [Next]_vars => OnceInv'
  <1> SUFFICES ASSUME TypeOK, OnceInv, [Next]_vars, world' # "racing"
               PROVE  OneWriter' /\ BookedWhenCompleted'
    BY DEF OnceInv
  <1>0. world' = world
    <2>1. ASSUME NEW w \in Slots, Request(w) \/ Abandon(w) \/ Crash(w)
          PROVE  world' = world
      BY <2>1 DEF Request, CreateBegin, CancelRead, UpdateStatusRead, ConfirmDeliveryRead,
                  Abandon, Crash, Continue
    <2>2. ASSUME NEW w \in Slots,
                 \/ Connect(w) \/ GenerateOrderNumber(w) \/ CreateReserve(w)
                 \/ CreateCommit(w) \/ CancelBegin(w) \/ CancelFindItems(w)
                 \/ CancelRelease(w) \/ CancelUpdate(w) \/ CancelCommit(w)
          PROVE  world' = world
      BY <2>2 DEF Connect, GenerateOrderNumber, CreateReserve, CreateCommit, CancelBegin,
                  CancelFindItems, CancelRelease, CancelUpdate, CancelCommit, Continue
    <2>3. ASSUME NEW w \in Slots,
                 \/ UpdateStatusWrite(w) \/ ConfirmDeliveryWrite(w) \/ SettleRead(w)
                 \/ SettleOrder(w) \/ SettleStation(w) \/ CommitReservation(w)
                 \/ SettleCommit(w) \/ CreditWallet(w) \/ DeadlockVictim(w)
                 \/ PoolTimeout(w)
          PROVE  world' = world
      BY <2>3 DEF UpdateStatusWrite, ConfirmDeliveryWrite, SettleRead, SettleOrder,
                  SettleStation, CommitReservation, SettleCommit, CreditWallet,
                  DeadlockVictim, PoolTimeout, Continue
    <2>4. CASE UNCHANGED vars \/ \E t \in Types, delta \in Deltas : AdjustStock(t, delta)
      BY <2>4 DEF vars, AdjustStock
    <2> QED
      BY <2>1, <2>2, <2>3, <2>4 DEF Next, Proceed
  <1>a. OneWriter /\ BookedWhenCompleted /\ \A w \in Slots : Foreseen(call[w], status)
    BY <1>0 DEF OnceInv, OneWriter
  <1> DEFINE Goal == OneWriter' /\ BookedWhenCompleted'
  \* A request comes in for an order nobody acts on.
  <1>1. ASSUME NEW w \in Slots, NEW o \in Orders, NEW c, MayStart(w, o), Continue(w, c),
               UNCHANGED <<status, booked>>, c.order = o, Foreseen(c, status),
               \A v \in Slots :
                   ~ (call[v].op \in {"numbering", "create"} /\ call[v].order = o)
        PROVE  Goal
    <2>1. \A v \in Slots \ {w} : ~ (call[v].op \in ActingOps /\ call[v].order = c.order)
      BY <1>0, <1>1 DEF MayStart, Writes, ActingOps
    <2>2. OneWriter'
      BY <1>a, <1>1, <2>1, OneWriterAfter
    <2> QED
      BY <1>a, <1>1, <2>2 DEF BookedWhenCompleted
  \* A slot goes on with its order, or with none.
  <1>2. ASSUME NEW w \in Slots, NEW c, Continue(w, c), UNCHANGED <<status, booked>>,
               Foreseen(c, status),
               c.op \in ActingOps => call[w].op \in ActingOps /\ c.order = call[w].order
        PROVE  Goal
    <2>1. c.op \in ActingOps =>
              \A v \in Slots \ {w} : ~ (call[v].op \in ActingOps /\ call[v].order = c.order)
      BY <1>a, <1>2 DEF OneWriter, Exclusive
    <2>2. OneWriter'
      BY <1>a, <1>2, <2>1, OneWriterAfter
    <2> QED
      BY <1>a, <1>2, <2>2 DEF BookedWhenCompleted
  \* A slot writes the status of its order.
  <1>3. ASSUME NEW w \in Slots, NEW c, NEW s, call[w].op \in ActingOps, Continue(w, c),
               status' = [status EXCEPT ![call[w].order] = s], Foreseen(c, status'),
               c.op \in ActingOps => c.order = call[w].order
        PROVE  OneWriter'
    <2>1. c.op \in ActingOps =>
              \A v \in Slots \ {w} : ~ (call[v].op \in ActingOps /\ call[v].order = c.order)
      BY <1>a, <1>3 DEF OneWriter, Exclusive
    <2>2. \A v \in Slots \ {w} : Foreseen(call[v], status')
      BY <1>a, <1>3, OthersForesee
    <2> QED
      BY <1>a, <1>3, <2>1, <2>2, OneWriterAfter
  \* It is not a settlement's commit.
  <1>4. ASSUME NEW w \in Slots, NEW s, call[w].op \in ActingOps, s # "COMPLETED",
               status' = [status EXCEPT ![call[w].order] = s], UNCHANGED booked
        PROVE  BookedWhenCompleted'
    <2>1. call[w].order \in Orders /\ status[call[w].order] # "COMPLETED"
      BY <1>a, <1>4, CallFields DEF ActingOps, WriterOps, Foreseen
    <2> QED
      BY <1>a, <1>4, <2>1 DEF BookedWhenCompleted, TypeOK
  <1>5. ASSUME NEW w \in Slots, NEW o \in Orders, CreateBegin(w, o)
        PROVE  Goal
    <2> DEFINE c == [op |-> "numbering", order |-> o]
    <2>1. MayStart(w, o) /\ Continue(w, c) /\ c.order = o /\ Foreseen(c, status)
      BY <1>5 DEF CreateBegin, Foreseen
    <2> QED
      BY <1>1, <1>5, <2>1 DEF CreateBegin, money
  <1>6. ASSUME NEW w \in Slots, NEW o \in Orders, CancelRead(w, o)
        PROVE  Goal
    <2>1. \A v \in Slots : ~ (call[v].op \in {"numbering", "create"} /\ call[v].order = o)
      BY <1>a, <1>6 DEF CancelRead, Foreseen
    <2> QED
      BY <1>1, <1>6, <2>1 DEF CancelRead, money, Foreseen
  <1>7. ASSUME NEW w \in Slots, NEW o \in Orders, NEW s \in PatchTargets,
               UpdateStatusRead(w, o, s)
        PROVE  Goal
    <2>1. \A v \in Slots : ~ (call[v].op \in {"numbering", "create"} /\ call[v].order = o)
      BY <1>a, <1>7 DEF UpdateStatusRead, Foreseen
    <2> QED
      BY <1>1, <1>7, <2>1 DEF UpdateStatusRead, money, Foreseen
  <1>8. ASSUME NEW w \in Slots, NEW o \in Orders, ConfirmDeliveryRead(w, o)
        PROVE  Goal
    <2>1. \A v \in Slots : ~ (call[v].op \in {"numbering", "create"} /\ call[v].order = o)
      BY <1>a, <1>8 DEF ConfirmDeliveryRead, Confirmable, Foreseen
    <2> QED
      BY <1>1, <1>8, <2>1 DEF ConfirmDeliveryRead, Confirmable, money, Foreseen
  <1>9. ASSUME NEW w \in Slots,
               Abandon(w) \/ Crash(w) \/ DeadlockVictim(w) \/ PoolTimeout(w) \/ CreditWallet(w)
        PROVE  Goal
    <2>1. Continue(w, Idle) /\ UNCHANGED <<status, booked>>
      BY <1>9 DEF Abandon, Crash, DeadlockVictim, PoolTimeout, CreditWallet, money
    <2>2. Foreseen(Idle, status) /\ Idle.op \notin ActingOps
      BY DEF Foreseen, Idle, ActingOps, WriterOps
    <2> QED
      BY <1>2, <2>1, <2>2
  <1>10. ASSUME NEW w \in Slots, CreateReserve(w)
         PROVE  Goal
    <2> DEFINE item == Head(call[w].left)
               c == [op |-> "create", order |-> call[w].order, left |-> Tail(call[w].left),
                     dirty |-> WithUpdate(w, item.type, Seen(w, item.type) + item.quantity)]
    <2>1. /\ Continue(w, c) \/ Continue(w, Idle)
          /\ UNCHANGED <<status, booked>> /\ call[w].op = "create"
      BY <1>10 DEF CreateReserve, money
    <2>2. Foreseen(c, status) /\ c.order = call[w].order /\ call[w].op \in ActingOps
      BY <1>a, <2>1 DEF Foreseen, ActingOps
    <2>3. Foreseen(Idle, status) /\ Idle.op \notin ActingOps
      BY DEF Foreseen, Idle, ActingOps, WriterOps
    <2> QED
      BY <1>2, <2>1, <2>2, <2>3
  <1>11. ASSUME NEW w \in Slots, CancelRelease(w)
         PROVE  Goal
    <2> DEFINE item == Head(call[w].left)
               c == [op |-> "cancelling", order |-> call[w].order, left |-> Tail(call[w].left),
                     dirty |-> WithUpdate(w, item.type,
                                  Released(Seen(w, item.type), item.quantity))]
    <2>1. /\ Continue(w, c)
          /\ UNCHANGED <<status, booked>> /\ call[w].op = "cancelling"
      BY <1>11 DEF CancelRelease, money
    <2>2. Foreseen(c, status) /\ c.order = call[w].order /\ call[w].op \in ActingOps
      BY <1>a, <2>1 DEF Foreseen, ActingOps, WriterOps
    <2> QED
      BY <1>2, <2>1, <2>2
  <1>18. ASSUME NEW w \in Slots, GenerateOrderNumber(w) \/ CancelFindItems(w)
         PROVE  Goal
    <2>1. PICK op, items :
             /\ \/ op = "create" /\ call[w].op = "numbering"
                \/ op = "cancelling" /\ call[w].op = "finding"
             /\ Continue(w, [op |-> op, order |-> call[w].order, left |-> items,
                             dirty |-> NothingYet])
      BY <1>18 DEF GenerateOrderNumber, CancelFindItems
    <2> DEFINE c == [op |-> op, order |-> call[w].order, left |-> items, dirty |-> NothingYet]
    <2>2. Foreseen(c, status) /\ c.order = call[w].order /\ call[w].op \in ActingOps
      BY <1>a, <2>1 DEF Foreseen, ActingOps, WriterOps
    <2>3. UNCHANGED <<status, booked>>
      BY <1>18 DEF GenerateOrderNumber, CancelFindItems, money
    <2> QED
      BY <1>2, <2>1, <2>2, <2>3
  <1>19. ASSUME NEW w \in Slots, CancelBegin(w) \/ CancelUpdate(w)
         PROVE  Goal
    <2> DEFINE finding == [op |-> "finding", order |-> call[w].order]
               cancelled == [op |-> "cancelled", order |-> call[w].order,
                             dirty |-> call[w].dirty]
    <2>1. /\ Continue(w, finding) \/ Continue(w, cancelled)
          /\ UNCHANGED <<status, booked>> /\ call[w].op \in {"cancel", "cancelling"}
      BY <1>19 DEF CancelBegin, CancelUpdate, money
    <2>2. /\ Foreseen(finding, status) /\ Foreseen(cancelled, status)
          /\ call[w].op \in ActingOps
      BY <1>a, <2>1 DEF Foreseen, ActingOps, WriterOps
    <2> QED
      BY <1>2, <2>1, <2>2
  <1>12. ASSUME NEW w \in Slots, SettleRead(w) \/ SettleOrder(w)
         PROVE  Goal
    <2> DEFINE settling == [op |-> "settling", order |-> call[w].order]
               completing == [op |-> "completing", order |-> call[w].order]
    <2>1. /\ Continue(w, settling) \/ Continue(w, completing) \/ Continue(w, Idle)
          /\ UNCHANGED <<status, booked>> /\ call[w].op \in {"settle", "settling"}
      BY <1>12 DEF SettleRead, SettleOrder, money
    <2>2. /\ Foreseen(settling, status) /\ Foreseen(completing, status)
          /\ call[w].op \in ActingOps
      BY <1>a, <2>1 DEF Foreseen, ActingOps, WriterOps
    <2>3. Foreseen(Idle, status) /\ Idle.op \notin ActingOps
      BY DEF Foreseen, Idle, ActingOps, WriterOps
    <2> QED
      BY <1>2, <2>1, <2>2, <2>3
  <1>13. ASSUME NEW w \in Slots, SettleStation(w) \/ CommitReservation(w)
         PROVE  Goal
    <2>1. /\ \E items : Continue(w, [op |-> "paying", order |-> call[w].order, left |-> items])
          /\ UNCHANGED <<status, booked>> /\ call[w].op \in {"completing", "paying"}
      BY <1>13 DEF SettleStation, CommitReservation, money
    <2>2. PICK items :
             Continue(w, [op |-> "paying", order |-> call[w].order, left |-> items])
      BY <2>1
    <2> DEFINE c == [op |-> "paying", order |-> call[w].order, left |-> items]
    <2>3. Foreseen(c, status) /\ c.order = call[w].order /\ call[w].op \in ActingOps
      BY <1>a, <2>1 DEF Foreseen, ActingOps, WriterOps
    <2> QED
      BY <1>2, <2>1, <2>2, <2>3
  <1>14. ASSUME NEW w \in Slots, CreateCommit(w) \/ CancelCommit(w) \/ UpdateStatusWrite(w)
         PROVE  Goal
    <2>1. call[w].op \in ActingOps /\ Continue(w, Idle) /\ UNCHANGED booked
      BY <1>14 DEF CreateCommit, CancelCommit, UpdateStatusWrite, ActingOps, WriterOps, money
    <2>2. PICK s : s # "COMPLETED" /\ status' = [status EXCEPT ![call[w].order] = s]
      BY <1>14, CallFields, FulfilmentAssumption
      DEF CreateCommit, CancelCommit, UpdateStatusWrite
    <2>3. Foreseen(Idle, status') /\ Idle.op \notin ActingOps
      BY DEF Foreseen, Idle, ActingOps, WriterOps
    <2> QED
      BY <1>3, <1>4, <2>1, <2>2, <2>3
  <1>15. ASSUME NEW w \in Slots, ConfirmDeliveryWrite(w)
         PROVE  Goal
    <2> DEFINE s == "CUSTOMER_CONFIRMED"
               c == [op |-> "settle", order |-> call[w].order]
    <2>1. /\ call[w].op \in ActingOps /\ Continue(w, c) /\ UNCHANGED booked
          /\ call[w].order \in Orders /\ status' = [status EXCEPT ![call[w].order] = s]
      BY <1>15, CallFields DEF ConfirmDeliveryWrite, ActingOps, WriterOps, money
    <2>2. Foreseen(c, status') /\ c.order = call[w].order
      BY <2>1 DEF Foreseen, TypeOK
    <2>3. s # "COMPLETED"
      OBVIOUS
    <2>4. OneWriter'
      BY <1>3, <2>1, <2>2
    <2>5. BookedWhenCompleted'
      BY <1>4, <2>1, <2>3
    <2> QED
      BY <2>4, <2>5
  <1>16. ASSUME NEW w \in Slots, SettleCommit(w)
         PROVE  Goal
    <2> DEFINE o == call[w].order
               s == "COMPLETED"
               c == [op |-> "credit", order |-> o]
    <2>1. /\ call[w].op \in ActingOps /\ Continue(w, c) /\ o \in Orders
          /\ status' = [status EXCEPT ![o] = s] /\ booked' = [booked EXCEPT ![o] = @ + 1]
      BY <1>16, CallFields DEF SettleCommit, ActingOps, WriterOps
    <2>2. Foreseen(c, status') /\ c.order = o /\ c.op \notin ActingOps
      BY DEF Foreseen, ActingOps, WriterOps
    <2>3. status[o] = "CUSTOMER_CONFIRMED"
      BY <1>a, <1>16 DEF SettleCommit, Foreseen
    <2>4. booked[o] = 0
      BY <1>a, <2>1, <2>3 DEF BookedWhenCompleted
    <2>5. OneWriter'
      BY <1>3, <2>1, <2>2
    <2>6. BookedWhenCompleted'
      BY <1>a, <2>1, <2>4 DEF BookedWhenCompleted, TypeOK
    <2> QED
      BY <2>5, <2>6
  <1>17. CASE \/ UNCHANGED vars
              \/ \E t \in Types, delta \in Deltas : AdjustStock(t, delta)
              \/ \E w \in Slots : Connect(w)
    <2>1. UNCHANGED <<status, booked, call>>
      BY <1>17 DEF vars, AdjustStock, Connect, money
    <2> QED
      BY <1>a, <2>1 DEF OneWriter, Exclusive, Foreseen, BookedWhenCompleted
  <1> QED
    BY <1>5, <1>6, <1>7, <1>8, <1>9, <1>10, <1>11, <1>12, <1>13, <1>14, <1>15, <1>16, <1>17,
       <1>18, <1>19
    DEF Next, Request, Proceed

LEMMA OnceInit == Init => OnceInv
  BY DEF Init, OnceInv, OneWriter, Exclusive, Foreseen, BookedWhenCompleted, ActingOps,
         WriterOps, Idle

LEMMA OnceCovers == TypeOK /\ OnceInv /\ CreditFollowsSettlement => OrderlySettledOnce
  <1> SUFFICES ASSUME TypeOK, BookedWhenCompleted, CreditFollowsSettlement, NEW o \in Orders
               PROVE  booked[o] <= 1 /\ credited[o] <= 1
    BY DEF OnceInv, OrderlySettledOnce, SettledOnce
  <1>1. booked[o] <= 1 /\ booked[o] \in Nat /\ credited[o] \in Nat /\ credited[o] <= booked[o]
    BY DEF BookedWhenCompleted, CreditFollowsSettlement, TypeOK
  <1> QED
    BY <1>1

\* settle is idempotent while every order has one writer at a time, however many
\* orders, requests, crashes, deadlocks and timeouts there are: an order's earnings
\* are booked at most once and its rider is paid at most once.
THEOREM OrderlySettledOnceHolds == Spec => []OrderlySettledOnce
  BY OnceInit, OnceStep, OnceCovers, TypeCorrect, CreditFollowsSettlementHolds, PTL DEF Spec
--------------------------------------------------------------------------------
(* What a list of items holds of a type.                                    *)

\* What one item counts for.
Part(item, t) == IF item.type = t THEN item.quantity ELSE 0

Parts(items, t) == [i \in DOMAIN items |-> Part(items[i], t)]

LEMMA QuantityIs ==
    ASSUME NEW items, NEW t
    PROVE  Quantity(items, t) = SumFunctionOnSet(Parts(items, t), DOMAIN items)
  <1>1. DOMAIN Parts(items, t) = DOMAIN items
    BY DEF Parts
  <1>2. Quantity(items, t) = SumFunction(Parts(items, t))
    BY DEF Quantity, Parts, Part
  <1> QED
    BY <1>1, <1>2 DEF SumFunction

LEMMA PartsTyped ==
    ASSUME NEW items \in Seq(Item), NEW t
    PROVE  /\ IsFiniteSet(DOMAIN items)
           /\ \A i \in DOMAIN items : Parts(items, t)[i] \in Nat
  <1>1. DOMAIN items = 1 .. Len(items) /\ Len(items) \in Nat
    OBVIOUS
  <1>2. IsFiniteSet(DOMAIN items)
    BY <1>1, FS_Interval
  <1>3. \A i \in DOMAIN items : items[i] \in Item
    BY <1>1, ElementOfSeq
  <1>4. \A i \in DOMAIN items : Part(items[i], t) \in Nat
    BY <1>3 DEF Part, Item
  <1> QED
    BY <1>2, <1>4 DEF Parts

LEMMA QuantityNatural ==
    ASSUME NEW items \in Seq(Item), NEW t
    PROVE  Quantity(items, t) \in Nat
  BY PartsTyped, QuantityIs, SumNatural

LEMMA QuantityOfNone ==
    ASSUME NEW t
    PROVE  Quantity(<<>>, t) = 0
  <1>1. DOMAIN <<>> = {}
    OBVIOUS
  <1> QED
    BY <1>1, QuantityIs, SumOfNone

\* The first item and the others.
LEMMA QuantityOfNext ==
    ASSUME NEW items \in Seq(Item), items # <<>>, NEW t
    PROVE  Quantity(items, t) = Part(Head(items), t) + Quantity(Tail(items), t)
  <1> DEFINE f == Parts(items, t)
             g == Parts(Tail(items), t)
             S == DOMAIN Tail(items)
             b == [i \in S |-> i + 1]
  <1>1. /\ Tail(items) \in Seq(Item) /\ Len(items) \in Nat /\ Len(items) > 0
        /\ DOMAIN items = 1 .. Len(items) /\ S = 1 .. Len(items) - 1
        /\ Head(items) = items[1]
        /\ \A i \in S : Tail(items)[i] = items[i + 1]
    BY HeadTailProperties, EmptySeq
  <1>2. /\ IsFiniteSet(DOMAIN items) /\ IsFiniteSet(S)
        /\ \A i \in DOMAIN items : f[i] \in Int
        /\ \A i \in S : g[i] \in Int
    <2>1. IsFiniteSet(DOMAIN items) /\ \A i \in DOMAIN items : f[i] \in Nat
      BY PartsTyped
    <2>2. IsFiniteSet(S) /\ \A i \in S : g[i] \in Nat
      BY <1>1, PartsTyped
    <2> HIDE DEF f, g, S
    <2> QED
      BY <2>1, <2>2
  <1>3. 1 \in DOMAIN items
    BY <1>1
  <1>4. /\ SumFunctionOnSet(f, DOMAIN items) = f[1] + SumFunctionOnSet(f, DOMAIN items \ {1})
        /\ SumFunctionOnSet(f, DOMAIN items \ {1}) \in Int
    BY <1>2, <1>3, SumOfRest
  <1>5. f[1] = Part(Head(items), t)
    BY <1>1, <1>3 DEF Parts
  <1>6. {b[i] : i \in S} = DOMAIN items \ {1}
    <2>1. \A i \in S : b[i] \in DOMAIN items \ {1}
      BY <1>1
    <2>2. ASSUME NEW j \in DOMAIN items \ {1}
          PROVE  \E i \in S : b[i] = j
      <3>1. j - 1 \in S /\ b[j - 1] = j
        BY <1>1
      <3> QED
        BY <3>1
    <2> QED
      BY <2>1, <2>2
  <1>7. SumFunctionOnSet(f, {b[i] : i \in S}) = SumFunctionOnSet(g, S)
    <2>1. \A i \in S : g[i] \in Int /\ f[b[i]] = g[i]
      BY <1>1, <1>2 DEF Parts
    <2>2. \A i, j \in S : b[i] = b[j] => i = j
      BY <1>1
    <2> HIDE DEF f, g, b, S
    <2> QED
      BY <1>2, <2>1, <2>2, SumRenamed
  <1>8. Quantity(items, t) = SumFunctionOnSet(f, DOMAIN items)
    BY QuantityIs
  <1>9. Quantity(Tail(items), t) = SumFunctionOnSet(g, S)
    BY QuantityIs
  <1> QED
    BY <1>4, <1>5, <1>6, <1>7, <1>8, <1>9

\* It does not depend on the order the query returns the items in.
LEMMA QuantityOfItems ==
    ASSUME NEW o \in Orders, NEW items \in ItemsOf(o), NEW t
    PROVE  Quantity(items, t) = Quantity(Basket[o], t)
  <1> DEFINE D == DOMAIN Basket[o]
             f == Parts(items, t)
             g == Parts(Basket[o], t)
  <1>1. Basket[o] \in Seq(Item) /\ items \in Seq(Item)
    BY FulfilmentAssumption, ItemsTyped
  <1>2. PICK p \in [D -> D] : /\ \A i, j \in D : p[i] = p[j] => i = j
                              /\ items = [i \in D |-> Basket[o][p[i]]]
    BY DEF ItemsOf
  <1>3. DOMAIN items = D
    BY <1>2
  <1>4. IsFiniteSet(D) /\ \A i \in D : f[i] \in Int
    BY <1>1, <1>3, PartsTyped
  <1>5. \A i \in D : g[p[i]] = f[i]
    BY <1>2, <1>3 DEF Parts
  <1>6. {p[i] : i \in D} = D
    <2>1. p \in Injection(D, D)
      BY <1>2 DEF Injection, IsInjective
    <2>2. p \in Surjection(D, D)
      BY <1>4, <2>1, FS_Injection
    <2> QED
      BY <1>2, <2>2 DEF Surjection
  <1>7. SumFunctionOnSet(g, {p[i] : i \in D}) = SumFunctionOnSet(f, D)
    <2> HIDE DEF f, g
    <2> QED
      BY <1>2, <1>4, <1>5, SumRenamed
  <1>8. Quantity(items, t) = SumFunctionOnSet(f, D)
    BY <1>3, QuantityIs
  <1>9. Quantity(Basket[o], t) = SumFunctionOnSet(g, D)
    BY QuantityIs
  <1> QED
    BY <1>6, <1>7, <1>8, <1>9
--------------------------------------------------------------------------------
(* What the orders have on reserve.                                         *)

SettleOps == {"settle", "settling", "completing", "paying"}

Settles(c, o) == c.op \in SettleOps /\ c.order = o

\* What a settlement has still to take from the shelf.
Rest(c) == IF c.op = "paying" THEN c.left ELSE Basket[c.order]

\* The settlements of an order, when the slots serve cl.
Settling(cl, o) == {c \in {cl[w] : w \in Slots} : Settles(c, o)}

\* What an order needs on reserve: all of it until a settlement takes it from the
\* shelf item by item, and nothing once its settlement has been cut short.
Need(st, cl, o, t) ==
    IF st[o] \in {"OPEN", "DELIVERED"}
    THEN Quantity(Basket[o], t)
    ELSE IF Settling(cl, o) = {}
         THEN 0
         ELSE Quantity(Rest(CHOOSE c \in Settling(cl, o) : TRUE), t)

Live(st) == {o \in Orders : st[o] # "NEW"}

Total(st, cl, t) == SumFunctionOnSet([o \in Orders |-> Need(st, cl, o, t)], Live(st))

LEMMA BasketTyped ==
    ASSUME NEW o \in Orders, NEW t
    PROVE  Basket[o] \in Seq(Item) /\ Quantity(Basket[o], t) \in Nat
  BY FulfilmentAssumption, QuantityNatural

LEMMA RestTyped ==
    ASSUME NEW c \in Calls, c.op \in SettleOps
    PROVE  Rest(c) \in Seq(Item)
  <1>1. c.order \in Orders /\ (c.op = "paying" => c.left \in Seq(Item))
    BY DEF Calls, SettleOps, Idle
  <1> QED
    BY <1>1, FulfilmentAssumption DEF Rest

LEMMA NeedTyped ==
    ASSUME NEW st, NEW cl \in [Slots -> Calls], NEW o \in Orders, NEW t
    PROVE  Need(st, cl, o, t) \in Nat
  <1>1. CASE st[o] \in {"OPEN", "DELIVERED"}
    BY <1>1, BasketTyped DEF Need
  <1>2. CASE st[o] \notin {"OPEN", "DELIVERED"} /\ Settling(cl, o) = {}
    BY <1>2 DEF Need
  <1>3. CASE st[o] \notin {"OPEN", "DELIVERED"} /\ Settling(cl, o) # {}
    <2> DEFINE c == CHOOSE c \in Settling(cl, o) : TRUE
    <2>1. c \in Settling(cl, o)
      BY <1>3
    <2>2. c \in Calls /\ c.op \in SettleOps
      BY <2>1 DEF Settling, Settles
    <2>3. Quantity(Rest(c), t) \in Nat
      BY <2>2, RestTyped, QuantityNatural
    <2> QED
      BY <1>3, <2>3 DEF Need
  <1> QED
    BY <1>1, <1>2, <1>3

\* When w alone may settle the order.
LEMMA NeedOfSlot ==
    ASSUME NEW st, NEW cl, NEW w \in Slots, NEW o, NEW t,
           \A v \in Slots \ {w} : ~ Settles(cl[v], o)
    PROVE  Need(st, cl, o, t) =
               IF st[o] \in {"OPEN", "DELIVERED"} THEN Quantity(Basket[o], t)
               ELSE IF Settles(cl[w], o) THEN Quantity(Rest(cl[w]), t)
               ELSE 0
  <1>1. CASE Settles(cl[w], o)
    <2>1. Settling(cl, o) = {cl[w]}
      BY <1>1 DEF Settling
    <2>2. (CHOOSE c \in Settling(cl, o) : TRUE) = cl[w]
      BY <2>1
    <2> QED
      BY <1>1, <2>1, <2>2 DEF Need
  <1>2. CASE ~ Settles(cl[w], o)
    <2>1. Settling(cl, o) = {}
      BY <1>2 DEF Settling
    <2> QED
      BY <1>2, <2>1 DEF Need
  <1> QED
    BY <1>1, <1>2

\* A slot that does not settle an order, before or after, leaves its need alone.
LEMMA NeedKept ==
    ASSUME NEW st, NEW cl, NEW st2, NEW cl2, NEW w \in Slots, NEW o, NEW t,
           st2[o] = st[o], \A v \in Slots \ {w} : cl2[v] = cl[v],
           ~ Settles(cl[w], o), ~ Settles(cl2[w], o)
    PROVE  Need(st2, cl2, o, t) = Need(st, cl, o, t)
  <1>1. Settling(cl2, o) = Settling(cl, o)
    <2>1. ASSUME NEW c \in Settling(cl, o)
          PROVE  c \in Settling(cl2, o)
      <3>1. PICK v \in Slots : c = cl[v] /\ Settles(c, o)
        BY <2>1 DEF Settling
      <3>2. v # w
        BY <3>1
      <3> QED
        BY <3>1, <3>2 DEF Settling
    <2>2. ASSUME NEW c \in Settling(cl2, o)
          PROVE  c \in Settling(cl, o)
      <3>1. PICK v \in Slots : c = cl2[v] /\ Settles(c, o)
        BY <2>2 DEF Settling
      <3>2. v # w
        BY <3>1
      <3> QED
        BY <3>1, <3>2 DEF Settling
    <2> QED
      BY <2>1, <2>2
  <1> QED
    BY <1>1 DEF Need

\* What has left the shelf for an order.
Gone(st, cl, o, t) ==
    IF st[o] \in {"CUSTOMER_CONFIRMED", "COMPLETED"}
    THEN Quantity(Basket[o], t) - Need(st, cl, o, t)
    ELSE 0

TotalGone(st, cl, t) == SumFunctionOnSet([o \in Orders |-> Gone(st, cl, o, t)], Live(st))

\* A sum over the live orders changes by what one order's value changes by.
LEMMA LiveSum ==
    ASSUME NEW st, NEW st2, IsFiniteSet(Live(st)), NEW o \in Orders,
           NEW f, NEW g, \A p \in Orders : f[p] \in Int /\ g[p] \in Int,
           \A p \in Orders \ {o} : st2[p] = st[p],
           \A p \in Orders \ {o} : g[p] = f[p],
           st[o] = "NEW" => f[o] = 0, st2[o] = "NEW" => g[o] = 0
    PROVE  /\ SumFunctionOnSet(f, Live(st)) \in Int /\ SumFunctionOnSet(g, Live(st2)) \in Int
           /\ SumFunctionOnSet(g, Live(st2)) = SumFunctionOnSet(f, Live(st)) + g[o] - f[o]
  <1> DEFINE S == Live(st) \cup {o}
  <1>1. IsFiniteSet(S)
    BY FS_AddElement
  <1>2. S \subseteq Orders /\ Live(st) \subseteq S /\ Live(st2) \subseteq S /\ o \in S
    BY DEF Live
  <1>3. \A p \in S : f[p] \in Int /\ g[p] \in Int
    BY <1>2
  <1>4. \A p \in S \ Live(st) : f[p] = 0
    BY DEF Live
  <1>5. \A p \in S \ Live(st2) : g[p] = 0
    BY DEF Live
  <1>6. \A p \in S \ {o} : g[p] = f[p]
    BY <1>2
  <1> HIDE DEF S
  <1>8. SumFunctionOnSet(f, S) = SumFunctionOnSet(f, Live(st))
    BY <1>1, <1>2, <1>3, <1>4, SumOfPart
  <1>9. SumFunctionOnSet(g, S) = SumFunctionOnSet(g, Live(st2))
    BY <1>1, <1>2, <1>3, <1>5, SumOfPart
  <1>10. /\ SumFunctionOnSet(f, S) \in Int /\ SumFunctionOnSet(g, S) \in Int
         /\ SumFunctionOnSet(g, S) = SumFunctionOnSet(f, S) + g[o] - f[o]
    BY <1>1, <1>2, <1>3, <1>6, SumChanged
  <1> QED
    BY <1>8, <1>9, <1>10

--------------------------------------------------------------------------------
(* Row locks exclude.                                                       *)

\* w's transaction has locked the stock of a type.
Locked(c, t) == c.op \in HoldingOps /\ c.dirty[t] # NotLocked

OneHolder ==
    \A v, w \in Slots : \A t \in Types :
        v # w => ~ (Locked(call[v], t) /\ Locked(call[w], t))

\* Who gets on has the next row to itself.
LEMMA RowFree ==
    ASSUME TypeOK, NEW w \in Slots, LocksFree(w), call[w].left # <<>>,
           call[w].op \in {"create", "cancelling", "paying"}, NEW v \in Slots, v # w
    PROVE  ~ Locked(call[v], Head(call[w].left).type)
  <1> DEFINE t == Head(call[w].left).type
  <1>1. t \in Types
    BY CallFields, NextItem
  <1>2. Needs(w) = {Row(t)}
    BY DEF Needs, NextRow
  <1>3. Needs(w) \cap Holds(v) = {}
    BY DEF LocksFree
  <1>4. ASSUME Locked(call[v], t)
        PROVE  Row(t) \in Holds(v)
    BY <1>1, <1>4 DEF Locked, HoldingOps, Holds, LockedRows
  <1> QED
    BY <1>2, <1>3, <1>4

LEMMA HolderAfter ==
    ASSUME TypeOK, OneHolder, NEW w \in Slots, NEW c, Continue(w, c),
           \A t \in Types : Locked(c, t) =>
               \/ Locked(call[w], t)
               \/ \A v \in Slots \ {w} : ~ Locked(call[v], t)
    PROVE  OneHolder'
  <1>1. call'[w] = c /\ \A v \in Slots \ {w} : call'[v] = call[v]
    BY ContinueExact
  <1> SUFFICES ASSUME NEW v \in Slots, NEW u \in Slots, NEW t \in Types, v # u,
                      Locked(call'[v], t), Locked(call'[u], t)
               PROVE  FALSE
    BY DEF OneHolder, Locked
  <1>2. CASE v = w
    BY <1>1, <1>2 DEF OneHolder
  <1>3. CASE u = w
    BY <1>1, <1>3 DEF OneHolder
  <1>4. CASE v # w /\ u # w
    BY <1>1, <1>4 DEF OneHolder
  <1> QED
    BY <1>2, <1>3, <1>4

\* Every row that is written has been locked.
LEMMA WrittenIsLocked ==
    ASSUME TypeOK, NEW w \in Slots, call[w].op \in HoldingOps,
           NEW u \in Types, NEW n \in Int, NEW t \in Types
    PROVE  /\ WithUpdate(w, u, n)[t] # NotLocked => Locked(call[w], t) \/ t = u
           /\ WithUpdate(w, u, n)[t] = IF t = u THEN n ELSE call[w].dirty[t]
  <1>1. call[w].dirty \in [Types -> Int \cup {NotLocked}]
    BY CallFields DEF Dirty
  <1> QED
    BY <1>1 DEF WithUpdate, Locked

\* Who is in a cycle waits, and is waited for.
LEMMA InCycleWaits ==
    ASSUME NEW w \in Slots, InCycle(w)
    PROVE  /\ Needs(w) # {} /\ Holds(w) # {}
           /\ \E u \in Slots : WaitsFor(w, u) /\ InCycle(u)
  <1>1. PICK S \in SUBSET Slots :
           /\ w \in S
           /\ \A v \in S : /\ \E u \in S : WaitsFor(v, u)
                           /\ \E u \in S : WaitsFor(u, v)
    BY DEF InCycle
  <1>2. PICK u \in S : WaitsFor(w, u)
    BY <1>1
  <1>3. PICK v \in S : WaitsFor(v, w)
    BY <1>1
  <1>4. InCycle(u)
    BY <1>1, <1>2 DEF InCycle
  <1>5. Needs(w) # {} /\ Holds(w) # {}
    BY <1>2, <1>3 DEF WaitsFor
  <1> QED
    BY <1>2, <1>4, <1>5

\* The rows w's transaction has locked once it goes on to c.
LocksOf(w, c) ==
    c.op \in HoldingOps =>
        \/ c.dirty = NothingYet
        \/ CreateReserve(w) \/ CancelRelease(w)
        \/ call[w].op \in HoldingOps /\ c.dirty = call[w].dirty

\* What a step of a slot continues with, and which statuses it leaves alone.
LEMMA Steps ==
    ASSUME TypeOK, NEW w \in Slots, Request(w) \/ Proceed(w) \/ Abandon(w) \/ Crash(w)
    PROVE  \/ Connect(w)
           \/ /\ \E c : Continue(w, c) /\ LocksOf(w, c)
              /\ \E o \in Orders : \A p \in Orders \ {o} : status'[p] = status[p]
  <1> USE DEF LocksOf, HoldingOps
  <1> DEFINE Result ==
        /\ \E c : Continue(w, c) /\ LocksOf(w, c)
        /\ \E o \in Orders : \A p \in Orders \ {o} : status'[p] = status[p]
  <1>1. ASSUME NEW o \in Orders, UNCHANGED status, NEW c, Continue(w, c),
               LocksOf(w, c)
        PROVE  Result
    BY <1>1
  <1>2. ASSUME call[w].op \in ActingOps, NEW s, NEW c, Continue(w, c),
               status' = [status EXCEPT ![call[w].order] = s],
               c.op \notin HoldingOps
        PROVE  Result
    BY <1>2, CallFields DEF ActingOps, TypeOK
  <1>3. CASE Request(w)
    <2>1. PICK o \in Orders :
             \/ CreateBegin(w, o)
             \/ CancelRead(w, o)
             \/ \E s \in PatchTargets : UpdateStatusRead(w, o, s)
             \/ ConfirmDeliveryRead(w, o)
      BY <1>3 DEF Request
    <2>2. CASE CreateBegin(w, o)
      BY <1>1, <2>2 DEF CreateBegin
    <2>3. CASE CancelRead(w, o)
      BY <1>1, <2>3 DEF CancelRead
    <2>4. CASE \/ \E s \in PatchTargets : UpdateStatusRead(w, o, s)
               \/ ConfirmDeliveryRead(w, o)
      BY <1>1, <2>4 DEF UpdateStatusRead, ConfirmDeliveryRead
    <2> QED
      BY <2>1, <2>2, <2>3, <2>4
  <1>4. CASE \/ CreateCommit(w) \/ CancelCommit(w) \/ UpdateStatusWrite(w)
             \/ ConfirmDeliveryWrite(w) \/ SettleCommit(w)
    <2>1. call[w].op \in ActingOps
      BY <1>4 DEF CreateCommit, CancelCommit, UpdateStatusWrite, ConfirmDeliveryWrite,
                  SettleCommit, ActingOps, WriterOps
    <2> QED
      BY <1>2, <1>4, <2>1 DEF CreateCommit, CancelCommit, UpdateStatusWrite,
                              ConfirmDeliveryWrite, SettleCommit, Idle
  <1>5. CASE \/ DeadlockVictim(w) \/ PoolTimeout(w) \/ CreditWallet(w) \/ Abandon(w)
             \/ Crash(w)
    <2>1. call[w] # Idle
      <3>1. CASE DeadlockVictim(w)
        <4>1. Needs(w) # {}
          BY <3>1, InCycleWaits DEF DeadlockVictim
        <4>2. ASSUME call[w].op = "idle"
              PROVE  Needs(w) = {}
          BY <4>2 DEF Needs
        <4> QED
          BY <4>1, <4>2 DEF Idle
      <3>2. CASE PoolTimeout(w) \/ CreditWallet(w) \/ Abandon(w) \/ Crash(w)
        BY <3>2 DEF PoolTimeout, CreditWallet, Abandon, Crash, Idle, NeedsConnection, Connects,
                      BorrowingOps
      <3> QED
        BY <1>5, <3>1, <3>2
    <2>2. call[w].order \in Orders /\ Continue(w, Idle) /\ UNCHANGED status
      BY <1>5, <2>1, CallFields DEF DeadlockVictim, PoolTimeout, CreditWallet, Abandon, Crash
    <2> QED
      BY <1>1, <2>2 DEF Idle
  <1>6. CASE SettleRead(w) \/ SettleOrder(w) \/ CommitReservation(w)
    <2>1. call[w].order \in Orders /\ UNCHANGED status
      BY <1>6, CallFields DEF SettleRead, SettleOrder, CommitReservation, WriterOps
    <2> QED
      BY <1>1, <1>6, <2>1 DEF SettleRead, SettleOrder, CommitReservation, Idle
  <1>7. CASE SettleStation(w)
    <2>1. call[w].order \in Orders /\ UNCHANGED status
      BY <1>7, CallFields DEF SettleStation, WriterOps
    <2>2. PICK items \in ItemsOf(call[w].order) :
             Continue(w, [op |-> "paying", order |-> call[w].order, left |-> items])
      BY <1>7 DEF SettleStation
    <2> QED
      BY <1>1, <2>1, <2>2
  <1>8. CASE CreateReserve(w) \/ CancelRelease(w)
    <2>1. call[w].order \in Orders /\ UNCHANGED status
      BY <1>8, CallFields DEF CreateReserve, CancelRelease, WriterOps
    <2> QED
      BY <1>1, <1>8, <2>1 DEF CreateReserve, CancelRelease
  <1>9. CASE GenerateOrderNumber(w) \/ CancelBegin(w) \/ CancelUpdate(w)
    <2>1. call[w].order \in Orders /\ UNCHANGED status
      BY <1>9, CallFields DEF GenerateOrderNumber, CancelBegin, CancelUpdate, WriterOps
    <2> QED
      BY <1>1, <1>9, <2>1 DEF GenerateOrderNumber, CancelBegin, CancelUpdate
  <1>10. CASE CancelFindItems(w)
    <2>1. call[w].order \in Orders /\ UNCHANGED status
      BY <1>10, CallFields DEF CancelFindItems, WriterOps
    <2>2. PICK items \in ItemsOf(call[w].order) :
             Continue(w, [op |-> "cancelling", order |-> call[w].order, left |-> items,
                          dirty |-> NothingYet])
      BY <1>10 DEF CancelFindItems
    <2> QED
      BY <1>1, <2>1, <2>2
  <1> QED
    BY <1>3, <1>4, <1>5, <1>6, <1>7, <1>8, <1>9, <1>10 DEF Proceed

LiveFinite == IsFiniteSet(Live(status))

LEMMA LocksStep == TypeOK /\ OneHolder /\ LiveFinite /\ [Next]_vars => OneHolder' /\ LiveFinite'
  <1> SUFFICES ASSUME TypeOK, OneHolder, LiveFinite, [Next]_vars
               PROVE  OneHolder' /\ LiveFinite'
    OBVIOUS
  <1>1. CASE \/ UNCHANGED vars
             \/ \E t \in Types, delta \in Deltas : AdjustStock(t, delta)
             \/ \E w \in Slots : Connect(w)
    <2>1. UNCHANGED <<call, status>>
      BY <1>1 DEF vars, AdjustStock, Connect
    <2> QED
      BY <2>1 DEF OneHolder, LiveFinite, Live, Locked
  <1>2. ASSUME NEW w \in Slots, Request(w) \/ Proceed(w) \/ Abandon(w) \/ Crash(w),
               ~ Connect(w)
        PROVE  OneHolder' /\ LiveFinite'
    <2>1. PICK o \in Orders : \A p \in Orders \ {o} : status'[p] = status[p]
      BY <1>2, Steps
    <2>2. LiveFinite'
      <3>1. IsFiniteSet(Live(status) \cup {o})
        BY FS_AddElement DEF LiveFinite
      <3>2. Live(status') \in SUBSET (Live(status) \cup {o})
        BY <2>1 DEF Live
      <3> QED
        BY <3>1, <3>2, FS_Subset DEF LiveFinite, Live
    <2>3. PICK c : Continue(w, c) /\ LocksOf(w, c)
      BY <1>2, Steps
    <2>4. ASSUME NEW t \in Types, Locked(c, t)
          PROVE  Locked(call[w], t) \/ \A v \in Slots \ {w} : ~ Locked(call[v], t)
      <3> DEFINE item == Head(call[w].left)
      <3>1. NothingYet[t] = NotLocked /\ ~ Locked(Idle, t)
        BY DEF NothingYet, Locked, Idle, HoldingOps
      <3> SUFFICES ASSUME ~ Locked(call[w], t)
                   PROVE  \A v \in Slots \ {w} : ~ Locked(call[v], t)
        OBVIOUS
      <3>2. CreateReserve(w) \/ CancelRelease(w)
        BY <2>3, <2>4, <3>1 DEF Locked, LocksOf
      <3>3. /\ call[w].op \in {"create", "cancelling"} /\ call[w].left # <<>>
            /\ LocksFree(w) /\ item.type \in Types /\ item.quantity \in Nat
        BY <3>2, CallFields, NextItem DEF CreateReserve, CancelRelease, Granted
      <3>4. \/ \E n \in Int : c.dirty = WithUpdate(w, item.type, n)
            \/ c = Idle
        <4> DEFINE reserve == [op |-> "create", order |-> call[w].order,
                               left |-> Tail(call[w].left),
                               dirty |-> WithUpdate(w, item.type,
                                            Seen(w, item.type) + item.quantity)]
                   release == [op |-> "cancelling", order |-> call[w].order,
                               left |-> Tail(call[w].left),
                               dirty |-> WithUpdate(w, item.type,
                                            Released(Seen(w, item.type), item.quantity))]
        <4>1. Seen(w, item.type) \in Int
          BY <3>3, SeenTyped DEF HoldingOps
        <4>2. /\ Seen(w, item.type) + item.quantity \in Int
              /\ Released(Seen(w, item.type), item.quantity) \in Int
          <5>1. Seen(w, item.type) + item.quantity \in Int
            BY <3>3, <4>1
          <5> HIDE DEF item
          <5> QED
            BY <3>3, <4>1, <5>1, ReleasedTyped
        <4>3. c = call'[w]
          BY <2>3, ContinueExact
        <4>4. Continue(w, reserve) \/ Continue(w, release) \/ Continue(w, Idle)
          BY <3>2 DEF CreateReserve, CancelRelease
        <4>5. c \in {reserve, release, Idle}
          BY <4>3, <4>4, ContinueExact
        <4> QED
          BY <4>2, <4>5
      <3>5. PICK n \in Int : c.dirty = WithUpdate(w, item.type, n)
        BY <2>4, <3>1, <3>4
      <3>6. Locked(call[w], t) \/ t = item.type
        BY <2>4, <3>3, <3>5, WrittenIsLocked DEF Locked, HoldingOps
      <3> QED
        BY <3>3, <3>6, RowFree
    <2> QED
      BY <2>2, <2>3, <2>4, HolderAfter
  <1> QED
    BY <1>1, <1>2 DEF Next

LEMMA LocksInit == Init => OneHolder /\ LiveFinite
  <1> SUFFICES ASSUME Init PROVE OneHolder /\ LiveFinite
    OBVIOUS
  <1>1. Live(status) = {}
    BY DEF Init, Live
  <1>2. LiveFinite
    BY <1>1, FS_EmptySet DEF LiveFinite
  <1> QED
    BY <1>2 DEF Init, OneHolder, Locked, Idle, HoldingOps
--------------------------------------------------------------------------------
(* What is reserved, and what is on the shelf.                              *)

\* Nobody writes off cylinders that are reserved.
ShelfKept == world = "calm" \/ Deltas \subseteq Nat

\* No order is cancelled past the stock, and no settlement is cut short.
Exactly == Undisturbed /\ "CANCELLED" \notin PatchTargets

\* What a transaction is not through with.
Left(c) == IF c.op = "cancelled" THEN <<>> ELSE c.left

SeenBy(c, t, n) == IF c.dirty[t] = NotLocked THEN n ELSE c.dirty[t]

\* A transaction has added what it is through with of its basket, or released it, to
\* the n that are reserved; f are on the shelf.
Balance(c, t, n, f) ==
    /\ c.op = "create" =>
          SeenBy(c, t, n) + Quantity(Left(c), t) = n + Quantity(Basket[c.order], t)
    /\ c.op \in {"cancelling", "cancelled"} =>
          SeenBy(c, t, n) + Quantity(Basket[c.order], t) = n + Quantity(Left(c), t)
    /\ c.op \in HoldingOps => SeenBy(c, t, n) <= f

StockOf(t) ==
    /\ Total(status, call, t) <= reserved[t]
    /\ reserved[t] <= filled[t]
    /\ \A w \in Slots : Balance(call[w], t, reserved[t], filled[t])
    /\ Exactly => /\ Total(status, call, t) = reserved[t]
                  /\ filled[t] + TotalGone(status, call, t) = InitialStock[t]

\* A confirmed order is being settled.
BeingSettled ==
    Exactly => \A o \in Orders :
        status[o] = "CUSTOMER_CONFIRMED" => \E w \in Slots : Settles(call[w], o)

StockInv == world # "racing" /\ ShelfKept => BeingSettled /\ \A t \in Types : StockOf(t)

\* Numbers that a transaction compares.
LEMMA BalanceTyped ==
    ASSUME NEW c \in Calls, c.op \in HoldingOps, NEW t \in Types, NEW n \in Int
    PROVE  /\ SeenBy(c, t, n) \in Int
           /\ c.order \in Orders
           /\ Quantity(Left(c), t) \in Nat /\ Quantity(Basket[c.order], t) \in Nat
  <1>1. c.order \in Orders /\ Left(c) \in Seq(Item) /\ c.dirty \in [Types -> Int \cup {NotLocked}]
    BY DEF Calls, Idle, Dirty, HoldingOps, Left
  <1>2. SeenBy(c, t, n) \in Int
    BY <1>1 DEF SeenBy
  <1> QED
    BY <1>1, <1>2, BasketTyped, QuantityNatural

\* Others change the row of a type only while the transaction has not locked it.
LEMMA BalanceKept ==
    ASSUME NEW c \in Calls, NEW t \in Types, NEW n \in Int, NEW f \in Int,
           NEW n2 \in Int, NEW f2 \in Int, Balance(c, t, n, f),
           \/ n2 = n /\ f2 >= f
           \/ ~ Locked(c, t) /\ n2 <= f2
    PROVE  Balance(c, t, n2, f2)
  <1>1. CASE c.op \notin HoldingOps
    BY <1>1 DEF Balance, HoldingOps
  <1>2. CASE c.op \in HoldingOps
    <2>1. /\ SeenBy(c, t, n) \in Int
          /\ Quantity(Left(c), t) \in Nat /\ Quantity(Basket[c.order], t) \in Nat
      BY <1>2, BalanceTyped
    <2>2. CASE n2 = n /\ f2 >= f
      BY <2>1, <2>2 DEF Balance
    <2>3. CASE ~ Locked(c, t) /\ n2 <= f2
      <3>1. SeenBy(c, t, n) = n /\ SeenBy(c, t, n2) = n2
        BY <1>2, <2>3 DEF Locked, SeenBy
      <3>2. Quantity(Left(c), t) = Quantity(Basket[c.order], t)
        BY <1>2, <2>1, <3>1 DEF Balance, HoldingOps
      <3> QED
        BY <2>3, <3>1, <3>2 DEF Balance
    <2> QED
      BY <2>2, <2>3
  <1> QED
    BY <1>1, <1>2

LEMMA GoneTyped ==
    ASSUME NEW st, NEW cl \in [Slots -> Calls], NEW o \in Orders, NEW t
    PROVE  Gone(st, cl, o, t) \in Int
  BY NeedTyped, BasketTyped DEF Gone

\* An order without a committed row needs nothing.
LEMMA NewNeedsNothing ==
    ASSUME NEW st, NEW cl, \A v \in Slots : Foreseen(cl[v], st),
           NEW o, st[o] = "NEW", NEW t
    PROVE  Need(st, cl, o, t) = 0 /\ Gone(st, cl, o, t) = 0
  <1>1. Settling(cl, o) = {}
    BY DEF Settling, Settles, SettleOps, Foreseen
  <1> QED
    BY <1>1 DEF Need, Gone

\* A slot goes on to c, for order o: what the order needs on reserve changes no more
\* than what is reserved, and rows that others have locked do not change.
LEMMA StockAfter ==
    ASSUME TypeOK, TypeOK', OneWriter, OneWriter', LiveFinite,
           NEW t \in Types, StockOf(t),
           NEW w \in Slots, NEW c, Continue(w, c), NEW o \in Orders,
           \A p \in Orders \ {o} :
               status'[p] = status[p] /\ ~ Settles(call[w], p) /\ ~ Settles(c, p),
           \/ reserved'[t] = reserved[t] /\ filled'[t] = filled[t]
           \/ \A v \in Slots \ {w} : ~ Locked(call[v], t),
           reserved'[t] <= filled'[t],
           Balance(c, t, reserved'[t], filled'[t]),
           Need(status', call', o, t) - Need(status, call, o, t) <= reserved'[t] - reserved[t],
           Exactly =>
               /\ Need(status', call', o, t) - Need(status, call, o, t) =
                     reserved'[t] - reserved[t]
               /\ Gone(status', call', o, t) - Gone(status, call, o, t) =
                     filled[t] - filled'[t]
    PROVE  StockOf(t)'
  <1>1. call'[w] = c /\ \A v \in Slots \ {w} : call'[v] = call[v]
    BY ContinueExact
  <1>2. /\ call \in [Slots -> Calls] /\ call' \in [Slots -> Calls]
        /\ reserved[t] \in Int /\ reserved'[t] \in Int
        /\ filled[t] \in Int /\ filled'[t] \in Int
    BY DEF TypeOK
  <1>3. \A p \in Orders \ {o} : Need(status', call', p, t) = Need(status, call, p, t)
    BY <1>1, NeedKept
  <1>4. \A p \in Orders \ {o} : Gone(status', call', p, t) = Gone(status, call, p, t)
    BY <1>3 DEF Gone
  <1>5. \A v \in Slots : Foreseen(call[v], status) /\ Foreseen(call'[v], status')
    BY DEF OneWriter
  <1>6. /\ status[o] = "NEW" => Need(status, call, o, t) = 0 /\ Gone(status, call, o, t) = 0
        /\ status'[o] = "NEW" =>
               Need(status', call', o, t) = 0 /\ Gone(status', call', o, t) = 0
    BY <1>5, NewNeedsNothing
  <1>7. \A p \in Orders :
           /\ Need(status, call, p, t) \in Int /\ Need(status', call', p, t) \in Int
           /\ Gone(status, call, p, t) \in Int /\ Gone(status', call', p, t) \in Int
    <2>1. \A p \in Orders :
             Need(status, call, p, t) \in Nat /\ Need(status', call', p, t) \in Nat
      BY <1>2, NeedTyped
    <2>2. \A p \in Orders :
             Gone(status, call, p, t) \in Int /\ Gone(status', call', p, t) \in Int
      BY <1>2, GoneTyped
    <2> QED
      BY <2>1, <2>2
  <1>8. /\ Total(status, call, t) \in Int /\ Total(status', call', t) \in Int
        /\ Total(status', call', t) =
               Total(status, call, t) + Need(status', call', o, t) - Need(status, call, o, t)
    <2> DEFINE f == [p \in Orders |-> Need(status, call, p, t)]
               g == [p \in Orders |-> Need(status', call', p, t)]
    <2>1. /\ \A p \in Orders : f[p] \in Int /\ g[p] \in Int
          /\ \A p \in Orders \ {o} : status'[p] = status[p]
          /\ \A p \in Orders \ {o} : g[p] = f[p]
          /\ status[o] = "NEW" => f[o] = 0
          /\ status'[o] = "NEW" => g[o] = 0
          /\ f[o] = Need(status, call, o, t) /\ g[o] = Need(status', call', o, t)
      BY <1>3, <1>6, <1>7
    <2>2. /\ Total(status, call, t) = SumFunctionOnSet(f, Live(status))
          /\ Total(status', call', t) = SumFunctionOnSet(g, Live(status'))
      BY DEF Total
    <2> HIDE DEF f, g
    <2>3. IsFiniteSet(Live(status))
      BY DEF LiveFinite
    <2>4. /\ SumFunctionOnSet(f, Live(status)) \in Int
          /\ SumFunctionOnSet(g, Live(status')) \in Int
          /\ SumFunctionOnSet(g, Live(status')) =
                 SumFunctionOnSet(f, Live(status)) + g[o] - f[o]
      BY <2>1, <2>3, LiveSum
    <2> QED
      BY <2>1, <2>2, <2>4
  <1>9. /\ TotalGone(status, call, t) \in Int /\ TotalGone(status', call', t) \in Int
        /\ TotalGone(status', call', t) =
               TotalGone(status, call, t)
                   + Gone(status', call', o, t) - Gone(status, call, o, t)
    <2> DEFINE f == [p \in Orders |-> Gone(status, call, p, t)]
               g == [p \in Orders |-> Gone(status', call', p, t)]
    <2>1. /\ \A p \in Orders : f[p] \in Int /\ g[p] \in Int
          /\ \A p \in Orders \ {o} : status'[p] = status[p]
          /\ \A p \in Orders \ {o} : g[p] = f[p]
          /\ status[o] = "NEW" => f[o] = 0
          /\ status'[o] = "NEW" => g[o] = 0
          /\ f[o] = Gone(status, call, o, t) /\ g[o] = Gone(status', call', o, t)
      BY <1>4, <1>6, <1>7
    <2>2. /\ TotalGone(status, call, t) = SumFunctionOnSet(f, Live(status))
          /\ TotalGone(status', call', t) = SumFunctionOnSet(g, Live(status'))
      BY DEF TotalGone
    <2> HIDE DEF f, g
    <2>3. IsFiniteSet(Live(status))
      BY DEF LiveFinite
    <2>4. /\ SumFunctionOnSet(f, Live(status)) \in Int
          /\ SumFunctionOnSet(g, Live(status')) \in Int
          /\ SumFunctionOnSet(g, Live(status')) =
                 SumFunctionOnSet(f, Live(status)) + g[o] - f[o]
      BY <2>1, <2>3, LiveSum
    <2> QED
      BY <2>1, <2>2, <2>4
  <1>10. \A v \in Slots : Balance(call'[v], t, reserved'[t], filled'[t])
    <2>1. ASSUME NEW v \in Slots \ {w}
          PROVE  Balance(call[v], t, reserved'[t], filled'[t])
      <3>1. call[v] \in Calls /\ Balance(call[v], t, reserved[t], filled[t])
        BY <1>2 DEF StockOf
      <3>2. \/ reserved'[t] = reserved[t] /\ filled'[t] >= filled[t]
            \/ ~ Locked(call[v], t) /\ reserved'[t] <= filled'[t]
        BY <1>2
      <3> QED
        BY <1>2, <3>1, <3>2, BalanceKept
    <2> QED
      BY <1>1, <2>1
  <1>11. Total(status', call', t) <= reserved'[t]
    BY <1>2, <1>7, <1>8 DEF StockOf
  <1>12. ASSUME Exactly
         PROVE  /\ Total(status', call', t) = reserved'[t]
                /\ filled'[t] + TotalGone(status', call', t) = InitialStock[t]
    <2>1. InitialStock[t] \in Int
      BY FulfilmentAssumption
    <2> QED
      BY <1>2, <1>7, <1>8, <1>9, <1>12, <2>1 DEF StockOf
  <1>13. Exactly' <=> Exactly
    BY DEF Exactly, Undisturbed, Continue
  <1> QED
    BY <1>10, <1>11, <1>12, <1>13 DEF StockOf

\* Nobody else settles the order a slot acts on.
LEMMA Alone ==
    ASSUME OneWriter, NEW w \in Slots, call[w].op \in ActingOps, NEW v \in Slots \ {w}
    PROVE  ~ Settles(call[v], call[w].order)
  BY DEF OneWriter, Exclusive, Settles, SettleOps, ActingOps, WriterOps

\* A slot goes on to c, and neither statuses nor stock change.
LEMMA QuietAfter ==
    ASSUME TypeOK, TypeOK', OneWriter, OneWriter', LiveFinite,
           NEW t \in Types, StockOf(t),
           NEW w \in Slots, NEW c, Continue(w, c), NEW o \in Orders,
           UNCHANGED <<status, stock>>,
           \A p \in Orders \ {o} : ~ Settles(call[w], p) /\ ~ Settles(c, p),
           Balance(c, t, reserved[t], filled[t]),
           \/ Need(status', call', o, t) = Need(status, call, o, t)
           \/ ~ Exactly /\ Need(status', call', o, t) <= Need(status, call, o, t)
    PROVE  StockOf(t)'
  <1>1. /\ status' = status
        /\ reserved'[t] = reserved[t] /\ filled'[t] = filled[t]
    BY DEF stock
  <1>2. /\ reserved[t] \in Int /\ filled[t] \in Int
        /\ Need(status, call, o, t) \in Nat /\ Need(status', call', o, t) \in Nat
    BY NeedTyped DEF TypeOK
  <1>3. reserved'[t] <= filled'[t] /\ Balance(c, t, reserved'[t], filled'[t])
    BY <1>1 DEF StockOf
  <1>4. Need(status', call', o, t) - Need(status, call, o, t) <= reserved'[t] - reserved[t]
    BY <1>1, <1>2
  <1>5. ASSUME Exactly
        PROVE  /\ Need(status', call', o, t) - Need(status, call, o, t) =
                      reserved'[t] - reserved[t]
               /\ Gone(status', call', o, t) - Gone(status, call, o, t) =
                      filled[t] - filled'[t]
    <2>1. Need(status', call', o, t) = Need(status, call, o, t)
      BY <1>5
    <2>2. Gone(status', call', o, t) = Gone(status, call, o, t)
      BY <1>1, <2>1 DEF Gone
    <2>3. Gone(status, call, o, t) \in Int
      BY GoneTyped DEF TypeOK
    <2> QED
      BY <1>1, <1>2, <2>1, <2>2, <2>3
  <1>6. \A p \in Orders \ {o} :
           status'[p] = status[p] /\ ~ Settles(call[w], p) /\ ~ Settles(c, p)
    BY <1>1
  <1> QED
    BY <1>1, <1>3, <1>4, <1>5, <1>6, StockAfter

LEMMA SettledAfter ==
    ASSUME TypeOK, BeingSettled, NEW w \in Slots, NEW c, Continue(w, c), NEW o \in Orders,
           \A p \in Orders \ {o} : status'[p] = status[p] /\ ~ Settles(call[w], p),
           Exactly /\ status'[o] = "CUSTOMER_CONFIRMED" =>
               Settles(c, o) \/ (status[o] = status'[o] /\ ~ Settles(call[w], o))
    PROVE  BeingSettled'
  <1>1. call'[w] = c /\ \A v \in Slots \ {w} : call'[v] = call[v]
    BY ContinueExact
  <1>2. Exactly' <=> Exactly
    BY DEF Exactly, Undisturbed, Continue
  <1> SUFFICES ASSUME Exactly, NEW p \in Orders, status'[p] = "CUSTOMER_CONFIRMED"
               PROVE  \E v \in Slots : Settles(call'[v], p)
    BY <1>2 DEF BeingSettled
  <1>3. CASE p = o /\ Settles(c, o)
    BY <1>1, <1>3
  <1>4. CASE ~ (p = o /\ Settles(c, o))
    <2>1. status[p] = "CUSTOMER_CONFIRMED" /\ ~ Settles(call[w], p)
      BY <1>4
    <2>2. PICK v \in Slots : Settles(call[v], p)
      BY <2>1 DEF BeingSettled
    <2>3. v # w
      BY <2>1, <2>2
    <2> QED
      BY <1>1, <2>2, <2>3
  <1> QED
    BY <1>3, <1>4

LEMMA NeedWithin ==
    ASSUME TypeOK, LiveFinite, NEW o \in Orders, status[o] # "NEW", NEW t
    PROVE  /\ Total(status, call, t) \in Nat
           /\ Need(status, call, o, t) <= Total(status, call, t)
  <1> DEFINE f == [p \in Orders |-> Need(status, call, p, t)]
  <1>1. o \in Live(status) /\ Live(status) \subseteq Orders /\ IsFiniteSet(Live(status))
    BY DEF Live, LiveFinite
  <1>2. \A p \in Orders : f[p] \in Nat /\ f[p] = Need(status, call, p, t)
    BY NeedTyped DEF TypeOK
  <1>3. Total(status, call, t) = SumFunctionOnSet(f, Live(status))
    BY DEF Total
  <1> HIDE DEF f
  <1>4. \A p \in Live(status) : f[p] \in Nat
    BY <1>1, <1>2
  <1>5. /\ SumFunctionOnSet(f, Live(status)) \in Nat
        /\ f[o] <= SumFunctionOnSet(f, Live(status))
    BY <1>1, <1>4, SumNatural
  <1> QED
    BY <1>2, <1>3, <1>5

\* The balance of a transaction, and what the next item does to both sides of it.
LEMMA ReservesOne ==
    \A was, now, one, all, rest, whole, n \in Int :
        was + all = n + whole /\ now = was + one /\ all = one + rest => now + rest = n + whole
  OBVIOUS

LEMMA ReleasesOne ==
    \A was, now, one, all, rest, whole, n \in Int :
        was + whole = n + all /\ now = was - one /\ all = one + rest => now + whole = n + rest
  OBVIOUS

\* One more item is reserved, or released.
LEMMA ItemBalance ==
    ASSUME TypeOK, NEW w \in Slots, call[w].op \in {"create", "cancelling"},
           call[w].left # <<>>, NEW t \in Types, NEW m \in Int, NEW c,
           c.op = call[w].op, c.order = call[w].order, c.left = Tail(call[w].left),
           c.dirty = WithUpdate(w, Head(call[w].left).type, m),
           Balance(call[w], t, reserved[t], filled[t]),
           t = Head(call[w].left).type =>
               /\ m <= filled[t]
               /\ m = IF call[w].op = "create"
                      THEN Seen(w, t) + Head(call[w].left).quantity
                      ELSE Seen(w, t) - Head(call[w].left).quantity
    PROVE  Balance(c, t, reserved[t], filled[t])
  <1> DEFINE item == Head(call[w].left)
  <1>1. /\ call[w] \in Calls /\ call[w].left \in Seq(Item)
        /\ item.type \in Types /\ item.quantity \in Nat
        /\ reserved[t] \in Int /\ filled[t] \in Int
    BY CallFields, NextItem DEF TypeOK
  <1>0. Left(call[w]) = call[w].left /\ Left(c) = Tail(call[w].left)
    BY DEF Left
  <1>2. /\ SeenBy(call[w], t, reserved[t]) \in Int
        /\ Quantity(call[w].left, t) \in Nat
        /\ Quantity(Basket[call[w].order], t) \in Nat
    BY <1>0, <1>1, BalanceTyped DEF HoldingOps
  <1>3. Quantity(Tail(call[w].left), t) \in Nat
    BY <1>1, NextItem, QuantityNatural
  <1>4. Quantity(call[w].left, t) = Part(item, t) + Quantity(Tail(call[w].left), t)
    BY <1>1, QuantityOfNext
  <1>5. SeenBy(call[w], t, reserved[t]) = Seen(w, t)
    BY DEF SeenBy, Seen
  <1>6. CASE t = item.type
    <2>1. c.dirty[t] = m
      BY <1>1, <1>6, WrittenIsLocked DEF HoldingOps
    <2>2. m # NotLocked
      BY FulfilmentAssumption
    <2>3. SeenBy(c, t, reserved[t]) = m
      BY <2>1, <2>2 DEF SeenBy
    <2>4. Part(item, t) = item.quantity
      BY <1>6 DEF Part
    <2>5. /\ m <= filled[t]
          /\ call[w].op = "create" => m = SeenBy(call[w], t, reserved[t]) + item.quantity
          /\ call[w].op = "cancelling" => m = SeenBy(call[w], t, reserved[t]) - item.quantity
      BY <1>5, <1>6
    <2> HIDE DEF item
    <2> DEFINE was == SeenBy(call[w], t, reserved[t])
               now == SeenBy(c, t, reserved[t])
               one == item.quantity
               all == Quantity(call[w].left, t)
               rest == Quantity(Tail(call[w].left), t)
               whole == Quantity(Basket[call[w].order], t)
               n == reserved[t]
    <2>8. /\ was \in Int /\ now \in Int /\ one \in Int /\ all \in Int
          /\ rest \in Int /\ whole \in Int /\ n \in Int /\ all = one + rest
      BY <1>1, <1>2, <1>3, <1>4, <2>3, <2>4
    <2>9. now <= filled[t]
      BY <2>3, <2>5
    <2> HIDE DEF was, now, one, all, rest, whole, n
    <2>6. CASE call[w].op = "create"
      <3>1. was + all = n + whole
        BY <1>0, <2>6 DEF Balance, was, all, whole, n
      <3>2. now = was + one
        BY <2>3, <2>5, <2>6 DEF was, now, one
      <3>3. now + rest = n + whole
        BY <2>8, <3>1, <3>2, ReservesOne
      <3> QED
        BY <1>0, <2>6, <2>9, <3>3 DEF Balance, now, rest, whole, n
    <2>7. CASE call[w].op = "cancelling"
      <3>1. was + whole = n + all
        BY <1>0, <2>7 DEF Balance, was, all, whole, n
      <3>2. now = was - one
        BY <2>3, <2>5, <2>7 DEF was, now, one
      <3>3. now + whole = n + rest
        BY <2>8, <3>1, <3>2, ReleasesOne
      <3> QED
        BY <1>0, <2>7, <2>9, <3>3 DEF Balance, now, rest, whole, n
    <2> QED
      BY <2>6, <2>7
  <1>7. CASE t # item.type
    <2>1. c.dirty[t] = call[w].dirty[t]
      BY <1>1, <1>7, WrittenIsLocked DEF HoldingOps
    <2>2. SeenBy(c, t, reserved[t]) = SeenBy(call[w], t, reserved[t])
      BY <2>1 DEF SeenBy
    <2>3. Part(item, t) = 0
      BY <1>7 DEF Part
    <2> QED
      BY <1>0, <1>1, <1>2, <1>3, <1>4, <2>2, <2>3 DEF Balance, HoldingOps
  <1> QED
    BY <1>6, <1>7

StockState ==
    /\ TypeOK /\ OneWriter /\ OneHolder /\ LiveFinite
    /\ BeingSettled
    /\ \A t \in Types : StockOf(t)

\* A settlement is not cut short while nothing is disturbed.
LEMMA NotCutShort ==
    ASSUME TypeOK, OneWriter, Exactly, NEW w \in Slots,
           Abandon(w) \/ Crash(w) \/ DeadlockVictim(w) \/ PoolTimeout(w)
    PROVE  call[w].op \notin SettleOps
  <1>1. CASE Abandon(w)
    BY <1>1 DEF Abandon, SettleOps
  <1>2. CASE Crash(w)
    BY <1>2 DEF Crash, Exactly, Undisturbed
  <1>3. CASE DeadlockVictim(w)
    <2>1. /\ Needs(w) # {} /\ Holds(w) # {}
          /\ \E u \in Slots : WaitsFor(w, u) /\ InCycle(u)
      BY <1>3, InCycleWaits DEF DeadlockVictim
    <2>2. PICK u \in Slots : WaitsFor(w, u) /\ InCycle(u)
      BY <2>1
    <2>3. call[w].op # "paying" /\ call[u].op # "paying"
      BY <2>2, InCycleWaits DEF WaitsFor
    <2>4. ASSUME call[w].op = "completing"
          PROVE  FALSE
      <3>1. StationRow \in Holds(u)
        BY <2>2, <2>4 DEF WaitsFor, Needs
      <3>2. \A t : Row(t) # StationRow
        BY DEF Row, StationRow
      <3>3. \A o : OrderRow(o) # StationRow
        BY DEF OrderRow, StationRow
      <3>4. CASE call[u].op \in HoldingOps
        BY <3>1, <3>2, <3>3, <3>4 DEF Holds, LockedRows, HoldingOps
      <3>5. CASE call[u].op = "completing"
        BY <3>1, <3>3, <3>5 DEF Holds
      <3>6. CASE call[u].op \notin HoldingOps \cup {"completing", "paying"}
        BY <3>1, <3>6 DEF Holds, HoldingOps
      <3> QED
        BY <2>3, <3>4, <3>5, <3>6
    <2>5. call[w].op = "settle" => Needs(w) = {}
      BY DEF Needs
    <2>6. call[w].op = "settling" => Holds(w) = {}
      BY DEF Holds
    <2> QED
      BY <2>1, <2>3, <2>4, <2>5, <2>6 DEF SettleOps
  <1>4. CASE PoolTimeout(w)
    <2> SUFFICES ASSUME call[w].op \in SettleOps PROVE FALSE
      OBVIOUS
    <2> DEFINE T == {v \in Slots : InTransaction(v)}
    <2>1. IsFiniteSet(Slots) /\ T \in SUBSET Slots /\ connected \in SUBSET Slots
      BY FulfilmentAssumption DEF TypeOK
    <2>2. /\ Cardinality(T) <= Cardinality(Slots) /\ IsFiniteSet(T)
          /\ Cardinality(connected) <= Cardinality(Slots) /\ IsFiniteSet(connected)
      BY <2>1, FS_Subset
    <2>3. /\ Cardinality(T) \in Nat /\ Cardinality(Slots) \in Nat
          /\ Cardinality(connected) \in Nat
      BY <2>1, <2>2, FS_CardinalityType
    \* Who waits for a connection has none.
    <2>4. Cardinality(T) + Cardinality(connected) < 2 * Cardinality(Slots)
      <3>1. CASE w \notin connected
        <4>1. connected # Slots
          BY <3>1
        <4>2. Cardinality(connected) # Cardinality(Slots)
          BY <2>1, <4>1, FS_Subset
        <4> QED
          BY <2>2, <2>3, <4>2
      <3>2. CASE w \in connected
        <4>1. ~ Connects(w) /\ call[w].op \in BorrowingOps
          BY <1>4, <3>2 DEF PoolTimeout, NeedsConnection
        <4>2. T # Slots
          BY <4>1 DEF InTransaction, TransactionOps, BorrowingOps, SettleOps
        <4>3. Cardinality(T) # Cardinality(Slots)
          BY <2>1, <4>2, FS_Subset
        <4> QED
          BY <2>2, <2>3, <4>3
      <3> QED
        BY <3>1, <3>2
    <2>5. pool \in Nat /\ pool >= 2 * Cardinality(Slots)
      BY FulfilmentAssumption DEF TypeOK, Exactly, Undisturbed
    <2>6. PoolIsFree
      BY <2>3, <2>4, <2>5 DEF PoolIsFree
    <2> QED
      BY <1>4, <2>6 DEF PoolTimeout
  <1> QED
    BY <1>1, <1>2, <1>3, <1>4

\* A request comes in, or gets as far as its items.
Opens(w) ==
    Request(w) \/ GenerateOrderNumber(w) \/ CancelBegin(w) \/ CancelFindItems(w)

LEMMA StockBegin ==
    ASSUME StockState, TypeOK', OneWriter', NEW w \in Slots, Opens(w)
    PROVE  BeingSettled' /\ \A t \in Types : StockOf(t)'
  <1> USE DEF StockState
  <1>1. /\ UNCHANGED <<status, stock>>
        /\ call[w].op \in {"idle", "numbering", "cancel", "finding"}
    <2>1. ASSUME NEW o \in Orders,
                 \/ CreateBegin(w, o) \/ CancelRead(w, o) \/ ConfirmDeliveryRead(w, o)
                 \/ \E s \in PatchTargets : UpdateStatusRead(w, o, s)
          PROVE  UNCHANGED <<status, stock>> /\ call[w] = Idle
      BY <2>1 DEF CreateBegin, CancelRead, UpdateStatusRead, ConfirmDeliveryRead, MayStart
    <2>2. ASSUME GenerateOrderNumber(w) \/ CancelBegin(w) \/ CancelFindItems(w)
          PROVE  /\ UNCHANGED <<status, stock>>
                 /\ call[w].op \in {"numbering", "cancel", "finding"}
      BY <2>2 DEF GenerateOrderNumber, CancelBegin, CancelFindItems
    <2>3. Idle.op = "idle"
      BY DEF Idle
    <2>4. CASE Request(w)
      BY <2>1, <2>3, <2>4 DEF Request
    <2> QED
      BY <2>2, <2>4 DEF Opens
  <1> DEFINE Begun(o, c) ==
           /\ Continue(w, c)
           /\ \/ c.op \in {"numbering", "cancel", "finding", "update", "confirm"}
              \/ /\ c.op \in {"create", "cancelling"}
                 /\ c.order = o /\ c.dirty = NothingYet
                 /\ c.left = Basket[o] \/ c.left \in ItemsOf(o)
  <1>3. \E o \in Orders : \E c : Begun(o, c)
    <2>1. ASSUME NEW o \in Orders,
                 CreateBegin(w, o) \/ CancelRead(w, o) \/ ConfirmDeliveryRead(w, o)
          PROVE  \E c : Begun(o, c)
      BY <2>1 DEF CreateBegin, CancelRead, ConfirmDeliveryRead
    <2>2. ASSUME NEW o \in Orders, NEW s \in PatchTargets, UpdateStatusRead(w, o, s)
          PROVE  \E c : Begun(o, c)
      BY <2>2 DEF UpdateStatusRead
    <2>3. ASSUME GenerateOrderNumber(w) \/ CancelBegin(w)
          PROVE  call[w].order \in Orders /\ \E c : Begun(call[w].order, c)
      BY <2>3, CallFields DEF GenerateOrderNumber, CancelBegin, WriterOps
    <2>4. ASSUME CancelFindItems(w)
          PROVE  call[w].order \in Orders /\ \E c : Begun(call[w].order, c)
      <3>1. PICK items \in ItemsOf(call[w].order) :
               Continue(w, [op |-> "cancelling", order |-> call[w].order, left |-> items,
                            dirty |-> NothingYet])
        BY <2>4 DEF CancelFindItems
      <3>2. call[w].order \in Orders
        BY <2>4, CallFields DEF CancelFindItems, WriterOps
      <3> QED
        BY <3>1, <3>2
    <2> HIDE DEF Begun
    <2> QED
      BY <2>1, <2>2, <2>3, <2>4 DEF Opens, Request
  <1>5. PICK o \in Orders : \E c : Begun(o, c)
    BY <1>3
  <1>2. PICK c : Begun(o, c)
    BY <1>5
  <1>4. \A p : ~ Settles(call[w], p) /\ ~ Settles(c, p)
    BY <1>1, <1>2 DEF Settles, SettleOps
  <1>6. ASSUME NEW t \in Types
        PROVE  StockOf(t)'
    <2>1. Balance(c, t, reserved[t], filled[t])
      <3>1. reserved[t] \in Int /\ reserved[t] <= filled[t]
        BY DEF TypeOK, StockOf
      <3>2. c.dirty = NothingYet => SeenBy(c, t, reserved[t]) = reserved[t]
        BY DEF SeenBy, NothingYet
      <3>3. c.left = Basket[o] \/ c.left \in ItemsOf(o) =>
               Quantity(c.left, t) = Quantity(Basket[o], t)
        BY QuantityOfItems
      <3> QED
        BY <1>2, <3>1, <3>2, <3>3 DEF Balance, HoldingOps, Left
    <2>2. call'[w] = c /\ \A v \in Slots \ {w} : call'[v] = call[v]
      BY <1>2, ContinueExact
    <2>3. Need(status', call', o, t) = Need(status, call, o, t)
      BY <1>1, <1>4, <2>2, NeedKept
    <2> QED
      BY <1>1, <1>2, <1>4, <2>1, <2>3, QuietAfter
  <1>7. BeingSettled'
    BY <1>1, <1>2, <1>4, SettledAfter
  <1> QED
    BY <1>6, <1>7

\* cancel has released its items and updates the order.
LEMMA StockReleased ==
    ASSUME StockState, TypeOK', OneWriter', NEW w \in Slots, CancelUpdate(w)
    PROVE  BeingSettled' /\ \A t \in Types : StockOf(t)'
  <1> USE DEF StockState
  <1> DEFINE o == call[w].order
             c == [op |-> "cancelled", order |-> o, dirty |-> call[w].dirty]
  <1>1. /\ call[w].op = "cancelling" /\ call[w].left = <<>>
        /\ UNCHANGED <<status, stock>> /\ Continue(w, c)
    BY DEF CancelUpdate
  <1>2. o \in Orders
    BY <1>1, CallFields DEF WriterOps
  <1>3. \A p : ~ Settles(call[w], p) /\ ~ Settles(c, p)
    BY <1>1 DEF Settles, SettleOps
  <1>4. ASSUME NEW t \in Types
        PROVE  Balance(c, t, reserved[t], filled[t])
    <2>1. Balance(call[w], t, reserved[t], filled[t])
      BY DEF StockOf
    <2>2. Left(call[w]) = <<>> /\ Left(c) = <<>>
      BY <1>1 DEF Left
    <2>3. SeenBy(c, t, reserved[t]) = SeenBy(call[w], t, reserved[t])
      BY DEF SeenBy
    <2> QED
      BY <1>1, <2>1, <2>2, <2>3 DEF Balance, HoldingOps
  <1>5. call'[w] = c /\ \A v \in Slots \ {w} : call'[v] = call[v]
    BY <1>1, ContinueExact
  <1> HIDE DEF c, o
  <1>6. ASSUME NEW t \in Types
        PROVE  StockOf(t)'
    <2>0. ~ Settles(call[w], o) /\ ~ Settles(call'[w], o) /\ status'[o] = status[o]
      BY <1>1, <1>3, <1>5
    <2>1. Need(status', call', o, t) = Need(status, call, o, t)
      <3>1. \A v \in Slots \ {w} : call'[v] = call[v]
        BY <1>5
      <3> QED
        BY <2>0, <3>1, NeedKept
    <2> QED
      BY <1>1, <1>2, <1>3, <1>4, <2>1, QuietAfter
  <1>7. BeingSettled'
    BY <1>1, <1>2, <1>3, SettledAfter
  <1> QED
    BY <1>6, <1>7

\* A request ends without a commit.
LEMMA StockEnd ==
    ASSUME StockState, TypeOK', OneWriter', NEW w \in Slots, call[w] # Idle,
           Continue(w, Idle), UNCHANGED <<status, stock>>,
           Exactly => call[w].op \notin SettleOps
    PROVE  BeingSettled' /\ \A t \in Types : StockOf(t)'
  <1> USE DEF StockState
  <1> DEFINE o == call[w].order
  <1>1. o \in Orders
    BY CallFields
  <1>2. call'[w] = Idle /\ \A v \in Slots \ {w} : call'[v] = call[v]
    BY ContinueExact
  <1>3. \A p : ~ Settles(Idle, p)
    BY DEF Settles, SettleOps, Idle
  <1>4. \A p \in Orders \ {o} : ~ Settles(call[w], p)
    BY DEF Settles
  <1>5. ASSUME NEW t \in Types
        PROVE  StockOf(t)'
    <2>1. Balance(Idle, t, reserved[t], filled[t])
      BY DEF Balance, Idle, HoldingOps
    <2>2. \/ Need(status', call', o, t) = Need(status, call, o, t)
          \/ ~ Exactly /\ Need(status', call', o, t) <= Need(status, call, o, t)
      <3>1. CASE call[w].op \notin SettleOps
        <4>1. ~ Settles(call[w], o) /\ ~ Settles(call'[w], o) /\ status'[o] = status[o]
          BY <1>2, <1>3, <3>1 DEF Settles
        <4> HIDE DEF o
        <4> QED
          BY <1>2, <4>1, NeedKept
      <3>2. CASE call[w].op \in SettleOps
        <4>1. \A v \in Slots \ {w} : ~ Settles(call'[v], o)
          BY <1>2, <3>2, Alone DEF SettleOps, ActingOps, WriterOps
        <4>2. status'[o] = "CUSTOMER_CONFIRMED"
          BY <3>2 DEF OneWriter, Foreseen, SettleOps
        <4>3. ~ Settles(call'[w], o)
          BY <1>2, <1>3
        <4>4. Need(status', call', o, t) = 0
          <5> HIDE DEF o
          <5> QED
            BY <4>1, <4>2, <4>3, NeedOfSlot
        <4>5. Need(status, call, o, t) \in Nat
          BY <1>1, NeedTyped DEF TypeOK
        <4> QED
          BY <3>2, <4>4, <4>5
      <3> QED
        BY <3>1, <3>2
    <2> HIDE DEF o
    <2> QED
      BY <1>1, <1>3, <1>4, <2>1, <2>2, QuietAfter
  <1>6. BeingSettled'
    <2>1. Exactly => ~ Settles(call[w], o)
      BY DEF Settles
    <2> HIDE DEF o
    <2> QED
      BY <1>1, <1>4, <2>1, SettledAfter
  <1> QED
    BY <1>5, <1>6

\* What the order a slot acts on needs.
LEMMA NeedBefore ==
    ASSUME TypeOK, OneWriter, NEW w \in Slots, call[w].op \in ActingOps,
           NEW o, o = call[w].order, NEW t
    PROVE  Need(status, call, o, t) =
               IF status[o] \in {"OPEN", "DELIVERED"} THEN Quantity(Basket[o], t)
               ELSE IF call[w].op \in SettleOps THEN Quantity(Rest(call[w]), t)
               ELSE 0
  <1>1. \A v \in Slots \ {w} : ~ Settles(call[v], o)
    BY Alone
  <1>2. Settles(call[w], o) <=> call[w].op \in SettleOps
    BY DEF Settles
  <1>3. Need(status, call, o, t) =
            IF status[o] \in {"OPEN", "DELIVERED"} THEN Quantity(Basket[o], t)
            ELSE IF Settles(call[w], o) THEN Quantity(Rest(call[w]), t)
            ELSE 0
    BY <1>1, NeedOfSlot
  <1> QED
    BY <1>2, <1>3

\* What it needs once the slot goes on to c.
LEMMA NeedAfter ==
    ASSUME TypeOK, OneWriter, NEW w \in Slots, call[w].op \in ActingOps,
           NEW c, Continue(w, c), NEW o, o = call[w].order, NEW t
    PROVE  Need(status', call', o, t) =
               IF status'[o] \in {"OPEN", "DELIVERED"} THEN Quantity(Basket[o], t)
               ELSE IF Settles(c, o) THEN Quantity(Rest(c), t)
               ELSE 0
  <1>1. call'[w] = c /\ \A v \in Slots \ {w} : call'[v] = call[v]
    BY ContinueExact
  <1>2. \A v \in Slots \ {w} : ~ Settles(call'[v], o)
    BY <1>1, Alone
  <1>3. Need(status', call', o, t) =
            IF status'[o] \in {"OPEN", "DELIVERED"} THEN Quantity(Basket[o], t)
            ELSE IF Settles(call'[w], o) THEN Quantity(Rest(call'[w]), t)
            ELSE 0
    BY <1>2, NeedOfSlot
  <1> QED
    BY <1>1, <1>3

\* create reserves the next item, cancel releases it.
LEMMA StockItem ==
    ASSUME StockState, TypeOK', OneWriter', NEW w \in Slots,
           \/ CreateReserve(w) /\ ~ Continue(w, Idle)
           \/ CancelRelease(w)
    PROVE  BeingSettled' /\ \A t \in Types : StockOf(t)'
  <1> USE DEF StockState
  <1> DEFINE o == call[w].order
             item == Head(call[w].left)
             m == IF call[w].op = "create"
                  THEN Seen(w, item.type) + item.quantity
                  ELSE Released(Seen(w, item.type), item.quantity)
             c == [op |-> call[w].op, order |-> o, left |-> Tail(call[w].left),
                   dirty |-> WithUpdate(w, item.type, m)]
  <1>1. /\ call[w].op \in {"create", "cancelling"} /\ call[w].left # <<>>
        /\ UNCHANGED <<status, stock>>
    BY DEF CreateReserve, CancelRelease
  <1>2. /\ call[w] \in Calls /\ o \in Orders /\ call[w].left \in Seq(Item)
        /\ item.type \in Types /\ item.quantity \in Nat
    BY <1>1, CallFields, NextItem DEF WriterOps, TypeOK
  <1>3. Continue(w, c)
    BY <1>1 DEF CreateReserve, CancelRelease
  <1>4. call[w].op = "create" => Available(w, item.type) >= item.quantity
    BY DEF CreateReserve, CancelRelease
  <1>5. /\ Seen(w, item.type) \in Int
        /\ reserved[item.type] \in Int /\ filled[item.type] \in Int
    BY <1>1, <1>2, SeenTyped DEF TypeOK, HoldingOps
  <1>6. call[w].op = "cancelling" =>
            m = Seen(w, item.type) - item.quantity /\ m <= filled[item.type]
    <2> SUFFICES ASSUME call[w].op = "cancelling"
                 PROVE  /\ m = Seen(w, item.type) - item.quantity
                        /\ m <= filled[item.type]
      OBVIOUS
    <2> DEFINE t == item.type
    <2>1. status[o] = "OPEN"
      BY DEF OneWriter, Foreseen
    <2>2. Need(status, call, o, t) = Quantity(Basket[o], t)
      BY <2>1 DEF Need
    <2>3. Quantity(Basket[o], t) <= reserved[t]
      <3>1. /\ Total(status, call, t) \in Nat
            /\ Need(status, call, o, t) <= Total(status, call, t)
        BY <1>2, <2>1, NeedWithin
      <3>2. Total(status, call, t) <= reserved[t]
        BY <1>2 DEF StockOf
      <3>4. Quantity(Basket[o], t) \in Nat
        BY <1>2, BasketTyped
      <3> HIDE DEF t, o
      <3> QED
        BY <1>5, <2>2, <3>1, <3>2, <3>4 DEF t
    <2>4. Seen(w, t) + Quantity(Basket[o], t) = reserved[t] + Quantity(call[w].left, t)
      BY <1>2 DEF StockOf, Balance, SeenBy, Seen, Left, HoldingOps
    <2>5. /\ Quantity(call[w].left, t) = item.quantity + Quantity(Tail(call[w].left), t)
          /\ Quantity(Tail(call[w].left), t) \in Nat
          /\ Quantity(Basket[o], t) \in Nat
      BY <1>1, <1>2, NextItem, QuantityOfNext, QuantityNatural, BasketTyped DEF Part
    <2>6. Seen(w, t) >= item.quantity
      <3> HIDE DEF t, o, item
      <3> QED
        BY <1>2, <1>5, <2>3, <2>4, <2>5 DEF t
    <2>7. m = Seen(w, t) - item.quantity
      BY <2>6 DEF Released
    <2>8. Seen(w, t) <= filled[t]
      BY <1>2 DEF StockOf, Balance, SeenBy, Seen, Left, HoldingOps
    <2> QED
      BY <1>2, <1>5, <2>7, <2>8
  <1>7. m \in Int
    BY <1>1, <1>2, <1>5, <1>6
  <1>8. call[w].op = "create" => m <= filled[item.type]
    BY <1>2, <1>4, <1>5 DEF Available
  <1>9. ASSUME NEW t \in Types
        PROVE  Balance(c, t, reserved[t], filled[t])
    <2>1. Balance(call[w], t, reserved[t], filled[t])
      BY DEF StockOf
    <2>2. t = item.type =>
              /\ m <= filled[t]
              /\ m = IF call[w].op = "create"
                     THEN Seen(w, t) + item.quantity
                     ELSE Seen(w, t) - item.quantity
      BY <1>1, <1>6, <1>8
    <2>3. /\ c.op = call[w].op /\ c.order = call[w].order /\ c.left = Tail(call[w].left)
          /\ c.dirty = WithUpdate(w, item.type, m)
      OBVIOUS
    <2> HIDE DEF c, m
    <2> QED
      BY <1>1, <1>7, <2>1, <2>2, <2>3, ItemBalance
  <1>10. \A p : ~ Settles(call[w], p) /\ ~ Settles(c, p)
    BY <1>1 DEF Settles, SettleOps
  <1>11. call'[w] = c /\ \A v \in Slots \ {w} : call'[v] = call[v]
    BY <1>3, ContinueExact
  <1> HIDE DEF c, m, o
  <1>12. ASSUME NEW t \in Types
         PROVE  StockOf(t)'
    <2>0. ~ Settles(call[w], o) /\ ~ Settles(call'[w], o) /\ status'[o] = status[o]
      BY <1>1, <1>10, <1>11
    <2>1. Need(status', call', o, t) = Need(status, call, o, t)
      BY <1>11, <2>0, NeedKept
    <2> QED
      BY <1>1, <1>2, <1>3, <1>9, <1>10, <2>1, QuietAfter
  <1>13. BeingSettled'
    BY <1>1, <1>2, <1>3, <1>10, SettledAfter
  <1> QED
    BY <1>12, <1>13

\* create and cancel commit what they have written.
LEMMA StockCommit ==
    ASSUME StockState, TypeOK', OneWriter', NEW w \in Slots, CreateCommit(w) \/ CancelCommit(w)
    PROVE  BeingSettled' /\ \A t \in Types : StockOf(t)'
  <1> USE DEF StockState
  <1> DEFINE o == call[w].order
             s == IF call[w].op = "create" THEN "OPEN" ELSE "CANCELLED"
  <1>1. /\ call[w].op \in {"create", "cancelled"} /\ Left(call[w]) = <<>>
        /\ call[w].op \in HoldingOps
        /\ call[w].op \in ActingOps /\ call[w].op \notin SettleOps
        /\ status' = [status EXCEPT ![o] = s]
        /\ reserved' = Committed(w) /\ filled' = filled /\ Continue(w, Idle)
    BY DEF CreateCommit, CancelCommit, ActingOps, WriterOps, SettleOps, HoldingOps, Left
  <1>2. /\ call[w] \in Calls /\ o \in Orders
        /\ status'[o] = s /\ \A p \in Orders \ {o} : status'[p] = status[p]
    BY <1>1, CallFields DEF TypeOK, ActingOps
  <1>3. status[o] = IF call[w].op = "create" THEN "NEW" ELSE "OPEN"
    BY <1>1 DEF OneWriter, Foreseen
  <1>4. \A p : ~ Settles(Idle, p) /\ ~ Settles(call[w], p)
    BY <1>1 DEF Settles, SettleOps, Idle
  <1>5. ASSUME NEW t \in Types
        PROVE  StockOf(t)'
    <2>1. /\ reserved[t] \in Int /\ filled[t] \in Int /\ Seen(w, t) \in Int
          /\ reserved'[t] = Seen(w, t) /\ filled'[t] = filled[t]
      BY <1>1, SeenTyped DEF TypeOK, Committed
    <2>2. Quantity(Basket[o], t) \in Nat /\ Quantity(Left(call[w]), t) = 0
      BY <1>1, <1>2, BasketTyped, QuantityOfNone
    <2>3. /\ call[w].op = "create" => Seen(w, t) = reserved[t] + Quantity(Basket[o], t)
          /\ call[w].op = "cancelled" => Seen(w, t) + Quantity(Basket[o], t) = reserved[t]
          /\ Seen(w, t) <= filled[t]
      <3>1. Balance(call[w], t, reserved[t], filled[t])
        BY DEF StockOf
      <3>2. SeenBy(call[w], t, reserved[t]) = Seen(w, t)
        BY DEF SeenBy, Seen
      <3> QED
        BY <1>1, <2>1, <2>2, <3>1, <3>2 DEF Balance, HoldingOps
    <2>4. \/ reserved'[t] = reserved[t] /\ filled'[t] = filled[t]
          \/ \A v \in Slots \ {w} : ~ Locked(call[v], t)
      BY <1>1, <2>1 DEF Seen, Locked, OneHolder
    <2>5. Balance(Idle, t, reserved'[t], filled'[t])
      BY DEF Balance, Idle, HoldingOps
    <2>6. /\ Need(status, call, o, t) =
                 IF call[w].op = "create" THEN 0 ELSE Quantity(Basket[o], t)
          /\ Need(status', call', o, t) =
                 IF call[w].op = "create" THEN Quantity(Basket[o], t) ELSE 0
      <3>1. o = call[w].order /\ ~ Settles(Idle, o)
        BY <1>4
      <3>2. /\ status[o] = IF call[w].op = "create" THEN "NEW" ELSE "OPEN"
            /\ status'[o] = IF call[w].op = "create" THEN "OPEN" ELSE "CANCELLED"
        BY <1>2, <1>3
      <3> HIDE DEF o, s
      <3>3. Quantity(Basket[o], t) \in Nat
        BY <1>2, BasketTyped
      <3>4. Need(status, call, o, t) =
                 IF status[o] \in {"OPEN", "DELIVERED"} THEN Quantity(Basket[o], t)
                 ELSE IF call[w].op \in SettleOps THEN Quantity(Rest(call[w]), t)
                 ELSE 0
        BY <1>1, <3>1, NeedBefore
      <3>5. Need(status', call', o, t) =
                 IF status'[o] \in {"OPEN", "DELIVERED"} THEN Quantity(Basket[o], t)
                 ELSE IF Settles(Idle, o) THEN Quantity(Rest(Idle), t)
                 ELSE 0
        BY <1>1, <3>1, NeedAfter
      <3> QED
        BY <1>1, <3>1, <3>2, <3>3, <3>4, <3>5
    <2>7. Need(status', call', o, t) - Need(status, call, o, t) = reserved'[t] - reserved[t]
      BY <1>1, <2>1, <2>2, <2>3, <2>6
    <2>8. Gone(status, call, o, t) = 0 /\ Gone(status', call', o, t) = 0
      BY <1>2, <1>3 DEF Gone
    <2>9. /\ Need(status', call', o, t) - Need(status, call, o, t) <= reserved'[t] - reserved[t]
          /\ Gone(status', call', o, t) - Gone(status, call, o, t) = filled[t] - filled'[t]
          /\ reserved'[t] <= filled'[t]
      BY <2>1, <2>2, <2>3, <2>7, <2>8
    <2>10. \A p \in Orders \ {o} :
              status'[p] = status[p] /\ ~ Settles(call[w], p) /\ ~ Settles(Idle, p)
      BY <1>2, <1>4
    <2> HIDE DEF o, s
    <2> QED
      BY <1>1, <1>2, <2>4, <2>5, <2>7, <2>9, <2>10, StockAfter
  <1>6. BeingSettled'
    <2>1. status'[o] # "CUSTOMER_CONFIRMED"
      BY <1>2
    <2> HIDE DEF o, s
    <2> QED
      BY <1>1, <1>2, <1>4, <2>1, SettledAfter
  <1> QED
    BY <1>5, <1>6

\* A step of an order that leaves the stock alone, and what the order needs.
LEMMA StockMove ==
    ASSUME StockState, TypeOK', OneWriter', NEW w \in Slots, call[w].op \in ActingOps,
           NEW c, Continue(w, c), c.op \notin HoldingOps,
           UNCHANGED stock, NEW o \in Orders, o = call[w].order,
           c.op \in SettleOps => c.order = o,
           \A p \in Orders \ {o} : status'[p] = status[p],
           \A t \in Types :
               /\ Need(status', call', o, t) <= Need(status, call, o, t)
               /\ Exactly => /\ Need(status', call', o, t) = Need(status, call, o, t)
                             /\ Gone(status', call', o, t) = Gone(status, call, o, t),
           Exactly /\ status'[o] = "CUSTOMER_CONFIRMED" => Settles(c, o)
    PROVE  BeingSettled' /\ \A t \in Types : StockOf(t)'
  <1> USE DEF StockState
  <1>1. \A p \in Orders \ {o} :
           status'[p] = status[p] /\ ~ Settles(call[w], p) /\ ~ Settles(c, p)
    BY DEF Settles
  <1>2. ASSUME NEW t \in Types
        PROVE  StockOf(t)'
    <2>1. /\ reserved'[t] = reserved[t] /\ filled'[t] = filled[t]
          /\ reserved[t] \in Int /\ filled[t] \in Int
          /\ reserved'[t] <= filled'[t]
      BY DEF stock, TypeOK, StockOf
    <2>2. Balance(c, t, reserved'[t], filled'[t])
      BY DEF Balance, HoldingOps
    <2>3. /\ Need(status', call', o, t) \in Nat /\ Need(status, call, o, t) \in Nat
          /\ Gone(status, call, o, t) \in Int
      BY NeedTyped, GoneTyped DEF TypeOK
    <2>4. /\ Need(status', call', o, t) - Need(status, call, o, t) <= reserved'[t] - reserved[t]
          /\ Exactly =>
                /\ Need(status', call', o, t) - Need(status, call, o, t) =
                      reserved'[t] - reserved[t]
                /\ Gone(status', call', o, t) - Gone(status, call, o, t) =
                      filled[t] - filled'[t]
      BY <2>1, <2>3
    <2> QED
      BY <1>1, <2>1, <2>2, <2>4, StockAfter
  <1>3. BeingSettled'
    <2>1. \A p \in Orders \ {o} : status'[p] = status[p] /\ ~ Settles(call[w], p)
      BY <1>1
    <2>2. Exactly /\ status'[o] = "CUSTOMER_CONFIRMED" =>
              Settles(c, o) \/ (status[o] = status'[o] /\ ~ Settles(call[w], o))
      OBVIOUS
    <2> QED
      BY <2>1, <2>2, SettledAfter
  <1> QED
    BY <1>2, <1>3

\* A client's PATCH delivers an open order, or cancels it with the stock still reserved.
LEMMA StockUpdate ==
    ASSUME StockState, TypeOK', OneWriter', NEW w \in Slots, UpdateStatusWrite(w)
    PROVE  BeingSettled' /\ \A t \in Types : StockOf(t)'
  <1> USE DEF StockState
  <1> DEFINE o == call[w].order
  <1>1. /\ call[w].op = "update" /\ call[w].op \in ActingOps /\ call[w].op \notin SettleOps
        /\ status' = [status EXCEPT ![o] = call[w].to]
        /\ UNCHANGED stock /\ Continue(w, Idle)
    BY DEF UpdateStatusWrite, ActingOps, WriterOps, SettleOps
  <1>2. /\ o \in Orders /\ call[w].to \in PatchTargets
        /\ status'[o] = call[w].to /\ \A p \in Orders \ {o} : status'[p] = status[p]
    BY <1>1, CallFields DEF TypeOK, ActingOps
  <1>3. status[o] = "OPEN"
    BY <1>1 DEF OneWriter, Foreseen
  <1>4. call[w].to \in {"DELIVERED", "CANCELLED"} /\ (Exactly => call[w].to = "DELIVERED")
    BY <1>2, FulfilmentAssumption DEF Exactly
  <1>5. ~ Settles(Idle, o) /\ Idle.op \notin SettleOps \cup HoldingOps
    BY DEF Settles, SettleOps, Idle, HoldingOps
  <1>6. ASSUME NEW t \in Types
        PROVE  /\ Need(status', call', o, t) <= Need(status, call, o, t)
               /\ Exactly => /\ Need(status', call', o, t) = Need(status, call, o, t)
                             /\ Gone(status', call', o, t) = Gone(status, call, o, t)
    <2>1. /\ Quantity(Basket[o], t) \in Nat
          /\ Need(status, call, o, t) = Quantity(Basket[o], t)
          /\ Need(status', call', o, t) =
                 IF call[w].to = "DELIVERED" THEN Quantity(Basket[o], t) ELSE 0
      <3>1. o = call[w].order
        OBVIOUS
      <3> HIDE DEF o
      <3>2. Quantity(Basket[o], t) \in Nat
        BY <1>2, BasketTyped
      <3>3. Need(status, call, o, t) =
                 IF status[o] \in {"OPEN", "DELIVERED"} THEN Quantity(Basket[o], t)
                 ELSE IF call[w].op \in SettleOps THEN Quantity(Rest(call[w]), t)
                 ELSE 0
        BY <1>1, <3>1, NeedBefore
      <3>4. Need(status', call', o, t) =
                 IF status'[o] \in {"OPEN", "DELIVERED"} THEN Quantity(Basket[o], t)
                 ELSE IF Settles(Idle, o) THEN Quantity(Rest(Idle), t)
                 ELSE 0
        BY <1>1, <3>1, NeedAfter
      <3> QED
        BY <1>1, <1>2, <1>3, <1>4, <1>5, <3>2, <3>3, <3>4
    <2>2. Gone(status, call, o, t) = 0 /\ Gone(status', call', o, t) = 0
      BY <1>2, <1>3, <1>4 DEF Gone
    <2> QED
      BY <1>4, <2>1, <2>2
  <1>7. status'[o] # "CUSTOMER_CONFIRMED"
    BY <1>2, <1>4
  <1> HIDE DEF o
  <1> QED
    BY <1>1, <1>2, <1>5, <1>6, <1>7, StockMove DEF o

\* confirmDelivery starts the settlement, which locks the order and the station.
LEMMA StockSettling ==
    ASSUME StockState, TypeOK', OneWriter', NEW w \in Slots,
           ConfirmDeliveryWrite(w) \/ SettleRead(w) \/ SettleOrder(w) \/ SettleStation(w)
    PROVE  BeingSettled' /\ \A t \in Types : StockOf(t)'
  <1> USE DEF StockState
  <1> DEFINE o == call[w].order
             S == "CUSTOMER_CONFIRMED"
  <1>1. /\ call[w].op \in {"confirm", "settle", "settling", "completing"}
        /\ call[w].op \in ActingOps
        /\ call[w].op # "confirm" => call[w].op \in SettleOps
        /\ UNCHANGED stock
    BY DEF ConfirmDeliveryWrite, SettleRead, SettleOrder, SettleStation, ActingOps, WriterOps,
           SettleOps
  <1>2. o \in Orders
    BY <1>1, CallFields DEF ActingOps
  <1>3. status[o] = IF call[w].op = "confirm" THEN "DELIVERED" ELSE S
    BY <1>1 DEF OneWriter, Foreseen
  <1>4. status'[o] = S /\ \A p \in Orders \ {o} : status'[p] = status[p]
    BY <1>2, <1>3 DEF ConfirmDeliveryWrite, SettleRead, SettleOrder, SettleStation, TypeOK
  <1>5. PICK c : /\ Continue(w, c) /\ c.op \in SettleOps /\ c.order = o
                 /\ c.op = "paying" => c.left \in ItemsOf(o)
    <2>1. CASE ConfirmDeliveryWrite(w)
      BY <2>1 DEF ConfirmDeliveryWrite, SettleOps
    <2>2. CASE SettleRead(w)
      BY <1>3, <2>2 DEF SettleRead, SettleOps
    <2>3. CASE SettleOrder(w)
      BY <2>3 DEF SettleOrder, SettleOps
    <2>4. CASE SettleStation(w)
      <3>1. PICK items \in ItemsOf(o) :
               Continue(w, [op |-> "paying", order |-> o, left |-> items])
        BY <2>4 DEF SettleStation
      <3> QED
        BY <3>1 DEF SettleOps
    <2> QED
      BY <2>1, <2>2, <2>3, <2>4
  <1>6. c.op \notin HoldingOps /\ Settles(c, o)
    BY <1>5 DEF SettleOps, Settles, HoldingOps
  <1>7. ASSUME NEW t \in Types
        PROVE  /\ Need(status', call', o, t) = Need(status, call, o, t)
               /\ Gone(status', call', o, t) = Gone(status, call, o, t)
               /\ Need(status, call, o, t) \in Nat
    <2>1. Quantity(Rest(c), t) = Quantity(Basket[o], t)
      BY <1>2, <1>5, QuantityOfItems DEF Rest
    <2>2. call[w].op # "confirm" => Rest(call[w]) = Basket[o]
      BY <1>1 DEF Rest
    <2>3. /\ Quantity(Basket[o], t) \in Nat
          /\ Need(status, call, o, t) = Quantity(Basket[o], t)
          /\ Need(status', call', o, t) = Quantity(Basket[o], t)
      <3>1. o = call[w].order
        OBVIOUS
      <3> HIDE DEF o
      <3>2. Quantity(Basket[o], t) \in Nat
        BY <1>2, BasketTyped
      <3>3. Need(status, call, o, t) =
                 IF status[o] \in {"OPEN", "DELIVERED"} THEN Quantity(Basket[o], t)
                 ELSE IF call[w].op \in SettleOps THEN Quantity(Rest(call[w]), t)
                 ELSE 0
        BY <1>1, <3>1, NeedBefore
      <3>4. Need(status', call', o, t) =
                 IF status'[o] \in {"OPEN", "DELIVERED"} THEN Quantity(Basket[o], t)
                 ELSE IF Settles(c, o) THEN Quantity(Rest(c), t)
                 ELSE 0
        BY <1>1, <1>5, <3>1, NeedAfter
      <3> QED
        BY <1>1, <1>3, <1>4, <1>6, <2>1, <2>2, <3>2, <3>3, <3>4
    <2>4. Gone(status, call, o, t) = 0 /\ Gone(status', call', o, t) = 0
      BY <1>3, <1>4, <2>3 DEF Gone
    <2> QED
      BY <2>3, <2>4
  <1>8. \A t \in Types :
           /\ Need(status', call', o, t) <= Need(status, call, o, t)
           /\ Exactly => /\ Need(status', call', o, t) = Need(status, call, o, t)
                         /\ Gone(status', call', o, t) = Gone(status, call, o, t)
    BY <1>7
  <1>9. o = call[w].order
    OBVIOUS
  <1> HIDE DEF o, S
  <1> QED
    BY <1>1, <1>2, <1>4, <1>5, <1>6, <1>8, <1>9, StockMove

\* commitReservation takes an item from the shelf, and off the reservations.
LEMMA StockTaken ==
    ASSUME StockState, TypeOK', OneWriter', NEW w \in Slots, CommitReservation(w)
    PROVE  BeingSettled' /\ \A t \in Types : StockOf(t)'
  <1> USE DEF StockState
  <1> DEFINE o == call[w].order
             items == call[w].left
             item == Head(items)
             c == [op |-> "paying", order |-> o, left |-> Tail(items)]
  <1>1. /\ call[w].op = "paying" /\ items # <<>> /\ LocksFree(w)
        /\ call[w].op \in ActingOps /\ call[w].op \in SettleOps
        /\ filled' = [filled EXCEPT ![item.type] = @ - item.quantity]
        /\ reserved' = [reserved EXCEPT ![item.type] = Decreased(@, item.quantity)]
        /\ status' = status /\ Continue(w, c)
    BY DEF CommitReservation, Granted, ActingOps, WriterOps, SettleOps
  <1>2. /\ o \in Orders /\ items \in Seq(Item) /\ Tail(items) \in Seq(Item)
        /\ item.type \in Types /\ item.quantity \in Nat
    BY <1>1, CallFields, NextItem DEF ActingOps
  <1>3. status[o] = "CUSTOMER_CONFIRMED"
    BY <1>1 DEF OneWriter, Foreseen
  <1>4. Settles(c, o) /\ \A p \in Orders \ {o} : ~ Settles(call[w], p) /\ ~ Settles(c, p)
    BY DEF Settles, SettleOps
  <1>5. Rest(call[w]) = items /\ Rest(c) = Tail(items)
    BY <1>1 DEF Rest
  <1>6. ASSUME NEW t \in Types
        PROVE  /\ Quantity(items, t) \in Nat /\ Quantity(Tail(items), t) \in Nat
               /\ Quantity(items, t) = Part(item, t) + Quantity(Tail(items), t)
               /\ Part(item, t) \in Nat
               /\ Need(status, call, o, t) = Quantity(items, t)
               /\ Need(status', call', o, t) = Quantity(Tail(items), t)
               /\ Quantity(items, t) <= reserved[t]
    <2>1. o = call[w].order
      OBVIOUS
    <2>2. /\ Quantity(items, t) \in Nat /\ Quantity(Tail(items), t) \in Nat
          /\ Quantity(items, t) = Part(item, t) + Quantity(Tail(items), t)
          /\ Part(item, t) \in Nat
      BY <1>1, <1>2, QuantityNatural, QuantityOfNext DEF Part
    <2> HIDE DEF o, items, c, item
    <2>3. Need(status, call, o, t) = Quantity(items, t)
      BY <1>1, <1>3, <1>5, <2>1, NeedBefore
    <2>4. Need(status', call', o, t) = Quantity(Tail(items), t)
      BY <1>1, <1>3, <1>4, <1>5, <2>1, NeedAfter
    <2>5. /\ Total(status, call, t) \in Nat
          /\ Need(status, call, o, t) <= Total(status, call, t)
      BY <1>2, <1>3, NeedWithin
    <2>7. Total(status, call, t) <= reserved[t] /\ reserved[t] \in Int
      BY DEF StockOf, TypeOK
    <2>8. Quantity(items, t) <= reserved[t]
      BY <2>2, <2>3, <2>5, <2>7
    <2> QED
      BY <2>2, <2>3, <2>4, <2>8
  <1>7. ASSUME NEW t \in Types
        PROVE  /\ reserved[t] \in Int /\ filled[t] \in Int
               /\ reserved'[t] = reserved[t] - Part(item, t)
               /\ filled'[t] = filled[t] - Part(item, t)
    <2>1. reserved \in [Types -> Int] /\ filled \in [Types -> Int]
      BY DEF TypeOK
    <2>2. CASE t = item.type
      <3>1. Part(item, t) = item.quantity
        BY <2>2 DEF Part
      <3>2. item.quantity <= reserved[t]
        <4> HIDE DEF item, items, c, o
        <4> QED
          BY <1>2, <1>6, <2>1, <3>1
      <3>3. Decreased(reserved[t], item.quantity) = reserved[t] - item.quantity
        BY <3>2 DEF Decreased
      <3>4. reserved'[t] = reserved[t] - item.quantity /\ filled'[t] = filled[t] - item.quantity
        <4> HIDE DEF item, items, c, o
        <4> QED
          BY <1>1, <1>2, <2>1, <2>2, <3>3
      <3> QED
        BY <2>1, <3>1, <3>4
    <2>3. CASE t # item.type
      <3>1. Part(item, t) = 0
        BY <2>3 DEF Part
      <3>2. reserved'[t] = reserved[t] /\ filled'[t] = filled[t]
        <4> HIDE DEF item, items, c, o
        <4> QED
          BY <1>1, <1>2, <2>1, <2>3
      <3> QED
        BY <2>1, <3>1, <3>2
    <2> QED
      BY <2>2, <2>3
  <1>8. ASSUME NEW t \in Types
        PROVE  StockOf(t)'
    <2>1. /\ reserved[t] \in Int /\ filled[t] \in Int /\ Part(item, t) \in Nat
          /\ reserved'[t] = reserved[t] - Part(item, t)
          /\ filled'[t] = filled[t] - Part(item, t)
          /\ reserved[t] <= filled[t]
      BY <1>6, <1>7 DEF StockOf
    <2>2. \/ reserved'[t] = reserved[t] /\ filled'[t] = filled[t]
          \/ \A v \in Slots \ {w} : ~ Locked(call[v], t)
      <3>1. CASE t = item.type
        BY <1>1, <3>1, RowFree
      <3>2. CASE t # item.type
        BY <2>1, <3>2 DEF Part
      <3> QED
        BY <3>1, <3>2
    <2>3. Balance(c, t, reserved'[t], filled'[t])
      BY DEF Balance, HoldingOps
    <2>4. Need(status', call', o, t) - Need(status, call, o, t) = reserved'[t] - reserved[t]
      <3> HIDE DEF o, c, item, items
      <3> QED
        BY <1>6, <2>1
    <2>5. Gone(status', call', o, t) - Gone(status, call, o, t) = filled[t] - filled'[t]
      <3>1. Quantity(Basket[o], t) \in Nat
        BY <1>2, BasketTyped
      <3> HIDE DEF o, c, item, items
      <3>2. /\ Gone(status, call, o, t) = Quantity(Basket[o], t) - Quantity(items, t)
            /\ Gone(status', call', o, t) = Quantity(Basket[o], t) - Quantity(Tail(items), t)
        BY <1>1, <1>3, <1>6 DEF Gone
      <3> QED
        BY <1>6, <2>1, <3>1, <3>2
    <2>6. \A p \in Orders \ {o} :
             status'[p] = status[p] /\ ~ Settles(call[w], p) /\ ~ Settles(c, p)
      BY <1>1, <1>4
    <2>7. /\ Need(status', call', o, t) - Need(status, call, o, t) <= reserved'[t] - reserved[t]
          /\ reserved'[t] <= filled'[t]
      <3> HIDE DEF o, c, item, items
      <3> QED
        BY <2>1, <2>4
    <2> HIDE DEF o, c, item, items
    <2> QED
      BY <1>1, <1>2, <2>2, <2>3, <2>4, <2>5, <2>6, <2>7, StockAfter
  <1>9. BeingSettled'
    <2> HIDE DEF o, c, items
    <2> QED
      BY <1>1, <1>2, <1>4, SettledAfter
  <1> QED
    BY <1>8, <1>9

\* The settlement commits when everything has left the shelf.
LEMMA StockSettled ==
    ASSUME StockState, TypeOK', OneWriter', NEW w \in Slots, SettleCommit(w)
    PROVE  BeingSettled' /\ \A t \in Types : StockOf(t)'
  <1> USE DEF StockState
  <1> DEFINE o == call[w].order
             c == [op |-> "credit", order |-> o]
  <1>1. /\ call[w].op = "paying" /\ call[w].left = <<>>
        /\ call[w].op \in ActingOps /\ call[w].op \in SettleOps
        /\ status' = [status EXCEPT ![o] = "COMPLETED"]
        /\ UNCHANGED stock /\ Continue(w, c)
    BY DEF SettleCommit, ActingOps, WriterOps, SettleOps
  <1>2. /\ o \in Orders /\ o = call[w].order
        /\ status'[o] = "COMPLETED" /\ \A p \in Orders \ {o} : status'[p] = status[p]
    BY <1>1, CallFields DEF TypeOK, ActingOps
  <1>3. status[o] = "CUSTOMER_CONFIRMED"
    BY <1>1 DEF OneWriter, Foreseen
  <1>4. ~ Settles(c, o) /\ c.op \notin SettleOps \cup HoldingOps
    BY DEF Settles, SettleOps, HoldingOps
  <1>5. Rest(call[w]) = <<>>
    BY <1>1 DEF Rest
  <1>6. ASSUME NEW t \in Types
        PROVE  /\ Need(status', call', o, t) <= Need(status, call, o, t)
               /\ Need(status', call', o, t) = Need(status, call, o, t)
               /\ Gone(status', call', o, t) = Gone(status, call, o, t)
    <2> HIDE DEF o, c
    <2>1. Need(status, call, o, t) = 0
      BY <1>1, <1>2, <1>3, <1>5, NeedBefore, QuantityOfNone
    <2>2. Need(status', call', o, t) = 0
      <3>1. Need(status', call', o, t) =
                IF status'[o] \in {"OPEN", "DELIVERED"} THEN Quantity(Basket[o], t)
                ELSE IF Settles(c, o) THEN Quantity(Rest(c), t)
                ELSE 0
        <4>1. o = call[w].order /\ call[w].op \in ActingOps /\ Continue(w, c)
          BY <1>1, <1>2
        <4> QED
          BY <4>1, NeedAfter
      <3> QED
        BY <1>2, <1>4, <3>1
    <2>3. Gone(status', call', o, t) = Gone(status, call, o, t)
      BY <1>2, <1>3, <2>1, <2>2 DEF Gone
    <2> QED
      BY <2>1, <2>2, <2>3
  <1>7. status'[o] # "CUSTOMER_CONFIRMED"
    BY <1>2
  <1> HIDE DEF o, c
  <1> QED
    BY <1>1, <1>2, <1>4, <1>6, <1>7, StockMove

\* The staff brings cylinders.
LEMMA StockAdjusted ==
    ASSUME StockState, TypeOK', ShelfKept, NEW u \in Types, NEW delta \in Deltas,
           AdjustStock(u, delta)
    PROVE  BeingSettled' /\ \A t \in Types : StockOf(t)'
  <1> USE DEF StockState
  <1>1. /\ delta \in Nat /\ world # "calm" /\ ~ Exactly'
        /\ UNCHANGED <<status, call, reserved>>
        /\ filled' = [filled EXCEPT ![u] = @ + delta]
    BY DEF AdjustStock, ShelfKept, Exactly, Undisturbed
  <1>2. BeingSettled'
    BY <1>1 DEF BeingSettled
  <1>3. ASSUME NEW t \in Types
        PROVE  StockOf(t)'
    <2>1. /\ reserved[t] \in Int /\ filled[t] \in Int /\ filled'[t] \in Int
          /\ filled'[t] >= filled[t] /\ reserved'[t] = reserved[t]
      BY <1>1 DEF TypeOK
    <2>2. Total(status', call', t) = Total(status, call, t)
      BY <1>1
    <2>3. Total(status, call, t) <= reserved[t] /\ reserved'[t] <= filled'[t]
      BY <2>1 DEF StockOf
    <2>4. ASSUME NEW v \in Slots
          PROVE  Balance(call'[v], t, reserved'[t], filled'[t])
      <3>1. call[v] \in Calls /\ call'[v] = call[v] /\ Balance(call[v], t, reserved[t], filled[t])
        BY <1>1 DEF TypeOK, StockOf
      <3> QED
        BY <2>1, <3>1, BalanceKept
    <2> QED
      BY <1>1, <2>1, <2>2, <2>3, <2>4 DEF StockOf
  <1> QED
    BY <1>2, <1>3

LEMMA StockStep ==
    TypeOK /\ OnceInv /\ OneHolder /\ LiveFinite /\ StockInv /\ [Next]_vars /\ TypeOK' /\ OnceInv'
        => StockInv'
  <1> SUFFICES ASSUME TypeOK, OnceInv, OneHolder, LiveFinite, StockInv, [Next]_vars,
                      TypeOK', OnceInv', world' # "racing", ShelfKept'
               PROVE  BeingSettled' /\ \A t \in Types : StockOf(t)'
    BY DEF StockInv
  <1> DEFINE Goal == BeingSettled' /\ \A t \in Types : StockOf(t)'
  <1>1. world' = world
    <2>1. ASSUME NEW w \in Slots, Request(w) \/ Proceed(w) \/ Abandon(w) \/ Crash(w)
          PROVE  world' = world
      BY <2>1, Steps DEF Continue, Connect
    <2>2. CASE UNCHANGED vars \/ \E t \in Types, delta \in Deltas : AdjustStock(t, delta)
      BY <2>2 DEF vars, AdjustStock
    <2> QED
      BY <2>1, <2>2 DEF Next
  <1>2. ShelfKept /\ OneWriter /\ OneWriter'
    BY <1>1 DEF ShelfKept, OnceInv
  <1>3. StockState
    BY <1>1, <1>2 DEF StockState, StockInv
  <1>4. ASSUME NEW w \in Slots, Opens(w)
        PROVE  Goal
    BY <1>2, <1>3, <1>4, StockBegin
  <1>15. ASSUME NEW w \in Slots, CancelUpdate(w)
         PROVE  Goal
    BY <1>2, <1>3, <1>15, StockReleased
  <1>5. ASSUME NEW w \in Slots,
               Abandon(w) \/ Crash(w) \/ DeadlockVictim(w) \/ PoolTimeout(w)
        PROVE  Goal
    <2>1. Continue(w, Idle) /\ UNCHANGED <<status, stock>>
      BY <1>5 DEF Abandon, Crash, DeadlockVictim, PoolTimeout
    <2>2. call[w] # Idle
      <3>1. CASE DeadlockVictim(w)
        <4>1. Needs(w) # {}
          BY <3>1, InCycleWaits DEF DeadlockVictim
        <4>2. ASSUME call[w].op = "idle"
              PROVE  Needs(w) = {}
          BY <4>2 DEF Needs
        <4> QED
          BY <4>1, <4>2 DEF Idle
      <3>2. CASE PoolTimeout(w) \/ Abandon(w) \/ Crash(w)
        BY <3>2 DEF PoolTimeout, Abandon, Crash, Idle, NeedsConnection, Connects, BorrowingOps
      <3> QED
        BY <1>5, <3>1, <3>2
    <2>3. Exactly => call[w].op \notin SettleOps
      BY <1>2, <1>5, NotCutShort
    <2> QED
      BY <1>2, <1>3, <2>1, <2>2, <2>3, StockEnd
  <1>6. ASSUME NEW w \in Slots, CreditWallet(w)
        PROVE  Goal
    <2>1. /\ Continue(w, Idle) /\ UNCHANGED <<status, stock>>
          /\ call[w] # Idle /\ call[w].op \notin SettleOps
      BY <1>6 DEF CreditWallet, Idle, SettleOps
    <2> QED
      BY <1>2, <1>3, <2>1, StockEnd
  <1>7. ASSUME NEW w \in Slots, CreateReserve(w) \/ CancelRelease(w)
        PROVE  Goal
    <2>1. CASE CreateReserve(w) /\ Continue(w, Idle)
      <3>1. /\ UNCHANGED <<status, stock>>
            /\ call[w] # Idle /\ call[w].op \notin SettleOps
        BY <2>1 DEF CreateReserve, Idle, SettleOps
      <3> QED
        BY <1>2, <1>3, <2>1, <3>1, StockEnd
    <2>2. CASE ~ (CreateReserve(w) /\ Continue(w, Idle))
      BY <1>2, <1>3, <1>7, <2>2, StockItem
    <2> QED
      BY <2>1, <2>2
  <1>8. ASSUME NEW w \in Slots, CreateCommit(w) \/ CancelCommit(w)
        PROVE  Goal
    BY <1>2, <1>3, <1>8, StockCommit
  <1>9. ASSUME NEW w \in Slots, UpdateStatusWrite(w)
        PROVE  Goal
    BY <1>2, <1>3, <1>9, StockUpdate
  <1>10. ASSUME NEW w \in Slots, \/ ConfirmDeliveryWrite(w) \/ SettleRead(w)
                                 \/ SettleOrder(w) \/ SettleStation(w)
         PROVE  Goal
    BY <1>2, <1>3, <1>10, StockSettling
  <1>11. ASSUME NEW w \in Slots, CommitReservation(w)
         PROVE  Goal
    BY <1>2, <1>3, <1>11, StockTaken
  <1>12. ASSUME NEW w \in Slots, SettleCommit(w)
         PROVE  Goal
    BY <1>2, <1>3, <1>12, StockSettled
  <1>13. ASSUME NEW t \in Types, NEW delta \in Deltas, AdjustStock(t, delta)
         PROVE  Goal
    BY <1>2, <1>3, <1>13, StockAdjusted
  <1>14. CASE UNCHANGED vars \/ \E w \in Slots : Connect(w)
    <2>1. UNCHANGED <<world, pool, status, stock, call>>
      BY <1>14 DEF vars, stock, Connect
    <2> QED
      BY <1>3, <2>1 DEF stock, StockState, BeingSettled, StockOf, Exactly, Undisturbed
  <1> QED
    BY <1>4, <1>5, <1>6, <1>7, <1>8, <1>9, <1>10, <1>11, <1>12, <1>13, <1>14,
       <1>15
    DEF Next, Proceed, Opens

LEMMA StockInit == Init => StockInv
  <1> SUFFICES ASSUME Init PROVE BeingSettled /\ \A t \in Types : StockOf(t)
    BY DEF StockInv
  <1>1. BeingSettled
    BY DEF Init, BeingSettled
  <1>2. Live(status) = {}
    BY DEF Init, Live
  <1>3. ASSUME NEW t \in Types
        PROVE  StockOf(t)
    <2>1. Total(status, call, t) = 0 /\ TotalGone(status, call, t) = 0
      BY <1>2, SumOfNone DEF Total, TotalGone
    <2>2. reserved[t] = 0 /\ filled[t] = InitialStock[t] /\ InitialStock[t] \in Nat
      BY FulfilmentAssumption DEF Init
    <2>3. \A w \in Slots : Balance(call[w], t, reserved[t], filled[t])
      BY DEF Init, Balance, Idle, HoldingOps
    <2> QED
      BY <2>1, <2>2, <2>3 DEF StockOf
  <1> QED
    BY <1>1, <1>3

\* What open orders need is part of what all orders need.
LEMMA DemandWithin ==
    ASSUME TypeOK, LiveFinite, NEW t
    PROVE  Demand(t) \in Nat /\ Demand(t) <= Total(status, call, t)
  <1> DEFINE Open == {p \in Orders : status[p] \in {"OPEN", "DELIVERED"}}
             f == [o \in Open |-> Quantity(Basket[o], t)]
             g == [o \in Orders |-> Need(status, call, o, t)]
             h == [o \in Orders |-> IF o \in Open THEN Need(status, call, o, t) ELSE 0]
  <1>1. Open \subseteq Live(status) /\ Live(status) \subseteq Orders /\ IsFiniteSet(Live(status))
    BY DEF Live, LiveFinite
  <1>2. IsFiniteSet(Open)
    BY <1>1, FS_Subset
  <1>3. Demand(t) = SumFunctionOnSet(f, Open)
    BY DEF Demand, SumFunction
  <1>4. \A o \in Orders : g[o] \in Nat
    BY NeedTyped DEF TypeOK
  <1>5. \A o \in Open : f[o] = h[o] /\ f[o] \in Nat
    BY BasketTyped DEF Need
  <1>6. \A o \in Live(status) : h[o] \in Int /\ g[o] \in Int /\ h[o] <= g[o]
    BY <1>1, <1>4
  <1>7. \A o \in Live(status) \ Open : h[o] = 0
    BY <1>1
  <1>8. Total(status, call, t) = SumFunctionOnSet(g, Live(status))
    BY DEF Total
  <1> HIDE DEF Open, f, g, h
  <1>9. SumFunctionOnSet(f, Open) \in Nat
    BY <1>2, <1>5, SumNatural
  <1>10. SumFunctionOnSet(f, Open) = SumFunctionOnSet(h, Open)
    BY <1>2, <1>5, SumAgrees
  <1>11. SumFunctionOnSet(h, Live(status)) = SumFunctionOnSet(h, Open)
    BY <1>1, <1>6, <1>7, SumOfPart
  <1>12. SumFunctionOnSet(h, Live(status)) <= SumFunctionOnSet(g, Live(status))
    BY <1>1, <1>6, SumMonotone
  <1> QED
    BY <1>3, <1>8, <1>9, <1>10, <1>11, <1>12

LEMMA StockCovers ==
    ASSUME Deltas \subseteq Nat
    PROVE  TypeOK /\ LiveFinite /\ StockInv => ReservationsBacked
  <1> SUFFICES ASSUME TypeOK, LiveFinite, StockInv, world # "racing", NEW t \in Types
               PROVE  Demand(t) <= reserved[t] /\ reserved[t] <= filled[t]
    BY DEF ReservationsBacked
  <1>1. /\ Total(status, call, t) <= reserved[t] /\ reserved[t] <= filled[t]
        /\ reserved[t] \in Int
    BY DEF StockInv, ShelfKept, StockOf, TypeOK
  <1>2. Demand(t) \in Nat /\ Demand(t) <= Total(status, call, t)
    BY DemandWithin
  <1>3. Total(status, call, t) \in Int
    <2> DEFINE g == [o \in Orders |-> Need(status, call, o, t)]
    <2>1. \A o \in Orders : g[o] \in Nat
      BY NeedTyped DEF TypeOK
    <2>2. Live(status) \subseteq Orders /\ IsFiniteSet(Live(status))
      BY DEF Live, LiveFinite
    <2>3. Total(status, call, t) = SumFunctionOnSet(g, Live(status))
      BY DEF Total
    <2> HIDE DEF g
    <2>4. SumFunctionOnSet(g, Live(status)) \in Nat
      BY <2>1, <2>2, SumNatural
    <2> QED
      BY <2>3, <2>4
  <1> QED
    BY <1>1, <1>2, <1>3

LEMMA StockHolds == Spec => [](TypeOK /\ OnceInv /\ OneHolder /\ LiveFinite /\ StockInv)
  BY TypeInit, TypeStep, OnceInit, OnceStep, LocksInit, LocksStep, StockInit, StockStep, PTL
  DEF Spec

\* Unless the staff writes off cylinders, what is reserved covers every open order
\* and is on the shelf, however many orders, items and requests there are, and
\* whatever crashes, deadlocks or times out in the middle of anything: no cylinder is
\* promised twice while every order has one writer at a time.
THEOREM ReservationsBackedHolds ==
    ASSUME Deltas \subseteq Nat
    PROVE  Spec => []ReservationsBacked
  BY StockHolds, StockCovers, PTL
--------------------------------------------------------------------------------
(* Every cylinder is accounted for.                                         *)

LEMMA OwedIsNeeded ==
    ASSUME TypeOK, OneWriter, BeingSettled, Exactly, NEW o \in Orders, NEW t
    PROVE  Owed(o, t) = Need(status, call, o, t) /\ Sold(o, t) = Gone(status, call, o, t)
  <1> DEFINE Pays(c) == c.op = "paying" /\ c.order = o
             Some == \E w \in Slots : call[w].op = "paying" /\ call[w].order = o
             The == CHOOSE c \in {call[w] : w \in Slots} : c.op = "paying" /\ c.order = o
  <1>1. \A v \in Slots : Settles(call[v], o) => status[o] = "CUSTOMER_CONFIRMED"
    BY DEF OneWriter, Foreseen, Settles, SettleOps
  <1>2. Owed(o, t) = Need(status, call, o, t)
    <2>1. CASE status[o] = "CUSTOMER_CONFIRMED"
      <3>1. PICK w \in Slots : Settles(call[w], o)
        BY <2>1 DEF BeingSettled
      <3>2. /\ call[w].op \in ActingOps /\ call[w].op \in SettleOps /\ o = call[w].order
            /\ \A v \in Slots \ {w} : ~ Settles(call[v], o)
        BY <3>1, Alone DEF Settles, SettleOps, ActingOps, WriterOps
      <3>3. Need(status, call, o, t) = Quantity(Rest(call[w]), t)
        BY <2>1, <3>2, NeedBefore
      <3>4. CASE call[w].op = "paying"
        <4>1. Some
          BY <3>2, <3>4
        <4>2. \A c \in {call[v] : v \in Slots} : c.op = "paying" /\ c.order = o => c = call[w]
          BY <3>2 DEF Settles, SettleOps
        <4>3. The = call[w]
          BY <3>2, <3>4, <4>2
        <4>4. Owed(o, t) = Quantity(The.left, t)
          BY <2>1, <4>1 DEF Owed
        <4> QED
          BY <3>3, <3>4, <4>3, <4>4 DEF Rest
      <3>5. CASE call[w].op # "paying"
        <4>1. ~ Some
          BY <3>2, <3>5 DEF Settles, SettleOps
        <4> QED
          BY <2>1, <3>2, <3>3, <3>5, <4>1 DEF Owed, Rest
      <3> QED
        BY <3>4, <3>5
    <2>2. CASE status[o] # "CUSTOMER_CONFIRMED"
      <3>1. ~ Some
        BY <1>1, <2>2 DEF Settles, SettleOps
      <3>2. Settling(call, o) = {}
        BY <1>1, <2>2 DEF Settling
      <3> QED
        BY <2>2, <3>1, <3>2 DEF Owed, Need
    <2> QED
      BY <2>1, <2>2
  <1> QED
    BY <1>2 DEF Sold, Gone

LEMMA AccountedCovers ==
    ASSUME IsFiniteSet(Orders), "CANCELLED" \notin PatchTargets
    PROVE  TypeOK /\ OnceInv /\ LiveFinite /\ StockInv => EveryCylinderAccounted
  <1> SUFFICES ASSUME TypeOK, OnceInv, LiveFinite, StockInv, Undisturbed, NEW t \in Types
               PROVE  /\ reserved[t] = SumFunction([o \in Orders |-> Owed(o, t)])
                      /\ filled[t] =
                            InitialStock[t] - SumFunction([o \in Orders |-> Sold(o, t)])
    BY DEF EveryCylinderAccounted
  <1>1. /\ OneWriter /\ BeingSettled /\ Exactly
        /\ Total(status, call, t) = reserved[t]
        /\ filled[t] + TotalGone(status, call, t) = InitialStock[t]
    BY DEF OnceInv, StockInv, StockOf, ShelfKept, Exactly, Undisturbed
  <1>2. \A o \in Orders :
           /\ Owed(o, t) = Need(status, call, o, t) /\ Need(status, call, o, t) \in Int
           /\ Sold(o, t) = Gone(status, call, o, t) /\ Gone(status, call, o, t) \in Int
    <2>1. \A o \in Orders : Need(status, call, o, t) \in Nat
      BY NeedTyped DEF TypeOK
    <2>2. \A o \in Orders : Gone(status, call, o, t) \in Int
      BY GoneTyped DEF TypeOK
    <2> QED
      BY <1>1, <2>1, <2>2, OwedIsNeeded
  <1>3. \A o \in Orders : status[o] = "NEW" =>
            Need(status, call, o, t) = 0 /\ Gone(status, call, o, t) = 0
    BY <1>1, NewNeedsNothing DEF OneWriter
  <1> DEFINE f == [o \in Orders |-> Owed(o, t)]
             f2 == [o \in Orders |-> Need(status, call, o, t)]
             g == [o \in Orders |-> Sold(o, t)]
             g2 == [o \in Orders |-> Gone(status, call, o, t)]
  <1>4. Live(status) \subseteq Orders /\ \A o \in Orders \ Live(status) : status[o] = "NEW"
    BY DEF Live
  <1>5. f = f2 /\ g = g2
    BY <1>2
  <1>6. /\ SumFunction(f) = SumFunctionOnSet(f2, Orders)
        /\ SumFunction(g) = SumFunctionOnSet(g2, Orders)
    BY <1>5 DEF SumFunction
  <1>7. /\ Total(status, call, t) = SumFunctionOnSet(f2, Live(status))
        /\ TotalGone(status, call, t) = SumFunctionOnSet(g2, Live(status))
    BY DEF Total, TotalGone
  <1>8. /\ \A o \in Orders : f2[o] \in Int /\ g2[o] \in Int
        /\ \A o \in Orders \ Live(status) : f2[o] = 0 /\ g2[o] = 0
    BY <1>2, <1>3, <1>4
  <1>9. SumFunctionOnSet(f2, Orders) = SumFunctionOnSet(f2, Live(status))
    <2> HIDE DEF f2
    <2> QED
      BY <1>4, <1>8, SumOfPart
  <1>10. SumFunctionOnSet(g2, Orders) = SumFunctionOnSet(g2, Live(status))
    <2> HIDE DEF g2
    <2> QED
      BY <1>4, <1>8, SumOfPart
  <1>11. SumFunctionOnSet(g2, Live(status)) \in Int
    <2>1. IsFiniteSet(Live(status)) /\ \A o \in Live(status) : g2[o] \in Int
      BY <1>4, <1>8 DEF LiveFinite
    <2> HIDE DEF g2
    <2> QED
      BY <2>1, SumType
  <1>12. filled[t] \in Int /\ InitialStock[t] \in Int
    BY FulfilmentAssumption DEF TypeOK
  <1> HIDE DEF f, f2, g, g2
  <1>13. filled[t] = InitialStock[t] - SumFunction(g) /\ reserved[t] = SumFunction(f)
    BY <1>1, <1>6, <1>7, <1>9, <1>10, <1>11, <1>12
  <1> QED
    BY <1>13 DEF f, g

\* While nothing crashes, no connection runs out and no client cancels an order by a
\* PATCH, the books are exact for any number of orders, items and requests: what is
\* reserved is what the orders have on reserve, what has left the shelf was sold.
THEOREM EveryCylinderAccountedHolds ==
    ASSUME IsFiniteSet(Orders), "CANCELLED" \notin PatchTargets
    PROVE  Spec => []EveryCylinderAccounted
  BY StockHolds, AccountedCovers, PTL
================================================================================
