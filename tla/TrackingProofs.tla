---------------------------- MODULE TrackingProofs ----------------------------
(****************************************************************************)
(* What the two apps and the gateway agree on, for any number of pods,      *)
(* places, messages under way, dropped connections and restarted apps.      *)
(****************************************************************************)
EXTENDS Tracking, SequenceTheorems, TLAPS

--------------------------------------------------------------------------------
(* Type correctness.                                                        *)

LEMMA CallFields ==
    ASSUME TypeOK, NEW w \in Slots
    PROVE  call[w].op \in {"insert", "emit"} => call[w].place \in Places /\ call[w].pod \in Pods
  <1>1. call[w] \in TrackingCalls
    BY DEF TypeOK
  <1> QED
    BY <1>1 DEF TrackingCalls, Idle

LEMMA CallForms ==
    /\ Idle \in TrackingCalls
    /\ \A x \in Places, p \in Pods, op \in {"insert", "emit"} :
          [op |-> op, place |-> x, pod |-> p] \in TrackingCalls
    /\ \A op \in {"deliver", "orphan", "answer", "confirm", "reload"} :
          [op |-> op] \in TrackingCalls
  BY DEF TrackingCalls

\* What the rider app becomes.
LEMMA RiderForms ==
    ASSUME TypeOK
    PROVE  /\ \A v \in {"closed", "loading", "open"} :
                 /\ [rider EXCEPT !.view = v] \in RiderApp
                 /\ [rider EXCEPT !.view = v].unsent = rider.unsent
                 /\ [rider EXCEPT !.view = v].activeOrder = rider.activeOrder
           /\ \A S \in SUBSET Pods :
                 /\ [rider EXCEPT !.socket = S] \in RiderApp
                 /\ [rider EXCEPT !.socket = S].unsent = rider.unsent
                 /\ [rider EXCEPT !.socket = S].activeOrder = rider.activeOrder
           /\ \A q \in Seq(Places) :
                 /\ [rider EXCEPT !.unsent = q] \in RiderApp
                 /\ [rider EXCEPT !.unsent = q].unsent = q
                 /\ [rider EXCEPT !.unsent = q].activeOrder = rider.activeOrder
  BY DEF TypeOK, RiderApp

LEMMA ClosedForm ==
    RiderClosed \in RiderApp /\ RiderClosed.unsent = <<>> /\ ~ RiderClosed.activeOrder
  BY DEF RiderClosed, RiderApp

LEMMA StoppedForm ==
    ASSUME TypeOK
    PROVE  StopSharing \in RiderApp /\ StopSharing.unsent = <<>> /\ ~ StopSharing.activeOrder
  <1>1. rider.view \in {"closed", "loading", "open"}
    BY DEF TypeOK, RiderApp
  <1>2. RiderClosed \in RiderApp /\ RiderClosed.unsent = <<>> /\ ~ RiderClosed.activeOrder
    BY ClosedForm
  <1> QED
    BY <1>1, <1>2 DEF StopSharing, RiderApp

LEMMA ScreenClosedForm == ScreenClosed \in TrackingScreen /\ ScreenClosed.position = NoPlace
  BY DEF TrackingScreen, ScreenClosed

LEMMA RestoredForm ==
    ASSUME TypeOK
    PROVE  LET restored == [rider EXCEPT !.view = "open", !.activeOrder = status = "CARRIED"]
           IN  /\ restored \in RiderApp
               /\ restored.unsent = rider.unsent
               /\ restored.activeOrder <=> status = "CARRIED"
  BY DEF TypeOK, RiderApp

LEMMA ScreenForms ==
    ASSUME TypeOK
    PROVE  /\ ScreenClosed \in TrackingScreen /\ ScreenClosed.position = NoPlace
           /\ LET mounted == [ScreenClosed EXCEPT !.mounted = TRUE, !.order = status]
              IN  mounted \in TrackingScreen /\ mounted.position = NoPlace
           /\ \A p \in Pods :
                 LET connected == [screen EXCEPT !.socket = {p}]
                 IN  connected \in TrackingScreen /\ connected.position = screen.position
           /\ LET joined == [screen EXCEPT !.joined = TRUE]
              IN  joined \in TrackingScreen /\ joined.position = screen.position
           /\ LET dropped == [screen EXCEPT !.socket = {}, !.joined = FALSE, !.heard = FALSE]
              IN  dropped \in TrackingScreen /\ dropped.position = screen.position
           /\ \A x \in Places :
                 LET shown == [screen EXCEPT !.position = x, !.heard = TRUE]
                 IN  shown \in TrackingScreen /\ shown.position = x
           /\ LET reloaded == [screen EXCEPT !.order = status]
              IN  reloaded \in TrackingScreen /\ reloaded.position = screen.position
  BY DEF TypeOK, TrackingScreen, ScreenClosed

LEMMA ContinueExact ==
    ASSUME TypeOK, NEW w \in Slots, NEW c \in TrackingCalls, Continue(w, c)
    PROVE  /\ call' \in [Slots -> TrackingCalls]
           /\ call'[w] = c
           /\ \A v \in Slots \ {w} : call'[v] = call[v]
           /\ world' = world
  BY DEF TypeOK, Continue

LEMMA FaultCounted ==
    ASSUME TypeOK, Fault
    PROVE  faults' \in 0 .. MaxFaults
  BY TrackingAssumption DEF TypeOK, Fault

\* What a restarted rider app leaves of the requests.
LEMMA KilledCalls ==
    ASSUME TypeOK, KillRiderApp
    PROVE  /\ call' \in [Slots -> TrackingCalls]
           /\ \A w \in Slots :
                 \/ call'[w] = call[w]
                 \/ call'[w].op = "orphan" /\ call[w].op = "deliver"
                 \/ call'[w] = Idle /\ call[w].op = "answer"
  <1>1. \A w \in Slots : call'[w] = CASE call[w].op = "deliver" -> [op |-> "orphan"]
                                      [] call[w].op = "answer" -> Idle
                                      [] OTHER -> call[w]
    BY DEF KillRiderApp
  <1>2. \A w \in Slots :
            \/ call'[w] = call[w]
            \/ call'[w] = [op |-> "orphan"] /\ call[w].op = "deliver"
            \/ call'[w] = Idle /\ call[w].op = "answer"
    BY <1>1
  <1>3. \A w \in Slots : call'[w] \in TrackingCalls
    BY <1>2, CallForms DEF TypeOK
  <1>4. call' \in [Slots -> TrackingCalls]
    BY <1>3 DEF KillRiderApp
  <1> QED
    BY <1>2, <1>4

\* A recorded position is broadcast next.
LEMMA Emitting ==
    ASSUME TypeOK, NEW w \in Slots, call[w].op = "insert"
    PROVE  /\ [call[w] EXCEPT !.op = "emit"] \in TrackingCalls
           /\ [call[w] EXCEPT !.op = "emit"].op = "emit"
           /\ [call[w] EXCEPT !.op = "emit"].place = call[w].place
  <1>1. call[w] \in TrackingCalls
    BY DEF TypeOK
  <1>2. call[w] \in [op : {"insert", "emit"}, place : Places, pod : Pods]
    BY <1>1 DEF TrackingCalls, Idle
  <1> QED
    BY <1>2 DEF TrackingCalls

LEMMA TypeInit == Init => TypeOK
  BY CallForms, ClosedForm, ScreenClosedForm, TrackingAssumption
  DEF Init, RequestsInit, TrackingInit, TypeOK, Worlds, DeliveryStatus, RiderClosed

\* The positions the rider app has not sent are as many as it keeps.
LEMMA UnsentTyped ==
    ASSUME TypeOK
    PROVE  /\ rider.unsent \in Seq(Places)
           /\ rider.unsent # <<>> =>
                 /\ Head(rider.unsent) \in Places
                 /\ Tail(rider.unsent) \in Seq(Places)
                 /\ Len(Tail(rider.unsent)) <= MaxUnsent
           /\ \A x \in Places :
                 /\ Append(rider.unsent, x) \in Seq(Places)
                 /\ Len(rider.unsent) < MaxUnsent => Len(Append(rider.unsent, x)) <= MaxUnsent
  <1>1. rider.unsent \in Seq(Places) /\ Len(rider.unsent) \in Nat /\ Len(rider.unsent) <= MaxUnsent
    BY DEF TypeOK, RiderApp
  <1>2. MaxUnsent \in Nat
    BY TrackingAssumption
  <1> QED
    BY <1>1, <1>2

LEMMA TypeStep == TypeOK /\ [Next]_vars => TypeOK'
  <1> SUFFICES ASSUME TypeOK, [Next]_vars PROVE TypeOK'
    OBVIOUS
  <1> USE TrackingAssumption
  <1>1. ASSUME OpenRiderApp \/ RestoreFails \/ DropRider \/ \E p \in Pods : ConnectRider(p)
        PROVE  TypeOK'
    <2>1. PICK r \in RiderApp : rider' = r /\ r.unsent = rider.unsent
      BY <1>1, RiderForms DEF OpenRiderApp, RestoreFails, DropRider, ConnectRider
    <2>2. faults' \in 0 .. MaxFaults /\ NoRequest /\ UNCHANGED <<server, sent, screen, expired>>
      BY <1>1, FaultCounted DEF OpenRiderApp, RestoreFails, DropRider, ConnectRider, TypeOK
    <2> QED
      BY <2>1, <2>2 DEF TypeOK, NoRequest, server
  <1>2. CASE RestoreActiveOrder
    <2>1. PICK r \in RiderApp : rider' = r /\ r.unsent = rider.unsent
      BY <1>2, RestoredForm DEF RestoreActiveOrder
    <2> QED
      BY <1>2, <2>1 DEF RestoreActiveOrder, TypeOK, NoRequest, server
  <1>3. CASE KillRiderApp
    <2>1. faults' \in 0 .. MaxFaults
      BY <1>3, FaultCounted DEF KillRiderApp
    <2>2. rider' \in RiderApp /\ Len(rider'.unsent) <= MaxUnsent
      BY <1>3, ClosedForm DEF KillRiderApp
    <2> QED
      BY <1>3, <2>1, <2>2, KilledCalls DEF KillRiderApp, TypeOK, server
  <1>4. ASSUME NEW x \in Places, WatchPosition(x)
        PROVE  TypeOK'
    <2>1. rider' \in RiderApp /\ rider'.unsent = Append(rider.unsent, x)
      BY <1>4, UnsentTyped, RiderForms DEF WatchPosition
    <2>2. Len(rider'.unsent) <= MaxUnsent
      BY <1>4, <2>1, UnsentTyped DEF WatchPosition
    <2> QED
      BY <1>4, <2>1, <2>2 DEF WatchPosition, TypeOK, NoRequest, server
  <1>5. ASSUME NEW w \in Slots, RiderLocation(w)
        PROVE  TypeOK'
    <2>1. /\ rider' \in RiderApp /\ rider'.unsent = Tail(rider.unsent)
          /\ Head(rider.unsent) \in Places /\ Len(rider'.unsent) <= MaxUnsent
      BY <1>5, UnsentTyped, RiderForms DEF RiderLocation
    <2>2. rider.socket \subseteq Pods
      BY DEF TypeOK, RiderApp
    <2>3. PICK p \in rider.socket :
              Continue(w, [op |-> "insert", place |-> Head(rider.unsent), pod |-> p])
      BY <1>5 DEF RiderLocation
    <2>4. call' \in [Slots -> TrackingCalls] /\ world' = world
      BY <2>1, <2>2, <2>3, CallForms, ContinueExact
    <2> QED
      BY <1>5, <2>1, <2>4 DEF RiderLocation, TypeOK, server
  <1>6. ASSUME NEW w \in Slots, RecordLocation(w)
        PROVE  TypeOK'
    <2>1. call[w].place \in Places /\ call[w].pod \in Pods
      BY <1>6, CallFields DEF RecordLocation
    <2>2. call' \in [Slots -> TrackingCalls] /\ world' = world
      BY <1>6, <2>1, Emitting, ContinueExact DEF RecordLocation
    <2> QED
      BY <1>6, <2>1, <2>2 DEF RecordLocation, TypeOK
  <1>7. ASSUME NEW w \in Slots, EmitLocation(w)
        PROVE  TypeOK'
    <2>1. call[w].place \in Places
      BY <1>7, CallFields DEF EmitLocation
    <2>2. call' \in [Slots -> TrackingCalls] /\ world' = world
      BY <1>7, CallForms, ContinueExact DEF EmitLocation, Finish
    <2>3. screen' \in TrackingScreen
      BY <1>7, <2>1, ScreenForms DEF EmitLocation, TypeOK
    <2> QED
      BY <1>7, <2>2, <2>3 DEF EmitLocation, TypeOK, server
  <1>8. ASSUME NEW w \in Slots, MarkDelivered(w) \/ ConfirmDelivery(w)
        PROVE  TypeOK'
    <2>1. call' \in [Slots -> TrackingCalls] /\ world' = world
      BY <1>8, CallForms, ContinueExact DEF MarkDelivered, ConfirmDelivery
    <2> QED
      BY <1>8, <2>1 DEF MarkDelivered, ConfirmDelivery, TypeOK, trackingVars
  <1>9. ASSUME NEW w \in Slots, MarkDeliveredWrite(w) \/ ConfirmDeliveryWrite(w)
        PROVE  TypeOK'
    <2>1. call' \in [Slots -> TrackingCalls] /\ world' = world
      BY <1>9, CallForms, ContinueExact DEF MarkDeliveredWrite, ConfirmDeliveryWrite
    <2> QED
      BY <1>9, <2>1 DEF MarkDeliveredWrite, ConfirmDeliveryWrite, TypeOK, DeliveryStatus
  <1>10. ASSUME NEW w \in Slots, MarkDeliveredAnswer(w)
         PROVE  TypeOK'
    <2>1. call' \in [Slots -> TrackingCalls] /\ world' = world
      BY <1>10, CallForms, ContinueExact DEF MarkDeliveredAnswer, Finish
    <2>2. rider' \in RiderApp /\ Len(rider'.unsent) <= MaxUnsent
      BY <1>10, StoppedForm DEF MarkDeliveredAnswer
    <2> QED
      BY <1>10, <2>1, <2>2 DEF MarkDeliveredAnswer, TypeOK, server
  <1>11. ASSUME NEW w \in Slots, ConfirmDeliveryReload(w) \/ TrackingCrash(w)
         PROVE  TypeOK'
    <2>1. call' \in [Slots -> TrackingCalls] /\ world' = world
      BY <1>11, CallForms, ContinueExact DEF ConfirmDeliveryReload, TrackingCrash, Crash, Finish
    <2>2. screen' \in TrackingScreen /\ faults' \in 0 .. MaxFaults
      BY <1>11, ScreenForms, FaultCounted DEF ConfirmDeliveryReload, TrackingCrash, TypeOK
    <2> QED
      BY <1>11, <2>1, <2>2 DEF ConfirmDeliveryReload, TrackingCrash, TypeOK, server
  <1>12. ASSUME \/ MountScreen \/ LeaveScreen \/ SubscribeOrder \/ DropScreen
                \/ \E p \in Pods : ConnectScreen(p)
         PROVE  TypeOK'
    <2>1. screen' \in TrackingScreen
      BY <1>12, ScreenForms
      DEF MountScreen, LeaveScreen, SubscribeOrder, DropScreen, ConnectScreen
    <2>2. /\ faults' \in 0 .. MaxFaults
          /\ NoRequest /\ UNCHANGED <<server, rider, sent, expired>>
      BY <1>12, FaultCounted
      DEF MountScreen, LeaveScreen, SubscribeOrder, DropScreen, ConnectScreen, TypeOK
    <2> QED
      BY <2>1, <2>2 DEF TypeOK, NoRequest, server
  <1>13. ASSUME Cancelled \/ \E a \in Apps : TokenRunsOut(a)
         PROVE  TypeOK'
    BY <1>13 DEF Cancelled, TokenRunsOut, NoRequest, TypeOK, server, DeliveryStatus
  <1>14. CASE UNCHANGED vars
    BY <1>14 DEF vars, trackingVars, TypeOK
  <1> QED
    BY <1>1, <1>2, <1>3, <1>4, <1>5, <1>6, <1>7, <1>8, <1>9, <1>10, <1>11, <1>12, <1>13, <1>14
    DEF Next, Sharing, Watching, Serving

\* Every call, socket, position and screen keeps its type.
THEOREM TypeCorrect == Spec => []TypeOK
  BY TypeInit, TypeStep, PTL DEF Spec

--------------------------------------------------------------------------------
(* The customer is shown what was recorded.                                 *)

\* What is about to be broadcast is a row already.
ShownInv ==
    /\ ShownIsRecorded
    /\ \A w \in Slots : call[w].op = "emit" => call[w].place \in recorded

LEMMA ShownStep ==
    ASSUME TypeOK, ShownInv, [Next]_vars
    PROVE  ShownInv'
  \* Nothing new is shown, nothing new is to be broadcast.
  <1>1. ASSUME recorded' = recorded, screen'.position \in {screen.position, NoPlace},
               \A w \in Slots : call'[w] = call[w] \/ call'[w].op # "emit"
        PROVE  ShownInv'
    BY <1>1 DEF ShownInv, ShownIsRecorded
  <1>2. ASSUME NEW w \in Slots, NEW c \in TrackingCalls, Continue(w, c), c.op # "emit",
               recorded' = recorded, screen'.position \in {screen.position, NoPlace}
        PROVE  ShownInv'
    BY <1>1, <1>2, ContinueExact
  <1>3. ASSUME NEW w \in Slots, RecordLocation(w)
        PROVE  ShownInv'
    <2>1. recorded' = recorded \cup {call[w].place} /\ screen' = screen
      BY <1>3 DEF RecordLocation
    <2>2. /\ call'[w].place = call[w].place
          /\ \A v \in Slots \ {w} : call'[v] = call[v]
      BY <1>3, Emitting, ContinueExact DEF RecordLocation
    <2> QED
      BY <2>1, <2>2 DEF ShownInv, ShownIsRecorded
  <1>4. ASSUME NEW w \in Slots, EmitLocation(w)
        PROVE  ShownInv'
    <2>1. call[w].place \in recorded
      BY <1>4 DEF EmitLocation, ShownInv
    <2>2. screen'.position \in {screen.position, call[w].place} /\ recorded' = recorded
      BY <1>4, CallFields, ScreenForms DEF EmitLocation, server
    <2>3. \A v \in Slots : call'[v] = call[v] \/ call'[v] = Idle
      BY <1>4, CallForms, ContinueExact DEF EmitLocation, Finish
    <2>4. Idle.op # "emit"
      BY DEF Idle
    <2> QED
      BY <2>1, <2>2, <2>3, <2>4 DEF ShownInv, ShownIsRecorded
  <1>5. ASSUME \/ MountScreen \/ LeaveScreen \/ SubscribeOrder \/ DropScreen
               \/ \E p \in Pods : ConnectScreen(p)
        PROVE  ShownInv'
    <2>1. screen'.position \in {screen.position, NoPlace}
      BY <1>5, ScreenForms, ScreenClosedForm
      DEF MountScreen, LeaveScreen, SubscribeOrder, DropScreen, ConnectScreen
    <2>2. recorded' = recorded /\ call' = call
      BY <1>5
      DEF MountScreen, LeaveScreen, SubscribeOrder, DropScreen, ConnectScreen, server, NoRequest
    <2> QED
      BY <1>1, <2>1, <2>2
  <1>6. ASSUME \/ OpenRiderApp \/ RestoreActiveOrder \/ RestoreFails \/ DropRider \/ Cancelled
               \/ \E p \in Pods : ConnectRider(p)
               \/ \E x \in Places : WatchPosition(x)
               \/ \E a \in Apps : TokenRunsOut(a)
               \/ UNCHANGED vars
        PROVE  ShownInv'
    <2>1. recorded' = recorded /\ screen' = screen /\ call' = call
      BY <1>6
      DEF OpenRiderApp, RestoreActiveOrder, RestoreFails, DropRider, Cancelled, ConnectRider,
          WatchPosition, TokenRunsOut, NoRequest, server, vars, trackingVars
    <2> QED
      BY <1>1, <2>1
  <1>7. CASE KillRiderApp
    <2>1. recorded' = recorded /\ screen' = screen
      BY <1>7 DEF KillRiderApp, server
    <2>2. Idle.op # "emit"
      BY DEF Idle
    <2> QED
      BY <1>1, <1>7, <2>1, <2>2, KilledCalls
  <1>8. ASSUME NEW w \in Slots, RiderLocation(w)
        PROVE  ShownInv'
    <2>1. PICK p \in rider.socket :
              Continue(w, [op |-> "insert", place |-> Head(rider.unsent), pod |-> p])
      BY <1>8 DEF RiderLocation
    <2>2. Head(rider.unsent) \in Places /\ rider.socket \subseteq Pods
      BY <1>8, UnsentTyped DEF RiderLocation, TypeOK, RiderApp
    <2>3. recorded' = recorded /\ screen' = screen
      BY <1>8 DEF RiderLocation, server
    <2> QED
      BY <1>2, <2>1, <2>2, <2>3, CallForms
  <1>9. ASSUME NEW w \in Slots,
               \/ MarkDelivered(w) \/ ConfirmDelivery(w) \/ MarkDeliveredWrite(w)
               \/ ConfirmDeliveryWrite(w) \/ MarkDeliveredAnswer(w)
               \/ ConfirmDeliveryReload(w) \/ TrackingCrash(w)
        PROVE  ShownInv'
    <2>1. recorded' = recorded /\ screen'.position = screen.position
      BY <1>9, ScreenForms
      DEF MarkDelivered, ConfirmDelivery, MarkDeliveredWrite, ConfirmDeliveryWrite,
          MarkDeliveredAnswer, ConfirmDeliveryReload, TrackingCrash, trackingVars, server
    <2>2. PICK c \in TrackingCalls : Continue(w, c) /\ c.op # "emit"
      BY <1>9, CallForms
      DEF MarkDelivered, ConfirmDelivery, MarkDeliveredWrite, ConfirmDeliveryWrite,
          MarkDeliveredAnswer, ConfirmDeliveryReload, TrackingCrash, Crash, Finish, Idle
    <2> QED
      BY <1>2, <2>1, <2>2
  <1> QED
    BY <1>3, <1>4, <1>5, <1>6, <1>7, <1>8, <1>9 DEF Next, Sharing, Watching, Serving

\* The place on the customer's screen is in the history of the order, however
\* messages overtake each other, connections drop and pods die.
THEOREM ShownIsRecordedHolds == Spec => []ShownIsRecorded
  <1>1. Init => ShownInv
    BY ScreenClosedForm
    DEF Init, RequestsInit, TrackingInit, ShownInv, ShownIsRecorded, Idle
  <1>2. TypeOK /\ ShownInv /\ [Next]_vars => ShownInv'
    BY ShownStep
  <1>3. ShownInv => ShownIsRecorded
    BY DEF ShownInv
  <1> QED
    BY <1>1, <1>2, <1>3, TypeCorrect, PTL DEF Spec

--------------------------------------------------------------------------------
(* In a calm world requests wait for each other.                            *)

OneAtATime == serial => \A v, w \in Slots : call[v] # Idle /\ call[w] # Idle => v = w

LEMMA OneStep ==
    ASSUME TypeOK, OneAtATime, [Next]_vars
    PROVE  OneAtATime'
  <1>1. ASSUME NEW w \in Slots, NEW c \in TrackingCalls, Continue(w, c),
               call[w] # Idle \/ MayStart(w)
        PROVE  OneAtATime'
    BY <1>1, ContinueExact DEF OneAtATime, MayStart, AtRest, serial
  <1>2. ASSUME NEW w \in Slots, Serving(w) \/ TrackingCrash(w)
        PROVE  OneAtATime'
    <2>1. Idle.op = "idle"
      BY DEF Idle
    <2>2. call[w] # Idle
      BY <1>2, <2>1
      DEF Serving, RecordLocation, EmitLocation, MarkDeliveredWrite, MarkDeliveredAnswer,
          ConfirmDeliveryWrite, ConfirmDeliveryReload, TrackingCrash, Crash
    <2>3. CASE RecordLocation(w)
      BY <1>1, <2>2, <2>3, Emitting DEF RecordLocation
    <2>4. PICK c \in TrackingCalls : RecordLocation(w) \/ Continue(w, c)
      BY <1>2, CallForms
      DEF Serving, EmitLocation, MarkDeliveredWrite, MarkDeliveredAnswer,
          ConfirmDeliveryWrite, ConfirmDeliveryReload, TrackingCrash, Crash, Finish
    <2> QED
      BY <1>1, <2>2, <2>3, <2>4
  <1>3. ASSUME NEW w \in Slots, MarkDelivered(w) \/ ConfirmDelivery(w)
        PROVE  OneAtATime'
    BY <1>1, <1>3, CallForms DEF MarkDelivered, ConfirmDelivery
  <1>4. ASSUME NEW w \in Slots, RiderLocation(w)
        PROVE  OneAtATime'
    <2>1. PICK p \in rider.socket :
              Continue(w, [op |-> "insert", place |-> Head(rider.unsent), pod |-> p])
      BY <1>4 DEF RiderLocation
    <2>2. Head(rider.unsent) \in Places /\ rider.socket \subseteq Pods
      BY <1>4, UnsentTyped DEF RiderLocation, TypeOK, RiderApp
    <2> QED
      BY <1>1, <1>4, <2>1, <2>2, CallForms DEF RiderLocation
  <1>5. CASE KillRiderApp
    <2>1. world' = world
      BY <1>5 DEF KillRiderApp
    <2>2. \A w \in Slots : call'[w] # Idle => call[w] # Idle
      BY <1>5, KilledCalls DEF Idle
    <2> QED
      BY <2>1, <2>2 DEF OneAtATime, serial
  <1>6. ASSUME NoRequest
        PROVE  OneAtATime'
    BY <1>6 DEF NoRequest, OneAtATime, serial
  <1>7. ASSUME \/ OpenRiderApp \/ RestoreActiveOrder \/ RestoreFails \/ DropRider \/ Cancelled
               \/ MountScreen \/ LeaveScreen \/ SubscribeOrder \/ DropScreen
               \/ \E p \in Pods : ConnectRider(p) \/ ConnectScreen(p)
               \/ \E x \in Places : WatchPosition(x)
               \/ \E a \in Apps : TokenRunsOut(a)
        PROVE  NoRequest
    BY <1>7
    DEF OpenRiderApp, RestoreActiveOrder, RestoreFails, DropRider, Cancelled, MountScreen,
        LeaveScreen, SubscribeOrder, DropScreen, ConnectRider, ConnectScreen, WatchPosition,
        TokenRunsOut
  <1>8. CASE UNCHANGED vars
    BY <1>6, <1>8 DEF vars, NoRequest
  <1> QED
    BY <1>2, <1>3, <1>4, <1>5, <1>6, <1>7, <1>8 DEF Next, Sharing, Watching

--------------------------------------------------------------------------------
(* What a delivery that nothing disturbs leaves behind.                     *)

\* The last fix is the newest row, about to become it, or still in the app.
Current ==
    IF rider.unsent # <<>>
    THEN sent = rider.unsent[Len(rider.unsent)]
    ELSE \/ \E w \in Slots : call[w].op = "insert" /\ call[w].place = sent
         \/ latest = sent /\ \A w \in Slots : call[w].op # "insert"

CalmInv ==
    calm =>
        /\ rider.activeOrder \/ status = "CARRIED" => Current
        /\ status = "DELIVERED" /\ rider.activeOrder => \E w \in Slots : call[w].op = "answer"
        /\ \A w \in Slots : call[w].op = "answer" => status # "CARRIED"
        /\ \A w \in Slots : call[w].op # "orphan"

LEMMA StillCurrent ==
    ASSUME Current, rider'.unsent = rider.unsent, UNCHANGED <<sent, latest>>,
           \A w \in Slots : \/ call'[w] = call[w]
                            \/ call[w].op # "insert" /\ call'[w].op # "insert"
    PROVE  Current'
  BY DEF Current

\* A step by which nobody starts or ends a delivery, or hands over a position.
LEMMA CalmKept ==
    ASSUME CalmInv, rider'.unsent = rider.unsent, UNCHANGED <<sent, latest, world>>,
           \A w \in Slots : \/ call'[w] = call[w]
                            \/ /\ call[w].op \notin {"insert", "answer"}
                               /\ call'[w].op \notin {"insert", "answer", "orphan"},
           status' = status \/ status' \notin {"CARRIED", "DELIVERED"},
           rider'.activeOrder = rider.activeOrder
    PROVE  CalmInv'
  <1>1. Current => Current'
    BY StillCurrent
  <1>2. calm' => calm
    BY DEF calm
  <1> QED
    BY <1>1, <1>2 DEF CalmInv

LEMMA RestoreCalm ==
    ASSUME TypeOK, CalmInv, RestoreActiveOrder
    PROVE  CalmInv'
  <1>1. /\ rider'.unsent = rider.unsent
        /\ rider'.activeOrder <=> status = "CARRIED"
        /\ UNCHANGED <<sent, latest, world, call, status>>
    BY RestoredForm DEF RestoreActiveOrder, NoRequest, server
  <1>2. Current => Current'
    BY <1>1, StillCurrent
  <1> QED
    BY <1>1, <1>2 DEF CalmInv, calm

LEMMA KillCalm ==
    ASSUME TypeOK, CalmInv, KillRiderApp
    PROVE  CalmInv'
  <1> SUFFICES ASSUME calm, AtRest, rider.unsent = <<>>
               PROVE  CalmInv'
    BY DEF KillRiderApp, CalmInv, calm
  <1>1. rider'.unsent = <<>> /\ ~ rider'.activeOrder /\ UNCHANGED <<sent, latest, status, world>>
    BY ClosedForm DEF KillRiderApp, server
  <1>2. \A w \in Slots : call'[w] = Idle
    BY KilledCalls DEF AtRest, Idle
  <1>3. Idle.op = "idle"
    BY DEF Idle
  <1>4. \A w \in Slots : call[w] = call'[w]
    BY <1>2 DEF AtRest
  <1>5. Current => Current'
    BY <1>1, <1>4, StillCurrent
  <1> QED
    BY <1>1, <1>2, <1>3, <1>5 DEF CalmInv

LEMMA WatchCalm ==
    ASSUME TypeOK, CalmInv, NEW x \in Places, WatchPosition(x)
    PROVE  CalmInv'
  <1>1. /\ rider'.unsent = Append(rider.unsent, x)
        /\ rider'.activeOrder = rider.activeOrder
        /\ sent' = x /\ UNCHANGED <<world, call, status>>
    BY UnsentTyped, RiderForms DEF WatchPosition, NoRequest, server
  <1>2. rider'.unsent # <<>> /\ rider'.unsent[Len(rider'.unsent)] = x
    BY <1>1, UnsentTyped
  <1>3. Current'
    BY <1>1, <1>2 DEF Current
  <1> QED
    BY <1>1, <1>3 DEF CalmInv, calm

LEMMA LocationCalm ==
    ASSUME TypeOK, CalmInv, NEW w \in Slots, RiderLocation(w)
    PROVE  CalmInv'
  <1> DEFINE q == rider.unsent
  <1>1. q # <<>> /\ q \in Seq(Places) /\ Head(q) \in Places /\ Tail(q) \in Seq(Places)
    BY UnsentTyped DEF RiderLocation
  <1>2. /\ rider'.unsent = Tail(q) /\ rider'.activeOrder = rider.activeOrder
        /\ UNCHANGED <<sent, latest, status>> /\ MayStart(w)
    BY <1>1, RiderForms DEF RiderLocation, server
  <1>3. PICK p \in rider.socket : Continue(w, [op |-> "insert", place |-> Head(q), pod |-> p])
    BY DEF RiderLocation
  <1>4. p \in Pods
    BY DEF TypeOK, RiderApp
  <1>5. /\ call'[w].op = "insert" /\ call'[w].place = Head(q) /\ call[w] = Idle
        /\ \A v \in Slots \ {w} : call'[v] = call[v]
        /\ world' = world
    <2> DEFINE c == [op |-> "insert", place |-> Head(q), pod |-> p]
    <2>1. c \in TrackingCalls /\ c.op = "insert" /\ c.place = Head(q)
      BY <1>1, <1>4, CallForms
    <2>2. Continue(w, c)
      BY <1>3
    <2> HIDE DEF c
    <2> QED
      BY <1>2, <2>1, <2>2, ContinueExact DEF MayStart
  <1>6. ASSUME Current
        PROVE  Current'
    <2>1. sent = q[Len(q)]
      BY <1>1, <1>6 DEF Current
    <2>2. CASE Tail(q) = <<>>
      <3>1. Len(Tail(q)) = Len(q) - 1 /\ Head(q) = q[1] /\ Len(q) \in Nat
        BY <1>1
      <3>2. Len(Tail(q)) = 0
        BY <1>1, <2>2, EmptySeq
      <3>3. Len(q) = 1
        BY <3>1, <3>2
      <3>4. Head(q) = q[Len(q)]
        BY <3>1, <3>3
      <3> QED
        BY <1>2, <1>5, <2>1, <2>2, <3>4 DEF Current
    <2>3. CASE Tail(q) # <<>>
      <3>1. Tail(q)[Len(Tail(q))] = q[Len(q)]
        BY <1>1, <2>3
      <3> QED
        BY <1>2, <2>1, <2>3, <3>1 DEF Current
    <2> QED
      BY <2>2, <2>3
  <1>7. Idle.op = "idle"
    BY DEF Idle
  <1> QED
    BY <1>2, <1>5, <1>6, <1>7 DEF CalmInv, calm

LEMMA RecordCalm ==
    ASSUME TypeOK, OneAtATime, CalmInv, NEW w \in Slots, RecordLocation(w)
    PROVE  CalmInv'
  <1>1. /\ call[w].op = "insert" /\ latest' = call[w].place
        /\ UNCHANGED <<status, rider, sent>>
    BY DEF RecordLocation
  <1>2. /\ call'[w].op = "emit" /\ \A v \in Slots \ {w} : call'[v] = call[v]
        /\ world' = world
    BY Emitting, ContinueExact DEF RecordLocation
  <1>3. ASSUME calm, Current
        PROVE  Current'
    <2>1. \A v \in Slots \ {w} : call[v] = Idle
      BY <1>1, <1>3 DEF OneAtATime, calm, serial, Idle
    <2>2. \A v \in Slots : call'[v].op # "insert"
      BY <1>2, <2>1 DEF Idle
    <2>3. \A v \in Slots : call[v].op = "insert" => v = w
      BY <2>1 DEF Idle
    <2> QED
      BY <1>1, <1>3, <2>2, <2>3 DEF Current
  <1> QED
    BY <1>1, <1>2, <1>3 DEF CalmInv, calm

LEMMA DeliveredCalm ==
    ASSUME TypeOK, CalmInv, NEW w \in Slots, MarkDeliveredWrite(w)
    PROVE  CalmInv'
  <1> SUFFICES ASSUME calm
               PROVE  CalmInv'
    BY DEF MarkDeliveredWrite, Continue, CalmInv, calm
  <1>1. call[w].op = "deliver"
    BY DEF MarkDeliveredWrite, CalmInv
  <1>2. call'[w] = [op |-> "answer"] /\ \A v \in Slots \ {w} : call'[v] = call[v]
    BY <1>1, CallForms, ContinueExact DEF MarkDeliveredWrite
  <1>3. status' = "DELIVERED" /\ UNCHANGED <<latest, rider, sent>>
    BY DEF MarkDeliveredWrite
  <1>4. Current => Current'
    BY <1>1, <1>2, <1>3, StillCurrent
  <1> QED
    BY <1>1, <1>2, <1>3, <1>4 DEF CalmInv

LEMMA AnswerCalm ==
    ASSUME TypeOK, CalmInv, NEW w \in Slots, MarkDeliveredAnswer(w)
    PROVE  CalmInv'
  <1>1. call[w].op = "answer" /\ rider' = StopSharing /\ status' = status
    BY DEF MarkDeliveredAnswer, server
  <1>2. ~ rider'.activeOrder
    BY <1>1, StoppedForm
  <1>3. call'[w] = Idle /\ world' = world /\ \A v \in Slots \ {w} : call'[v] = call[v]
    BY CallForms, ContinueExact DEF MarkDeliveredAnswer, Finish
  <1>4. Idle.op = "idle"
    BY DEF Idle
  <1> QED
    BY <1>1, <1>2, <1>3, <1>4 DEF CalmInv, calm

LEMMA CalmStep ==
    ASSUME TypeOK, OneAtATime, CalmInv, [Next]_vars
    PROVE  CalmInv'
  <1>1. ASSUME \/ OpenRiderApp \/ RestoreFails \/ DropRider \/ Cancelled
               \/ MountScreen \/ LeaveScreen \/ SubscribeOrder \/ DropScreen
               \/ \E p \in Pods : ConnectRider(p) \/ ConnectScreen(p)
               \/ \E a \in Apps : TokenRunsOut(a)
               \/ UNCHANGED vars
        PROVE  CalmInv'
    <2>1. rider'.unsent = rider.unsent /\ rider'.activeOrder = rider.activeOrder
      <3>1. CASE OpenRiderApp \/ RestoreFails \/ DropRider \/ \E p \in Pods : ConnectRider(p)
        <4>1. \/ \E v \in {"closed", "loading", "open"} : rider' = [rider EXCEPT !.view = v]
              \/ \E S \in SUBSET Pods : rider' = [rider EXCEPT !.socket = S]
          BY <3>1 DEF OpenRiderApp, RestoreFails, DropRider, ConnectRider
        <4> QED
          BY <4>1, RiderForms
      <3>2. CASE ~ (OpenRiderApp \/ RestoreFails \/ DropRider \/ \E p \in Pods : ConnectRider(p))
        BY <1>1, <3>2
        DEF Cancelled, MountScreen, LeaveScreen, SubscribeOrder, DropScreen, ConnectScreen,
            TokenRunsOut, vars, trackingVars
      <3> QED
        BY <3>1, <3>2
    <2>2. /\ UNCHANGED <<sent, latest, world, call>>
          /\ status' = status \/ status' \notin {"CARRIED", "DELIVERED"}
      BY <1>1
      DEF OpenRiderApp, RestoreFails, DropRider, Cancelled, MountScreen, LeaveScreen,
          SubscribeOrder, DropScreen, ConnectRider, ConnectScreen, TokenRunsOut, vars,
          trackingVars, NoRequest, server
    <2> QED
      BY <2>1, <2>2, CalmKept
  <1>2. ASSUME NEW w \in Slots,
               \/ EmitLocation(w) \/ MarkDelivered(w) \/ ConfirmDelivery(w)
               \/ ConfirmDeliveryWrite(w) \/ ConfirmDeliveryReload(w)
        PROVE  CalmInv'
    <2>1. PICK c \in TrackingCalls :
              Continue(w, c) /\ c.op \notin {"insert", "answer", "orphan"}
      BY <1>2, CallForms
      DEF EmitLocation, MarkDelivered, ConfirmDelivery, ConfirmDeliveryWrite,
          ConfirmDeliveryReload, Finish, Idle
    <2>2. call[w].op \notin {"insert", "answer"}
      BY <1>2
      DEF EmitLocation, MarkDelivered, ConfirmDelivery, ConfirmDeliveryWrite,
          ConfirmDeliveryReload, MayStart, Idle
    <2>3. /\ UNCHANGED <<rider, sent, latest>>
          /\ status' = status \/ status' \notin {"CARRIED", "DELIVERED"}
      BY <1>2
      DEF EmitLocation, MarkDelivered, ConfirmDelivery, ConfirmDeliveryWrite,
          ConfirmDeliveryReload, trackingVars, server
    <2> QED
      BY <2>1, <2>2, <2>3, ContinueExact, CalmKept
  <1>3. ASSUME NEW w \in Slots, TrackingCrash(w)
        PROVE  CalmInv'
    BY <1>3 DEF TrackingCrash, Crash, Finish, Continue, CalmInv, calm
  <1> QED
    BY <1>1, <1>2, <1>3, RestoreCalm, KillCalm, WatchCalm, LocationCalm, RecordCalm,
       DeliveredCalm, AnswerCalm
    DEF Next, Sharing, Watching, Serving

LEMMA CalmAlways == Spec => []CalmInv
  <1>1. Init => OneAtATime
    BY DEF Init, RequestsInit, OneAtATime
  <1>2. Init => CalmInv
    BY ClosedForm DEF Init, RequestsInit, TrackingInit, CalmInv, Current, Idle
  <1>3. TypeOK /\ OneAtATime /\ [Next]_vars => OneAtATime'
    BY OneStep
  <1>4. TypeOK /\ OneAtATime /\ CalmInv /\ [Next]_vars => CalmInv'
    BY CalmStep
  <1> QED
    BY <1>1, <1>2, <1>3, <1>4, TypeCorrect, PTL DEF Spec

\* While messages wait for each other and none is lost, the newest row, which the
\* proximity gate looks at, is the place of the rider's last fix, for any number of
\* fixes that waited for a connection.
THEOREM CalmLatestIsCurrentHolds == Spec => []CalmLatestIsCurrent
  <1>1. CalmInv => CalmLatestIsCurrent
    BY DEF CalmInv, Current, CalmLatestIsCurrent, AtRest, Idle
  <1> QED
    BY <1>1, CalmAlways, PTL

\* A delivery that nothing disturbs ends the sharing: nobody is followed after it.
THEOREM CalmSharingEndsHolds == Spec => []CalmSharingEnds
  <1>1. CalmInv => CalmSharingEnds
    BY DEF CalmInv, CalmSharingEnds, AtRest, Idle
  <1> QED
    BY <1>1, CalmAlways, PTL
================================================================================
