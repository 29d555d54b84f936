------------------------------- MODULE Tracking -------------------------------
(****************************************************************************)
(* One delivery as the two apps see it: the rider app that shares its       *)
(* position while it has an active order, the socket gateway that records   *)
(* and broadcasts it, and the tracking screen of the customer.              *)
(*                                                                          *)
(* A slot is a message or request a pod is working on.  Rooms are kept in   *)
(* the memory of a pod, so a broadcast reaches the sockets of its own pod.  *)
(* status names classes of statuses: CARRIED is every status from           *)
(* RIDER_ASSIGNED to RIDER_ARRIVED_DELIVERY.  Dispatch has the single ones. *)
(*                                                                          *)
(* A place is as much of a position as the proximity gate tells apart.      *)
(* Access tokens run out after 15 minutes and the apps get no new one: a    *)
(* socket that is open stays, a new one is refused.                         *)
(****************************************************************************)
EXTENDS Requests, Naturals, Sequences

CONSTANTS
    Pods,
    Places,
    Door,           \* the place of the customer
    NoPlace,
    MaxUnsent,      \* bound: fixes that wait in the rider app for a connection
    MaxFaults       \* bound: dropped connections, lost calls, restarted apps

ASSUME TrackingAssumption ==
    /\ Door \in Places
    /\ NoPlace \notin Places
    /\ MaxUnsent \in Nat
    /\ MaxFaults \in Nat

VARIABLES
    status,         \* orders.status, by class
    latest,         \* the newest row of order_tracking_events
    recorded,       \* the places of all its rows
    rider,          \* the rider app
    sent,           \* the place of its last fix
    screen,         \* the tracking screen
    expired,        \* the apps whose access token has run out
    faults          \* what went wrong so far

server == <<status, latest, recorded>>
trackingVars == <<status, latest, recorded, rider, sent, screen, expired, faults>>
vars == <<world, call, trackingVars>>

DeliveryStatus == {"CARRIED", "DELIVERED", "CUSTOMER_CONFIRMED", "CANCELLED"}
Apps == {"rider", "customer"}

\* socket is where the connection ended up: nowhere, or on one pod.  heard says that
\* a position came since the screen connected last.
RiderApp == [view : {"closed", "loading", "open"}, activeOrder : BOOLEAN,
             socket : SUBSET Pods, unsent : Seq(Places)]
TrackingScreen == [mounted : BOOLEAN, order : DeliveryStatus \cup {"none"},
                   socket : SUBSET Pods, joined : BOOLEAN,
                   position : Places \cup {NoPlace}, heard : BOOLEAN]

TrackingCalls ==
         {Idle}
    \cup [op : {"insert", "emit"}, place : Places, pod : Pods]
    \cup [op : {"deliver", "orphan", "answer", "confirm", "reload"}]

TypeOK ==
    /\ world \in Worlds
    /\ call \in [Slots -> TrackingCalls]
    /\ status \in DeliveryStatus
    /\ latest \in Places \cup {NoPlace}
    /\ recorded \in SUBSET Places
    /\ rider \in RiderApp /\ Len(rider.unsent) <= MaxUnsent
    /\ sent \in Places \cup {NoPlace}
    /\ screen \in TrackingScreen
    /\ expired \in SUBSET Apps
    /\ faults \in 0 .. MaxFaults

RiderClosed == [view |-> "closed", activeOrder |-> FALSE, socket |-> {}, unsent |-> <<>>]
ScreenClosed == [mounted |-> FALSE, order |-> "none", socket |-> {}, joined |-> FALSE,
                 position |-> NoPlace, heard |-> FALSE]

\* A rider has just got the order; nobody looks yet.
TrackingInit ==
    /\ status = "CARRIED"
    /\ latest = NoPlace
    /\ recorded = {}
    /\ rider = RiderClosed
    /\ sent = NoPlace
    /\ screen = ScreenClosed
    /\ expired = {}
    /\ faults = 0

Fault == faults < MaxFaults /\ faults' = faults + 1

\* A step of an app outside any request.
Local == serial => AtRest

--------------------------------------------------------------------------------
(* The rider app.                                                           *)

OpenRiderApp ==
    /\ rider.view = "closed"
    /\ rider' = [rider EXCEPT !.view = "loading"]
    /\ NoRequest
    /\ UNCHANGED <<server, sent, screen, expired, faults>>

\* The dashboard asks for the rider's orders and goes on with one under way.
RestoreActiveOrder ==
    /\ Local
    /\ rider.view = "loading"
    /\ rider' = [rider EXCEPT !.view = "open", !.activeOrder = status = "CARRIED"]
    /\ NoRequest
    /\ UNCHANGED <<server, sent, screen, expired, faults>>

\* "Non-fatal": without an answer nothing is restored.
RestoreFails ==
    /\ Fault
    /\ rider.view = "loading"
    /\ rider' = [rider EXCEPT !.view = "open"]
    /\ NoRequest
    /\ UNCHANGED <<server, sent, screen, expired>>

\* The app is killed, and with it what waits in its memory; in the calm world not
\* while a fix waits or a request is under way, which would be one cut short.
KillRiderApp ==
    /\ Fault
    /\ rider.view # "closed"
    /\ calm => AtRest /\ rider.unsent = <<>>
    /\ rider' = RiderClosed
    /\ call' = [w \in Slots |-> CASE call[w].op = "deliver" -> [op |-> "orphan"]
                                  [] call[w].op = "answer" -> Idle
                                  [] OTHER -> call[w]]
    /\ UNCHANGED <<world, server, sent, screen, expired>>

\* useLocationSharing: a socket and a watch for as long as there is an active order.
ConnectRider(p) ==
    /\ rider.activeOrder
    /\ rider.socket = {}
    /\ "rider" \notin expired
    /\ rider' = [rider EXCEPT !.socket = {p}]
    /\ NoRequest
    /\ UNCHANGED <<server, sent, screen, expired, faults>>

\* watchPosition, with a distanceFilter of 10 metres: a rider who rests sends
\* nothing.  socket.io keeps what is emitted while the socket is down.
WatchPosition(x) ==
    /\ rider.activeOrder
    /\ Len(rider.unsent) < MaxUnsent
    /\ rider' = [rider EXCEPT !.unsent = Append(@, x)]
    /\ sent' = x
    /\ NoRequest
    /\ UNCHANGED <<server, screen, expired, faults>>

\* A connection is lost; socket.io makes a new one (ConnectRider).
DropRider ==
    /\ Fault
    /\ rider.socket # {}
    /\ rider' = [rider EXCEPT !.socket = {}]
    /\ NoRequest
    /\ UNCHANGED <<server, sent, screen, expired>>

--------------------------------------------------------------------------------
(* The gateway.                                                             *)

\* handleRiderLocation; messages of one socket do not wait for each other.
RiderLocation(w) ==
    /\ MayStart(w)
    /\ rider.unsent # <<>>
    /\ rider' = [rider EXCEPT !.unsent = Tail(@)]
    /\ \E p \in rider.socket :
          Continue(w, [op |-> "insert", place |-> Head(rider.unsent), pod |-> p])
    /\ UNCHANGED <<server, sent, screen, expired, faults>>

\* Bug: the position is broadcast and never recorded.
RecordNothing(w) ==
    /\ call[w].op = "insert"
    /\ Continue(w, [call[w] EXCEPT !.op = "emit"])
    /\ UNCHANGED trackingVars

\* Bug: the oldest row is taken for the newest.
RecordKeepsFirst(w) ==
    /\ call[w].op = "insert"
    /\ latest' = IF latest = NoPlace THEN call[w].place ELSE latest
    /\ recorded' = recorded \cup {call[w].place}
    /\ Continue(w, [call[w] EXCEPT !.op = "emit"])
    /\ UNCHANGED <<status, rider, sent, screen, expired, faults>>

\* recordLocation.  Its update of riders changes nothing: it looks for a rider
\* whose id is the user's.
RecordLocation(w) ==
    /\ call[w].op = "insert"
    /\ latest' = call[w].place
    /\ recorded' = recorded \cup {call[w].place}
    /\ Continue(w, [call[w] EXCEPT !.op = "emit"])
    /\ UNCHANGED <<status, rider, sent, screen, expired, faults>>

\* To the sockets of this pod that have joined the room of the order.
EmitLocation(w) ==
    /\ call[w].op = "emit"
    /\ screen' = IF screen.joined /\ call[w].pod \in screen.socket
                 THEN [screen EXCEPT !.position = call[w].place, !.heard = TRUE]
                 ELSE screen
    /\ Finish(w)
    /\ UNCHANGED <<server, rider, sent, expired, faults>>

--------------------------------------------------------------------------------
(* Delivery.                                                                *)

\* Mark delivered, past the gate: the newest row is at the customer's door.
MarkDelivered(w) ==
    /\ MayStart(w)
    /\ rider.activeOrder
    /\ status = "CARRIED"
    /\ latest = Door
    /\ Continue(w, [op |-> "deliver"])
    /\ UNCHANGED trackingVars

MarkDeliveredWrite(w) ==
    /\ call[w].op \in {"deliver", "orphan"}
    /\ status' = "DELIVERED"
    /\ Continue(w, IF call[w].op = "deliver" THEN [op |-> "answer"] ELSE Idle)
    /\ UNCHANGED <<latest, recorded, rider, sent, screen, expired, faults>>

\* No order, no socket, nothing to send.
StopSharing == [RiderClosed EXCEPT !.view = rider.view]

\* Bug: the app goes on sharing the position.
MarkDeliveredAnswerOnly(w) ==
    /\ call[w].op = "answer"
    /\ Finish(w)
    /\ UNCHANGED trackingVars

MarkDeliveredAnswer(w) ==
    /\ call[w].op = "answer"
    /\ rider' = StopSharing
    /\ Finish(w)
    /\ UNCHANGED <<server, sent, screen, expired, faults>>

\* Elsewhere the order is cancelled, and nobody tells the apps.
Cancelled ==
    /\ Local
    /\ status = "CARRIED"
    /\ status' = "CANCELLED"
    /\ NoRequest
    /\ UNCHANGED <<latest, recorded, rider, sent, screen, expired, faults>>

--------------------------------------------------------------------------------
(* The tracking screen.                                                     *)

\* It loads the order once.
MountScreen ==
    /\ Local
    /\ ~ screen.mounted
    /\ screen' = [ScreenClosed EXCEPT !.mounted = TRUE, !.order = status]
    /\ NoRequest
    /\ UNCHANGED <<server, rider, sent, expired, faults>>

LeaveScreen ==
    /\ screen.mounted
    /\ screen' = ScreenClosed
    /\ NoRequest
    /\ UNCHANGED <<server, rider, sent, expired, faults>>

ConnectScreen(p) ==
    /\ screen.mounted
    /\ screen.socket = {}
    /\ "customer" \notin expired
    /\ screen' = [screen EXCEPT !.socket = {p}]
    /\ NoRequest
    /\ UNCHANGED <<server, rider, sent, expired, faults>>

\* Bug: only the first connection subscribes.
SubscribeOnce ==
    /\ screen.socket # {}
    /\ ~ screen.joined
    /\ screen.position = NoPlace
    /\ screen' = [screen EXCEPT !.joined = TRUE]
    /\ NoRequest
    /\ UNCHANGED <<server, rider, sent, expired, faults>>

\* Sent on every connect, handled by handleSubscribeOrder.
SubscribeOrder ==
    /\ screen.socket # {}
    /\ ~ screen.joined
    /\ screen' = [screen EXCEPT !.joined = TRUE]
    /\ NoRequest
    /\ UNCHANGED <<server, rider, sent, expired, faults>>

\* The place shown last stays on the screen.
DropScreen ==
    /\ Fault
    /\ screen.socket # {}
    /\ screen' = [screen EXCEPT !.socket = {}, !.joined = FALSE, !.heard = FALSE]
    /\ NoRequest
    /\ UNCHANGED <<server, rider, sent, expired>>

\* The box for the code is there when the order was loaded delivered, or with the
\* rider at the door (RIDER_ARRIVED_DELIVERY, one of CARRIED); the service takes
\* the code of a delivered order only.
ConfirmDelivery(w) ==
    /\ MayStart(w)
    /\ screen.order \in {"CARRIED", "DELIVERED"}
    /\ status = "DELIVERED"
    /\ Continue(w, [op |-> "confirm"])
    /\ UNCHANGED trackingVars

ConfirmDeliveryWrite(w) ==
    /\ call[w].op = "confirm"
    /\ status' = "CUSTOMER_CONFIRMED"
    /\ Continue(w, [op |-> "reload"])
    /\ UNCHANGED <<latest, recorded, rider, sent, screen, expired, faults>>

ConfirmDeliveryReload(w) ==
    /\ call[w].op = "reload"
    /\ screen' = IF screen.mounted THEN [screen EXCEPT !.order = status] ELSE screen
    /\ Finish(w)
    /\ UNCHANGED <<server, rider, sent, expired, faults>>

--------------------------------------------------------------------------------
TokenRunsOut(a) ==
    /\ a \notin expired
    /\ expired' = expired \cup {a}
    /\ NoRequest
    /\ UNCHANGED <<server, rider, sent, screen, faults>>

TrackingCrash(w) ==
    /\ Fault
    /\ Crash(w)
    /\ UNCHANGED <<server, rider, sent, screen, expired>>

Sharing ==
    \/ RestoreActiveOrder
    \/ \E p \in Pods : ConnectRider(p)
    \/ \E w \in Slots : RiderLocation(w)

Watching == SubscribeOrder \/ \E p \in Pods : ConnectScreen(p)

Serving(w) ==
    \/ RecordLocation(w) \/ EmitLocation(w)
    \/ MarkDeliveredWrite(w) \/ MarkDeliveredAnswer(w)
    \/ ConfirmDeliveryWrite(w) \/ ConfirmDeliveryReload(w)

Next ==
    \/ Sharing \/ Watching
    \/ \E w \in Slots :
          Serving(w) \/ MarkDelivered(w) \/ ConfirmDelivery(w) \/ TrackingCrash(w)
    \/ \E x \in Places : WatchPosition(x)
    \/ \E a \in Apps : TokenRunsOut(a)
    \/ OpenRiderApp \/ RestoreFails \/ KillRiderApp \/ DropRider
    \/ MountScreen \/ LeaveScreen \/ DropScreen \/ Cancelled

Init == RequestsInit /\ TrackingInit

Spec == Init /\ [][Next]_vars

\* Sockets reconnect, messages are delivered and handlers run on; what people do,
\* where they go and what fails is not owed to anyone.
FairSpec ==
    /\ Spec
    /\ WF_vars(RestoreActiveOrder)
    /\ WF_vars(\E p \in Pods : ConnectRider(p))
    /\ WF_vars(\E w \in Slots : RiderLocation(w))
    /\ WF_vars(SubscribeOrder)
    /\ WF_vars(\E p \in Pods : ConnectScreen(p))
    /\ \A w \in Slots : WF_vars(Serving(w))

--------------------------------------------------------------------------------
(* Properties.                                                              *)

\* What the customer is shown was recorded first: the history and the gate have it.
ShownIsRecorded == screen.position = NoPlace \/ screen.position \in recorded

\* The gate compares the place the rider was last at.  Messages that overtake each
\* other at an await leave an older one on top; lost ones leave it behind.
CalmLatestIsCurrent ==
    calm /\ AtRest /\ rider.activeOrder /\ rider.unsent = <<>> => latest = sent

\* A delivery that nothing disturbs ends the sharing of the rider's position.
CalmSharingEnds == calm /\ AtRest /\ status = "DELIVERED" => ~ rider.activeOrder

Shares == rider.activeOrder /\ "rider" \notin expired
Watches == screen.mounted /\ "customer" \notin expired

\* A rider who shares goes on moving, so that fixes keep coming.
KeepsMoving == WF_vars(\E x \in Places : WatchPosition(x))

\* A customer who watches while a rider on the move shares hears of him again,
\* after every dropped connection, crash and restart that leaves both doing so.  Of
\* a rider at rest he hears nothing: the gateway does not repeat the last position.
PositionArrives ==
    KeepsMoving => (Shares /\ Watches ~> screen.heard \/ ~ Shares \/ ~ Watches)

\* "refresh order details whenever status changes".  Nobody emits order_status.
ScreenFollowsStatus ==
    status = "DELIVERED" /\ screen.mounted
        ~> screen.order = status \/ ~ screen.mounted
================================================================================
