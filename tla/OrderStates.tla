------------------------------ MODULE OrderStates ------------------------------
(****************************************************************************)
(* The order status enum and the transition map of OrdersService.           *)
(*                                                                          *)
(* Everything here is constant: the sets of statuses the services compare   *)
(* with, the map behind isValidTransition, and the statuses the two shipped *)
(* clients put into PATCH /orders/:id/status.                               *)
(****************************************************************************)

OrderStatus ==
    {"PENDING", "ACCEPTED", "INVENTORY_RESERVED", "PREPARING",
     "RIDER_ASSIGNED", "RIDER_EN_ROUTE_PICKUP", "RIDER_ARRIVED_PICKUP",
     "CYLINDER_PICKED_UP", "RIDER_EN_ROUTE_STATION", "AT_STATION",
     "RIDER_EN_ROUTE_DELIVERY", "RIDER_ARRIVED_DELIVERY",
     "DELIVERED", "CUSTOMER_CONFIRMED", "COMPLETED", "CANCELLED", "REFUNDED"}

\* The pairs (from, to) of the transition map.
TransitionMap ==
    {<<"PENDING", "ACCEPTED">>, <<"PENDING", "CANCELLED">>,
     <<"ACCEPTED", "INVENTORY_RESERVED">>, <<"ACCEPTED", "CANCELLED">>,
     <<"INVENTORY_RESERVED", "PREPARING">>, <<"INVENTORY_RESERVED", "CANCELLED">>,
     <<"PREPARING", "RIDER_ASSIGNED">>,
     <<"RIDER_ASSIGNED", "RIDER_EN_ROUTE_PICKUP">>,
     <<"RIDER_EN_ROUTE_PICKUP", "RIDER_ARRIVED_PICKUP">>,
     <<"RIDER_ARRIVED_PICKUP", "CYLINDER_PICKED_UP">>,
     <<"CYLINDER_PICKED_UP", "RIDER_EN_ROUTE_STATION">>,
     <<"RIDER_EN_ROUTE_STATION", "AT_STATION">>,
     <<"AT_STATION", "RIDER_EN_ROUTE_DELIVERY">>,
     <<"RIDER_EN_ROUTE_DELIVERY", "RIDER_ARRIVED_DELIVERY">>,
     <<"RIDER_ARRIVED_DELIVERY", "DELIVERED">>,
     <<"DELIVERED", "CUSTOMER_CONFIRMED">>,
     <<"CUSTOMER_CONFIRMED", "COMPLETED">>}

IsValidTransition(from, to) == <<from, to>> \in TransitionMap

\* cancel(): free cancellation up to the rider's arrival for pickup.
CancellableStatuses ==
    {"PENDING", "ACCEPTED", "INVENTORY_RESERVED", "PREPARING",
     "RIDER_ASSIGNED", "RIDER_EN_ROUTE_PICKUP", "RIDER_ARRIVED_PICKUP"}

\* releaseRiderIfFree(): the statuses in which an order keeps its rider busy.
ActiveStatuses ==
    {"RIDER_ASSIGNED", "RIDER_EN_ROUTE_PICKUP", "RIDER_ARRIVED_PICKUP",
     "CYLINDER_PICKED_UP", "RIDER_EN_ROUTE_STATION", "AT_STATION",
     "RIDER_EN_ROUTE_DELIVERY", "RIDER_ARRIVED_DELIVERY"}

\* The statuses an order only reaches after a rider was bound to it.
RiderBoundStatuses ==
    ActiveStatuses \cup {"DELIVERED", "CUSTOMER_CONFIRMED", "COMPLETED"}

TerminalStatuses == {"COMPLETED", "CANCELLED", "REFUNDED"}

\* What the station console sends (NEXT_STATUS).
StationConsoleStatuses ==
    {"ACCEPTED", "INVENTORY_RESERVED", "PREPARING", "RIDER_EN_ROUTE_DELIVERY"}

\* What the rider app sends (STEPS).
RiderAppStatuses ==
    {"RIDER_EN_ROUTE_PICKUP", "RIDER_ARRIVED_PICKUP", "CYLINDER_PICKED_UP",
     "RIDER_EN_ROUTE_STATION", "AT_STATION", "RIDER_EN_ROUTE_DELIVERY",
     "RIDER_ARRIVED_DELIVERY", "DELIVERED"}

ShippedClientStatuses == StationConsoleStatuses \cup RiderAppStatuses

DeliveryTier == {"STANDARD", "EXPRESS"}

RiderStatus == {"AVAILABLE", "BUSY", "OFFLINE", "SUSPENDED"}

VerificationStatus == {"PENDING", "VERIFIED", "REJECTED", "SUSPENDED"}
================================================================================
