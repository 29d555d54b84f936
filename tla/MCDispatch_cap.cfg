SPECIFICATION Spec
CONSTANTS
    o1 = o1
    o2 = o2
    o3 = o3
    o4 = o4
    r1 = r1
    w1 = w1
    w2 = w2
    Orders = {o1, o2, o3, o4}
    Riders = {r1}
    Slots = {w1, w2}
    NoRider = NoRider
    MAX_ORDERS_PER_RIDER_BATCH = 3
    Tiers = {"STANDARD"}
    ClientStatuses = {"ACCEPTED", "INVENTORY_RESERVED", "PREPARING", "RIDER_EN_ROUTE_PICKUP", "RIDER_ARRIVED_PICKUP", "CYLINDER_PICKED_UP", "RIDER_EN_ROUTE_STATION", "AT_STATION", "RIDER_EN_ROUTE_DELIVERY", "RIDER_ARRIVED_DELIVERY", "DELIVERED"}
    RiderToggles = {}
    Reviews = {}
    StaffAssigns = FALSE
    AllowCancel = FALSE
    AllowCrash = FALSE
    OneWriterPerOrder = TRUE
INVARIANTS BatchCap
CHECK_DEADLOCK FALSE
