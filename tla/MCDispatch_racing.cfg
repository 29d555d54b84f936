SPECIFICATION Spec
CONSTANTS
    o1 = o1
    r1 = r1
    r2 = r2
    w1 = w1
    w2 = w2
    w3 = w3
    Orders = {o1}
    Riders = {r1, r2}
    Slots = {w1, w2, w3}
    NoRider = NoRider
    MAX_ORDERS_PER_RIDER_BATCH = 3
    Tiers = {"STANDARD"}
    ClientStatuses = {"ACCEPTED", "INVENTORY_RESERVED", "PREPARING", "RIDER_EN_ROUTE_PICKUP", "RIDER_ARRIVED_PICKUP", "CYLINDER_PICKED_UP", "RIDER_EN_ROUTE_STATION", "AT_STATION", "RIDER_EN_ROUTE_DELIVERY", "RIDER_ARRIVED_DELIVERY", "DELIVERED"}
    RiderToggles = {"AVAILABLE", "OFFLINE"}
    Reviews = {"VERIFIED", "REJECTED"}
    StaffAssigns = FALSE
    AllowCancel = TRUE
    AllowCrash = TRUE
    OneWriterPerOrder = FALSE
SYMMETRY Interchangeable
INVARIANTS TypeOK ActiveHasRider NothingHalfAssigned ConfirmedWithOtp OnlyReviewedRidersCarry
PROPERTY RiderNeverReplaced
CHECK_DEADLOCK FALSE
