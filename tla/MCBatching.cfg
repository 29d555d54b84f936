SPECIFICATION BatchingSpec
CONSTANTS
    o1 = o1
    o2 = o2
    r1 = r1
    r2 = r2
    w1 = w1
    k1 = k1
    k2 = k2
    b1 = b1
    b2 = b2
    Orders = {o1, o2}
    Riders = {r1, r2}
    Slots = {w1}
    NoRider = NoRider
    MAX_ORDERS_PER_RIDER_BATCH = 3
    Tiers = {"STANDARD"}
    ClientStatuses = {"ACCEPTED", "INVENTORY_RESERVED", "PREPARING"}
    RiderToggles = {}
    Reviews = {}
    StaffAssigns = FALSE
    AllowCancel = FALSE
    AllowCrash = TRUE
    OneWriterPerOrder = FALSE
    Batches = {b1, b2}
    Cycles = {k1, k2}
    NoBatch = NoBatch
    MAX_BATCH_SIZE = 3
SYMMETRY Interchangeable
INVARIANTS CountIsTrue
PROPERTY BatchKept
CHECK_DEADLOCK FALSE
