SPECIFICATION Spec
CONSTANTS
    o1 = o1
    o2 = o2
    o3 = o3
    a = a
    b = b
    w1 = w1
    w2 = w2
    NotLocked = NotLocked
    Orders = {o1, o2}
    Types = {a, b}
    Slots = {w1, w2}
    Basket <- Overlapping
    InitialStock <- ShortOfA
    Deltas = {1}
    MaxFilled = 2
    PatchTargets = {"DELIVERED"}
    Worlds = {"racing", "orderly"}
    PoolSizes = {2, 8}
SYMMETRY InterchangeableSlots
INVARIANTS TypeOK ReservedNeverNegative CreditFollowsSettlement ReservationsBacked OrderlySettledOnce
CHECK_DEADLOCK FALSE
