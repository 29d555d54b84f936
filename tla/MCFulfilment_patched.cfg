SPECIFICATION Spec
CONSTANTS
    o1 = o1
    o2 = o2
    o3 = o3
    a = a
    b = b
    w1 = w1
    w2 = w2
    NotLocked = NotLocked
    Orders = {o1}
    Types = {a}
    Slots = {w1, w2}
    Basket <- OneOrder
    InitialStock <- OneOfA
    Deltas = {}
    MaxFilled = 2
    PatchTargets = {"DELIVERED", "CANCELLED"}
    Worlds = {"calm"}
    PoolSizes = {8}
SYMMETRY InterchangeableSlots
INVARIANTS EveryCylinderAccounted
CHECK_DEADLOCK FALSE
