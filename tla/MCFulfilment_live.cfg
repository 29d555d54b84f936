SPECIFICATION FairSpec
CONSTANTS
    o1 = o1
    o2 = o2
    o3 = o3
    a = a
    b = b
    w1 = w1
    w2 = w2
    w3 = w3
    NotLocked = NotLocked
    Orders = {o1, o2, o3}
    Types = {a, b}
    Slots = {w1, w2, w3}
    Basket <- CrossingAndThird
    InitialStock <- EnoughOfBoth
    Deltas = {}
    MaxFilled = 2
    PatchTargets = {"DELIVERED"}
    Worlds = {"calm"}
    PoolSizes = {2, 6}
INVARIANTS EveryCylinderAccounted
PROPERTIES SettlementCompletes RequestsFinish
CHECK_DEADLOCK FALSE
