SPECIFICATION Spec
CONSTANTS
    r1 = r1
    r2 = r2
    p1 = p1
    p2 = p2
    w1 = w1
    w2 = w2
    nokey = nokey
    Payments = {p1, p2}
    Slots = {w1, w2}
    NoKey = nokey
    ClientKeys = {nokey}
    Keys = {nokey, r1}
    Requests = {r1}
    Amount <- OneAmount
    Base = 4
    Subscribers = {"approve"}
    MaxRetries = 1
SYMMETRY Interchangeable
INVARIANTS TypeOK ApprovedMeansPaid PaidMeansCollected SerialChargesOnce CalmBooksBalance
PROPERTY ImplementsEscrow
CHECK_DEADLOCK FALSE
