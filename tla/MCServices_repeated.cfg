SPECIFICATION Spec
CONSTANTS
    Parts = {"intake"}
    w1 = w1
    w2 = w2
    Slots = {w1, w2}
    NumTokens = 3
    NoToken = 0
    NumCodes = 2
    MAX_LOGIN_ATTEMPTS = 2
    MAX_OTP_ATTEMPTS = 2
    MaxFailures = 3
    station = station
    Platform = Platform
    Scopes = {station, Platform}
    Percents = {5, 10}
    NoPercent = 100
    NumRules = 3
    NumStations = 2
    MaxStrikes = 2
    ama = ama
    Staff = {ama}
    north = north
    south = south
    Posts = {north, south}
    NoPost = NoPost
    NumAddresses = 2
    NoAddress = 0
    Prices = {100, 120}
    NoPrice = 0
    admin = admin
    Admins = {admin}
    NoAdmin = NoAdmin
    MaxRatings = 2
    NumOrders = 3
    tap1 = tap1
    tap2 = tap2
    Taps = {tap1, tap2}
    k1 = k1
    k2 = k2
    Keys = {k1, k2}
    r1 = r1
    r2 = r2
    Riders = {r1, r2}
    w3 = w3
    Transactions = {w1, w2, w3}
    NoTransaction = NoTransaction
    Earnings = {2}
    Withdrawals <- MCWithdrawals
    Misread = {0, 12}
    Openings <- MCOpenings
    MaxEntries = 2
SYMMETRY Interchangeable
INVARIANT OneOrderPerKey
CHECK_DEADLOCK FALSE
