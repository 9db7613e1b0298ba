CONSTANTS
    u1 = u1  u2 = u2  s1 = s1  s2 = s2  p1 = p1  p2 = p2  w1 = w1  w2 = w2
    Users = {u1}
    Signals = {s1}
    Pairs = {p1}
    PairOf <- OnePair
    Workers = {w1}
    Tiers <- ProOnly
    MaxRetries = 2
    MaxBots = 1
    MaxKeys = 1
    MaxChanges = 0
    MaxCrashes = 0
SPECIFICATION Spec
CHECK_DEADLOCK FALSE
INVARIANT OneTradePerTask
