CONSTANTS
    u1 = u1  u2 = u2  s1 = s1  s2 = s2  p1 = p1  p2 = p2  w1 = w1  w2 = w2
    Users = {u1}
    Signals = {s1}
    Pairs = {p1}
    PairOf <- OnePair
    Workers = {w1, w2}
    Tiers <- FreeAndPro
    MaxRetries = 1
    MaxBots = 2
    MaxKeys = 2
    MaxChanges = 2
    MaxCrashes = 1
SPECIFICATION OneKindSpec
CHECK_DEADLOCK FALSE
INVARIANTS TypeOK SingleOrder NoOrphan OrdersBounded
PROPERTIES ImplementsContract TasksSettle NoTradeOnAmbiguousBot
