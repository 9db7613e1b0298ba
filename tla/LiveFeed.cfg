CONSTANTS
    u1 = u1  s1 = s1  s2 = s2  c1 = c1
    Users = {u1}
    Sockets = {s1, s2}
    UserOf <- OneUser
    Senders = {c1}
    MaxSends = 1
    MaxFaults = 1
SPECIFICATION FairSpec
CHECK_DEADLOCK FALSE
INVARIANTS TypeOK LiveSocketsListed StaleOnlyAfterRedis SubscriberEndsFirst FeedRuns
PROPERTY ClosedSocketsEnd
