CONSTANTS
    u1 = u1  u2 = u2
    w1 = w1  w2 = w2
    Users = {u1, u2}
    Runs = {w1, w2}
    Reader = u1
    None = None
    MaxDay = 2
    MaxTrades = 3
    MaxCrashes = 1
    ReadDays = {0}
    MaxLater = 2
    per_page = 1
    Equities <- NoneToFour
    Results <- LossToWin
    MaxEntries = 5
    Years <- ThreeYears
SPECIFICATION Spec
SYMMETRY Symmetric
INVARIANTS TypeOK GapsExplained RowsFinal WalkComplete CountedOnce FiguresRight MonthsTile GuardsAgree
CHECK_DEADLOCK FALSE
