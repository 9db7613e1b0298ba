CONSTANTS
    r1 = r1
    r2 = r2
    a = a
    b = b
    c = c
    None = None
    Requests <- MCRequests
    Rows <- MCRows
    Keys <- MCKeys
    Labels <- MCLabels
    Tiers <- MCTiers
    Positions <- MCPositions
    Amounts <- MCAmounts
    MaxKeys = 2
    MaxRequests = 3
    MaxChanges = 1
    MaxBatches = 1
SPECIFICATION Spec
SYMMETRY Symmetric
INVARIANTS TypeOK KeysBounded LabelsUnique RangeOrdered PositionsWithinTier
PROPERTIES InvalidStays DeletedStays OnlyStartRuns
CHECK_DEADLOCK FALSE
