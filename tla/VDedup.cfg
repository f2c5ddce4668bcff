SPECIFICATION ResSpec
CONSTANTS
    Docs = {1, 2, 3}
    Corpora <- TwoOfThree
    Scopes <- FirstTwo
    Ks = {1}
    Thresholds = {1}
    MaxPoints = 10
    MaxPairs = 3
    FlatMax = 1
    ScanBatch = 2
    Capacity = 1
    MaxSkips = 0
INVARIANTS WithinSet
CHECK_DEADLOCK FALSE
