SPECIFICATION ReadsSpec
CONSTANTS
    main = main
    feature = feature
    None = None
    Text = Text
    Main = main
    Branch = {main, feature}
    Commit = {1, 2, 3}
    Push = {1, 2, 3}
    Doc = {1, 2, 3}
    Delta <- ThreeCommits
    Nearest <- TextOnly
    Matching <- TextMatches
    Requests <- SearchRequests
    Faults = {"push", "read", "restart"}
    MaxVersions = 6
    MaxDeletes = 1
    Bad = {9}
    Split = {7}
    DocLists <- TwoPushes
    Questions <- OneQuestion
    Callers = {u, v}
    EmbBatch = 3
    Window = 4
    DefaultBudget = 3
    OverlapDiv = 2
    MaxBlips = 2
    MaxCalls = 2
    MaxStops = 1
    Docs = {1, 2, 3}
    Corpora <- ThreeDocuments
    Scopes <- SomeScopes
    Ks = {1, 2}
    Thresholds = {1, 4}
    MaxPoints = 10
    MaxPairs = 3
    FlatMax = 1
    ScanBatch = 2
    Capacity = 1
    MaxSkips = 3
INVARIANTS ReadsTypeOK SnapshotReads ServedNearest NotFoundIsTrue PageExact
INVARIANTS OwnVectors IsolatedFailures EveryTokenIndexed
INVARIANTS DuplicatesExact CandidatesExact StreamComplete
SYMMETRY CallerSymmetry
CHECK_DEADLOCK FALSE
