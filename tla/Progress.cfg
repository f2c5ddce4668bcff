SPECIFICATION ProgressSpec
CONSTANTS
    main = main
    feature = feature
    c1 = c1
    c2 = c2
    c3 = c3
    d1 = d1
    None = None
    Main = main
    Branch = {main, feature}
    Commit = {c1, c2, c3}
    Doc = {d1}
    Push = {p1, p2}
    Admin = {}
    Requests <- Contention
    AdminRequests = {}
    Faults = {"io", "panic", "embed"}
    MaxCrashes = 1
    doc1 = doc1
    doc2 = doc2
    doc3 = doc3
    NoDoc = NoDoc
    BodyDoc = {doc1, doc2, doc3}
    Old = {doc1, doc3}
    Bodies <- MixedBodies
    OpCap = 1
    ProgressCap = 1
    BatchDocs = 2
INVARIANTS OneWriter ReservedOnce PushMatchesOps CountChecked
PROPERTIES EveryPushAnswered ReservationReleased TaskTerminates PushEnds
CHECK_DEADLOCK FALSE
