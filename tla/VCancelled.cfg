SPECIFICATION Spec
CONSTANTS
    main = main
    feature = feature
    c1 = c1
    c2 = c2
    c3 = c3
    d1 = d1
    None = None
    Main = main
    Branch = {main}
    Commit = {c1, c2, c3}
    Doc = {d1}
    Push = {p1, p2, p3}
    Admin = {}
    Requests <- InsertThenChange
    AdminRequests = {}
    Faults = {}
    MaxCrashes = 0
INVARIANTS PreviousPushCancelled

CHECK_DEADLOCK FALSE
