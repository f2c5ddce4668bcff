SPECIFICATION FairSpec
CONSTANTS
    main = main
    feature = feature
    c1 = c1
    c2 = c2
    c3 = c3
    d1 = d1
    None = None
    Main = main
    Branch = {main}
    Commit = {c1, c2, c3}
    Doc = {d1}
    Push = {p1, p2}
    Admin = {}
    Requests <- InsertOnly
    AdminRequests = {}
    Faults = {"disconnect"}
    MaxCrashes = 0
PROPERTIES ReservationReleased

CHECK_DEADLOCK FALSE
