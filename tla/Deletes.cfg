SPECIFICATION RequestSpec
CONSTANTS
    main = main
    feature = feature
    c1 = c1
    c2 = c2
    c3 = c3
    d1 = d1
    None = None
    Main = main
    Branch = {main, feature}
    Commit = {c1, c2, c3}
    Doc = {d1}
    Push = {p1, p2}
    Admin = {a1, a2}
    Requests <- MainAndFeature
    AdminRequests <- AnyAdmin
    Faults = {"io", "disconnect"}
    MaxCrashes = 0
INVARIANTS TagsResolve LockDiscipline CompleteIsPublished
PROPERTIES ImplementsIndex
SYMMETRY ActorSymmetry
CHECK_DEADLOCK FALSE
