SPECIFICATION RestartSpec
CONSTANTS
    main = main
    feature = feature
    c1 = c1
    c2 = c2
    c3 = c3
    d1 = d1
    None = None
    Main = main
    Branch = {main}
    Commit = {c1, c2, c3}
    Doc = {d1}
    Push = {p1, p2, p3}
    Admin = {a1}
    Requests <- InsertThenChange
    AdminRequests <- ReadMain
    Faults = {"body"}
    MaxCrashes = 1
    j1 = j1
    j2 = j2
    x1 = x1
    x2 = x2
    Proc = {s1, s2}
    Job = {j1, j2}
    Db = {x1, x2}
    DbOf <- OneDbEach
    Envs <- SomeEnvs
    Stores <- SomeStores
    MaxBoots = 3
    MaxKills = 1
INVARIANTS DomainTypeOK CacheCoherent PushedIsLastIndexed
INVARIANTS StartGuards SettingsKept DrainKeepsJobs
SYMMETRY RestartSymmetry
CHECK_DEADLOCK FALSE
