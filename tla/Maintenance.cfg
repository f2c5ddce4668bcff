SPECIFICATION MaintSpec
CONSTANTS
    Main = main
    Branch = {main, e1, e2, e3}
    Epoch = {e1, e2, e3}
    Commit = {c1, c2, c3, c4, c5}
    Doc = {d1}
    Push = {x, y}
    None = None
    EmptyPass = {1}
    MaxInterrupts = 1
    MaxCompactions = 2
    Priors = {0, 8}
    ForkParents = {3}
    IxFaults = {"push", "merge", "policy", "sweep", "collect"}
    MaxIxPushes = 2
    MaxUpsets = 2
    Domain = {a, b}
    Reader = {r1, r2}
    Stats = stats
    Bystander = {r1}
    CacheMax = 1
    MaxIncs = 2
    MaxVers = 3
    Task = {1, 2, 3, 4, 5}
    MaxTasks = 2
    TaskTTL = 1
INVARIANTS MaintTypeOK TagsReadable DocumentsKept LossBounded IndexesBacked
INVARIANTS TaggedFullyIndexed NoFalseAlarm   StatusKept
SYMMETRY ContentSymmetry
CHECK_DEADLOCK FALSE
