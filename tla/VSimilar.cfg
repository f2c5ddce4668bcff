SPECIFICATION Spec
CONSTANTS
    main = main
    feature = feature
    None = None
    Text = Text
    Main = main
    Branch = {main, feature}
    Commit = {1, 2}
    Push = {1, 2}
    Doc = {1, 2, 3}
    Delta <- ChangeOne
    Nearest <- Resemblance
    Matching <- NoMatches
    Requests <- SimilarRequests
    Faults = {}
    MaxVersions = 6
    MaxDeletes = 0
INVARIANTS SimilarReproducible
CHECK_DEADLOCK FALSE
