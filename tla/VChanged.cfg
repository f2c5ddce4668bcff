SPECIFICATION Spec
CONSTANTS
    Main = main
    Branch = {main, e1}
    Epoch = {e1}
    Commit = {c1, c2, c3}
    Doc = {d1}
    Push = {x, y}
    None = None
    EmptyPass = {1}
    MaxInterrupts = 0
    MaxCompactions = 1
INVARIANTS SnapshotIsolation
SYMMETRY ContentSymmetry
CHECK_DEADLOCK FALSE
