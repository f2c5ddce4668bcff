SPECIFICATION IngSpec
CONSTANTS
    doc1 = doc1
    doc2 = doc2
    doc3 = doc3
    NoDoc = NoDoc
    BodyDoc = {doc1, doc2, doc3}
    Old = {doc1, doc3}
    Bodies <- ChangedBodies
    OpCap = 1
    ProgressCap = 1
    BatchDocs = 1
INVARIANTS TruncatedRejected

CHECK_DEADLOCK FALSE
