SPECIFICATION Spec
CONSTANTS
    MaxBatch = 2
    Provers = {p1, p2}
    FakeProver = f
    Versions = {v1, v2}
    MaxFrisPerSnark = 2
    MaxRanges = {0, 1}
    CommandsCapacity = 1
    NoProver = NoProver
    NoBatch = NoBatch
INVARIANTS EveryBatchInOnePlace ProvesInOrder  
CHECK_DEADLOCK FALSE
SYMMETRY Symmetry
