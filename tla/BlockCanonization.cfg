\* Two blocks and two elections; a crash when the tasks are timely.
CONSTANTS
    Nodes = {n1, n2}
    Payloads = {a, b}
    MaxLog = 2
    MaxTerm = 2
    MaxCrashes = 1
    MaxUntimelyCrashes = 0
    Timeliness = {FALSE, TRUE}
    NoNode = NoNode
    NoBlock = NoBlock
SPECIFICATION Spec
INVARIANTS OnlyCanonizedPersisted OneBlockInFlight NoInconsistentBlock NoCanonizedBlockSkipped
PROPERTY ImplementsLedger
CHECK_DEADLOCK FALSE
SYMMETRY Symmetry
