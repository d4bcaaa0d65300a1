CONSTANTS
    Nodes = {n1, n2}
    Payloads = {a, b}
    MaxLog = 2
    MaxTerm = 2
    MaxCrashes = 0
    MaxUntimelyCrashes = 0
    Timeliness = {FALSE}
    NoNode = NoNode
    NoBlock = NoBlock
SPECIFICATION Spec
INVARIANT WalAgreement
CHECK_DEADLOCK FALSE
SYMMETRY Symmetry
