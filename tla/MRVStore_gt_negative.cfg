\* write_ of a negative value, then greater_than / greater_or_equal.
CONSTANTS
    Keys = {k1}
    Procs = {p1}
    NoProc = NoProc
    MaxNodes = 2
    InitialNodes = 2
    MinAmountPerNode = 0
    InitialValues = {2}
    Deltas = {}
    SetValues = {}
    RegularUpdates = {FALSE}
    WriteValues <- MCNegativeWrites
    ReadAmounts <- MCNegativeAmounts
    DistributeAddsAfter = 0
    DistributeAddsSize = 1
    Isolation = "REPEATABLE READ"
    InsertValues = {}
    DeleteKeys = {}
    MaxTotal = 2
SPECIFICATION Spec
INVARIANT ReadAgreesWithTotal
