\* Two sessions under REPEATABLE READ on one row: an absolute update
\* "SET v = 3" through the view races an add of 1.
CONSTANTS
    Keys = {k1}
    Procs = {p1, p2}
    NoProc = NoProc
    MaxNodes = 2
    InitialNodes = 2
    MinAmountPerNode = 0
    InitialValues = {2}
    Deltas = {1}
    SetValues = {3}
    RegularUpdates = {FALSE}
    WriteValues = {}
    ReadAmounts = {}
    DistributeAddsAfter = 0
    DistributeAddsSize = 1
    Isolation = "REPEATABLE READ"
    InsertValues = {}
    DeleteKeys = {}
    MaxTotal = 4
SPECIFICATION Spec
SYMMETRY ProcSymmetry
PROPERTIES
    SetTakesEffect
