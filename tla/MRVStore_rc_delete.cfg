\* Two sessions under READ COMMITTED on one row that is deleted and
\* inserted again: two delete_ calls and an insert_ race.
CONSTANTS
    Keys = {k1}
    Procs = {p1, p2}
    NoProc = NoProc
    MaxNodes = 2
    InitialNodes = 1
    MinAmountPerNode = 0
    InitialValues = {1}
    Deltas = {}
    SetValues = {}
    RegularUpdates = {FALSE}
    WriteValues = {}
    ReadAmounts = {}
    DistributeAddsAfter = 0
    DistributeAddsSize = 1
    Isolation = "READ COMMITTED"
    InsertValues = {1}
    DeleteKeys = {k1}
    MaxTotal = 1
SPECIFICATION Spec
SYMMETRY ProcSymmetry
INVARIANT
    RowHasFragments
