\* Two sessions under READ COMMITTED (PostgreSQL's default) issuing sub_
\* calls only: sub_ decrements amount_ by what its cursor read, not by
\* what the UPDATE took from the latest row version.
CONSTANTS
    Keys = {k1}
    Procs = {p1, p2}
    NoProc = NoProc
    MaxNodes = 2
    InitialNodes = 1
    MinAmountPerNode = 0
    InitialValues = {3}
    Deltas <- MCSubDeltas
    SetValues = {}
    RegularUpdates = {FALSE}
    WriteValues = {}
    ReadAmounts = {}
    DistributeAddsAfter = 0
    DistributeAddsSize = 1
    Isolation = "READ COMMITTED"
    InsertValues = {}
    DeleteKeys = {}
    MaxTotal = 3
SPECIFICATION Spec
INVARIANT Conservation
