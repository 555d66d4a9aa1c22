\* Two sessions issuing sub_ with different rk_ hints: each cursor visits
\* the fragments from its hint upwards and wraps around.
CONSTANTS
    Keys = {k1}
    Procs = {p1, p2}
    NoProc = NoProc
    MaxNodes = 2
    InitialNodes = 2
    MinAmountPerNode = 0
    InitialValues = {2}
    Deltas <- MCSubDeltas
    SetValues = {}
    RegularUpdates = {FALSE}
    WriteValues = {}
    ReadAmounts = {}
    DistributeAddsAfter = 0
    DistributeAddsSize = 1
    Isolation = "READ COMMITTED"
    InsertValues = {}
    DeleteKeys = {}
    MaxTotal = 2
SPECIFICATION Spec
INVARIANT NoWaitCycle
