\* Two sessions on one key under REPEATABLE READ: adds, subs, writes,
\* distributed adds and threshold reads interleaved.  A value of 1 on two
\* fragments takes the conversion's raised partition (fragments 1 and 0).
CONSTANTS
    Keys = {k1}
    Procs = {p1, p2}
    NoProc = NoProc
    MaxNodes = 3
    InitialNodes = 2
    MinAmountPerNode = 0
    InitialValues = {1, 3}
    Deltas <- MCDeltas
    SetValues = {}
    RegularUpdates = {FALSE}
    WriteValues = {3}
    ReadAmounts = {1, 2, 3}
    DistributeAddsAfter = 2
    DistributeAddsSize = 2
    Isolation = "REPEATABLE READ"
    InsertValues = {}
    DeleteKeys = {}
    MaxTotal = 4
SPECIFICATION Spec
SYMMETRY ProcSymmetry
INVARIANTS
    TypeOK
    Conservation
    ReadAgreesWithTotal
PROPERTIES
    ImplementsCounter
