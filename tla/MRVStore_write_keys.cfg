\* One session calling write_ on a table with two keys: the remainder
\* UPDATE's "WHERE rk = (SELECT rk ... LIMIT 1)" has no primary-key filter.
CONSTANTS
    Keys = {k1, k2}
    Procs = {p1}
    NoProc = NoProc
    MaxNodes = 2
    InitialNodes = 2
    MinAmountPerNode = 0
    InitialValues = {2}
    Deltas = {}
    SetValues = {}
    RegularUpdates = {FALSE}
    WriteValues = {3}
    ReadAmounts = {}
    DistributeAddsAfter = 0
    DistributeAddsSize = 1
    Isolation = "REPEATABLE READ"
    InsertValues = {}
    DeleteKeys = {}
    MaxTotal = 3
SPECIFICATION Spec
INVARIANT Conservation
