\* Two sessions under REPEATABLE READ on one row that is also deleted and
\* inserted again: absolute updates "SET v = 1, col = x" (subs from 2 or 3,
\* an add from 0, then the _orig row), adds of 1, distributed adds of 2
\* over two fragments and writes race with delete_ and insert_, which
\* places the new fragment at any rk up to maxNodes;
\* every statement ends, lock waits and deadlocks included.  No symmetry:
\* the run checks liveness.
CONSTANTS
    Keys = {k1}
    Procs = {p1, p2}
    NoProc = NoProc
    MaxNodes = 2
    InitialNodes = 2
    MinAmountPerNode = 0
    InitialValues = {2}
    Deltas = {1, 2}
    SetValues = {1}
    RegularUpdates = {TRUE}
    WriteValues = {3}
    ReadAmounts = {}
    DistributeAddsAfter = 2
    DistributeAddsSize = 2
    Isolation = "REPEATABLE READ"
    InsertValues = {1}
    DeleteKeys = {k1}
    MaxTotal = 3
SPECIFICATION Spec
INVARIANTS
    Conservation
    RowHasFragments
PROPERTIES
    ImplementsCounter
    StatementsComplete
