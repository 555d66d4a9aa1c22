\* One record, three transactions 2 ms apart lasting 3 ms each: the
\* second overlaps the first, the third only the aborted second.
CONSTANTS
    Records = 1
    TxS = 3
    TxTime = 3
    Starts = {0, 2, 4}
    NRuns = 1
SPECIFICATION Spec
CHECK_DEADLOCK FALSE
INVARIANT AbortsAreFirstCommitWins
