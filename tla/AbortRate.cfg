\* Two runs of three transactions over two records, with start times
\* far enough apart that some overlaps chain and some do not.
CONSTANTS
    Records = 2
    TxS = 3
    TxTime = 2
    Starts = {0, 2, 4}
    NRuns = 2
SPECIFICATION Spec
\* abort_rate returns after n_runs runs: the final state has no successor.
CHECK_DEADLOCK FALSE
INVARIANTS
    TypeOK
    AbortsBetweenEstimates
