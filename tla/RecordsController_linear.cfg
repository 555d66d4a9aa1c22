\* Policy adjust_linear under arbitrary measured abort rates, adjusting
\* every 400 ms: seconds get three or two adjusts from one measurement.
CONSTANTS
    Policy = "linear"
    MinRecords = 1
    MaxRecords = 1024
    ArGoal = 500
    ArMin = 100
    ArScale = 10000
    ArSamples <- MCArSamples
    InitialRecords = 1
    TimeBetweenAdjusts = 400
    Duration = 150
SPECIFICATION Spec
\* run_simulation returns after duration seconds.
CHECK_DEADLOCK FALSE
INVARIANT

    RecordsInBounds
