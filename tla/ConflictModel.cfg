\* The sweep of both scripts, up to the points TLC's integers can hold.
CONSTANTS
    Clients <- MCClients
    MaxRecords = 127
    IntBound = 2000000000
    EnumBound = 100
SPECIFICATION Spec
\* The sweep ends after the last point, as the scripts do.
CHECK_DEADLOCK FALSE
INVARIANTS
    TypeOK
    FormulaMatchesSimulation
