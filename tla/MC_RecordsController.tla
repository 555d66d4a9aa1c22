------------------------ MODULE MC_RecordsController ------------------------
(* The defaults of adjust_binary/linear/quadratic (min_records = 1,       *)
(* max_records = 1024) and main() (ar_goal = 0.05, ar_min = 0.01), with   *)
(* abort rates in units of 1/10000 (10 runs of 1000 transactions).        *)
EXTENDS RecordsController

\* Measured abort rates: none, below ar_min, in the dead band, above
\* ar_goal, and a severe one.
MCArSamples == {0, 50, 300, 2000}
=============================================================================
