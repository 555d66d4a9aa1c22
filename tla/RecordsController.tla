-------------------------- MODULE RecordsController --------------------------
(***************************************************************************)
(* The adaptive record-count controller of adjust_records_simulation.py: *)
(* every time_between_adjusts ms the count of records of a hot row is    *)
(* adjusted from the last measured abort rate with one of the policies   *)
(* adjust_binary, adjust_linear or adjust_quadratic; once per simulated  *)
(* second the abort rate is measured again (run_simulation).             *)
(*                                                                         *)
(* Abort rates are fixed-point: ar = ar_units / ArScale.  Python's int() *)
(* of a non-negative float truncates, which \div does on the exact value. *)
(***************************************************************************)
EXTENDS Integers, FiniteSets

CONSTANTS
    Policy,            \* "binary", "linear" or "quadratic"
    MinRecords,        \* min_records
    MaxRecords,        \* max_records
    ArGoal,            \* ar_goal, in 1/ArScale
    ArMin,             \* ar_min, in 1/ArScale
    ArScale,           \* fixed-point scale of abort rates
    ArSamples,         \* abort rates the measurement may return
    InitialRecords,    \* initial_records
    TimeBetweenAdjusts, \* time_between_adjusts, in ms
    Duration           \* duration, in simulated seconds

ASSUME Policy \in {"binary", "linear", "quadratic"}
ASSUME MinRecords \in Nat /\ MaxRecords \in Nat /\ ArScale \in Nat \ {0}
ASSUME ArSamples \subseteq 0..ArScale
ASSUME TimeBetweenAdjusts \in Nat \ {0} /\ Duration \in Nat

VARIABLES
    records,   \* current number of records
    ar,        \* abort rate measured in the previous second
    adjusts,   \* adjusts already made in the current second
    time       \* current_time, the simulated second

vars == <<records, ar, adjusts, time>>

\* adjusts_per_timestamp: adjust i, for i < int(duration / (tba / 1000)),
\* falls in second int(i * tba / 1000); a second gets none, one or several.
AdjustsAt(t) ==
    Cardinality({i \in 0..((Duration * 1000) \div TimeBetweenAdjusts - 1) :
                    (i * TimeBetweenAdjusts) \div 1000 = t})

\* int(records * ar) and int((records * ar) ** 2).
Linear(r, a) == (r * a) \div ArScale
Quadratic(r, a) == ((r * a) * (r * a)) \div (ArScale * ArScale)

\* The size of one change by policy: 1, 1 + int(records*ar) or
\* 1 + int((records*ar)**2).
Step(r, a) ==
    CASE Policy = "binary"    -> 1
      [] Policy = "linear"    -> 1 + Linear(r, a)
      [] Policy = "quadratic" -> 1 + Quadratic(r, a)

\* adjust_binary / adjust_linear / adjust_quadratic.
AdjustRecords(a, r) ==
    IF a > ArGoal /\ r < MaxRecords THEN r + Step(r, a)
    ELSE IF a < ArMin /\ r > MinRecords THEN r - Step(r, a)
    ELSE r

Init ==
    /\ records = InitialRecords
    /\ ar = 0
    /\ adjusts = 0
    /\ time = 0

\* One adjust of the current second, from the last measured abort rate.
Adjust ==
    /\ time < Duration
    /\ adjusts < AdjustsAt(time)
    /\ records' = AdjustRecords(ar, records)
    /\ adjusts' = adjusts + 1
    /\ UNCHANGED <<ar, time>>

\* End of the second: ar = abort_rate(records, ...), a fresh measurement
\* (the tx_s raise at duration / 2 only changes which rates are likely);
\* after the last second the loop returns.
Measure ==
    /\ time < Duration
    /\ adjusts = AdjustsAt(time)
    /\ ar' \in ArSamples
    /\ adjusts' = 0
    /\ time' = time + 1
    /\ UNCHANGED records

Next == Adjust \/ Measure

Spec == Init /\ [][Next]_vars

TypeOK ==
    /\ records \in Int
    /\ ar \in {0} \cup ArSamples
    /\ adjusts \in 0..AdjustsAt(time)
    /\ time \in 0..Duration

\* Whatever abort rates are measured, the record count the controller
\* produces stays within [min_records, max_records].
RecordsInBounds == records \in MinRecords..MaxRecords
=============================================================================
