------------------------------ MODULE AbortRate ------------------------------
(***************************************************************************)
(* abort_rate of adjust_records_simulation.py: the time-overlap estimate *)
(* of the abort rate that drives the records controller.  In each of     *)
(* n_runs runs, tx_s transactions each pick a record and a start time at *)
(* random; then, per record, a transaction whose start is within tx_time *)
(* of the previous start (in start order) counts as an abort.            *)
(*                                                                         *)
(* random.randrange is a nondeterministic choice, the start times a small *)
(* subset of range(0, 1000 - tx_time).  Two ghosts count, for the same   *)
(* draws, the transactions that hit an already hit record (the conflict  *)
(* model's collisions) and the aborts of a first-commit-wins engine.     *)
(***************************************************************************)
EXTENDS Integers, Sequences, SequencesExt, FiniteSets, FiniteSetsExt

CONSTANTS
    Records,   \* records
    TxS,       \* tx_s
    TxTime,    \* tx_time
    Starts,    \* start times randrange(*time_domain) may return
    NRuns      \* n_runs

ASSUME Records \in Nat \ {0} /\ TxS \in Nat /\ TxTime \in Nat /\ NRuns \in Nat \ {0}
ASSUME Starts \subseteq Nat /\ Starts # {}

VARIABLES
    txsHit,      \* txs_hit: record -> start times in the order drawn
    drawn,       \* transactions drawn in the current run
    run,         \* runs finished
    aborts,      \* aborts
    collisions,  \* ghost: transactions on a record hit earlier in the run
    fcwAborts    \* ghost: aborts under first-commit-wins

vars == <<txsHit, drawn, run, aborts, collisions, fcwAborts>>

RecordIds == 0..(Records - 1)

NoHits == [r \in RecordIds |-> <<>>]

\* Mutation: index 0 compares with times[-1], the last start.
OverlapAbortsWrapped(times) ==
    Cardinality({i \in 1..Len(times) :
                   times[IF i = 1 THEN Len(times) ELSE i - 1] + TxTime >= times[i]})

\* Aborts among one record's sorted start times: every transaction the
\* previous one (by start) still overlaps.
OverlapAborts(times) ==
    Cardinality({i \in 2..Len(times) : times[i - 1] + TxTime >= times[i]})

\* First commit wins: a transaction aborts if it starts before the last
\* committed one on its record ends; an aborted one blocks nobody.
RECURSIVE FirstCommitWins(_, _)
FirstCommitWins(times, lastEnd) ==
    IF times = <<>> THEN 0
    ELSE IF Head(times) <= lastEnd THEN 1 + FirstCommitWins(Tail(times), lastEnd)
    ELSE FirstCommitWins(Tail(times), Head(times) + TxTime)

Sorted(s) == SortSeq(s, <)

Init ==
    /\ txsHit = NoHits
    /\ drawn = 0
    /\ run = 0
    /\ aborts = 0
    /\ collisions = 0
    /\ fcwAborts = 0

\* Mutation: one transaction too many per run.
HitPastTxS ==
    /\ run < NRuns
    /\ drawn <= TxS
    /\ \E r \in RecordIds, s \in Starts :
         txsHit' = [txsHit EXCEPT ![r] = Append(@, s)]
    /\ drawn' = drawn + 1
    /\ UNCHANGED <<run, aborts, collisions, fcwAborts>>

\* One transaction: record = randrange(records), start = randrange(...).
Hit ==
    /\ run < NRuns
    /\ drawn < TxS
    /\ \E r \in RecordIds, s \in Starts :
         txsHit' = [txsHit EXCEPT ![r] = Append(@, s)]
    /\ drawn' = drawn + 1
    /\ UNCHANGED <<run, aborts, collisions, fcwAborts>>

\* The counting loop of the run over every record hit, then a fresh
\* txs_hit for the next run.
CountRun ==
    /\ run < NRuns
    /\ drawn = TxS
    /\ aborts' = aborts + MapThenSumSet(LAMBDA r : OverlapAborts(Sorted(txsHit[r])), RecordIds)
    /\ collisions' = collisions + TxS - Cardinality({r \in RecordIds : txsHit[r] # <<>>})
    /\ fcwAborts' = fcwAborts
                    + MapThenSumSet(LAMBDA r : FirstCommitWins(Sorted(txsHit[r]), -1), RecordIds)
    /\ txsHit' = NoHits
    /\ drawn' = 0
    /\ run' = run + 1

Next == Hit \/ CountRun

Spec == Init /\ [][Next]_vars

TypeOK ==
    /\ txsHit \in [RecordIds -> Seq(Starts)]
    /\ drawn \in 0..TxS
    /\ run \in 0..NRuns
    /\ aborts \in 0..(TxS * NRuns)

\* The time-overlap count abort_rate returns lies between what a
\* first-commit-wins engine aborts and the slot collisions of the conflict
\* model for the same draws: overlap in time needs a shared record, and a
\* transaction overlapping a committed one also overlaps its predecessor.
AbortsBetweenEstimates == fcwAborts <= aborts /\ aborts <= collisions

\* spec.md: two transactions on one record conflict if their intervals
\* overlap, first commit wins; abort_rate counts the aborts that rule gives.
AbortsAreFirstCommitWins == aborts = fcwAborts
=============================================================================
