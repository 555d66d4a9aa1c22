# TLA+ models of MRV (multi-record values)

This directory holds TLA+ models of the code under `src/`.

MRV splits a hot numeric column into several fragment rows, so that
concurrent updates of one logical value touch different rows.
`src/generic/convert_model.py` converts a PostgreSQL table to that layout:
- it creates `<table>_<mrv>(pk, rk, value)` and `<table>_orig`, plus a view
  `<table>` that sums the fragments;
- it generates the PL/pgSQL functions that operate on the fragments;
- it generates the rules that route INSERT, UPDATE and DELETE on the view to
  those functions.

`src/simulations/` holds the models behind the design:
- the adaptive controller for the number of fragments, and the time-overlap
  abort-rate estimate it is tuned against (`adjust_records_simulation.py`);
- the formula and the simulation for the probability of a conflict
  (`conflict_prob_formula.py`, `conflict_prob_simulation.py`).

## Inventory

| Part | Source (convert_model.py unless named) | Operations | Module and definitions |
|---|---|---|---|
| Conversion | 133-163 | split each value into `initial_nodes` fragments at distinct random rks in `[0, maxNodes)` | `MRVStore` `Init`, `Conversions` |
| View, `mrv_total`, `mrv_size` | 168-180, 507-530 | read the sum and the count of the fragments | `Total`, `SumRows`, `FragmentCount` |
| `sub_` | 184-220 | cursor over rk >= rk_ then rk < rk_; take LEAST(v, amount_) from each fragment > 0 | `SubSkip`, `SubUpdate`, `SubEnd` |
| `add_` | 222-245 | add to the first rk >= rk_, else to MIN(rk) | `AddStep` |
| `update_<table>_<mrv>` | 248-268 | dispatch on the difference: distributed add, add or sub; RAISE if sub fails | `Update`, `Rollback` |
| `greater_than`, `greater_or_equal` | 270-326 | early-exit scan of the fragments | `GreaterThanScan`, `GreaterOrEqualScan` |
| `write_` | 329-368 | lock all fragments in rk order, set each to floor(v/n), add the remainder to one rk | `WriteStmt`, `WriteLock`, `WriteApply` |
| `add_..._distributed` | 370-400 | add amount/size to the size_ smallest fragments, the remainder to the first | `DAddLock`, `DAddApply` |
| `insert_` | 403-421 | `_orig` row plus one fragment at rk in `[0, maxNodes]` | `Insert` |
| `delete_` | 466-481 | DELETE the `_orig` row, then, as a second statement, every fragment | `DeleteStmt`, `DeleteOrig`, `DeleteLock`, `DeleteApply` |
| `update_<table>` | 424-460 | NEW.v - OLD.v dispatched to add/sub, then UPDATE of a changed regular column on `_orig` | `SetStmt`, `Update`, `Succeed`, `OrigUpdate` |
| rules | 483-504 | client statements on the view | `Issue` |
| Controller | adjust_records_simulation.py 37-86 | adjust every tick; measure every second | `RecordsController` |
| `abort_rate` | adjust_records_simulation.py 13-33 | random hits; count overlaps with the predecessor | `AbortRate` |
| Conflict model | conflict_prob_*.py | formula vs simulation over the sweep | `ConflictModel` |
| Plots, CSV | src/plot, src/reproducibility, */output_to_csv.py | file I/O only | not modelled |

The functions interact through PostgreSQL. The model includes the following
PostgreSQL behaviour:
- Concurrent sessions share fragment rows.
- Row locks are held until commit.
- Every function runs as its own transaction, called from a single statement
  in autocommit mode.
- Under READ COMMITTED, the default:
  - a statement that waited on a row lock re-reads the latest version of
    the row, or skips the row if it was deleted;
  - a cursor keeps its snapshot.
- Under REPEATABLE READ, locking, updating or deleting a row that was
  committed after the snapshot raises a serialization failure.
- An exception rolls the whole function back.
- The deadlock detector aborts one member of a wait-for cycle.

## Modules

### `MRVStore.tla`

The fragment table and the functions, run by `Procs` sessions.

The engine's state:
- `rows` and `val` are the fragments and their latest versions;
- `owner` is the row-lock holder of each fragment and of each `_orig` row
  (`Orig(k)`, a row id beside the fragments of k);
- `undo` holds the before-images used by a rollback;
- `missed` holds the rows committed after a REPEATABLE READ session's
  snapshot, and, for a READ COMMITTED `DELETE FROM <table>_orig` waiting on
  a lock, whether the row version it saw was deleted;
- `present` is the set of committed `_orig` rows.

Each session's state:
- `pc` is the function the session runs and `op` its arguments (for an
  UPDATE through the view, also the `c` of `SET v = c` and whether a regular
  column changes);
- `snap` is `sub_`'s cursor snapshot;
- `cursor` is the rks still to visit, or the lock order;
- `amt` is `sub_`'s `amount_`.

`ledger` is a ghost. It holds the value that the committed calls imply.

How actions map to the code:
- Each action is one statement of a function, or one iteration of its loop.
- The function's commit or rollback is folded into its last step.
- `Issue` is what the rules let a client do:
  - call `update_<table>_<mrv>` with a difference, on a visible row, with
    each possible `rk_`;
  - run an absolute `UPDATE ... SET v = c` on the view, optionally changing a
    regular column too (`SetStmt`). The rule passes OLD, the sum the
    statement snapshot shows; no row is locked, because the view is an
    aggregate;
  - call `write_`;
  - insert a row;
  - delete a visible row.
- `update_<table>`'s add/sub/distributed add ends in `Succeed`. That step
  commits, or, when a regular column changes, keeps its fragment locks and
  goes on to `OrigUpdate`, which locks the `_orig` row.
- `delete_` is two statements. `DeleteOrig` locks the `_orig` row. Under
  READ COMMITTED it deletes nothing if the version it saw was deleted
  meanwhile. `DeleteLock` then takes the fragments found by a fresh scan.
- `Insert` is a single step. A concurrent insert or delete of the same key
  waits on the primary key, so its effect is atomic.

### `MRVCounter.tla`

The abstract contract. It behaves like an integer column of a table: insert,
delete, add, subtract (never below zero), and write. `MRVStore` maps the
committed totals and `present` onto it with `INSTANCE ... WITH`.

### `RecordsController.tla`

`time` is run_simulation's `current_time`. `AdjustsAt(t)` is
`adjusts_per_timestamp[t]`: the adjusts of `time_between_adjusts` that fall
in second t, which may be none, one or several. `Adjust` makes one of them
with the chosen policy. `Measure` ends the second and sets `ar` to any value
of `ArSamples`. After `Duration` seconds the loop returns, so the run
disables deadlock checking. Abort rates are fixed-point values in units of
1/`ArScale`.

### `AbortRate.tla`

`abort_rate`'s loop:
- `Hit` draws a record and a start time;
- `CountRun` runs the per-record counting loop.

Two ghosts count, for the same draws, the slot collisions of the conflict
model and the aborts of a first-commit-wins engine.

### `ConflictModel.tla`

Sweeps `(w, n)` the way the scripts loop. At each point it compares the
formula with the exact expectation of the bitmap simulation, computed two
ways:
- a recursion on the number of marked records;
- an explicit enumeration of the draws.

Everything is scaled by `w * n^w`, so that the arithmetic is exact integer
arithmetic.

### `MC_*.tla`

These supply the constants a `.cfg` cannot write (negative sets) and
symmetry.

## Runs

| Run | Checks | Result and what it shows |
|---|---|---|
| store_rr | TypeOK, Conservation, ReadAgreesWithTotal, ImplementsCounter | pass, about 176k states: all functions interleaved under REPEATABLE READ, from a value of 3 or of 1 (the latter converted into fragments 1 and 0) |
| store_live | Conservation, RowHasFragments, ImplementsCounter, StatementsComplete | pass, about 59k states: absolute view updates that also change a regular column, adds, distributed adds and writes race delete_ and insert_ of the row, whose new fragment may land at rk = maxNodes; every statement ends, including the update/delete deadlocks the detector breaks |
| store_rc_sub | Conservation under READ COMMITTED | violation: two subs of 2 on a value of 3 both succeed, because sub_ counts down by what its cursor saw |
| store_write_keys | Conservation with two keys | violation: write_'s remainder UPDATE has no pk filter and changes the other key |
| store_deadlock | NoWaitCycle | violation: sub_'s wrapped cursor locks in a different order than another sub_ |
| store_set | SetTakesEffect | violation: under REPEATABLE READ, `SET v = 3` on a value of 2 adds 1 to one fragment while a concurrent add of 1 commits on another; the row ends at 4 and no serialization failure is raised |
| store_rc_delete | RowHasFragments | violation: under READ COMMITTED, a delete_ that waited on another delete_ of the row skips the gone `_orig` row, then its fragment DELETE removes the fragment of the row inserted again meanwhile |
| store_gt_negative | ReadAgreesWithTotal | violation: after write_(-1), greater_than(-1) answers true |
| controller_linear | RecordsInBounds | violation: with adjusts every 400 ms, adjust_linear takes 921 records to 1106 > 1024 |
| abort_rate | TypeOK, AbortsBetweenEstimates | pass: first-commit-wins aborts <= abort_rate's count <= slot collisions |
| abort_rate_fcw | AbortsAreFirstCommitWins | violation: a transaction that overlaps only an aborted one is counted as aborted |
| conflict_model | TypeOK, FormulaMatchesSimulation | pass, for w in {1..8, 16} and n up to 127 where the integers fit |

Every property of a passing run has a mutant in `PROJECT.json`: a plausible
bug in the mapped code that the run detects.

### Bounds, and why they are enough

- Two sessions are enough for every pairwise race: a lock wait, a stale
  cursor, a serialization failure, a delete racing an update, and a
  two-session deadlock cycle.
- Up to 3 fragments (`MaxNodes`) let `sub_` span several fragments, let the
  cursor wrap, and let a distributed add choose a strict subset.
- The runs use `minAmountPerNode` = 0. With a non-zero minimum the
  conversion never gives a fragment less than 1, so the value-smaller-than-
  fragments case (`store_rr`'s initial value 1) needs 0; `ConvertNodes`
  keeps the minimum's reduction of the node count all the same.
- Values stay within 0..4, so that subtracts can both succeed and fail.
- `rk_` ranges over 0..MaxNodes, as `FLOOR(RANDOM() * (maxNodes + 1))` does.
- `abort_rate` uses two runs of three transactions over two records. Start
  times are chosen so that overlaps both chain and do not.

### Fairness

- A statement that can run eventually runs. This is strong fairness on each
  session's `Step`, because PostgreSQL grants a released row lock to the
  waiters in queue order.
- The deadlock detector eventually aborts a member of a cycle. This is weak
  fairness, since the detector runs after `deadlock_timeout`.
- Clients are not obliged to issue calls.

### Modelling choices to know

- `delete_` locks fragments in primary-key (rk) order, the order of an index
  scan.
- Rows are identified by `(pk, rk)`. A row re-inserted with the same rk is
  the same row to a READ COMMITTED statement that started before the
  insert. This is exact except for the moment a FOR UPDATE takes its lock.
- In `AbortRate`, start times are a small subset of
  `range(0, 1000 - tx_time)`.

### Runs the project does not keep

The project keeps at most twelve runs, so two checks were given up for the
findings above:
- The binary policy's `RecordsInBounds`. It holds by its +1/-1 guards
  alone, so it added little.
- `FragmentsInSlots` (spec.md: fragments sit in `[0, maxNodes)`). insert_
  draws rk in `[0, maxNodes]`, so the fragment can land at `maxNodes`.
  `store_live` inserts at every rk up to `maxNodes`, and its Conservation,
  RowHasFragments and ImplementsCounter show that no function loses such a
  fragment.

## Not modelled, and why

1. Grow/Shrink of fragments. spec.md describes it, but no code under `src/`
   implements it, so there is nothing to translate.
2. A closed loop of controller and `abort_rate`. With the draws as
   nondeterministic choices, the set of abort counts `abort_rate` can return
   is the same for every record count of at least 1: all transactions can
   hit one record, or none can overlap. Only the probabilities depend on the
   record count, and TLC does not model probabilities. So a closed loop
   reaches the same states as the open-loop `RecordsController`.
3. `ar_per_n_records` and `records_to_reach_ar_per_tx`. They call
   `abort_rate` in a loop and plot the result. The only question about the
   `while current_ar > ar` search is whether it ends, and it ends with
   probability 1 but not in every behaviour (all draws can keep hitting one
   record), so no termination property holds without a probabilistic model.
4. Several MRV columns in one table: `update_<table>` runs one
   add/sub/distributed add per column in one transaction, `insert_` and
   `delete_` one statement per column table. Each column repeats the
   modelled steps under the same row locks and the same rollback, and
   columns are visited in one fixed order, so they add no new lock order.
   They would double the fragments: `store_live` already takes 1m31 with
   one column, and `store_rr` with a third session did not finish in ten
   minutes.
5. The conversion itself runs in one transaction committed at the end
   (`conn.commit()`), before any client uses the tables, so only its result,
   the initial states, is modelled. Its DDL (renaming, indexes, the view,
   the rules) is text generation.
6. A passing READ COMMITTED run with delete_ and insert_. The stale-cursor
   finding already breaks Conservation under READ COMMITTED, and the
   delete/insert race breaks RowHasFragments.
7. A lock held while a regular column changes makes update/delete
   deadlocks possible. `store_live` shows that the detector resolves them
   (StatementsComplete). No violation run of its own is kept for this.
