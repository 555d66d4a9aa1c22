------------------------------ MODULE MRVStore ------------------------------
(***************************************************************************)
(* The multi-record value (MRV) engine that convert_model.py installs in   *)
(* PostgreSQL: one table <table>_<mrv>(pk, rk, value) per MRV column and   *)
(* the PL/pgSQL functions that operate on it (add_, sub_, write_,          *)
(* add_..._distributed, greater_than, greater_or_equal) plus the update    *)
(* dispatcher that the update rule calls.                                  *)
(*                                                                         *)
(* Every client process runs one statement at a time as its own            *)
(* transaction, the way the update rule and the manual update function     *)
(* are called.  The PostgreSQL behaviour the functions rely on is modelled *)
(* explicitly: row locks held to commit, statement snapshots for cursors,  *)
(* EvalPlanQual re-reading of the latest row version under READ COMMITTED, *)
(* serialization failures under REPEATABLE READ, rollback on exception,    *)
(* and the deadlock detector that aborts one member of a wait-for cycle.   *)
(***************************************************************************)
EXTENDS Integers, FiniteSets, Sequences, SequencesExt, Relation, TLC

CONSTANTS
    Keys,                  \* primary keys of the logical rows
    Procs,                 \* concurrent client sessions
    MaxNodes,              \* model['maxNodes']
    InitialNodes,          \* model['initialNodes']
    MinAmountPerNode,      \* model['minAmountPerNode']
    InitialValues,         \* values the MRV column may hold before conversion
    Deltas,                \* NEW.v - OLD.v of updates issued by clients
    SetValues,             \* c of absolute updates "SET v = c" on the view
    RegularUpdates,        \* whether those also change a regular column
    WriteValues,           \* arguments of write_<table>_<mrv>
    ReadAmounts,           \* arguments of greater_than / greater_or_equal
    DistributeAddsAfter,   \* model['distributeAddsAfter'] (0 disables)
    DistributeAddsSize,    \* model['distributeAddsSize']
    Isolation,             \* transaction isolation level of the sessions
    InsertValues,          \* values of rows clients insert
    DeleteKeys,            \* rows clients delete
    MaxTotal,              \* bound: adds are not issued past this total
    NoProc                 \* model value: a row lock nobody holds

ASSUME InitialNodes \in 1..MaxNodes
ASSUME MinAmountPerNode \in Nat /\ DistributeAddsAfter \in Nat
ASSUME DistributeAddsSize \in Nat \ {0}
ASSUME Isolation \in {"READ COMMITTED", "REPEATABLE READ"}
ASSUME 0 \notin Deltas /\ DeleteKeys \subseteq Keys /\ RegularUpdates \subseteq BOOLEAN

VARIABLES
    rows,     \* set of fragments <<key, rk>> present in <table>_<mrv>
    val,      \* latest version of each fragment, committed or not
    owner,    \* row lock holder of each fragment and _orig row
    undo,     \* before-images of the fragments each session has written
    pc,       \* statement each session is executing ("idle" between)
    op,       \* arguments of that statement
    snap,     \* values each session's statement snapshot shows
    cursor,   \* rks still to visit (sub cursor, lock order of write/dadd)
    amt,      \* remaining amount_ of sub
    missed,   \* fragments committed by others after the session's snapshot
    ledger,   \* reference ledger: logical value each committed op implies
    present   \* keys whose <table>_orig row is committed

vars == <<rows, val, owner, undo, pc, op, snap, cursor, amt, missed, ledger, present>>

Rks == 0..(MaxNodes - 1)
Least(a, b) == IF a < b THEN a ELSE b
Greatest(a, b) == IF a > b THEN a ELSE b

\* PostgreSQL integer division truncates towards zero.
IntDiv(a, b) == IF a >= 0 THEN a \div b ELSE -((-a) \div b)

RowsOf(k) == {r \in rows : r[1] = k}

\* The <table>_orig row of a key, a lockable row beside its fragments.
OrigRk == -1
Orig(k) == <<k, OrigRk>>
Origs == {Orig(k) : k \in present}
RksOf(k) == {r[2] : r \in RowsOf(k)}
Ascending(S) == SetToSortSeq(S, <)

\* The value the other sessions' snapshots see: the before-image while
\* an uncommitted writer exists, the latest version otherwise.
Committed(r) ==
    IF \E p \in Procs : r \in DOMAIN undo[p]
    THEN LET p == CHOOSE q \in Procs : r \in DOMAIN undo[q] IN undo[p][r]
    ELSE val[r]

RECURSIVE SumRows(_)
SumRows(S) ==
    IF S = {} THEN 0
    ELSE LET r == CHOOSE x \in S : TRUE IN Committed(r) + SumRows(S \ {r})

Total(k) == SumRows(RowsOf(k))

-----------------------------------------------------------------------------
(* Conversion of an existing value into fragments (move data loop).      *)

ConvertNodes(v) ==
    IF MinAmountPerNode > 0 /\ v < MinAmountPerNode * InitialNodes
    THEN Greatest(1, v \div MinAmountPerNode)
    ELSE InitialNodes

\* Values of the initial_nodes - 1 partitions followed by the leftover.
RECURSIVE Partitions(_, _, _)
Partitions(v, part, n) ==
    IF n = 0 THEN <<v>>
    ELSE <<part>> \o Partitions(v - part, IF v - part = 0 THEN 0 ELSE part, n - 1)

ConvertValue(v) ==
    LET n == ConvertNodes(v)
        part == IF v \div n = 0 /\ v > 0 THEN 1 ELSE v \div n
    IN  Partitions(v, part, n - 1)

\* Each partition goes to a distinct rk drawn at random from 0..maxNodes-1.
Conversions(k, v) ==
    LET parts == ConvertValue(v)
    IN  { [i \in 1..Len(parts) |-> <<<<k, place[i]>>, parts[i]>>] :
            place \in {f \in [1..Len(parts) -> Rks] : IsInjective(f)} }

\* add_: the first rk >= rk_, else the smallest rk.
AddTarget(k, h) ==
    IF \E rk \in RksOf(k) : rk >= h
    THEN Min({rk \in RksOf(k) : rk >= h})
    ELSE Min(RksOf(k))

-----------------------------------------------------------------------------
(* Transaction machinery the functions run under (PostgreSQL).          *)

Sessions == {p \in Procs : pc[p] # "idle"}

\* Rows the session's next step must lock, by the statement it runs.
Needs(p) ==
    LET k == op[p].key IN
    DOMAIN owner \cap
    (CASE pc[p] = "sub" ->
            IF amt[p] > 0 /\ cursor[p] # <<>> /\ snap[p][Head(cursor[p])] > 0
            THEN {<<k, Head(cursor[p])>>} ELSE {}
       [] pc[p] = "add" ->
            IF RksOf(k) = {} THEN {} ELSE {<<k, AddTarget(k, op[p].hint)>>}
       [] pc[p] \in {"write", "dadd", "delete"} /\ cursor[p] # <<>> ->
            {<<k, Head(cursor[p])>>}
       [] pc[p] = "write" -> RowsOf(k) \cup {r \in rows : r[2] = op[p].hint}
       [] pc[p] = "dadd" -> {<<k, op[p].sel[1]>>}
       [] pc[p] \in {"delorig", "orig"} -> {Orig(k)}
       [] OTHER -> {})

Free(p, S) == \A r \in S \cap DOMAIN owner : owner[r] \in {NoProc, p}

\* Under REPEATABLE READ, locking, updating or deleting a row that another
\* session committed after the snapshot raises a serialization failure.
\* (Under READ COMMITTED 'missed' is not needed and stays empty.)
SerializationFailure(p, S) ==
    Isolation = "REPEATABLE READ" /\ S \cap missed[p] # {}

WaitsFor == [pq \in Procs \X Procs |->
                \E r \in Needs(pq[1]) : owner[r] = pq[2] /\ pq[2] # pq[1]]

InWaitCycle(p) == TransitiveClosure(WaitsFor, Procs)[p, p]

\* Arguments of a session between statements.
NoOp == [key |-> CHOOSE k \in Keys : TRUE, arg |-> 0, hint |-> 0, sel |-> <<>>, set |-> {}, reg |-> FALSE]

\* Statement ends: drop the before-images and the statement's local state.
Finish(p) ==
    /\ undo' = [undo EXCEPT ![p] = <<>>]
    /\ pc' = [pc EXCEPT ![p] = "idle"]
    /\ op' = [op EXCEPT ![p] = NoOp]
    /\ snap' = [snap EXCEPT ![p] = <<>>]
    /\ cursor' = [cursor EXCEPT ![p] = <<>>]
    /\ amt' = [amt EXCEPT ![p] = 0]

Unlock(p) == owner' = [r \in DOMAIN owner |-> IF owner[r] = p THEN NoProc ELSE owner[r]]

\* The rows p commits become the latest committed versions: running
\* REPEATABLE READ sessions may not touch them any more, and a READ
\* COMMITTED DELETE of an _orig row finds the version it saw gone.
Tracks(q) == pc[q] # "idle" /\ (Isolation = "REPEATABLE READ" \/ pc[q] = "delorig")

Publish(p, written) ==
    missed' = [q \in Procs |-> IF q # p /\ Tracks(q) THEN missed[q] \cup written ELSE {}]

\* The logical value a committed call implies, for a row that still exists.
LedgerSet(k, v) == IF k \in present THEN [ledger EXCEPT ![k] = v] ELSE ledger

\* Commit after the session wrote the rows in 'written' (val' given).
Commit(p, written, newLedger) ==
    /\ Unlock(p)
    /\ Finish(p)
    /\ Publish(p, written)
    /\ ledger' = newLedger
    /\ UNCHANGED present

\* The MRV part of update_<table> succeeded with val' given, the rows in
\* 'written' updated and the value changed by d: commit, or, when a regular
\* column changes too, hold the row locks and go on to UPDATE <table>_orig.
Succeed(p, written, d) ==
    IF op[p].reg
    THEN /\ owner' = [r \in DOMAIN owner |-> IF r \in written THEN p ELSE owner[r]]
         /\ undo' = [undo EXCEPT ![p] = @ @@ [r \in written \ DOMAIN @ |-> val[r]]]
         /\ pc' = [pc EXCEPT ![p] = "orig"]
         /\ op' = [op EXCEPT ![p].arg = d]
         /\ UNCHANGED <<snap, cursor, amt, missed, ledger, present>>
    ELSE Commit(p, written, LedgerSet(op[p].key, ledger[op[p].key] + d))

\* Mutation: the rollback forgets the before-images.
RollbackKeepsWrites(p) ==
    /\ val' = val
    /\ Unlock(p)
    /\ Finish(p)
    /\ missed' = [missed EXCEPT ![p] = {}]
    /\ UNCHANGED <<ledger, present>>

\* RAISE EXCEPTION, a serialization failure, a division by zero or a
\* deadlock abort: the transaction rolls back and every row it wrote gets
\* its before-image.
Rollback(p) ==
    /\ val' = [r \in rows |-> IF r \in DOMAIN undo[p] THEN undo[p][r] ELSE val[r]]
    /\ Unlock(p)
    /\ Finish(p)
    /\ missed' = [missed EXCEPT ![p] = {}]
    /\ UNCHANGED <<ledger, present>>

\* First write of a row by the session records its before-image.
Write1(p, r, v) ==
    /\ val' = [val EXCEPT ![r] = v]
    /\ undo' = [undo EXCEPT ![p] = IF r \in DOMAIN @ THEN @ ELSE @ @@ (r :> val[r])]
    /\ owner' = [owner EXCEPT ![r] = p]

\* The statement snapshot of the fragments of k.
SnapshotOf(k) == [rk \in RksOf(k) |-> Committed(<<k, rk>>)]

\* A statement starts; only sub_'s cursor keeps reading its snapshot later.
Begin(p, kind, args, c) ==
    /\ pc[p] = "idle"
    /\ pc' = [pc EXCEPT ![p] = kind]
    /\ op' = [op EXCEPT ![p] = args]
    /\ snap' = [snap EXCEPT ![p] = IF kind = "sub" THEN SnapshotOf(args.key) ELSE <<>>]
    /\ cursor' = [cursor EXCEPT ![p] = c]
    /\ amt' = [amt EXCEPT ![p] = args.arg]
    /\ missed' = [missed EXCEPT ![p] = {}]
    /\ UNCHANGED <<rows, val, owner, undo, ledger, present>>

-----------------------------------------------------------------------------
(* The MRV functions.                                                      *)

\* sub_: cursor over rk >= rk_ ascending, then rk < rk_ ascending.
SubOrder(k, h) ==
    Ascending({rk \in RksOf(k) : rk >= h}) \o Ascending({rk \in RksOf(k) : rk < h})

\* add_..._distributed: the size_ fragments with the smallest value, ties
\* by rk, read from the statement snapshot.
DAddChoice(k) ==
    LET s == SnapshotOf(k)
        sorted == SetToSortSeq(RksOf(k),
                    LAMBDA a, b : s[a] < s[b] \/ (s[a] = s[b] /\ a < b))
    IN  SubSeq(sorted, 1, Least(DistributeAddsSize, Len(sorted)))

\* update_<table> / update_<table>_<mrv>: dispatch on the difference d.
\* rk_ is FLOOR(RANDOM() * (maxNodes + 1)): add_ looks its fragment up
\* when it runs, sub_'s cursor order is fixed when it opens.  s holds the
\* c of an absolute "SET v = c" the difference was computed for, g whether
\* the statement also changes a regular column of <table>_orig.
Update(p, k, d, h, s, g) ==
    /\ d > 0 => Total(k) + d <= MaxTotal
    /\ IF DistributeAddsAfter > 0 /\ d >= DistributeAddsAfter
       THEN Begin(p, "dadd", [key |-> k, arg |-> d, hint |-> 0, sel |-> DAddChoice(k), set |-> s, reg |-> g],
                  Ascending(Range(DAddChoice(k))))
       ELSE IF d > 0
       THEN Begin(p, "add", [key |-> k, arg |-> d, hint |-> h, sel |-> <<>>, set |-> s, reg |-> g], <<>>)
       ELSE Begin(p, "sub", [key |-> k, arg |-> -d, hint |-> 0, sel |-> <<>>, set |-> s, reg |-> g],
                  SubOrder(k, h))

\* Mutation: the skipped fragment is not fetched past.
SubSkipNoFetch(p) ==
    /\ pc[p] = "sub" /\ amt[p] > 0 /\ cursor[p] # <<>>
    /\ snap[p][Head(cursor[p])] <= 0
    /\ UNCHANGED vars

\* sub_, one iteration of the loop on a fragment the cursor saw as empty.
SubSkip(p) ==
    /\ pc[p] = "sub"
    /\ amt[p] > 0
    /\ cursor[p] # <<>>
    /\ snap[p][Head(cursor[p])] <= 0
    /\ cursor' = [cursor EXCEPT ![p] = Tail(@)]
    /\ UNCHANGED <<rows, val, owner, undo, pc, op, snap, amt, missed, ledger, present>>

\* Mutation: amount_ drops by node_v, without LEAST.
SubUpdateAmountUnclamped(p) ==
    LET k == op[p].key
        r == <<k, Head(cursor[p])>>
        nv == snap[p][Head(cursor[p])]
    IN  /\ pc[p] = "sub" /\ amt[p] > 0 /\ cursor[p] # <<>> /\ nv > 0 /\ Free(p, {r})
        /\ IF SerializationFailure(p, {r})
           THEN Rollback(p) /\ UNCHANGED rows
           ELSE /\ IF r \in rows THEN Write1(p, r, val[r] - Least(val[r], amt[p]))
                                 ELSE UNCHANGED <<val, undo, owner>>
                /\ amt' = [amt EXCEPT ![p] = @ - nv]
                /\ cursor' = [cursor EXCEPT ![p] = Tail(@)]
                /\ UNCHANGED <<rows, pc, op, snap, missed, ledger, present>>

\* sub_, one iteration on a fragment the cursor saw as node_v > 0: the
\* UPDATE takes LEAST(v, amount_) of the latest version (none if the row
\* was deleted meanwhile), amount_ drops by LEAST(node_v, amount_) of the
\* cursor's value.
SubUpdate(p) ==
    LET k == op[p].key
        rk == Head(cursor[p])
        r == <<k, rk>>
        nv == snap[p][rk]
    IN  /\ pc[p] = "sub"
        /\ amt[p] > 0
        /\ cursor[p] # <<>>
        /\ nv > 0
        /\ Free(p, {r})
        /\ IF SerializationFailure(p, {r})
           THEN Rollback(p) /\ UNCHANGED rows
           ELSE /\ IF r \in rows THEN Write1(p, r, val[r] - Least(val[r], amt[p]))
                                 ELSE UNCHANGED <<val, undo, owner>>
                /\ amt' = [amt EXCEPT ![p] = @ - Least(nv, @)]
                /\ cursor' = [cursor EXCEPT ![p] = Tail(@)]
                /\ UNCHANGED <<rows, pc, op, snap, missed, ledger, present>>

\* sub_ returns amount_ = 0; false makes the caller RAISE EXCEPTION.
SubEnd(p) ==
    LET k == op[p].key IN
    /\ pc[p] = "sub"
    /\ amt[p] = 0 \/ cursor[p] = <<>>
    /\ IF amt[p] = 0
       THEN /\ Succeed(p, DOMAIN undo[p], -op[p].arg)
            /\ UNCHANGED <<rows, val>>
       ELSE Rollback(p) /\ UNCHANGED rows

\* add_: one UPDATE of the target fragment, then commit.  With every
\* fragment deleted meanwhile it updates nothing (READ COMMITTED) or
\* fails to serialize (REPEATABLE READ).
AddStep(p) ==
    LET k == op[p].key
        r == <<k, AddTarget(k, op[p].hint)>>
    IN  /\ pc[p] = "add"
        /\ IF RksOf(k) = {}
           THEN IF Isolation = "REPEATABLE READ"
                THEN Rollback(p)
                ELSE Succeed(p, {}, 0) /\ UNCHANGED val
           ELSE /\ Free(p, {r})
                /\ IF SerializationFailure(p, {r})
                   THEN Rollback(p)
                   ELSE /\ val' = [val EXCEPT ![r] = @ + op[p].arg]
                        /\ Succeed(p, {r}, op[p].arg)
        /\ UNCHANGED rows

\* write_: PERFORM ... ORDER BY rk FOR UPDATE; the fragment the final
\* "LIMIT 1" subquery returns (heap order) is fixed by the table layout.
WriteStmt(p, k, v, rk0) ==
    Begin(p, "write", [key |-> k, arg |-> v, hint |-> rk0, sel |-> <<>>, set |-> {}, reg |-> FALSE],
          Ascending(RksOf(k)))

\* Row locks taken one at a time in the order of a cursor (write_'s
\* FOR UPDATE, the UPDATE ... rk = ANY(rks) of add_..._distributed, the
\* DELETE of delete_).  A row deleted meanwhile is skipped.
LockNext(p, kind) ==
    LET r == <<op[p].key, Head(cursor[p])>>
    IN  /\ pc[p] = kind
        /\ cursor[p] # <<>>
        /\ Free(p, {r})
        /\ IF SerializationFailure(p, {r})
           THEN Rollback(p)
           ELSE /\ owner' = IF r \in rows THEN [owner EXCEPT ![r] = p] ELSE owner
                /\ cursor' = [cursor EXCEPT ![p] = Tail(@)]
                /\ UNCHANGED <<val, undo, pc, op, snap, amt, missed, ledger, present>>
        /\ UNCHANGED rows

WriteLock(p) == LockNext(p, "write")

\* Mutation: the remainder UPDATE is left out.
WriteApplyNoRemainder(p) ==
    LET k == op[p].key
        per == IntDiv(op[p].arg, Cardinality(RowsOf(k)))
    IN  /\ pc[p] = "write" /\ cursor[p] = <<>>
        /\ val' = [r \in rows |-> IF r[1] = k THEN per ELSE val[r]]
        /\ Commit(p, RowsOf(k), [ledger EXCEPT ![k] = op[p].arg])
        /\ UNCHANGED rows

\* write_: count(*), every fragment of the key set to floor(new / count),
\* then the remainder added to "rk = (SELECT rk ... LIMIT 1)": the outer
\* UPDATE has no primary-key filter, so every key's fragment with that rk
\* gets it.  With no fragment left the division fails.
WriteApply(p) ==
    LET k == op[p].key
        v == op[p].arg
        n == Cardinality(RowsOf(k))
        per == IntDiv(v, n)
        rem == v - per * n
        targets == {r \in rows : r[2] = op[p].hint}
    IN  /\ pc[p] = "write"
        /\ cursor[p] = <<>>
        /\ Free(p, RowsOf(k) \cup targets)
        /\ IF n = 0 \/ SerializationFailure(p, RowsOf(k) \cup targets)
           THEN Rollback(p)
           ELSE /\ val' = [r \in rows |->
                             (IF r[1] = k THEN per ELSE val[r])
                             + (IF r \in targets THEN rem ELSE 0)]
                /\ Commit(p, RowsOf(k) \cup targets, LedgerSet(k, v))
        /\ UNCHANGED rows

DAddLock(p) == LockNext(p, "dadd")

\* add_..._distributed: delta = amount / size to every chosen fragment it
\* locked, the truncation remainder to rks[1] by a second UPDATE.
DAddApply(p) ==
    LET k == op[p].key
        a == op[p].arg
        sel == op[p].sel
        delta == a \div DistributeAddsSize
        extra == IF Len(sel) * delta < a THEN a - Len(sel) * delta ELSE 0
        chosen == {r \in rows : r[1] = k /\ r[2] \in Range(sel) /\ owner[r] = p}
        first == <<k, sel[1]>>
    IN  /\ pc[p] = "dadd"
        /\ cursor[p] = <<>>
        /\ Free(p, {first})
        /\ IF SerializationFailure(p, {first})
           THEN Rollback(p)
           ELSE /\ val' = [r \in rows |-> val[r] + (IF r \in chosen THEN delta ELSE 0)
                                                + (IF r = first THEN extra ELSE 0)]
                /\ Succeed(p, chosen \cup ({first} \cap rows), a)
        /\ UNCHANGED rows

\* Mutation: amount_ is not decremented by the fragments passed.
RECURSIVE GreaterThanNoDecrement(_, _)
GreaterThanNoDecrement(vs, a) ==
    IF vs = <<>> THEN FALSE
    ELSE IF Head(vs) > a THEN TRUE
    ELSE GreaterThanNoDecrement(Tail(vs), a)

\* greater_than: true as soon as one fragment exceeds what is left of amount_.
RECURSIVE GreaterThanScan(_, _)
GreaterThanScan(vs, a) ==
    IF vs = <<>> THEN FALSE
    ELSE IF Head(vs) > a THEN TRUE
    ELSE GreaterThanScan(Tail(vs), a - Head(vs))

\* greater_or_equal: the same loop with >=.
RECURSIVE GreaterOrEqualScan(_, _)
GreaterOrEqualScan(vs, a) ==
    IF vs = <<>> THEN FALSE
    ELSE IF Head(vs) >= a THEN TRUE
    ELSE GreaterOrEqualScan(Tail(vs), a - Head(vs))

\* mrv_size: the number of fragments of a row.
FragmentCount(k) == Cardinality(RowsOf(k))

\* insert_<table>: the _orig row, then one fragment holding the whole value
\* at rk = FLOOR(RANDOM() * (maxNodes + 1)).  An insert of a key another
\* session is inserting or deleting waits on the primary key, so the
\* function takes effect at once when the key is free, and fails otherwise.
Insert(p, k, v, rk) ==
    /\ pc[p] = "idle"
    /\ k \notin present
    /\ rows' = rows \cup {<<k, rk>>}
    /\ val' = [r \in rows' |-> IF r = <<k, rk>> THEN v ELSE val[r]]
    /\ owner' = [r \in DOMAIN owner \cup {<<k, rk>>, Orig(k)} |->
                  IF r \in {<<k, rk>>, Orig(k)} THEN NoProc ELSE owner[r]]
    /\ present' = present \cup {k}
    /\ ledger' = [ledger EXCEPT ![k] = v]
    /\ Publish(p, {<<k, rk>>, Orig(k)})
    /\ UNCHANGED <<undo, pc, op, snap, cursor, amt>>

\* delete_<table>, on a row the statement sees.
DeleteStmt(p, k) ==
    Begin(p, "delorig", [key |-> k, arg |-> 0, hint |-> 0, sel |-> <<>>, set |-> {}, reg |-> FALSE], <<>>)

\* DELETE FROM <table>_orig: lock the row, or under READ COMMITTED delete
\* nothing if the version the statement saw was deleted meanwhile (even if
\* the key was inserted again); then DELETE FROM <table>_<mrv> WHERE pk
\* scans the fragments with a fresh snapshot.  arg records whether the
\* _orig row was deleted.
DeleteOrig(p) ==
    LET k == op[p].key
        gone == Orig(k) \in missed[p]
    IN  /\ pc[p] = "delorig"
        /\ Free(p, {Orig(k)})
        /\ IF SerializationFailure(p, {Orig(k)})
           THEN Rollback(p)
           ELSE /\ owner' = IF gone THEN owner ELSE [owner EXCEPT ![Orig(k)] = p]
                /\ pc' = [pc EXCEPT ![p] = "delete"]
                /\ op' = [op EXCEPT ![p].arg = IF gone THEN 0 ELSE 1]
                /\ cursor' = [cursor EXCEPT ![p] = Ascending(RksOf(k))]
                /\ missed' = IF Isolation = "REPEATABLE READ" THEN missed
                             ELSE [missed EXCEPT ![p] = {}]
                /\ UNCHANGED <<val, undo, snap, amt, ledger, present>>
        /\ UNCHANGED rows

DeleteLock(p) == LockNext(p, "delete")

\* Mutation: only the _orig row is deleted.
DeleteOrigOnly(p) ==
    LET k == op[p].key
        origGone == IF op[p].arg = 1 THEN {Orig(k)} ELSE {}
    IN  /\ pc[p] = "delete"
        /\ cursor[p] = <<>>
        /\ owner' = [r \in DOMAIN owner \ origGone |-> IF owner[r] = p THEN NoProc ELSE owner[r]]
        /\ Finish(p)
        /\ Publish(p, origGone)
        /\ present' = present \ {r[1] : r \in origGone}
        /\ ledger' = IF op[p].arg = 1 THEN [ledger EXCEPT ![k] = 0] ELSE ledger
        /\ UNCHANGED <<rows, val>>

\* The deletes commit: the _orig row, if this session deleted it, and the
\* fragments the second DELETE locked disappear.
DeleteApply(p) ==
    LET k == op[p].key
        gone == {r \in RowsOf(k) : owner[r] = p}
        origGone == IF op[p].arg = 1 THEN {Orig(k)} ELSE {}
    IN  /\ pc[p] = "delete"
        /\ cursor[p] = <<>>
        /\ rows' = rows \ gone
        /\ val' = [r \in rows \ gone |-> val[r]]
        /\ owner' = [r \in DOMAIN owner \ (gone \cup origGone) |->
                       IF owner[r] = p THEN NoProc ELSE owner[r]]
        /\ Finish(p)
        /\ Publish(p, gone \cup origGone)
        /\ present' = present \ {r[1] : r \in origGone}
        /\ ledger' = IF op[p].arg = 1 THEN [ledger EXCEPT ![k] = 0] ELSE ledger

\* The update rule on an UPDATE of the view: OLD is the row the statement
\* snapshot shows (the committed sum of the fragments, no row lock: the
\* view is an aggregate), NEW the row with v = c, and update_<table>
\* dispatches on NEW.v - OLD.v, then updates a changed regular column.
\* OLD.v of a row with no fragments is SUM() over nothing, NULL: the
\* difference is NULL and no MRV branch runs.
SetStmt(p, k, c, h, g) ==
    IF RowsOf(k) # {} /\ c # Total(k)
    THEN Update(p, k, c - Total(k), h, {c}, g)
    ELSE /\ g
         /\ Begin(p, "orig", [key |-> k, arg |-> 0, hint |-> 0, sel |-> <<>>, set |-> {c}, reg |-> g], <<>>)

\* update_<table>: UPDATE <table>_orig SET col = col_new WHERE pk, on the
\* row lock of the _orig row, then commit.  A row deleted meanwhile is not
\* updated (READ COMMITTED) or fails to serialize (REPEATABLE READ); under
\* READ COMMITTED an updated _orig row is re-read, not reported as gone.
OrigUpdate(p) ==
    LET k == op[p].key
        o == {Orig(k)} \cap DOMAIN owner
    IN  /\ pc[p] = "orig"
        /\ Free(p, o)
        /\ IF SerializationFailure(p, o)
           THEN Rollback(p)
           ELSE /\ Commit(p, DOMAIN undo[p] \cup (IF Isolation = "REPEATABLE READ" THEN o ELSE {}),
                          LedgerSet(k, ledger[k] + op[p].arg))
                /\ UNCHANGED val
        /\ UNCHANGED rows

\* PostgreSQL's deadlock detector aborts one session of a wait-for cycle.
DeadlockAbort(p) ==
    /\ p \in Sessions
    /\ InWaitCycle(p)
    /\ Rollback(p)
    /\ UNCHANGED rows

-----------------------------------------------------------------------------

Init ==
    /\ ledger \in [Keys -> InitialValues]
    /\ \E c \in [Keys -> UNION {Conversions(k, ledger[k]) : k \in Keys}] :
         /\ \A k \in Keys : c[k] \in Conversions(k, ledger[k])
         /\ LET placed == UNION {Range(c[k]) : k \in Keys}
            IN  /\ rows = {x[1] : x \in placed}
                /\ val = [r \in rows |-> (CHOOSE x \in placed : x[1] = r)[2]]
    /\ owner = [r \in rows \cup {Orig(k) : k \in Keys} |-> NoProc]
    /\ undo = [p \in Procs |-> <<>>]
    /\ pc = [p \in Procs |-> "idle"]
    /\ op = [p \in Procs |-> NoOp]
    /\ snap = [p \in Procs |-> <<>>]
    /\ cursor = [p \in Procs |-> <<>>]
    /\ amt = [p \in Procs |-> 0]
    /\ missed = [p \in Procs |-> {}]
    /\ present = Keys

\* Steps of a running statement.
Step(p) ==
    \/ SubSkip(p) \/ SubUpdate(p) \/ SubEnd(p)
    \/ AddStep(p) \/ OrigUpdate(p)
    \/ WriteLock(p) \/ WriteApply(p)
    \/ DAddLock(p) \/ DAddApply(p)
    \/ DeleteOrig(p) \/ DeleteLock(p) \/ DeleteApply(p)

\* Statements clients issue.
\* The rules turn an UPDATE or DELETE of a row the statement sees into a
\* call of update_<table> or delete_<table>, an INSERT into insert_<table>.
Issue(p) ==
    \/ \E k \in present, d \in Deltas, h \in 0..MaxNodes : Update(p, k, d, h, {}, FALSE)
    \/ \E k \in present, c \in SetValues, h \in 0..MaxNodes, g \in RegularUpdates :
         SetStmt(p, k, c, h, g)
    \/ \E k \in present, v \in WriteValues : \E rk0 \in RksOf(k) : WriteStmt(p, k, v, rk0)
    \/ \E k \in Keys, v \in InsertValues, rk \in 0..MaxNodes : Insert(p, k, v, rk)
    \/ \E k \in DeleteKeys \cap present : DeleteStmt(p, k)

Next == \E p \in Procs : Issue(p) \/ Step(p) \/ DeadlockAbort(p)

\* Statements run to completion, lock waits are granted in queue order
\* (strong fairness) and the deadlock detector eventually runs.
Fairness == \A p \in Procs : SF_vars(Step(p)) /\ WF_vars(DeadlockAbort(p))

Spec == Init /\ [][Next]_vars /\ Fairness

-----------------------------------------------------------------------------

TypeOK ==
    /\ rows \subseteq Keys \X (0..MaxNodes)
    /\ val \in [rows -> Int]
    /\ owner \in [rows \cup Origs -> Procs \cup {NoProc}]
    /\ \A p \in Procs : DOMAIN undo[p] \subseteq rows
    /\ pc \in [Procs -> {"idle", "sub", "add", "write", "dadd", "orig", "delorig", "delete"}]
    /\ amt \in [Procs -> Nat]
    /\ missed \in [Procs -> SUBSET (Keys \X (OrigRk..MaxNodes))]
    /\ ledger \in [Keys -> Int]
    /\ present \subseteq Keys

\* Core contract: at every point, the committed fragments of each key add up
\* to the value the committed insert/add/sub/write/distributed-add/delete
\* calls imply (0 once deleted).
\* Broken by sub_ consuming amounts it read through a stale cursor, by a
\* rollback that misses a fragment, or by write_ touching another key.
Conservation == \A k \in Keys : Total(k) = ledger[k]

\* greater_than / greater_or_equal are read-only statements on a snapshot
\* of the committed fragments, returned in no particular order (no ORDER
\* BY).  Whenever one is issued, whatever the order, its early-exit answer
\* is what comparing the logical value with the amount answers.
ReadAgreesWithTotal ==
    \A k \in present, a \in ReadAmounts : \A order \in SetToSeqs(RksOf(k)) :
        LET vs == [i \in DOMAIN order |-> Committed(<<k, order[i]>>)]
        IN  /\ GreaterThanScan(vs, a) = (ledger[k] > a)
            /\ GreaterOrEqualScan(vs, a) = (ledger[k] >= a)

\* No set of sessions waits on each other's row locks in a cycle: the row
\* lock order is canonical across sub_, write_ and add_..._distributed.
NoWaitCycle == \A p \in Procs : ~InWaitCycle(p)

\* A row exists exactly when it has fragments: insert_ creates both, delete_
\* removes both, and no interleaving of the other functions with them
\* (skipped deleted fragments, re-inserted rows) leaves a row without
\* fragments, for which write_ would divide by zero, or fragments without
\* a row.
RowHasFragments == \A k \in Keys : (k \in present) = (FragmentCount(k) > 0)

\* Refinement: the committed totals behave as a plain integer column per
\* key.  Every commit inserts a row, deletes one, changes one row's total
\* by one whole add (plain or distributed) or subtract, never below zero,
\* or sets it to the written value; failed subtracts and aborts leave all
\* totals as they were.
\* The differences an absolute update may dispatch: concurrent adds each
\* checked against MaxTotal can take a total up to Procs times past it.
SetDiffs == {c - t : c \in SetValues, t \in -MaxTotal..(Cardinality(Procs) * MaxTotal)}

Counter == INSTANCE MRVCounter WITH
    value <- [k \in Keys |-> Total(k)],
    AddAmounts <- {d \in Deltas \cup SetDiffs : d > 0},
    SubAmounts <- {-d : d \in {d2 \in Deltas \cup SetDiffs : d2 < 0}}

ImplementsCounter == Counter!Spec

\* An absolute UPDATE of the view, "SET v = c", that commits leaves the row
\* holding c, as it would on a plain column: under REPEATABLE READ a
\* concurrent change committed after the statement's snapshot must make it
\* fail rather than be overwritten or added to.  update_<table> only sees
\* the difference c - OLD.v computed from that snapshot.
SetTakesEffect ==
    [][\A p \in Procs :
         (/\ pc[p] # "idle" /\ op[p].set # {}
          /\ pc'[p] = "idle" /\ ledger' # ledger)
         => \A c \in op[p].set : Total(op[p].key)' = c]_vars

\* Every statement a session starts eventually commits or rolls back.
StatementsComplete == \A p \in Procs : pc[p] # "idle" ~> pc[p] = "idle"

=============================================================================
