---------------------------- MODULE ConflictModel ----------------------------
(***************************************************************************)
(* conflict_prob_formula.py and conflict_prob_simulation.py: the abort    *)
(* rate of w clients each updating one of n records chosen uniformly,     *)
(* where only the first client on a record commits.                       *)
(*                                                                         *)
(* Both scripts sweep w over CLIENTS and n over RECORDS; the sweep is the *)
(* state machine here, and at each point the formula is compared, in      *)
(* exact integer arithmetic, with what the simulation estimates: the      *)
(* mean number of records hit (commits) over every way the w clients can  *)
(* choose.  All quantities are scaled by w * n^w to stay integral.        *)
(***************************************************************************)
EXTENDS Integers, FiniteSets, FiniteSetsExt, Functions

CONSTANTS
    Clients,       \* CLIENTS (a finite set of client counts)
    MaxRecords,    \* RECORDS = 1..MaxRecords
    IntBound,      \* largest integer the arithmetic may reach
    EnumBound      \* sweep points with n^w up to this are also enumerated

ASSUME Clients \subseteq Nat \ {0} /\ MaxRecords \in Nat \ {0}

VARIABLES w, n

vars == <<w, n>>

\* b^e <= bound, computed without ever exceeding bound.
RECURSIVE PowAtMost(_, _, _)
PowAtMost(b, e, bound) ==
    IF e = 0 THEN 1 <= bound
    ELSE b <= bound /\ (b = 0 \/ PowAtMost(b, e - 1, bound \div b))

\* Sweep points whose arithmetic, at most (w + 1) * n^(w+1), fits IntBound.
Fits(c, r) == PowAtMost(r, c + 1, IntBound \div (c + 1))

\* Mutation: n * (1 - 1/n) ** w loses its factor n.
FormulaMissingFactor(c, r) == c * r ^ c - (r ^ c - (r - 1) ^ c)

\* conflict_prob_formula.py: ar = (w - (n - n * (1 - 1/n) ** w)) / w, as
\* ar * w * n^w = w * n^w - (n^(w+1) - n * (n-1)^w).
FormulaAborts(c, r) == c * r ^ c - (r ^ (c + 1) - r * (r - 1) ^ c)

\* conflict_prob_simulation.py, one run: the records the bitmap marks.
Commits(draw) == Cardinality(Range(draw))

\* Number of the r^c draws after which exactly j records are marked:
\* the next client hits a marked record (j ways) or a new one (r - j + 1).
RECURSIVE Marked(_, _, _)
Marked(r, c, j) ==
    IF c = 0 THEN (IF j = 0 THEN 1 ELSE 0)
    ELSE IF j = 0 THEN 0
    ELSE Marked(r, c - 1, j) * j + Marked(r, c - 1, j - 1) * (r - j + 1)

\* ar = (w - mean(commits)) / w over all draws, as ar * w * n^w.
SimulatedAborts(c, r) ==
    c * r ^ c - LET RECURSIVE S(_)
                    S(j) == IF j = 0 THEN 0 ELSE j * Marked(r, c, j) + S(j - 1)
                IN  S(c)

\* The same sum taken over every draw explicitly (small points only).
EnumeratedAborts(c, r) ==
    c * r ^ c - MapThenSumSet(LAMBDA j : j * Cardinality({d \in [1..c -> 1..r] : Commits(d) = j}),
                              1..c)

Points == {<<c, r>> \in Clients \X (1..MaxRecords) : Fits(c, r)}

Init ==
    /\ w = CHOOSE c \in Clients : \A c2 \in Clients : c <= c2
    /\ n = 1

\* Mutation: the sweep runs one point past RECORDS.
NextRecordsPastEnd ==
    /\ n <= MaxRecords
    /\ Fits(w, n + 1)
    /\ n' = n + 1
    /\ UNCHANGED w

\* for n in RECORDS
NextRecords ==
    /\ n < MaxRecords
    /\ Fits(w, n + 1)
    /\ n' = n + 1
    /\ UNCHANGED w

\* for w in CLIENTS: the next client count, from n = 1 again.
NextClients ==
    /\ ~(n < MaxRecords /\ Fits(w, n + 1))
    /\ \E c \in Clients :
         /\ c > w
         /\ \A c2 \in Clients : c2 > w => c <= c2
         /\ w' = c
    /\ n' = 1

Next == NextRecords \/ NextClients

Spec == Init /\ [][Next]_vars

TypeOK == <<w, n>> \in Points

\* At every sweep point the analytical abort rate equals the one the Monte
\* Carlo simulation converges to (and, where n^w draws can be listed, the
\* one obtained by listing them): the formula the controller's goals rest
\* on is the birthday-collision expectation the simulation measures.
FormulaMatchesSimulation ==
    /\ FormulaAborts(w, n) = SimulatedAborts(w, n)
    /\ n ^ w <= EnumBound => FormulaAborts(w, n) = EnumeratedAborts(w, n)
=============================================================================
