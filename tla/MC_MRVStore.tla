---------------------------- MODULE MC_MRVStore -----------------------------
(* Model-checking instance of MRVStore: the constants of one benchmark    *)
(* model file, a handful of clients and small values.                     *)
EXTENDS MRVStore

\* Updates issued by clients: small adds, small subtracts.
MCDeltas == {-2, -1, 1, 2}

\* Subtracts only.
MCSubDeltas == {-2}

\* A negative value written through write_, and amounts around it.
MCNegativeWrites == {-1}
MCNegativeAmounts == {-1, 0}

ProcSymmetry == Permutations(Procs)
=============================================================================
