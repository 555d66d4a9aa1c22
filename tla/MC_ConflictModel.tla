------------------------- MODULE MC_ConflictModel --------------------------
(* CLIENTS of both scripts; RECORDS cut where 32-bit arithmetic ends.    *)
EXTENDS ConflictModel

MCClients == {1, 2, 3, 4, 5, 6, 7, 8, 16}
=============================================================================
