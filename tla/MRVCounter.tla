----------------------------- MODULE MRVCounter -----------------------------
(***************************************************************************)
(* What an MRV column promises its users: it behaves as one integer       *)
(* column of a table.  Each committed statement inserts a row, deletes    *)
(* one, or changes one row's value by one whole operation: an add, a      *)
(* subtract that never takes the value below zero, or a write of a new    *)
(* value.  A row that does not exist holds 0.                             *)
(***************************************************************************)
EXTENDS Integers

CONSTANTS Keys, AddAmounts, SubAmounts, WriteValues, InsertValues

VARIABLES value, present

vars == <<value, present>>

Init == value \in [Keys -> Int] /\ present = Keys

Insert(k, v) ==
    /\ k \notin present
    /\ present' = present \cup {k}
    /\ value' = [value EXCEPT ![k] = v]

Delete(k) ==
    /\ k \in present
    /\ present' = present \ {k}
    /\ value' = [value EXCEPT ![k] = 0]

Add(k, d) == value' = [value EXCEPT ![k] = @ + d]

Sub(k, d) == value[k] >= d /\ value' = [value EXCEPT ![k] = @ - d]

Write(k, v) == value' = [value EXCEPT ![k] = v]

Next ==
    \/ \E k \in Keys \ present, v \in InsertValues : Insert(k, v)
    \/ \E k \in present : Delete(k)
    \/ \E k \in present :
         /\ \/ \E d \in AddAmounts : Add(k, d)
            \/ \E d \in SubAmounts : Sub(k, d)
            \/ \E v \in WriteValues : Write(k, v)
         /\ UNCHANGED present

Spec == Init /\ [][Next]_vars
====
