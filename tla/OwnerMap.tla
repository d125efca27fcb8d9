------------------------------ MODULE OwnerMap ------------------------------
(***************************************************************************)
(* What a delegation map promises: an owner for every key, changed one     *)
(* range at a time (delegation_map_t.rs).                                  *)
(***************************************************************************)
EXTENDS KeyRanges

CONSTANTS ID, Root

VARIABLE m      \* m[k]: the owner of k

Init == m = [k \in Key |-> Root]

Update(lo, hi, host) == m' = SetRange(m, lo, hi, host)

Next == \E lo, hi \in KeyIterator, host \in ID : Update(lo, hi, host)

Spec == Init /\ [][Next]_m
=============================================================================
