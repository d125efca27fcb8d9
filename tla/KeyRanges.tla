----------------------------- MODULE KeyRanges -----------------------------
(***************************************************************************)
(* Keys, ranges of keys, and the owners of keys as total functions         *)
(* (AbstractDelegationMap). Keys are ordered and there is a first one:     *)
(* they are 0 .. Keys - 1. A key iterator is a key, or Keys for the end.   *)
(***************************************************************************)
EXTENDS Integers

CONSTANT Keys   \* how many keys there are

ASSUME KeysAssumption == Keys \in Nat \ {0}

Key == 0 .. Keys - 1
KeyIterator == 0 .. Keys

\* A range is the interval from lo, up to but not including hi.
Between(lo, k, hi) == lo <= k /\ k < hi

SetRange(map, lo, hi, host) == [k \in Key |-> IF Between(lo, k, hi) THEN host ELSE map[k]]

\* Bug: only the first key of the range is looked up.
DelegateForFirstIs(map, lo, hi, host) == lo < hi => map[lo] = host

DelegateForRangeIs(map, lo, hi, host) == \A k \in Key : Between(lo, k, hi) => map[k] = host
=============================================================================
