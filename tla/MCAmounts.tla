----------------------------- MODULE MCAmounts -----------------------------
(* StoredAmounts with quarters of the last place: amounts below, at and    *)
(* above the middle, whole ones, and two that Transaction.apply refuses.   *)
EXTENDS StoredAmounts

Quarters == {-1, 0, 1, 2, 3, 4, 6, 9}
=============================================================================
