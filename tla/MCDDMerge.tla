------------------------------ MODULE MCDDMerge ------------------------------
(* Model-checking instances of DDMerge.  In the calendar 15-01-2026 comes   *)
(* before 01-03-2026, as text after it; 20-03-2026 comes last in both.      *)
EXTENDS DDMerge, TLC

CONSTANTS jan15, mar01, mar20

March == {jan15, mar01, mar20}

Sequence == (jan15 :> 1) @@ (mar01 :> 2) @@ (mar20 :> 3)

Written == (jan15 :> 2) @@ (mar01 :> 1) @@ (mar20 :> 3)

Interchangeable == Permutations(Columns) \cup Permutations(Contents)
=============================================================================
