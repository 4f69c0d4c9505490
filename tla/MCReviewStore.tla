---------------------------- MODULE MCReviewStore ----------------------------
(* Model-checking instances of ReviewPages: browser tabs and API threads    *)
(* are interchangeable, rows are not ordered.                               *)
EXTENDS ReviewPages, TLC

Interchangeable == Permutations(Sessions) \cup Permutations(Handlers)
=============================================================================
