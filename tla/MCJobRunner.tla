---------------------------- MODULE MCJobRunner ----------------------------
(* JobRunner on two jobs.  The job ids are model values and interchangeable. *)
EXTENDS JobRunner, TLC

CONSTANTS j1, j2
TwoJobs  == {j1, j2}
Symmetry == Permutations(TwoJobs)
=============================================================================
