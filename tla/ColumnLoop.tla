----------------------------- MODULE ColumnLoop -----------------------------
(***************************************************************************)
(* What the generation of DD rows promises: one row for each written       *)
(* column, in the order of the columns, each from its own statements - the *)
(* loop of generate_dd_rows_for_chains, were every column on its own.      *)
(***************************************************************************)
EXTENDS Naturals, Sequences

CONSTANTS
    NumJobs,   \* columns to derive, in the order _build_column_jobs lists them
    Shapes     \* the shapes that columns have

\* What of a column's statements matters here: whether any is folded (a column
\* of INSERT ... VALUES has none) and whether a CATCH handler is folded after
\* the main path; the parts whose folding leaves a statement out, with a note;
\* and where the derivation raises.
ShapeType == [writes  : {"nothing", "main", "both"},
              skipped : SUBSET {"main", "handler"},
              raises  : {"never", "early", "midway", "late"}]

VARIABLES
    plan,      \* the shape of each column
    results    \* the rows returned so far, in order

ColumnJobs == 1..NumJobs

\* The note that folding part p of column j leaves, if it skips a statement.
NotesOf(j, p) == IF p \in plan[j].skipped THEN {<<j, p>>} ELSE {}

\* _run_column_job: a derivation that raises still gives a row, with an error
\* and without a formula.
FailedRow(j) == [job |-> j, failed |-> TRUE, notes |-> {}]

OwnRow(j) ==
    IF plan[j].raises # "never" THEN FailedRow(j)
    ELSE [job    |-> j,
          failed |-> FALSE,
          notes  |-> IF plan[j].writes = "nothing" THEN {} ELSE NotesOf(j, "main")]

Init == plan \in [ColumnJobs -> Shapes] /\ results = <<>>

Return == /\ Len(results) < NumJobs
          /\ results' = Append(results, OwnRow(Len(results) + 1))
          /\ UNCHANGED plan

Spec == Init /\ [][Return]_<<plan, results>>
=============================================================================
