----------------------------- MODULE ColumnPool -----------------------------
(***************************************************************************)
(* generate_dd_rows_for_chains: a pool of threads derives the columns, and *)
(* the calling thread waits for their rows in the order of the columns.    *)
(*                                                                         *)
(* The threads share nothing that they change, but each keeps a context    *)
(* from one column to the next: the notes about statements that folding    *)
(* left out (_FOLD_SKIP_NOTES).  pop_fold_skip_notes reads them and leaves *)
(* them in place; generate_ast replaces them, except for a column that has *)
(* nothing to fold.                                                        *)
(***************************************************************************)
EXTENDS Naturals, Sequences

CONSTANTS
    NumJobs,
    Shapes,
    MaxWorkers   \* dd_generation_max_workers

VARIABLES
    plan,       \* as in ColumnLoop
    next,       \* the first column that no thread has taken
    worker,     \* the column each thread derives, 0 when it has none
    context,    \* each thread's fold skip notes
    finished,   \* the rows of the columns' futures
    results     \* the rows the calling thread has waited for

vars == <<plan, next, worker, context, finished, results>>

ColumnJobs == 1..NumJobs

Columns == INSTANCE ColumnLoop

ASSUME PoolAssumption ==
    /\ NumJobs \in Nat
    /\ MaxWorkers \in Nat
    /\ Shapes \subseteq Columns!ShapeType

\* min(dd_generation_max_workers, len(jobs)), at least one.  One worker is the
\* calling thread itself, which runs the jobs one after the other.
Workers == {t \in 1..(MaxWorkers + 1) : t = 1 \/ (t <= MaxWorkers /\ t <= NumJobs)}

NoteType == ColumnJobs \X {"main", "handler"}

RowType == [job : ColumnJobs, failed : BOOLEAN, notes : SUBSET NoteType]

NoRow == [job |-> 0, failed |-> FALSE, notes |-> {}]

-----------------------------------------------------------------------------

Init ==
    /\ plan \in [ColumnJobs -> Shapes]
    /\ next = 1
    /\ worker = [t \in Workers |-> 0]
    /\ context = [t \in Workers |-> {}]
    /\ finished = [j \in ColumnJobs |-> NoRow]
    /\ results = <<>>

\* The pool's queue hands the columns out in order.
Take(t) ==
    /\ worker[t] = 0
    /\ next \in ColumnJobs
    /\ worker' = [worker EXCEPT ![t] = next]
    /\ next' = next + 1
    /\ UNCHANGED <<plan, context, finished, results>>

\* The notes a thread holds once column j has been derived in context c: those
\* of the last part whose folding began.
ContextAfter(j, c) ==
    IF plan[j].writes = "nothing" \/ plan[j].raises = "early" THEN c
    ELSE Columns!NotesOf(j, IF plan[j].writes = "both" /\ plan[j].raises # "midway"
                              THEN "handler" ELSE "main")

\* Mutant: the notes are fetched after the handler has been folded.
MutNotesRead(j, c) == IF plan[j].writes = "both" THEN Columns!NotesOf(j, "handler")
                      ELSE IF plan[j].writes = "main" THEN Columns!NotesOf(j, "main")
                      ELSE c

\* The notes are fetched before the handler is folded.
NotesRead(j, c) == IF plan[j].writes = "nothing" THEN c ELSE Columns!NotesOf(j, "main")

\* Mutant: a derivation that raises leaves its future without a row.
MutDerived(j, c) ==
    IF plan[j].raises = "never"
      THEN [job |-> j, failed |-> FALSE, notes |-> NotesRead(j, c)]
      ELSE NoRow

Derived(j, c) ==
    IF plan[j].raises = "never"
      THEN [job |-> j, failed |-> FALSE, notes |-> NotesRead(j, c)]
      ELSE Columns!FailedRow(j)

\* Mutant: the notes are a variable of the module, one for all threads.
MutRunJob(t) ==
    /\ worker[t] # 0
    /\ finished' = [finished EXCEPT ![worker[t]] = Derived(worker[t], context[t])]
    /\ context' = [u \in Workers |-> ContextAfter(worker[t], context[t])]
    /\ worker' = [worker EXCEPT ![t] = 0]
    /\ UNCHANGED <<plan, next, results>>

\* _run_column_job, which catches whatever _derive_column raises.
RunJob(t) ==
    /\ worker[t] # 0
    /\ finished' = [finished EXCEPT ![worker[t]] = Derived(worker[t], context[t])]
    /\ context' = [context EXCEPT ![t] = ContextAfter(worker[t], context[t])]
    /\ worker' = [worker EXCEPT ![t] = 0]
    /\ UNCHANGED <<plan, next, results>>

\* for fut in futures: results.extend(fut.result()).
Collect ==
    /\ Len(results) < NumJobs
    /\ finished[Len(results) + 1] # NoRow
    /\ results' = Append(results, finished[Len(results) + 1])
    /\ UNCHANGED <<plan, next, worker, context, finished>>

Next == Collect \/ \E t \in Workers : Take(t) \/ RunJob(t)

Spec == Init /\ [][Next]_vars

\* Threads that have work are scheduled, and so is the thread that waits.
FairSpec == Spec /\ WF_vars(Collect) /\ \A t \in Workers : WF_vars(Take(t) \/ RunJob(t))

-----------------------------------------------------------------------------

(* Types. *)
TypeOK ==
    /\ plan \in [ColumnJobs -> Shapes]
    /\ next \in 1..(NumJobs + 1)
    /\ worker \in [Workers -> 0..NumJobs]
    /\ context \in [Workers -> SUBSET NoteType]
    /\ finished \in [ColumnJobs -> RowType \cup {NoRow}]
    /\ results \in Seq(RowType)
    /\ Len(results) <= NumJobs

\* A row without the notes that a column with nothing to fold found in its
\* thread's context.
Disowned(row) ==
    [job |-> row.job, failed |-> row.failed,
     notes |-> IF plan[row.job].writes = "nothing" THEN {} ELSE row.notes]

\* The pool implements the loop over columns that are on their own, but for
\* the notes of columns with nothing to fold: whatever the threads do, row i is
\* column i's, it failed only if its own derivation raised, and a column with
\* statements to fold has the notes of its main path and no others.
Loop == INSTANCE ColumnLoop
          WITH results <- [i \in 1..Len(results) |-> Disowned(results[i])]

RowsOfColumns == Loop!Spec

\* A note never comes from a column that was submitted later, nor do the notes
\* of one row come from two columns.
NotesAreInherited ==
    \A j \in ColumnJobs : \A n, m \in finished[j].notes : n[1] <= j /\ n[1] = m[1]

\* Every column gets a row, also when its derivation raises
\* ("never crash the whole job").
EveryColumnReturns == <>(Len(results) = NumJobs)
=============================================================================
