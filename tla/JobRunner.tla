------------------------------ MODULE JobRunner ------------------------------
(***************************************************************************)
(* One API process running jobs: submit_job and the background task        *)
(* _execute_job of app/api/routes.py, the pipeline nodes of                *)
(* app/orchestration/pipeline.py that write the database or the output     *)
(* directory, and the start-up of app/main.py.                             *)
(*                                                                         *)
(* Submissions and tasks are threads of the API process; each step below   *)
(* is one transaction on the SQLite file or one group of files, and the    *)
(* threads interleave between them.  The process may be killed between any *)
(* two steps, which loses every thread and keeps the database and the      *)
(* files.  A node may raise wherever it runs; a database call may fail     *)
(* ("database is locked" after 30 s), also where no handler catches it.    *)
(***************************************************************************)
EXTENDS JobStore

CONSTANTS
    MaxRows,         \* most DD rows a job generates           (bound)
    MaxCrashes,      \* times the API process is killed         (bound)
    MaxExtraStarts,  \* API starts while one is already running (bound)
    MaxTaskDeaths    \* database errors outside the try block   (bound)

ASSUME BoundsAssumption ==
    /\ MaxRows \in Nat
    /\ MaxCrashes \in Nat
    /\ MaxExtraStarts \in Nat
    /\ MaxTaskDeaths \in Nat

VARIABLES
    table,    \* the jobs table                                   (durable)
    rows,     \* per job: its dd_rows, how many and how many are
              \* PENDING_REVIEW                                   (durable)
    disk,     \* per job: the artifacts in its output directory   (durable)
    up,       \* is the API process running?
    submit,   \* per job: the thread inside submit_job            (memory)
    task,     \* per job: where its background task is            (memory)
    budget,   \* crashes, extra starts and task deaths so far
    seen,     \* history: statuses the job itself has been through
    earlier   \* history: the jobs in the table when this one's
              \* run number was chosen

durable    == <<table, rows, disk>>
memory     == <<submit, task>>
history    == <<seen, earlier>>
runnerVars == <<table, rows, disk, up, submit, task, budget, seen, earlier>>

Artifacts == {"report", "qa", "csv", "xlsx", "reviewed"}

\* Where a background task can be: about to do the step it is named after.
Nodes     == {"parse", "structure", "chunk", "lineage", "model"}
Exporting == {"export", "render", "coverage", "sheets", "complete"}
InTry     == Nodes \cup {"route", "persist"} \cup Exporting \cup {"wrapup", "closing"}
Outside   == {"queued", "marked", "failing", "failnote"}
TaskPcs   == {"none"} \cup InTry \cup Outside

\* Every variable holds a row, a count, a file set or a program point of the
\* kind the code stores there.
TypeOK ==
    /\ table   \in [Jobs -> Row]
    /\ rows    \in [Jobs -> [total : Nat, pending : Nat]]
    /\ disk    \in [Jobs -> SUBSET Artifacts]
    /\ up      \in BOOLEAN
    /\ submit  \in [Jobs -> [pc : {"idle", "numbered", "inserted"}, run : Nat]]
    /\ task    \in [Jobs -> TaskPcs]
    /\ budget  \in [crashes : Nat, starts : Nat, deaths : Nat]
    /\ seen    \in [Jobs -> SUBSET Statuses]
    /\ earlier \in [Jobs -> SUBSET Jobs]

Idle == [pc |-> "idle", run |-> 0]

\* init_db on an empty file; the API has not been started.
RunnerInit ==
    /\ table   = [j \in Jobs |-> NoRow]
    /\ rows    = [j \in Jobs |-> [total |-> 0, pending |-> 0]]
    /\ disk    = [j \in Jobs |-> {}]
    /\ up      = FALSE
    /\ submit  = [j \in Jobs |-> Idle]
    /\ task    = [j \in Jobs |-> "none"]
    /\ budget  = [crashes |-> 0, starts |-> 0, deaths |-> 0]
    /\ seen    = [j \in Jobs |-> {}]
    /\ earlier = [j \in Jobs |-> {}]

-----------------------------------------------------------------------------
(* POST /jobs.  Requests the guardrails refuse change nothing and are left *)
(* out.  record_job reads MAX(run_number) before sqlite3 opens its write   *)
(* transaction, so the number may be stale when the INSERT runs.           *)

MutSubmitNumber(j) ==
    /\ up /\ submit[j].pc = "idle" /\ task[j] = "none" /\ table[j].status = "absent"
    /\ \E run \in NextRun(table) :
          submit' = [submit EXCEPT ![j] = [pc |-> "numbered", run |-> run]]
    /\ earlier' = [earlier EXCEPT ![j] = Present(table)]
    /\ table'   = Reconcile(table)
    /\ UNCHANGED <<rows, disk, up, task, budget, seen>>

SubmitNumber(j) ==
    /\ up
    /\ submit[j].pc = "idle"
    /\ task[j] = "none"
    /\ table[j].status = "absent"
    /\ \E run \in NextRun(table) :
          submit' = [submit EXCEPT ![j] = [pc |-> "numbered", run |-> run]]
    /\ earlier' = [earlier EXCEPT ![j] = Present(table)]
    /\ UNCHANGED <<durable, up, task, budget, seen>>

SubmitInsert(j) ==
    /\ submit[j].pc = "numbered"
    /\ \E intent \in Intents :
          table' = [table EXCEPT ![j] = NewRow(intent, submit[j].run)]
    /\ seen'   = [seen EXCEPT ![j] = @ \cup {"PENDING"}]
    /\ submit' = [submit EXCEPT ![j].pc = "inserted"]
    /\ UNCHANGED <<rows, disk, up, task, budget, earlier>>

\* The INSERT fails and the request answers 500: nothing was stored.
SubmitFails(j) ==
    /\ submit[j].pc = "numbered"
    /\ submit' = [submit EXCEPT ![j] = Idle]
    /\ UNCHANGED <<durable, up, task, budget, history>>

(* The response leaves and the background task is handed to the pool. *)
SubmitQueue(j) ==
    /\ submit[j].pc = "inserted"
    /\ submit' = [submit EXCEPT ![j] = Idle]
    /\ task'   = [task EXCEPT ![j] = "queued"]
    /\ UNCHANGED <<durable, up, budget, history>>

-----------------------------------------------------------------------------
(* The background task.  Step(j, from, to): the thread of job j moves on.  *)

Step(j, from, to) ==
    /\ task[j] = from
    /\ task' = [task EXCEPT ![j] = to]

\* A write of the status column on the job's own behalf.
WriteStatus(j, status, report, excel, error) ==
    /\ table' = [table EXCEPT ![j] = UpdateStatus(table[j], status, report, excel, error)]
    /\ seen'  = [seen EXCEPT ![j] = @ \cup {status}]

WriteStage(j, stage) == table' = [table EXCEPT ![j] = SetStage(table[j], stage)]

MarkRunning(j) ==
    /\ Step(j, "queued", "marked")
    /\ WriteStatus(j, "RUNNING", FALSE, FALSE, "none")
    /\ UNCHANGED <<rows, disk, up, submit, budget, earlier>>

MarkStarting(j) ==
    /\ Step(j, "marked", "parse")
    /\ WriteStage(j, "starting")
    /\ UNCHANGED <<rows, disk, up, submit, budget, history>>

\* START -> split_and_parse -> ... -> canonical_models -> the conditional edge.
Following == [parse |-> "structure", structure |-> "chunk", chunk |-> "lineage",
              lineage |-> "model", model |-> "route"]

(* A node that only reads and computes: its stage is its one state change. *)
RunNode(j) ==
    /\ task[j] \in Nodes
    /\ WriteStage(j, task[j])
    /\ task' = [task EXCEPT ![j] = Following[task[j]]]
    /\ UNCHANGED <<rows, disk, up, submit, budget, history>>

\* JobPlan.requires_dd_generation, as the conditional edge reads it.
RequiresDD(j) == table[j].intent = "Generate DD"

EnterGenerate(j) ==
    /\ RequiresDD(j)
    /\ Step(j, "route", "persist")
    /\ WriteStage(j, "generate")
    /\ UNCHANGED <<rows, disk, up, submit, budget, history>>

SkipGenerate(j) ==
    /\ ~RequiresDD(j)
    /\ Step(j, "route", "export")
    /\ UNCHANGED <<durable, up, submit, budget, history>>

(* record_dd_rows_bulk: every row in one transaction, none if there is none. *)
PersistRows(j) ==
    /\ Step(j, "persist", "export")
    /\ \E total \in 0..MaxRows : \E pending \in 0..total :
          rows' = [rows EXCEPT ![j] = [total |-> total, pending |-> pending]]
    /\ UNCHANGED <<table, disk, up, submit, budget, history>>

EnterExport(j) ==
    /\ Step(j, "export", "render")
    /\ WriteStage(j, "export")
    /\ UNCHANGED <<rows, disk, up, submit, budget, history>>

\* completeness.json, dd_rows.json, source/ and report.md.
WriteReport(j) ==
    /\ Step(j, "render", "coverage")
    /\ disk' = [disk EXCEPT ![j] = @ \cup {"report"}]
    /\ UNCHANGED <<table, rows, up, submit, budget, history>>

\* source workflow and qa_coverage_report.md.
WriteCoverage(j) ==
    /\ Step(j, "coverage", "sheets")
    /\ disk' = [disk EXCEPT ![j] = @ \cup {"qa"}]
    /\ UNCHANGED <<table, rows, up, submit, budget, history>>

HasRows(j) == rows[j].total > 0

MutWriteSheets(j) ==
    /\ Step(j, "sheets", "complete")
    /\ UNCHANGED <<durable, up, submit, budget, history>>

\* dd_export.csv and dd_export.xlsx, only when there are rows.
WriteSheets(j) ==
    /\ Step(j, "sheets", "complete")
    /\ disk' = [disk EXCEPT ![j] = @ \cup (IF HasRows(j) THEN {"csv", "xlsx"} ELSE {})]
    /\ UNCHANGED <<table, rows, up, submit, budget, history>>

\* The node's own COMPLETED, with the paths.
CompleteNode(j) ==
    /\ Step(j, "complete", "wrapup")
    /\ WriteStatus(j, "COMPLETED", TRUE, HasRows(j), "none")
    /\ UNCHANGED <<rows, disk, up, submit, budget, earlier>>

\* _execute_job writes COMPLETED again once invoke() returned ...
WrapUp(j) ==
    /\ Step(j, "wrapup", "closing")
    /\ WriteStatus(j, "COMPLETED", TRUE, HasRows(j), "none")
    /\ UNCHANGED <<rows, disk, up, submit, budget, earlier>>

\* ... and the last stage.
CloseTask(j) ==
    /\ Step(j, "closing", "none")
    /\ WriteStage(j, "complete")
    /\ UNCHANGED <<rows, disk, up, submit, budget, history>>

(* Anything inside the try block may raise, before or after its own step. *)
Raise(j) ==
    /\ task[j] \in InTry
    /\ task' = [task EXCEPT ![j] = "failing"]
    /\ UNCHANGED <<durable, up, submit, budget, history>>

MutSwallow(j) ==
    /\ Step(j, "failing", "none")
    /\ UNCHANGED <<durable, up, submit, budget, history>>

MarkFailed(j) ==
    /\ Step(j, "failing", "failnote")
    /\ WriteStatus(j, "FAILED", FALSE, FALSE, "exception")
    /\ UNCHANGED <<rows, disk, up, submit, budget, earlier>>

MarkFailedStage(j) ==
    /\ Step(j, "failnote", "none")
    /\ WriteStage(j, "failed")
    /\ UNCHANGED <<rows, disk, up, submit, budget, history>>

(* A database call before the try block, or inside the except block, fails: *)
(* nobody catches it and the thread ends with the row as it stands.         *)
TaskDies(j) ==
    /\ task[j] \in Outside
    /\ budget.deaths < MaxTaskDeaths
    /\ task'   = [task EXCEPT ![j] = "none"]
    /\ budget' = [budget EXCEPT !.deaths = @ + 1]
    /\ UNCHANGED <<durable, up, submit, history>>

-----------------------------------------------------------------------------
(* The process. *)

\* app.main.lifespan: reconcile whatever the table shows as unfinished.
ReconcileAll ==
    /\ table' = Reconcile(table)
    /\ seen'  = [j \in Jobs |-> IF j \in Orphans(table) THEN seen[j] \cup {"FAILED"}
                                ELSE seen[j]]

ApiStart ==
    /\ ~up
    /\ up' = TRUE
    /\ ReconcileAll
    /\ UNCHANGED <<rows, disk, submit, task, budget, earlier>>

(* A second API process on the same database while this one is alive:      *)
(* ensure_local_api starts one when /health does not answer within 1.5 s.  *)
(* Its lifespan runs before it finds the port taken and exits.             *)
ExtraApiStart ==
    /\ up
    /\ budget.starts < MaxExtraStarts
    /\ budget' = [budget EXCEPT !.starts = @ + 1]
    /\ ReconcileAll
    /\ UNCHANGED <<rows, disk, up, submit, task, earlier>>

Crash ==
    /\ up
    /\ budget.crashes < MaxCrashes
    /\ up'     = FALSE
    /\ budget' = [budget EXCEPT !.crashes = @ + 1]
    /\ submit' = [j \in Jobs |-> Idle]
    /\ task'   = [j \in Jobs |-> "none"]
    /\ UNCHANGED <<durable, history>>

-----------------------------------------------------------------------------
SubmitStep(j) == SubmitNumber(j) \/ SubmitInsert(j) \/ SubmitFails(j) \/ SubmitQueue(j)

TaskWork(j) ==
    \/ MarkRunning(j) \/ MarkStarting(j) \/ RunNode(j)
    \/ EnterGenerate(j) \/ SkipGenerate(j) \/ PersistRows(j)
    \/ EnterExport(j) \/ WriteReport(j) \/ WriteCoverage(j) \/ WriteSheets(j)
    \/ CompleteNode(j) \/ WrapUp(j) \/ CloseTask(j)
    \/ MarkFailed(j) \/ MarkFailedStage(j)

RunnerNext ==
    \/ \E j \in Jobs : SubmitStep(j) \/ TaskWork(j) \/ Raise(j) \/ TaskDies(j)
    \/ ApiStart \/ ExtraApiStart \/ Crash

RunnerSpec == RunnerInit /\ [][RunnerNext]_runnerVars

-----------------------------------------------------------------------------
(* Properties. *)

\* What "artifacts were written" (README.md:418) comes to for one job.
Published(j) ==
    /\ table[j].report
    /\ {"report", "qa"} \subseteq disk[j]
    /\ HasRows(j) => table[j].excel /\ {"csv", "xlsx"} \subseteq disk[j]

\* "a COMPLETED job means artifacts were written": whoever wrote COMPLETED
\* last, the job's rows, report, QA report and sheets are all in place, so
\* /report never answers a COMPLETED job with 404.
CompletedMeansArtifacts ==
    \A j \in Jobs : table[j].status = "COMPLETED" => Published(j)

\* Why it holds: the history knows every status the row ever shows, COMPLETED
\* enters it only after the last file, and no task works on a job that has it.
AfterReport == {"coverage", "sheets", "complete", "wrapup", "closing"}
AfterQa     == AfterReport \ {"coverage"}
AfterSheets == AfterQa \ {"sheets"}
Done        == {"wrapup", "closing", "failing", "failnote", "none"}

FilesInOrder(j) ==
    /\ task[j] \in AfterReport => "report" \in disk[j]
    /\ task[j] \in AfterQa     => "qa" \in disk[j]
    /\ task[j] \in AfterSheets /\ HasRows(j) => {"csv", "xlsx"} \subseteq disk[j]

Completion(j) ==
    /\ table[j].status \in seen[j] \cup {"absent"}
    /\ table[j].status = "absent" => seen[j] = {}
    /\ submit[j].pc = "numbered" => table[j].status = "absent"
    /\ submit[j].pc # "idle" => task[j] = "none" /\ "COMPLETED" \notin seen[j]
    /\ "COMPLETED" \in seen[j] => Published(j) /\ task[j] \in Done

RunnerInv == TypeOK /\ \A j \in Jobs : FilesInOrder(j) /\ Completion(j)

\* What a job has published stays published: no later status update, failure,
\* restart or reviewed download takes a path or a file away again.
NeverWithdrawn ==
    [][\A j \in Jobs : Published(j) => Published(j)']_runnerVars

\* Run numbers respect real time: a job that was in the table when another
\* one was numbered has the smaller number, so the newest folder sorts last.
RunNumbersFollowCreation ==
    \A j \in Present(table) : \A k \in earlier[j] : table[k].run < table[j].run

\* reconcile_orphaned_jobs fails jobs "from a previous process" (db.py:133):
\* a status turns FAILED only by the job's own task, or when it has none.  This
\* holds as long as no second API process starts beside a running one.
RestartFailsOrphans ==
    [][budget'.starts = budget.starts =>
         \A j \in Jobs :
           table[j].status \in Unfinished /\ table'[j].status = "FAILED"
           => task[j] \in {"none", "failing"}]_runnerVars

\* The jobs table keeps the promises of JobContract to its readers: crashes,
\* restarts and extra starts included, and, in ApiService, stale write-backs.
Contract == INSTANCE JobContract WITH
    shown     <- [j \in Jobs |-> table[j].status],
    been      <- seen,
    published <- {j \in Jobs : Published(j)}

BoardKept == Contract!Board

\* Once the process stays up, every accepted job reaches a final status.  The
\* fairness it needs is stated in ApiService.
Settles ==
    <>[]up => \A j \in Jobs :
        table[j].status \in Unfinished ~> table[j].status \in {"COMPLETED", "FAILED"}
=============================================================================
