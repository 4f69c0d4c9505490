------------------------------ MODULE JobStore ------------------------------
(***************************************************************************)
(* The `jobs` table of app/utils/db.py: the row of one job, and what each  *)
(* UPDATE of the persistence layer does to it.  Every operator below is    *)
(* one SQL statement, hence one transaction (get_connection commits once). *)
(*                                                                         *)
(* Text columns are abstracted to what the rest of the system tells apart: *)
(* report_path and excel_path to "set or NULL" (a job has one output       *)
(* directory, so the path itself never varies), error_message to where the *)
(* text came from, stage to the pipeline step it names.                    *)
(***************************************************************************)
EXTENDS Naturals, FiniteSets

CONSTANT Jobs      \* job ids (fresh uuids, one per submission)

Unfinished == {"PENDING", "RUNNING"}
Statuses   == Unfinished \cup {"COMPLETED", "FAILED"}
Intents    == {"Generate DD", "Explain"}
Errors     == {"none", "orphaned", "exception"}
Stages     == {"none", "starting", "parse", "structure", "chunk", "lineage",
               "model", "generate", "export", "complete", "failed"}

(* Every operator named Mut... in this project is a deliberately wrong form *)
(* of the definition that follows it; no specification uses one.  Replacing *)
(* the definition by it shows that a property can fail.                     *)

\* The row of `jobs`; status "absent" stands for "no such row".
Row == [status : Statuses \cup {"absent"}, intent : Intents, run : Nat,
        stage  : Stages, report : BOOLEAN, excel : BOOLEAN, error : Errors]

NoRow == [status |-> "absent", intent |-> "Explain", run |-> 0, stage |-> "none",
          report |-> FALSE, excel |-> FALSE, error |-> "none"]

Present(table) == {j \in Jobs : table[j].status # "absent"}

(* SELECT COALESCE(MAX(run_number), 0) + 1 FROM jobs: the one number that  *)
(* is 1 or follows a stored one, and exceeds them all.                     *)
MutNextRun(table) ==
    {n \in {1} \cup {table[j].run : j \in Present(table)} :
        \A j \in Present(table) : table[j].run <= n}

NextRun(table) ==
    {n \in {1} \cup {table[j].run + 1 : j \in Present(table)} :
        \A j \in Present(table) : table[j].run < n}

NewRow(intent, run) ==
    [NoRow EXCEPT !.status = "PENDING", !.intent = intent, !.run = run]

(* update_job_status: the paths are COALESCEd (a NULL argument keeps the   *)
(* stored one), error_message is not (a NULL argument erases it).          *)
MutUpdateStatus(row, status, report, excel, error) ==
    [row EXCEPT !.status = status, !.report = report, !.excel = excel, !.error = error]

UpdateStatus(row, status, report, excel, error) ==
    [row EXCEPT !.status = status,
                !.report = row.report \/ report,
                !.excel  = row.excel \/ excel,
                !.error  = error]

(* set_job_stage: the stage column only. *)
SetStage(row, stage) == [row EXCEPT !.stage = stage]

(* reconcile_orphaned_jobs: every unfinished row fails, an error message   *)
(* that is already there is kept.                                          *)
MutReconcile(table) ==
    [j \in Jobs |->
        IF table[j].status = "RUNNING"
        THEN [table[j] EXCEPT !.status = "FAILED", !.error = "orphaned"]
        ELSE table[j]]

Orphans(table) == {j \in Jobs : table[j].status \in Unfinished}

Reconcile(table) ==
    [j \in Jobs |->
        IF j \in Orphans(table)
        THEN [table[j] EXCEPT !.status = "FAILED",
                              !.error  = IF @ = "none" THEN "orphaned" ELSE @]
        ELSE table[j]]
=============================================================================
