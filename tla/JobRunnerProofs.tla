-------------------------- MODULE JobRunnerProofs --------------------------
(***************************************************************************)
(* Theorems about JobRunner, for any set of jobs and any bounds.           *)
(***************************************************************************)
EXTENDS JobRunner, TLAPS

\* A run number is chosen among the natural numbers.
LEMMA NextRunIsNat ==
    ASSUME NEW t \in [Jobs -> Row]
    PROVE  NextRun(t) \subseteq Nat
BY DEF NextRun, Present, Row

\* Each statement of the persistence layer maps a row to a row.
LEMMA StoreTypes ==
    /\ NoRow \in Row
    /\ \A intent \in Intents, run \in Nat : NewRow(intent, run) \in Row
    /\ \A row \in Row, status \in Statuses, report \in BOOLEAN, excel \in BOOLEAN,
          error \in Errors : UpdateStatus(row, status, report, excel, error) \in Row
    /\ \A row \in Row, stage \in Stages : SetStage(row, stage) \in Row
    /\ \A t \in [Jobs -> Row] : Reconcile(t) \in [Jobs -> Row]
<1>1. NoRow \in Row
  BY DEF NoRow, Row, Statuses, Unfinished, Intents, Errors, Stages
<1>2. \A intent \in Intents, run \in Nat : NewRow(intent, run) \in Row
  BY <1>1 DEF NewRow, NoRow, Row, Statuses, Unfinished, Errors, Stages
<1>3. \A row \in Row, status \in Statuses, report \in BOOLEAN, excel \in BOOLEAN,
         error \in Errors : UpdateStatus(row, status, report, excel, error) \in Row
  <2> SUFFICES ASSUME NEW row \in Row, NEW status \in Statuses, NEW report \in BOOLEAN,
                      NEW excel \in BOOLEAN, NEW error \in Errors
               PROVE  UpdateStatus(row, status, report, excel, error) \in Row
    OBVIOUS
  <2> DEFINE newReport == row.report \/ report
             newExcel  == row.excel \/ excel
  <2>1. newReport \in BOOLEAN /\ newExcel \in BOOLEAN
    OBVIOUS
  <2>2. UpdateStatus(row, status, report, excel, error) =
           [row EXCEPT !.status = status, !.report = newReport,
                       !.excel = newExcel, !.error = error]
    BY DEF UpdateStatus
  <2> HIDE DEF newReport, newExcel
  <2> QED
    BY <2>1, <2>2 DEF Row
<1>4. \A row \in Row, stage \in Stages : SetStage(row, stage) \in Row
  BY DEF SetStage, Row
<1>5. \A t \in [Jobs -> Row] : Reconcile(t) \in [Jobs -> Row]
  <2> SUFFICES ASSUME NEW t \in [Jobs -> Row], NEW j \in Jobs
               PROVE  Reconcile(t)[j] \in Row
    BY DEF Reconcile
  <2> QED
    BY DEF Reconcile, Row, Statuses, Errors
<1> QED
  BY <1>1, <1>2, <1>3, <1>4, <1>5

-----------------------------------------------------------------------------
(* Type correctness.  A step of a thread changes the table in one of two   *)
(* ways, by a status or by a stage; the two lemmas settle both once.       *)

LEMMA WriteStatusType ==
    ASSUME TypeOK, NEW j \in Jobs, NEW status \in Statuses, NEW report \in BOOLEAN,
           NEW excel \in BOOLEAN, NEW error \in Errors,
           WriteStatus(j, status, report, excel, error)
    PROVE  table' \in [Jobs -> Row] /\ seen' \in [Jobs -> SUBSET Statuses]
<1>1. UpdateStatus(table[j], status, report, excel, error) \in Row
  BY StoreTypes DEF TypeOK
<1> QED
  BY <1>1 DEF TypeOK, WriteStatus

LEMMA WriteStageType ==
    ASSUME TypeOK, NEW j \in Jobs, NEW stage \in Stages, WriteStage(j, stage)
    PROVE  table' \in [Jobs -> Row]
<1>1. SetStage(table[j], stage) \in Row
  BY StoreTypes DEF TypeOK
<1> QED
  BY <1>1 DEF TypeOK, WriteStage

LEMMA ReconcileType ==
    ASSUME TypeOK, ReconcileAll
    PROVE  table' \in [Jobs -> Row] /\ seen' \in [Jobs -> SUBSET Statuses]
BY StoreTypes DEF TypeOK, ReconcileAll, Statuses

\* A submission keeps the state well typed.
LEMMA SubmitType ==
    ASSUME TypeOK, NEW j \in Jobs, SubmitStep(j)
    PROVE  TypeOK'
<1>1. CASE SubmitNumber(j)
  <2>1. PICK run \in NextRun(table) :
           submit' = [submit EXCEPT ![j] = [pc |-> "numbered", run |-> run]]
    BY <1>1 DEF SubmitNumber
  <2>2. run \in Nat
    BY <2>1, NextRunIsNat DEF TypeOK
  <2>3. Present(table) \subseteq Jobs
    BY DEF Present
  <2> QED
    BY <1>1, <2>1, <2>2, <2>3 DEF TypeOK, SubmitNumber, durable
<1>2. CASE SubmitInsert(j)
  <2>1. submit[j].run \in Nat
    BY DEF TypeOK
  <2>2. table' \in [Jobs -> Row]
    BY <1>2, <2>1, StoreTypes DEF TypeOK, SubmitInsert
  <2> QED
    BY <1>2, <2>2 DEF TypeOK, SubmitInsert, Statuses, Unfinished
<1>3. CASE SubmitFails(j)
  BY <1>3 DEF TypeOK, SubmitFails, durable, history, Idle
<1>4. CASE SubmitQueue(j)
  BY <1>4 DEF TypeOK, SubmitQueue, durable, history, Idle, TaskPcs, Outside
<1> QED
  BY <1>1, <1>2, <1>3, <1>4 DEF SubmitStep

\* So does every step of a background task.
LEMMA TaskType ==
    ASSUME TypeOK, NEW j \in Jobs, TaskWork(j) \/ Raise(j) \/ TaskDies(j)
    PROVE  TypeOK'
<1> USE DEF TaskPcs, Outside, InTry, Exporting, Nodes
<1>0. HasRows(j) \in BOOLEAN
  BY DEF HasRows
<1>1. CASE MarkRunning(j)
  BY <1>1, WriteStatusType DEF TypeOK, MarkRunning, Step, Statuses, Unfinished, Errors
<1>2. CASE MarkStarting(j)
  BY <1>2, WriteStageType DEF TypeOK, MarkStarting, Step, Stages, history
<1>3. CASE RunNode(j)
  <2>1. task[j] \in Stages
    BY <1>3 DEF RunNode, Stages
  <2>2. Following[task[j]] \in TaskPcs
    BY <1>3 DEF RunNode, Following
  <2> QED
    BY <1>3, <2>1, <2>2, WriteStageType DEF TypeOK, RunNode, history
<1>4. CASE EnterGenerate(j)
  BY <1>4, WriteStageType DEF TypeOK, EnterGenerate, Step, Stages, history
<1>5. CASE SkipGenerate(j)
  BY <1>5 DEF TypeOK, SkipGenerate, Step, durable, history
<1>6. CASE PersistRows(j)
  <2>1. rows' \in [Jobs -> [total : Nat, pending : Nat]]
    BY <1>6, BoundsAssumption DEF TypeOK, PersistRows
  <2> QED
    BY <1>6, <2>1 DEF TypeOK, PersistRows, Step, history
<1>7. CASE EnterExport(j)
  BY <1>7, WriteStageType DEF TypeOK, EnterExport, Step, Stages, history
<1>8. CASE WriteReport(j)
  BY <1>8 DEF TypeOK, WriteReport, Step, Artifacts, history
<1>9. CASE WriteCoverage(j)
  BY <1>9 DEF TypeOK, WriteCoverage, Step, Artifacts, history
<1>10. CASE WriteSheets(j)
  BY <1>10 DEF TypeOK, WriteSheets, Step, Artifacts, history
<1>11. CASE CompleteNode(j)
  <2>1. WriteStatus(j, "COMPLETED", TRUE, HasRows(j), "none")
    BY <1>11 DEF CompleteNode
  <2>2. "COMPLETED" \in Statuses /\ "none" \in Errors
    BY DEF Statuses, Errors
  <2>3. table' \in [Jobs -> Row] /\ seen' \in [Jobs -> SUBSET Statuses]
    BY <1>0, <2>1, <2>2, WriteStatusType, Zenon
  <2> QED
    BY <1>11, <2>3 DEF TypeOK, CompleteNode, Step
<1>12. CASE WrapUp(j)
  <2>1. WriteStatus(j, "COMPLETED", TRUE, HasRows(j), "none")
    BY <1>12 DEF WrapUp
  <2>2. "COMPLETED" \in Statuses /\ "none" \in Errors
    BY DEF Statuses, Errors
  <2>3. table' \in [Jobs -> Row] /\ seen' \in [Jobs -> SUBSET Statuses]
    BY <1>0, <2>1, <2>2, WriteStatusType, Zenon
  <2> QED
    BY <1>12, <2>3 DEF TypeOK, WrapUp, Step
<1>13. CASE CloseTask(j)
  BY <1>13, WriteStageType DEF TypeOK, CloseTask, Step, Stages, history
<1>14. CASE MarkFailed(j)
  BY <1>14, WriteStatusType DEF TypeOK, MarkFailed, Step, Statuses, Errors
<1>15. CASE MarkFailedStage(j)
  BY <1>15, WriteStageType DEF TypeOK, MarkFailedStage, Step, Stages, history
<1>16. CASE Raise(j)
  BY <1>16 DEF TypeOK, Raise, durable, history
<1>17. CASE TaskDies(j)
  BY <1>17 DEF TypeOK, TaskDies, durable, history
<1> QED
  BY <1>1, <1>2, <1>3, <1>4, <1>5, <1>6, <1>7, <1>8, <1>9, <1>10, <1>11, <1>12,
     <1>13, <1>14, <1>15, <1>16, <1>17 DEF TaskWork

\* And so does the process: start, extra start, crash.
LEMMA ProcessType ==
    ASSUME TypeOK, ApiStart \/ ExtraApiStart \/ Crash
    PROVE  TypeOK'
<1>1. CASE ApiStart
  BY <1>1, ReconcileType DEF TypeOK, ApiStart
<1>2. CASE ExtraApiStart
  BY <1>2, ReconcileType DEF TypeOK, ExtraApiStart
<1>3. CASE Crash
  <2>1. task' \in [Jobs -> TaskPcs]
    BY <1>3 DEF Crash, TaskPcs
  <2>2. submit' \in [Jobs -> [pc : {"idle", "numbered", "inserted"}, run : Nat]]
    BY <1>3 DEF Crash, Idle
  <2>3. budget' \in [crashes : Nat, starts : Nat, deaths : Nat]
    BY <1>3 DEF TypeOK, Crash
  <2>4. up' \in BOOLEAN
    BY <1>3 DEF Crash
  <2>5. UNCHANGED <<table, rows, disk, seen, earlier>>
    BY <1>3 DEF Crash, durable, history
  <2> QED
    BY <2>1, <2>2, <2>3, <2>4, <2>5 DEF TypeOK
<1> QED
  BY <1>1, <1>2, <1>3

LEMMA InitType == RunnerInit => TypeOK
<1> SUFFICES ASSUME RunnerInit PROVE TypeOK
  OBVIOUS
<1>1. table \in [Jobs -> Row]
  BY StoreTypes DEF RunnerInit
<1>2. task \in [Jobs -> TaskPcs]
  BY DEF RunnerInit, TaskPcs
<1>3. submit \in [Jobs -> [pc : {"idle", "numbered", "inserted"}, run : Nat]]
  BY DEF RunnerInit, Idle
<1> QED
  BY <1>1, <1>2, <1>3 DEF RunnerInit, TypeOK

LEMMA NextType == TypeOK /\ [RunnerNext]_runnerVars => TypeOK'
<1> SUFFICES ASSUME TypeOK, [RunnerNext]_runnerVars
             PROVE  TypeOK'
  OBVIOUS
<1>1. CASE UNCHANGED runnerVars
  BY <1>1 DEF TypeOK, runnerVars
<1>2. CASE RunnerNext
  BY <1>2, SubmitType, TaskType, ProcessType DEF RunnerNext
<1> QED
  BY <1>1, <1>2

\* The runner's state is well typed: whatever the interleaving of submissions,
\* tasks, crashes and restarts, every row of the jobs table is a legal row and
\* every thread is at one of the places the code has.
THEOREM RunnerTypeCorrect == RunnerSpec => []TypeOK
BY InitType, NextType, PTL DEF RunnerSpec

-----------------------------------------------------------------------------
(* COMPLETED means artifacts.  The invariant of one job speaks only of that *)
(* job's own part of the state, so a step that leaves this part alone keeps *)
(* it: what remains is the acting job in each action.                       *)

Same(k) ==
    /\ table'[k] = table[k] /\ rows'[k] = rows[k] /\ disk'[k] = disk[k]
    /\ submit'[k] = submit[k] /\ task'[k] = task[k] /\ seen'[k] = seen[k]

JobInv(k) == FilesInOrder(k) /\ Completion(k)

LEMMA Frame ==
    ASSUME NEW k \in Jobs, JobInv(k), Same(k)
    PROVE  JobInv(k)'
BY DEF JobInv, FilesInOrder, Completion, Published, HasRows, Same

\* A step of job j is one that leaves every other job's part alone.
LEMMA Others ==
    ASSUME TypeOK, NEW j \in Jobs,
           SubmitStep(j) \/ TaskWork(j) \/ Raise(j) \/ TaskDies(j),
           NEW k \in Jobs, k # j
    PROVE  Same(k)
<1> USE DEF Same, TypeOK, Step, WriteStatus, WriteStage, durable, history
<1>1. CASE SubmitStep(j)
  BY <1>1 DEF SubmitStep, SubmitNumber, SubmitInsert, SubmitFails, SubmitQueue
<1>2. CASE MarkRunning(j) \/ MarkStarting(j) \/ RunNode(j) \/ EnterGenerate(j)
           \/ SkipGenerate(j)
  BY <1>2 DEF MarkRunning, MarkStarting, RunNode, EnterGenerate, SkipGenerate
<1>3. CASE PersistRows(j) \/ EnterExport(j) \/ WriteReport(j) \/ WriteCoverage(j)
           \/ WriteSheets(j)
  BY <1>3 DEF PersistRows, EnterExport, WriteReport, WriteCoverage, WriteSheets
<1>4. CASE CompleteNode(j) \/ WrapUp(j) \/ CloseTask(j) \/ MarkFailed(j)
           \/ MarkFailedStage(j)
  BY <1>4 DEF CompleteNode, WrapUp, CloseTask, MarkFailed, MarkFailedStage
<1>5. CASE Raise(j) \/ TaskDies(j)
  BY <1>5 DEF Raise, TaskDies
<1> QED
  BY <1>1, <1>2, <1>3, <1>4, <1>5 DEF TaskWork

\* A submission starts a job that has completed nothing.
LEMMA SubmitKeepsInv ==
    ASSUME TypeOK, NEW j \in Jobs, JobInv(j), SubmitStep(j)
    PROVE  JobInv(j)'
<1> USE DEF TypeOK, JobInv, FilesInOrder, Completion, Published, HasRows, durable, history
<1>1. CASE SubmitNumber(j)
  <2>1. PICK run \in NextRun(table) :
           submit' = [submit EXCEPT ![j] = [pc |-> "numbered", run |-> run]]
    BY <1>1 DEF SubmitNumber
  <2> QED
    BY <1>1, <2>1 DEF SubmitNumber
<1>2. CASE SubmitInsert(j)
  <2>1. PICK intent \in Intents : table'[j] = NewRow(intent, submit[j].run)
    BY <1>2 DEF SubmitInsert
  <2>2. table'[j].status = "PENDING"
    BY <2>1 DEF NewRow, NoRow
  <2> QED
    BY <1>2, <2>2 DEF SubmitInsert
<1>3. CASE SubmitFails(j) \/ SubmitQueue(j)
  BY <1>3 DEF SubmitFails, SubmitQueue, Idle, Done, AfterReport, AfterQa, AfterSheets
<1> QED
  BY <1>1, <1>2, <1>3 DEF SubmitStep

\* What a status write does to the job's own row and history: paths are set
\* when they are given, and never unset.
LEMMA StatusWritten ==
    ASSUME TypeOK, NEW j \in Jobs, NEW status, NEW report \in BOOLEAN,
           NEW excel \in BOOLEAN, NEW error,
           WriteStatus(j, status, report, excel, error)
    PROVE  /\ table'[j].status = status
           /\ table[j].report \/ report => table'[j].report
           /\ table[j].excel \/ excel => table'[j].excel
           /\ seen'[j] = seen[j] \cup {status}
<1>1. table'[j] = UpdateStatus(table[j], status, report, excel, error)
  BY DEF TypeOK, WriteStatus
<1>2. seen'[j] = seen[j] \cup {status}
  BY DEF TypeOK, WriteStatus
<1>3. table[j] \in Row
  BY DEF TypeOK
<1> QED
  BY <1>1, <1>2, <1>3 DEF UpdateStatus, Row

LEMMA CompletedWritten ==
    ASSUME TypeOK, NEW j \in Jobs, WriteStatus(j, "COMPLETED", TRUE, HasRows(j), "none")
    PROVE  /\ table'[j].status = "COMPLETED"
           /\ table'[j].report
           /\ HasRows(j) => table'[j].excel
           /\ seen'[j] = seen[j] \cup {"COMPLETED"}
<1>1. HasRows(j) \in BOOLEAN
  BY DEF HasRows
<1>2. /\ table'[j].status = "COMPLETED"
      /\ table[j].report \/ TRUE => table'[j].report
      /\ table[j].excel \/ HasRows(j) => table'[j].excel
      /\ seen'[j] = seen[j] \cup {"COMPLETED"}
  BY <1>1, StatusWritten, Zenon
<1> QED
  BY <1>2

LEMMA StageWritten ==
    ASSUME TypeOK, NEW j \in Jobs, NEW stage, WriteStage(j, stage)
    PROVE  /\ table'[j].status = table[j].status
           /\ table'[j].report = table[j].report
           /\ table'[j].excel = table[j].excel
<1>1. table'[j] = SetStage(table[j], stage) /\ table[j] \in Row
  BY DEF TypeOK, WriteStage
<1> QED
  BY <1>1 DEF SetStage, Row


\* Each step of the task keeps its own job's invariant: files are written in
\* order, and COMPLETED comes after the last of them.
LEMMA TaskKeepsInv ==
    ASSUME TypeOK, NEW j \in Jobs, JobInv(j), TaskWork(j) \/ Raise(j) \/ TaskDies(j)
    PROVE  JobInv(j)'
<1> USE DEF TypeOK, JobInv, FilesInOrder, Completion, Published, HasRows,
            Done, AfterReport, AfterQa, AfterSheets
<1>1. CASE MarkRunning(j)
  <2>1. WriteStatus(j, "RUNNING", FALSE, FALSE, "none")
    BY <1>1 DEF MarkRunning
  <2>2. /\ table'[j].status = "RUNNING"
        /\ seen'[j] = seen[j] \cup {"RUNNING"}
    BY <2>1, StatusWritten
  <2> QED
    BY <1>1, <2>2 DEF MarkRunning, Step
<1>2. CASE MarkStarting(j)
  BY <1>2, StageWritten DEF MarkStarting, Step, history
<1>3. CASE RunNode(j)
  <2>1. task[j] \notin Done /\ Following[task[j]] \notin AfterReport \cup Done
    BY <1>3 DEF RunNode, Nodes, Following
  <2> QED
    BY <1>3, <2>1, StageWritten DEF RunNode, history
<1>4. CASE EnterGenerate(j)
  BY <1>4, StageWritten DEF EnterGenerate, Step, history
<1>5. CASE SkipGenerate(j)
  BY <1>5 DEF SkipGenerate, Step, durable, history
<1>6. CASE PersistRows(j)
  BY <1>6 DEF PersistRows, Step, history
<1>7. CASE EnterExport(j)
  BY <1>7, StageWritten DEF EnterExport, Step, history
<1>8. CASE WriteReport(j)
  BY <1>8 DEF WriteReport, Step, history
<1>9. CASE WriteCoverage(j)
  BY <1>9 DEF WriteCoverage, Step, history
<1>10. CASE WriteSheets(j)
  BY <1>10 DEF WriteSheets, Step, history
<1>11. CASE CompleteNode(j)
  <2>1. WriteStatus(j, "COMPLETED", TRUE, HasRows(j), "none")
    BY <1>11 DEF CompleteNode
  <2>3. /\ table'[j].status = "COMPLETED"
        /\ table'[j].report
        /\ HasRows(j) => table'[j].excel
        /\ seen'[j] = seen[j] \cup {"COMPLETED"}
    BY <2>1, CompletedWritten
  <2> QED
    BY <1>11, <2>3 DEF CompleteNode, Step
<1>12. CASE WrapUp(j)
  <2>1. WriteStatus(j, "COMPLETED", TRUE, HasRows(j), "none")
    BY <1>12 DEF WrapUp
  <2>3. /\ table'[j].status = "COMPLETED"
        /\ table'[j].report
        /\ HasRows(j) => table'[j].excel
        /\ seen'[j] = seen[j] \cup {"COMPLETED"}
    BY <2>1, CompletedWritten
  <2> QED
    BY <1>12, <2>3 DEF WrapUp, Step
<1>13. CASE CloseTask(j)
  BY <1>13, StageWritten DEF CloseTask, Step, history
<1>14. CASE MarkFailed(j)
  <2>1. WriteStatus(j, "FAILED", FALSE, FALSE, "exception")
    BY <1>14 DEF MarkFailed
  <2>2. /\ table'[j].status = "FAILED"
        /\ table[j].report => table'[j].report
        /\ table[j].excel => table'[j].excel
        /\ seen'[j] = seen[j] \cup {"FAILED"}
    BY <2>1, StatusWritten
  <2> QED
    BY <1>14, <2>2 DEF MarkFailed, Step
<1>15. CASE MarkFailedStage(j)
  BY <1>15, StageWritten DEF MarkFailedStage, Step, history
<1>16. CASE Raise(j)
  BY <1>16 DEF Raise, InTry, Nodes, Exporting, durable, history
<1>17. CASE TaskDies(j)
  BY <1>17 DEF TaskDies, durable, history
<1> QED
  BY <1>1, <1>2, <1>3, <1>4, <1>5, <1>6, <1>7, <1>8, <1>9, <1>10, <1>11, <1>12,
     <1>13, <1>14, <1>15, <1>16, <1>17 DEF TaskWork

\* A start fails unfinished jobs and touches no path and no file of the others;
\* a crash loses threads only.
LEMMA ProcessKeepsInv ==
    ASSUME TypeOK, NEW k \in Jobs, JobInv(k), ApiStart \/ ExtraApiStart \/ Crash
    PROVE  JobInv(k)'
<1> USE DEF TypeOK, JobInv, FilesInOrder, Completion, Published, HasRows
<1>1. CASE ApiStart \/ ExtraApiStart
  <2>1. UNCHANGED <<rows, disk, submit, task>>
    BY <1>1 DEF ApiStart, ExtraApiStart
  <2>2. table' = Reconcile(table)
        /\ seen' = [j \in Jobs |-> IF j \in Orphans(table) THEN seen[j] \cup {"FAILED"}
                                   ELSE seen[j]]
    BY <1>1 DEF ApiStart, ExtraApiStart, ReconcileAll
  <2>3. CASE k \in Orphans(table)
    <3>1. /\ table'[k].status = "FAILED"
          /\ table'[k].report = table[k].report
          /\ table'[k].excel = table[k].excel
          /\ seen'[k] = seen[k] \cup {"FAILED"}
      <4>1. table[k] \in Row
        OBVIOUS
      <4>2. table'[k] = [table[k] EXCEPT !.status = "FAILED",
                            !.error = IF @ = "none" THEN "orphaned" ELSE @]
        BY <2>2, <2>3 DEF Reconcile
      <4>3. seen'[k] = seen[k] \cup {"FAILED"}
        BY <2>2, <2>3
      <4> QED
        BY <4>1, <4>2, <4>3 DEF Row
    <3>2. table[k].status # "absent"
      BY <2>3 DEF Orphans, Unfinished
    <3> QED
      BY <2>1, <3>1, <3>2
  <2>4. CASE k \notin Orphans(table)
    <3>1. table'[k] = table[k] /\ seen'[k] = seen[k]
      BY <2>2, <2>4 DEF Reconcile
    <3> QED
      BY <2>1, <3>1
  <2> QED
    BY <2>3, <2>4
<1>2. CASE Crash
  BY <1>2 DEF Crash, durable, history, Idle, Done, AfterReport, AfterQa, AfterSheets
<1> QED
  BY <1>1, <1>2

LEMMA InitInv == RunnerInit => RunnerInv
<1> SUFFICES ASSUME RunnerInit, NEW j \in Jobs PROVE FilesInOrder(j) /\ Completion(j)
  BY InitType DEF RunnerInv
<1> QED
  BY DEF RunnerInit, FilesInOrder, Completion, NoRow, Idle, AfterReport, AfterQa,
         AfterSheets

LEMMA NextInv == RunnerInv /\ [RunnerNext]_runnerVars => RunnerInv'
<1> SUFFICES ASSUME RunnerInv, [RunnerNext]_runnerVars, NEW k \in Jobs
             PROVE  JobInv(k)'
  BY NextType DEF RunnerInv, JobInv
<1>0. TypeOK /\ JobInv(k)
  BY DEF RunnerInv, JobInv
<1>1. CASE UNCHANGED runnerVars
  BY <1>0, <1>1, Frame DEF runnerVars, Same
<1>2. ASSUME NEW j \in Jobs, SubmitStep(j) \/ TaskWork(j) \/ Raise(j) \/ TaskDies(j)
      PROVE  JobInv(k)'
  <2>1. CASE k = j
    BY <1>0, <1>2, <2>1, SubmitKeepsInv, TaskKeepsInv
  <2>2. CASE k # j
    BY <1>0, <1>2, <2>2, Others, Frame
  <2> QED
    BY <2>1, <2>2
<1>3. CASE ApiStart \/ ExtraApiStart \/ Crash
  BY <1>0, <1>3, ProcessKeepsInv
<1> QED
  BY <1>1, <1>2, <1>3 DEF RunnerNext

\* The invariant implies the property: a shown status is one of the history.
LEMMA InvImpliesCompleted == RunnerInv => CompletedMeansArtifacts
BY DEF RunnerInv, Completion, CompletedMeansArtifacts

\* The invariant behind the next theorem: a job's files are written in the order
\* report, QA report, sheets, and its history holds every status it shows.
THEOREM RunnerInvariant == RunnerSpec => []RunnerInv
BY InitInv, NextInv, PTL DEF RunnerSpec

\* A COMPLETED job has its rows, report, QA report and sheets in place, for any
\* number of jobs, crashes, restarts, extra API starts and database errors.
THEOREM CompletedHasArtifacts == RunnerSpec => []CompletedMeansArtifacts
BY RunnerInvariant, InvImpliesCompleted, PTL
=============================================================================
