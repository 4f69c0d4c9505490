-------------------------- MODULE ApiServiceProofs --------------------------
(***************************************************************************)
(* Theorems about ApiService: what JobRunner guarantees survives the       *)
(* reviewed downloads, which write stale statuses back, and the reviewers. *)
(* The second half is about the history of a job: what is published stays, *)
(* numbers follow creation, unfinished rows have owners, restarts fail     *)
(* orphans, and the jobs table implements JobContract.                     *)
(***************************************************************************)
EXTENDS ApiService, JobRunnerProofs

\* Every step of the composition is a step of the runner, or one of the three
\* writes this module adds.
LEMMA StepKinds ==
    ASSUME [Next]_vars
    PROVE  \/ [RunnerNext]_runnerVars
           \/ \E h \in Handlers : DownloadExport(h) \/ DownloadWriteBack(h)
           \/ \E j \in Jobs : ReviewerDecides(j)
<1> USE DEF runnerVars, RunnerNext, SubmitStep
<1>1. CASE UNCHANGED vars
  BY <1>1 DEF vars
<1>2. ASSUME NEW j \in Jobs,
             Request(j) \/ SubmitThread(j) \/ TaskThread(j) \/ PollLoop(j)
             \/ PollGiveUp(j) \/ ReviewerDecides(j)
      PROVE  [RunnerNext]_runnerVars \/ ReviewerDecides(j)
  BY <1>2 DEF Request, SubmitThread, QueueAndAnswer, TaskThread, PollLoop, PollRead,
              PollStop, PollAgain, PollGiveUp
<1>3. ASSUME NEW h \in Handlers, DownloadStep(h)
      PROVE  [RunnerNext]_runnerVars \/ DownloadExport(h) \/ DownloadWriteBack(h)
  BY <1>3 DEF DownloadStep, DownloadRead, DownloadFails
<1>4. CASE Starts \/ CrashService
  BY <1>4 DEF Starts, CrashService
<1> QED
  BY <1>1, <1>2, <1>3, <1>4 DEF Next

\* A reviewed file is added to those of the job; nothing is removed.
LEMMA ExportKeepsInv ==
    ASSUME ServiceInv, NEW h \in Handlers, DownloadExport(h)
    PROVE  RunnerInv'
<1>0. TypeOK /\ \A k \in Jobs : JobInv(k)
  BY DEF ServiceInv, RunnerInv, JobInv
<1> DEFINE job == download[h].job
<1>1. job \in Jobs
  BY DEF ServiceInv, CarriesHistory, DownloadExport
<1>2. disk' = [disk EXCEPT ![job] = @ \cup {"reviewed"}]
  BY DEF DownloadExport
<1>3. UNCHANGED <<table, rows, up, submit, task, budget, seen, earlier>>
  BY DEF DownloadExport, memory, history
<1>4. TypeOK'
  <2>1. disk' \in [Jobs -> SUBSET Artifacts]
    BY <1>0, <1>2 DEF TypeOK, Artifacts
  <2> QED
    BY <1>0, <1>3, <2>1 DEF TypeOK
<1>5. ASSUME NEW k \in Jobs PROVE JobInv(k)'
  <2>1. disk[k] \subseteq disk'[k]
    BY <1>0, <1>2 DEF TypeOK
  <2> QED
    BY <1>0, <1>3, <2>1 DEF JobInv, FilesInOrder, Completion, Published, HasRows
<1> QED
  BY <1>4, <1>5 DEF RunnerInv, JobInv

\* The stale status is one the job has been through: if it is COMPLETED, the
\* job has published, and the COALESCEd paths stay.
LEMMA WriteBackKeepsInv ==
    ASSUME ServiceInv, NEW h \in Handlers, DownloadWriteBack(h)
    PROVE  RunnerInv'
<1>0. TypeOK /\ \A k \in Jobs : JobInv(k)
  BY DEF ServiceInv, RunnerInv, JobInv
<1> DEFINE job    == download[h].job
           status == download[h].status
<1>1. job \in Jobs /\ status \in seen[job] /\ status \in Statuses
  BY <1>0 DEF ServiceInv, CarriesHistory, DownloadWriteBack, TypeOK
<1>2. table' = [table EXCEPT ![job] =
                   UpdateStatus(table[job], status, FALSE, FALSE, "none")]
  BY DEF DownloadWriteBack
<1>3. UNCHANGED <<rows, disk, up, submit, task, budget, seen, earlier>>
  BY DEF DownloadWriteBack, memory, history
<1> HIDE DEF job, status
<1>4. UpdateStatus(table[job], status, FALSE, FALSE, "none") \in Row
  BY <1>0, <1>1, StoreTypes DEF TypeOK, Errors
<1>5. TypeOK'
  BY <1>0, <1>1, <1>2, <1>3, <1>4 DEF TypeOK
<1>6. ASSUME NEW k \in Jobs PROVE JobInv(k)'
  <2>1. CASE k # job
    BY <1>0, <1>2, <1>3, <2>1, Frame DEF Same, TypeOK
  <2>2. CASE k = job
    <3>1. table'[k] = UpdateStatus(table[k], status, FALSE, FALSE, "none")
          /\ table[k] \in Row
      BY <1>0, <1>1, <1>2, <2>2 DEF TypeOK
    <3>2. /\ table'[k].status = status
          /\ table[k].report => table'[k].report
          /\ table[k].excel => table'[k].excel
      BY <3>1 DEF UpdateStatus, Row
    <3>3. status # "absent" /\ table[k].status # "absent"
      BY <1>0, <1>1, <2>2 DEF Statuses, Unfinished, JobInv, Completion
    <3> QED
      BY <1>0, <1>1, <1>3, <2>2, <3>2, <3>3
      DEF JobInv, FilesInOrder, Completion, Published, HasRows
  <2> QED
    BY <2>1, <2>2
<1> QED
  BY <1>5, <1>6 DEF RunnerInv, JobInv

LEMMA ReviewerKeepsInv ==
    ASSUME ServiceInv, NEW j \in Jobs, ReviewerDecides(j)
    PROVE  RunnerInv'
<1>0. TypeOK /\ \A k \in Jobs : JobInv(k)
  BY DEF ServiceInv, RunnerInv, JobInv
<1>1. /\ rows[j].pending > 0
      /\ rows' = [rows EXCEPT ![j].pending = @ - 1]
      /\ UNCHANGED <<table, disk, up, submit, task, budget, seen, earlier>>
  BY DEF ReviewerDecides, memory, history
<1>2. TypeOK'
  <2>1. rows' \in [Jobs -> [total : Nat, pending : Nat]]
    BY <1>0, <1>1 DEF TypeOK
  <2> QED
    BY <1>0, <1>1, <2>1 DEF TypeOK
<1>3. ASSUME NEW k \in Jobs PROVE JobInv(k)'
  <2>1. rows'[k].total = rows[k].total
    BY <1>0, <1>1 DEF TypeOK
  <2> QED
    BY <1>0, <1>1, <2>1 DEF JobInv, FilesInOrder, Completion, Published, HasRows
<1> QED
  BY <1>2, <1>3 DEF RunnerInv, JobInv

LEMMA RunnerInvKept == ServiceInv /\ [Next]_vars => RunnerInv'
<1> SUFFICES ASSUME ServiceInv, [Next]_vars PROVE RunnerInv'
  OBVIOUS
<1>1. RunnerInv
  BY DEF ServiceInv
<1> QED
  BY <1>1, StepKinds, NextInv, ExportKeepsInv, WriteBackKeepsInv, ReviewerKeepsInv

-----------------------------------------------------------------------------
(* What the handlers hold. *)

\* No step forgets a status a job has been through.
LEMMA HistoryGrows ==
    ASSUME TypeOK, [Next]_vars, NEW k \in Jobs
    PROVE  seen[k] \subseteq seen'[k]
<1> USE DEF TypeOK
<1>1. CASE UNCHANGED runnerVars
  BY <1>1 DEF runnerVars
<1>2. ASSUME NEW j \in Jobs, SubmitStep(j) PROVE seen[k] \subseteq seen'[k]
  BY <1>2 DEF SubmitStep, SubmitNumber, SubmitInsert, SubmitFails, SubmitQueue, history
<1>3. ASSUME NEW j \in Jobs, TaskWork(j) \/ Raise(j) \/ TaskDies(j)
      PROVE  seen[k] \subseteq seen'[k]
  <2>1. UNCHANGED seen \/ \E status : seen' = [seen EXCEPT ![j] = @ \cup {status}]
    BY <1>3 DEF TaskWork, MarkRunning, MarkStarting, RunNode, EnterGenerate, SkipGenerate,
                PersistRows, EnterExport, WriteReport, WriteCoverage, WriteSheets,
                CompleteNode, WrapUp, CloseTask, MarkFailed, MarkFailedStage, Raise,
                TaskDies, WriteStatus, history
  <2> QED
    BY <2>1
<1>4. CASE ApiStart \/ ExtraApiStart
  BY <1>4 DEF ApiStart, ExtraApiStart, ReconcileAll
<1>5. CASE Crash
  BY <1>5 DEF Crash, history
<1>6. ASSUME NEW h \in Handlers, DownloadExport(h) \/ DownloadWriteBack(h)
      PROVE  seen[k] \subseteq seen'[k]
  BY <1>6 DEF DownloadExport, DownloadWriteBack, history
<1>7. ASSUME NEW j \in Jobs, ReviewerDecides(j) PROVE seen[k] \subseteq seen'[k]
  BY <1>7 DEF ReviewerDecides, history
<1> QED
  BY <1>1, <1>2, <1>3, <1>4, <1>5, <1>6, <1>7, StepKinds DEF RunnerNext

\* Downloads are only touched by their own handler and by a crash.
LEMMA DownloadSteps ==
    ASSUME [Next]_vars
    PROVE  \/ UNCHANGED download
           \/ \E h \in Handlers : DownloadStep(h)
           \/ CrashService
BY DEF Next, vars, serviceVars, Request, SubmitThread, QueueAndAnswer, TaskThread, PollLoop,
       PollRead, PollStop, PollAgain, PollGiveUp, ReviewerDecides, Starts, Beside

Requests == [pc : {"idle", "read", "exported"}, job : Jobs \cup {NoJob},
             status : Statuses \cup {"absent"}]

LEMMA DownloadsTyped ==
    ASSUME ServiceInv, [Next]_vars
    PROVE  /\ download' \in [Handlers -> Requests]
           /\ \A h \in Handlers : CarriesHistory(h)'
<1>0. /\ TypeOK /\ download \in [Handlers -> Requests]
      /\ \A h \in Handlers : CarriesHistory(h)
      /\ \A k \in Jobs : table[k].status \in seen[k] \cup {"absent"}
  BY DEF ServiceInv, RunnerInv, Completion, ServiceTypeOK, Requests
<1>1. NoRequest \in Requests
  BY DEF NoRequest, Requests
<1>2. CASE UNCHANGED download
  BY <1>0, <1>2, HistoryGrows DEF CarriesHistory
<1>3. ASSUME NEW h \in Handlers, DownloadStep(h)
      PROVE  /\ download' \in [Handlers -> Requests]
             /\ \A g \in Handlers : CarriesHistory(g)'
  <2>1. ASSUME NEW j \in Jobs, DownloadRead(h, j)
        PROVE  /\ download' \in [Handlers -> Requests]
               /\ \A g \in Handlers : CarriesHistory(g)'
    <3>1. table[j].status \in Statuses \cap seen[j]
      BY <1>0, <2>1 DEF DownloadRead, TypeOK
    <3>2. download' = [download EXCEPT ![h] =
                          [pc |-> "read", job |-> j, status |-> table[j].status]]
          /\ seen' = seen
      BY <2>1 DEF DownloadRead, runnerVars
    <3> QED
      BY <1>0, <3>1, <3>2 DEF CarriesHistory, Requests
  <2>2. CASE DownloadExport(h)
    <3>1. download' = [download EXCEPT ![h].pc = "exported"] /\ seen' = seen
          /\ download[h].pc = "read"
      BY <2>2 DEF DownloadExport, history
    <3> QED
      BY <1>0, <3>1 DEF CarriesHistory, Requests
  <2>3. CASE DownloadWriteBack(h) \/ DownloadFails(h)
    <3>1. download' = [download EXCEPT ![h] = NoRequest] /\ seen' = seen
      BY <2>3 DEF DownloadWriteBack, DownloadFails, history, runnerVars
    <3> QED
      BY <1>0, <1>1, <3>1 DEF CarriesHistory, NoRequest
  <2> QED
    BY <1>3, <2>1, <2>2, <2>3 DEF DownloadStep
<1>4. CASE CrashService
  BY <1>1, <1>4 DEF CrashService, CarriesHistory, NoRequest
<1> QED
  BY <1>2, <1>3, <1>4, DownloadSteps

Polls == [pc : {"off", "asking", "stopped", "gaveup"}, reads : 0..3,
          status : Statuses \cup {"absent"}, pending : Nat, total : Nat]

LEMMA PollsTyped ==
    ASSUME ServiceInv, [Next]_vars
    PROVE  poll' \in [Jobs -> Polls]
<1>0. TypeOK /\ poll \in [Jobs -> Polls]
  BY DEF ServiceInv, ServiceTypeOK, Polls
<1>1. [NotPolling EXCEPT !.pc = "asking"] \in Polls
  BY DEF NotPolling, Polls
<1>2. CASE UNCHANGED poll
  BY <1>0, <1>2
<1>3. ASSUME NEW j \in Jobs, QueueAndAnswer(j) \/ PollAgain(j)
      PROVE  poll' \in [Jobs -> Polls]
  BY <1>0, <1>1, <1>3 DEF QueueAndAnswer, PollAgain
<1>4. ASSUME NEW j \in Jobs, PollStop(j) \/ PollGiveUp(j)
      PROVE  poll' \in [Jobs -> Polls]
  BY <1>0, <1>4 DEF PollStop, PollGiveUp, Polls
<1>5. ASSUME NEW j \in Jobs, PollRead(j) PROVE poll' \in [Jobs -> Polls]
  <2>1. /\ table[j].status \in Statuses \cup {"absent"}
        /\ rows[j].pending \in Nat /\ rows[j].total \in Nat
    BY <1>0 DEF TypeOK, Row
  <2>2. poll[j].reads < 3 /\ poll[j].reads + 1 \in 0..3
    BY <1>0, <1>5 DEF PollRead, Polls
  <2>3. PICK r \in 0..3, s \in Statuses \cup {"absent"}, p \in Nat, t \in Nat :
           poll' = [poll EXCEPT ![j].reads = r, ![j].status = s,
                                ![j].pending = p, ![j].total = t]
    <3> DEFINE column == ReadOrder[poll[j].reads + 1]
               s == IF column = "status"  THEN table[j].status ELSE poll[j].status
               p == IF column = "pending" THEN rows[j].pending ELSE poll[j].pending
               t == IF column = "total"   THEN rows[j].total   ELSE poll[j].total
    <3>1. poll' = [poll EXCEPT ![j].reads = poll[j].reads + 1, ![j].status = s,
                               ![j].pending = p, ![j].total = t]
      BY <1>5 DEF PollRead
    <3>2. s \in Statuses \cup {"absent"} /\ p \in Nat /\ t \in Nat
      BY <1>0, <2>1 DEF Polls
    <3> HIDE DEF s, p, t
    <3> QED
      BY <2>2, <3>1, <3>2
  <2>4. [poll[j] EXCEPT !.reads = r, !.status = s, !.pending = p, !.total = t] \in Polls
    BY <1>0 DEF Polls
  <2> QED
    BY <1>0, <2>3, <2>4
<1>6. CASE CrashService
  BY <1>0, <1>1, <1>6 DEF CrashService
<1> QED
  BY <1>2, <1>3, <1>4, <1>5, <1>6
  DEF Next, vars, serviceVars, Request, SubmitThread, TaskThread, PollLoop, ReviewerDecides,
      DownloadStep, DownloadRead, DownloadExport, DownloadWriteBack, DownloadFails, Starts,
      Beside

\* The history of the write-backs: it only grows by one of them.
LEMMA RestoredSteps ==
    ASSUME [Next]_vars
    PROVE  restored' = restored \/ KeepRestored \/ \E h \in Handlers : DownloadWriteBack(h)
BY DEF Next, vars, Request, SubmitThread, QueueAndAnswer, TaskThread, PollLoop, PollRead,
       PollStop, PollAgain, PollGiveUp, ReviewerDecides, Starts, Beside, DownloadStep,
       DownloadRead, DownloadExport, DownloadFails, CrashService

LEMMA RestoredTyped ==
    ASSUME ServiceInv, [Next]_vars
    PROVE  restored' \subseteq Jobs
<1>0. restored \subseteq Jobs /\ \A h \in Handlers : CarriesHistory(h)
  BY DEF ServiceInv, ServiceTypeOK
<1>1. ASSUME NEW h \in Handlers, DownloadWriteBack(h) PROVE restored' \subseteq Jobs
  BY <1>0, <1>1 DEF DownloadWriteBack, CarriesHistory
<1> QED
  BY <1>0, <1>1, RestoredSteps DEF KeepRestored

LEMMA ServiceInit == Init => ServiceInv
<1> SUFFICES ASSUME Init PROVE ServiceInv
  OBVIOUS
<1>1. RunnerInv
  BY InitInv DEF Init
<1>2. poll \in [Jobs -> Polls]
  BY DEF Init, NotPolling, Polls
<1>3. download \in [Handlers -> Requests] /\ \A h \in Handlers : CarriesHistory(h)
  BY DEF Init, NoRequest, Requests, CarriesHistory
<1>4. restored \subseteq Jobs
  BY DEF Init
<1> QED
  BY <1>1, <1>2, <1>3, <1>4 DEF ServiceInv, ServiceTypeOK, RunnerInv, Polls, Requests

\* The state of the whole API is well typed, every download carries a status
\* its job has been through, and the runner's invariant survives both.
THEOREM ServiceInvariant == Spec => []ServiceInv
<1>1. ServiceInv /\ [Next]_vars => ServiceInv'
  BY RunnerInvKept, DownloadsTyped, PollsTyped, RestoredTyped
  DEF ServiceInv, ServiceTypeOK, RunnerInv, Polls, Requests
<1> QED
  BY <1>1, ServiceInit, PTL DEF Spec

\* A job shown as COMPLETED has its artifacts in place, even though downloads
\* write back statuses they read before the job moved on.
THEOREM ServiceCompleted == Spec => []CompletedMeansArtifacts
<1>1. ServiceInv => CompletedMeansArtifacts
  BY InvImpliesCompleted DEF ServiceInv
<1> QED
  BY <1>1, ServiceInvariant, PTL

-----------------------------------------------------------------------------
(* Answers.  The row is read first: what it says is old by the time the    *)
(* counts are read, but a COMPLETED job's rows do not change any more.     *)

Reading(k) ==
    poll[k].pc = "asking" /\ poll[k].reads > 0 /\ poll[k].status = "COMPLETED" =>
        /\ "COMPLETED" \in seen[k]
        /\ poll[k].reads = 3 => poll[k].total = rows[k].total

\* Rows are persisted before COMPLETED; later, reviewers change what is pending.
LEMMA RowsAreFixed ==
    ASSUME ServiceInv, [Next]_vars, NEW k \in Jobs, "COMPLETED" \in seen[k]
    PROVE  rows'[k].total = rows[k].total
<1>0. TypeOK /\ JobInv(k)
  BY DEF ServiceInv, RunnerInv, JobInv
<1> USE DEF TypeOK
<1>1. CASE UNCHANGED runnerVars
  BY <1>1 DEF runnerVars
<1>2. ASSUME NEW j \in Jobs, SubmitStep(j) PROVE rows'[k].total = rows[k].total
  BY <1>2 DEF SubmitStep, SubmitNumber, SubmitInsert, SubmitFails, SubmitQueue, durable
<1>3. ASSUME NEW j \in Jobs, TaskWork(j) \/ Raise(j) \/ TaskDies(j)
      PROVE  rows'[k].total = rows[k].total
  <2>1. CASE PersistRows(j)
    <3>1. j # k
      BY <1>0, <2>1 DEF PersistRows, Step, JobInv, Completion, Done
    <3> QED
      BY <1>0, <2>1, <3>1 DEF PersistRows
  <2>2. CASE ~PersistRows(j)
    BY <1>3, <2>2 DEF TaskWork, MarkRunning, MarkStarting, RunNode, EnterGenerate, SkipGenerate,
                EnterExport, WriteReport, WriteCoverage, WriteSheets, CompleteNode, WrapUp,
                CloseTask, MarkFailed, MarkFailedStage, Raise, TaskDies, durable
  <2> QED
    BY <2>1, <2>2
<1>4. CASE ApiStart \/ ExtraApiStart \/ Crash
  BY <1>4 DEF ApiStart, ExtraApiStart, Crash, durable
<1>5. ASSUME NEW h \in Handlers, DownloadExport(h) \/ DownloadWriteBack(h)
      PROVE  rows'[k].total = rows[k].total
  BY <1>5 DEF DownloadExport, DownloadWriteBack
<1>6. ASSUME NEW j \in Jobs, ReviewerDecides(j) PROVE rows'[k].total = rows[k].total
  BY <1>0, <1>6 DEF ReviewerDecides
<1> QED
  BY <1>1, <1>2, <1>3, <1>4, <1>5, <1>6, StepKinds DEF RunnerNext

LEMMA ReadingKept ==
    ASSUME ServiceInv, [Next]_vars, NEW k \in Jobs, Reading(k)
    PROVE  Reading(k)'
<1>0. /\ TypeOK /\ poll \in [Jobs -> Polls]
      /\ table[k].status \in seen[k] \cup {"absent"}
  BY DEF ServiceInv, ServiceTypeOK, RunnerInv, Completion, Polls
<1>a. /\ seen[k] \subseteq seen'[k]
      /\ "COMPLETED" \in seen[k] => rows'[k].total = rows[k].total
  BY <1>0, HistoryGrows, RowsAreFixed
<1>1. CASE poll'[k] = poll[k]
  BY <1>a, <1>1 DEF Reading
<1>2. CASE poll'[k].pc # "asking" \/ poll'[k].reads = 0
  BY <1>2 DEF Reading
<1>3. CASE PollRead(k)
  <2> DEFINE column == ReadOrder[poll[k].reads + 1]
  <2>1. /\ poll'[k].reads = poll[k].reads + 1
        /\ poll'[k].status = IF column = "status" THEN table[k].status ELSE poll[k].status
        /\ poll'[k].total = IF column = "total" THEN rows[k].total ELSE poll[k].total
        /\ poll'[k].pc = "asking" /\ poll[k].pc = "asking"
        /\ poll[k].reads \in 0..2 /\ UNCHANGED <<rows, seen>>
    BY <1>0, <1>3 DEF PollRead, Polls, runnerVars
  <2>2. /\ poll[k].reads = 0 => column = "status"
        /\ poll[k].reads = 1 => column = "pending"
        /\ poll[k].reads = 2 => column = "total"
    BY DEF ReadOrder
  <2> HIDE DEF column
  <2>3. CASE poll[k].reads = 0
    BY <1>0, <2>1, <2>2, <2>3 DEF Reading
  <2>4. CASE poll[k].reads = 1
    BY <2>1, <2>2, <2>4 DEF Reading
  <2>5. CASE poll[k].reads = 2
    BY <2>1, <2>2, <2>5 DEF Reading
  <2> QED
    BY <2>1, <2>3, <2>4, <2>5
<1>4. poll'[k] = poll[k] \/ poll'[k].pc # "asking" \/ poll'[k].reads = 0 \/ PollRead(k)
  <2>1. ASSUME NEW j \in Jobs, QueueAndAnswer(j) \/ PollAgain(j) \/ PollStop(j) \/ PollGiveUp(j)
        PROVE  poll'[k] = poll[k] \/ poll'[k].pc # "asking" \/ poll'[k].reads = 0
    BY <1>0, <2>1 DEF QueueAndAnswer, PollAgain, PollStop, PollGiveUp, NotPolling, Polls
  <2>2. ASSUME NEW j \in Jobs, PollRead(j), j # k PROVE poll'[k] = poll[k]
    BY <1>0, <2>2 DEF PollRead
  <2>3. CASE CrashService
    BY <1>0, <2>3 DEF CrashService, NotPolling, Polls
  <2>4. CASE UNCHANGED poll
    BY <2>4
  <2> QED
    BY <2>1, <2>2, <2>3, <2>4
    DEF Next, vars, serviceVars, Request, SubmitThread, TaskThread, PollLoop, ReviewerDecides,
        DownloadStep, DownloadRead, DownloadExport, DownloadWriteBack, DownloadFails, Starts,
        Beside
<1> QED
  BY <1>1, <1>2, <1>3, <1>4

\* An answer that says COMPLETED gives all the rows the job will ever have and a
\* report that can be fetched, although its parts are read in three transactions
\* and tasks, downloads, reviewers and crashes go on between them.
THEOREM AnswersAreFinal == Spec => []CompletedAnswerIsFinal
<1> DEFINE AllReading == \A k \in Jobs : Reading(k)
<1>1. Init => AllReading
  BY DEF Init, Reading, NotPolling
<1>2. ServiceInv /\ AllReading /\ [Next]_vars => AllReading'
  BY ReadingKept
<1>3. ServiceInv /\ AllReading => CompletedAnswerIsFinal
  BY DEF Reading, CompletedAnswerIsFinal, Answered, ServiceInv, RunnerInv, Completion
<1> HIDE DEF AllReading
<1> QED
  BY <1>1, <1>2, <1>3, ServiceInvariant, PTL DEF Spec

-----------------------------------------------------------------------------
(* The history of a job.                                                   *)

(* What a job has been through by the time its threads get somewhere.      *)
Life(j) ==
    /\ submit[j].pc = "inserted" \/ task[j] # "none" => "PENDING" \in seen[j]
    /\ task[j] \notin {"none", "queued"} => "RUNNING" \in seen[j]
    /\ table[j].report => "COMPLETED" \in seen[j]

LivingThreads(j) == task[j] # "none" \/ submit[j].pc # "idle" => up

(* Jobs that had a row when this one was numbered have smaller numbers.    *)
Numbered(j) ==
    /\ earlier[j] \subseteq Present(table)
    /\ submit[j].pc = "numbered" => \A k \in earlier[j] : table[k].run < submit[j].run
    /\ j \in Present(table) => \A k \in earlier[j] : table[k].run < table[j].run

BoardInv == \A j \in Jobs : Life(j) /\ LivingThreads(j) /\ Numbered(j)

-----------------------------------------------------------------------------
(* What a step shows of one job: nothing, or one action of the board.      *)

Unshown(j) == /\ table'[j].status = table[j].status
              /\ seen'[j] = seen[j]
              /\ Published(j)' <=> Published(j)

Turns(j, status) == /\ table'[j].status = status
                    /\ seen'[j] = seen[j] \cup {status}

SamePublished(j) == Published(j)' <=> Published(j)

Shows(j) ==
    \/ Unshown(j)
    \/ Turns(j, "RUNNING") /\ SamePublished(j) /\ "PENDING" \in seen[j]
    \/ Turns(j, "COMPLETED") /\ Published(j)' /\ "RUNNING" \in seen[j]
    \/ Turns(j, "FAILED") /\ SamePublished(j) /\ seen[j] # {}

\* A status write in full: paths are set when they are given, and only then.
LEMMA StatusRow ==
    ASSUME TypeOK, NEW j \in Jobs, NEW status, NEW report \in BOOLEAN,
           NEW excel \in BOOLEAN, NEW error,
           WriteStatus(j, status, report, excel, error)
    PROVE  /\ Turns(j, status)
           /\ table'[j].report <=> (table[j].report \/ report)
           /\ table'[j].excel <=> (table[j].excel \/ excel)
           /\ table'[j].run = table[j].run
<1>1. table'[j] = UpdateStatus(table[j], status, report, excel, error)
  BY DEF TypeOK, WriteStatus
<1>2. seen'[j] = seen[j] \cup {status}
  BY DEF TypeOK, WriteStatus
<1>3. table[j] \in Row
  BY DEF TypeOK
<1> QED
  BY <1>1, <1>2, <1>3 DEF UpdateStatus, Row, Turns

LEMMA CompletedRow ==
    ASSUME TypeOK, NEW j \in Jobs, WriteStatus(j, "COMPLETED", TRUE, HasRows(j), "none")
    PROVE  /\ Turns(j, "COMPLETED")
           /\ table'[j].report <=> (table[j].report \/ TRUE)
           /\ table'[j].excel <=> (table[j].excel \/ HasRows(j))
           /\ table'[j].run = table[j].run
<1>1. HasRows(j) \in BOOLEAN
  BY DEF HasRows
<1> QED
  BY <1>1, StatusRow, Zenon

LEMMA StageRow ==
    ASSUME TypeOK, NEW j \in Jobs, NEW stage, WriteStage(j, stage)
    PROVE  /\ table'[j].status = table[j].status
           /\ table'[j].report = table[j].report
           /\ table'[j].excel = table[j].excel
           /\ table'[j].run = table[j].run
<1>1. table'[j] = SetStage(table[j], stage) /\ table[j] \in Row
  BY DEF TypeOK, WriteStage
<1> QED
  BY <1>1 DEF SetStage, Row

\* A step of the task is one of the board's, or none, and keeps its job's life:
\* files and rows only change while nothing of the job is published.
LEMMA TaskShows ==
    ASSUME TypeOK, NEW j \in Jobs, JobInv(j), Life(j),
           TaskWork(j) \/ Raise(j) \/ TaskDies(j)
    PROVE  Shows(j) /\ Life(j)' /\ table'[j].run = table[j].run
<1> USE DEF TypeOK, Life, Shows, Unshown, SamePublished
<1>a. task[j] \notin Done => ~Published(j) /\ ~table[j].report
  BY DEF JobInv, Completion, Published
<1> USE DEF Done
<1>1. CASE MarkRunning(j)
  <2>1. WriteStatus(j, "RUNNING", FALSE, FALSE, "none")
    BY <1>1 DEF MarkRunning
  <2>2. /\ Turns(j, "RUNNING")
        /\ table'[j].report <=> (table[j].report \/ FALSE)
        /\ table'[j].run = table[j].run
    BY <2>1, StatusRow
  <2> QED
    BY <1>a, <1>1, <2>2 DEF MarkRunning, Step, Turns, Published
<1>2. CASE MarkStarting(j)
  BY <1>2, StageRow DEF MarkStarting, Step, history, Published, HasRows
<1>3. CASE RunNode(j)
  <2>1. task[j] \notin {"none", "queued"} /\ Following[task[j]] \notin {"none", "queued"}
    BY <1>3 DEF RunNode, Nodes, Following
  <2> QED
    BY <1>3, <2>1, StageRow DEF RunNode, history, Published, HasRows
<1>4. CASE EnterGenerate(j)
  BY <1>4, StageRow DEF EnterGenerate, Step, history, Published, HasRows
<1>5. CASE SkipGenerate(j)
  BY <1>5 DEF SkipGenerate, Step, durable, history, Published, HasRows
<1>6. CASE PersistRows(j)
  BY <1>a, <1>6 DEF PersistRows, Step, history, Published
<1>7. CASE EnterExport(j)
  BY <1>7, StageRow DEF EnterExport, Step, history, Published, HasRows
<1>8. CASE WriteReport(j)
  BY <1>a, <1>8 DEF WriteReport, Step, history, Published
<1>9. CASE WriteCoverage(j)
  BY <1>a, <1>9 DEF WriteCoverage, Step, history, Published
<1>10. CASE WriteSheets(j)
  BY <1>a, <1>10 DEF WriteSheets, Step, history, Published
<1>11. CASE CompleteNode(j) \/ WrapUp(j)
  <2>1. WriteStatus(j, "COMPLETED", TRUE, HasRows(j), "none")
    <3>1. CASE CompleteNode(j)
      BY <3>1, Zenon DEF CompleteNode
    <3>2. CASE WrapUp(j)
      BY <3>2, Zenon DEF WrapUp
    <3> QED
      BY <1>11, <3>1, <3>2
  <2>2. /\ Turns(j, "COMPLETED")
        /\ table'[j].report <=> (table[j].report \/ TRUE)
        /\ table'[j].excel <=> (table[j].excel \/ HasRows(j))
        /\ table'[j].run = table[j].run
    BY <2>1, CompletedRow
  <2>3. Published(j)'
    <3>1. task[j] \in {"complete", "wrapup"} /\ UNCHANGED <<rows, disk>>
      BY <1>11 DEF CompleteNode, WrapUp, Step
    <3> QED
      BY <2>2, <3>1 DEF JobInv, FilesInOrder, Published, HasRows, AfterReport, AfterQa, AfterSheets
  <2>4. task[j] \notin {"none", "queued"} /\ submit' = submit
        /\ task'[j] \notin {"none", "queued"}
    BY <1>11 DEF CompleteNode, WrapUp, Step
  <2> QED
    BY <2>2, <2>3, <2>4 DEF Turns
<1>13. CASE CloseTask(j)
  BY <1>13, StageRow DEF CloseTask, Step, history, Published, HasRows
<1>14. CASE MarkFailed(j)
  <2>1. WriteStatus(j, "FAILED", FALSE, FALSE, "exception")
    BY <1>14 DEF MarkFailed
  <2>2. /\ Turns(j, "FAILED")
        /\ table'[j].report <=> (table[j].report \/ FALSE)
        /\ table'[j].excel <=> (table[j].excel \/ FALSE)
        /\ table'[j].run = table[j].run
    BY <2>1, StatusRow
  <2>3. UNCHANGED <<rows, disk, submit>> /\ task[j] = "failing" /\ task'[j] = "failnote"
    BY <1>14 DEF MarkFailed, Step
  <2>4. SamePublished(j)
    BY <2>2, <2>3 DEF Published, HasRows
  <2> QED
    BY <2>2, <2>3, <2>4 DEF Turns
<1>15. CASE MarkFailedStage(j)
  BY <1>15, StageRow DEF MarkFailedStage, Step, history, Published, HasRows
<1>16. CASE Raise(j)
  BY <1>16 DEF Raise, InTry, Nodes, Exporting, durable, history, Published, HasRows
<1>17. CASE TaskDies(j)
  BY <1>17 DEF TaskDies, durable, history, Published, HasRows
<1> QED
  BY <1>1, <1>2, <1>3, <1>4, <1>5, <1>6, <1>7, <1>8, <1>9, <1>10, <1>11,
     <1>13, <1>14, <1>15, <1>16, <1>17 DEF TaskWork

Accepts(j) == /\ seen[j] = {} /\ seen'[j] = {"PENDING"}
              /\ table'[j].status = "PENDING"
              /\ SamePublished(j)

\* A submission shows nothing until the row is there.
LEMMA SubmitShows ==
    ASSUME TypeOK, NEW j \in Jobs, JobInv(j), Life(j), SubmitStep(j)
    PROVE  (Unshown(j) \/ Accepts(j)) /\ Life(j)'
<1> USE DEF TypeOK, Life, Unshown, Published, HasRows, JobInv, Completion
<1>1. CASE SubmitNumber(j)
  <2>1. PICK run \in NextRun(table) :
           submit' = [submit EXCEPT ![j] = [pc |-> "numbered", run |-> run]]
    BY <1>1 DEF SubmitNumber
  <2> QED
    BY <1>1, <2>1 DEF SubmitNumber, durable
<1>2. CASE SubmitInsert(j)
  <2>1. PICK intent \in Intents : table'[j] = NewRow(intent, submit[j].run)
    BY <1>2 DEF SubmitInsert
  <2>2. table'[j].status = "PENDING" /\ ~table'[j].report
    BY <2>1 DEF NewRow, NoRow
  <2>3. table[j].status = "absent" /\ seen[j] = {} /\ task[j] = "none"
    BY <1>2 DEF SubmitInsert
  <2>4. ~table[j].report
    BY <2>3
  <2>5. seen'[j] = {"PENDING"} /\ task' = task
    BY <1>2, <2>3 DEF SubmitInsert
  <2> QED
    BY <2>2, <2>3, <2>4, <2>5 DEF Accepts, SamePublished
<1>3. CASE SubmitFails(j) \/ SubmitQueue(j)
  BY <1>3 DEF SubmitFails, SubmitQueue, Idle, durable, history
<1> QED
  BY <1>1, <1>2, <1>3 DEF SubmitStep

LEMMA SameUnshown ==
    ASSUME NEW k \in Jobs, Same(k)
    PROVE  Unshown(k)
BY DEF Same, Unshown, Published, HasRows

LEMMA LifeFrame ==
    ASSUME NEW k \in Jobs, Life(k), Same(k)
    PROVE  Life(k)'
BY DEF Life, Same

\* A start turns the unfinished jobs to FAILED, and them only.
LEMMA StartShows ==
    ASSUME TypeOK, NEW k \in Jobs, JobInv(k), ReconcileAll, UNCHANGED <<rows, disk>>
    PROVE  /\ IF k \in Orphans(table)
              THEN Turns(k, "FAILED") /\ SamePublished(k) /\ seen[k] # {}
              ELSE Unshown(k)
           /\ table'[k].run = table[k].run
           /\ table'[k].report = table[k].report
           /\ seen[k] \subseteq seen'[k]
<1> USE DEF TypeOK, ReconcileAll
<1>1. table[k] \in Row
  OBVIOUS
<1>2. CASE k \in Orphans(table)
  <2>1. table'[k] = [table[k] EXCEPT !.status = "FAILED",
                        !.error = IF @ = "none" THEN "orphaned" ELSE @]
    BY <1>2 DEF Reconcile
  <2>2. seen'[k] = seen[k] \cup {"FAILED"}
    BY <1>2
  <2>3. seen[k] # {}
    BY <1>2 DEF JobInv, Completion, Orphans, Unfinished
  <2> QED
    BY <1>1, <1>2, <2>1, <2>2, <2>3 DEF Row, Turns, SamePublished, Published, HasRows
<1>3. CASE k \notin Orphans(table)
  <2>1. table'[k] = table[k] /\ seen'[k] = seen[k]
    BY <1>3 DEF Reconcile
  <2> QED
    BY <1>3, <2>1 DEF Unshown, Published, HasRows
<1> QED
  BY <1>2, <1>3

LEMMA ProcessLife ==
    ASSUME TypeOK, NEW k \in Jobs, JobInv(k), Life(k), ApiStart \/ ExtraApiStart \/ Crash
    PROVE  Life(k)' /\ table'[k].run = table[k].run
<1>1. CASE ApiStart \/ ExtraApiStart
  <2>1. ReconcileAll /\ UNCHANGED <<rows, disk, submit, task>>
    BY <1>1 DEF ApiStart, ExtraApiStart
  <2> QED
    BY <2>1, StartShows DEF Life
<1>2. CASE Crash
  BY <1>2 DEF Life, Crash, durable, history, Idle
<1> QED
  BY <1>1, <1>2

-----------------------------------------------------------------------------
(* Threads live while the process does.                                    *)

LEMMA ThreadsLive ==
    ASSUME TypeOK, \A j \in Jobs : LivingThreads(j), [RunnerNext]_runnerVars, NEW k \in Jobs
    PROVE  LivingThreads(k)'
<1> USE DEF LivingThreads, TypeOK
<1>1. CASE UNCHANGED runnerVars
  BY <1>1 DEF runnerVars
<1>2. ASSUME NEW j \in Jobs, SubmitStep(j) PROVE LivingThreads(k)'
  BY <1>2 DEF SubmitStep, SubmitNumber, SubmitInsert, SubmitFails, SubmitQueue, Idle, durable,
              history
<1>3. ASSUME NEW j \in Jobs, TaskWork(j) \/ Raise(j) \/ TaskDies(j) PROVE LivingThreads(k)'
  <2>1. /\ UNCHANGED <<up, submit>>
        /\ task[j] # "none"
        /\ task'[k] = task[k] \/ k = j
    BY <1>3 DEF TaskWork, MarkRunning, MarkStarting, RunNode, EnterGenerate, SkipGenerate,
                PersistRows, EnterExport, WriteReport, WriteCoverage, WriteSheets,
                CompleteNode, WrapUp, CloseTask, MarkFailed, MarkFailedStage, Raise,
                TaskDies, Step, Nodes, InTry, Exporting, Outside
  <2> QED
    BY <2>1
<1>4. CASE ApiStart \/ ExtraApiStart
  BY <1>4 DEF ApiStart, ExtraApiStart
<1>5. CASE Crash
  BY <1>5 DEF Crash, Idle
<1> QED
  BY <1>1, <1>2, <1>3, <1>4, <1>5 DEF RunnerNext

-----------------------------------------------------------------------------
(* Run numbers.                                                            *)

\* Steps that keep the numbers and who has a row keep the order.
LEMMA NumbersFrame ==
    ASSUME NEW k \in Jobs, Numbered(k), Present(table) \subseteq Present(table)',
           \A i \in Jobs : table'[i].run = table[i].run,
           earlier'[k] = earlier[k],
           submit'[k] = submit[k] \/ submit'[k].pc # "numbered",
           k \in Present(table)' => k \in Present(table), earlier[k] \subseteq Jobs
    PROVE  Numbered(k)'
BY DEF Numbered

\* The thread that inserts a row was numbered after all its earlier jobs; it
\* is not yet among the earlier jobs of another one.
LEMMA SubmitNumbers ==
    ASSUME RunnerInv, NEW j \in Jobs, SubmitStep(j), \A i \in Jobs : Numbered(i),
           NEW k \in Jobs
    PROVE  Numbered(k)'
<1>0. TypeOK /\ JobInv(j)
  BY DEF RunnerInv, JobInv
<1> USE DEF TypeOK
<1>1. CASE SubmitNumber(j)
  <2>1. PICK run \in NextRun(table) :
           submit' = [submit EXCEPT ![j] = [pc |-> "numbered", run |-> run]]
    BY <1>1 DEF SubmitNumber
  <2>2. \A i \in Present(table) : table[i].run < run
    BY <2>1 DEF NextRun
  <2>3. /\ table' = table /\ j \notin Present(table)
        /\ earlier' = [earlier EXCEPT ![j] = Present(table)]
    BY <1>1 DEF SubmitNumber, durable, Present
  <2>4. Present(table)' = Present(table)
    BY <2>3 DEF Present
  <2>5. CASE k = j
    BY <1>0, <2>1, <2>2, <2>3, <2>4, <2>5 DEF Numbered
  <2>6. CASE k # j
    BY <1>0, <2>1, <2>3, <2>4, <2>6 DEF Numbered
  <2> QED
    BY <2>5, <2>6
<1>2. CASE SubmitInsert(j)
  <2>1. PICK intent \in Intents :
           table' = [table EXCEPT ![j] = NewRow(intent, submit[j].run)]
    BY <1>2 DEF SubmitInsert
  <2>2. table'[j].status = "PENDING" /\ table'[j].run = submit[j].run
    BY <1>0, <2>1 DEF NewRow, NoRow
  <2>3. /\ j \notin Present(table) /\ submit[j].pc = "numbered"
        /\ submit' = [submit EXCEPT ![j].pc = "inserted"] /\ earlier' = earlier
    BY <1>0, <1>2 DEF SubmitInsert, JobInv, Completion, Present
  <2>4. Present(table)' = Present(table) \cup {j}
    BY <1>0, <2>1, <2>2 DEF Present
  <2>5. \A i \in Jobs \ {j} : table'[i] = table[i] /\ submit'[i] = submit[i]
    BY <1>0, <2>1, <2>3
  <2>6. \A i \in earlier[k] : i \in Jobs /\ i # j
    BY <2>3 DEF Numbered, Present
  <2>7. CASE k = j
    BY <1>0, <2>2, <2>3, <2>4, <2>5, <2>6, <2>7 DEF Numbered
  <2>8. CASE k # j
    BY <1>0, <2>3, <2>4, <2>5, <2>6, <2>8 DEF Numbered
  <2> QED
    BY <2>7, <2>8
<1>3. CASE SubmitFails(j) \/ SubmitQueue(j)
  <2>1. /\ UNCHANGED <<table, earlier>> /\ submit' = [submit EXCEPT ![j] = Idle]
    BY <1>3 DEF SubmitFails, SubmitQueue, durable, history
  <2> QED
    BY <1>0, <2>1 DEF Numbered, Present, Idle
<1> QED
  BY <1>1, <1>2, <1>3 DEF SubmitStep

LEMMA NumbersKept ==
    ASSUME RunnerInv, BoardInv, [RunnerNext]_runnerVars, NEW k \in Jobs
    PROVE  Numbered(k)'
<1>0. TypeOK /\ \A i \in Jobs : JobInv(i) /\ Life(i) /\ Numbered(i)
  BY DEF RunnerInv, JobInv, BoardInv
<1>1. CASE UNCHANGED runnerVars
  BY <1>0, <1>1 DEF runnerVars, Numbered, Present
<1>2. ASSUME NEW j \in Jobs, SubmitStep(j) PROVE Numbered(k)'
  BY <1>0, <1>2, SubmitNumbers
<1>3. ASSUME NEW j \in Jobs, TaskWork(j) \/ Raise(j) \/ TaskDies(j) PROVE Numbered(k)'
  <2>1. \A i \in Jobs : i # j => Same(i)
    BY <1>0, <1>3, Others
  <2>2. Shows(j) /\ table'[j].run = table[j].run
    BY <1>0, <1>3, TaskShows
  <2>3. table[j].status # "absent" /\ table'[j].status # "absent"
    <3>1. task[j] # "none"
      BY <1>3 DEF TaskWork, MarkRunning, MarkStarting, RunNode, EnterGenerate, SkipGenerate,
                PersistRows, EnterExport, WriteReport, WriteCoverage, WriteSheets,
                CompleteNode, WrapUp, CloseTask, MarkFailed, MarkFailedStage, Raise,
                TaskDies, Step, Nodes, InTry, Exporting, Outside
    <3>2. seen[j] # {}
      BY <1>0, <3>1 DEF Life
    <3> QED
      BY <1>0, <2>2, <3>2 DEF JobInv, Completion, Shows, Unshown, Turns
  <2>4. Present(table)' = Present(table) /\ \A i \in Jobs : table'[i].run = table[i].run
    BY <2>1, <2>2, <2>3 DEF Present, Same
  <2>5. UNCHANGED <<submit, earlier>>
    BY <1>3 DEF TaskWork, MarkRunning, MarkStarting, RunNode, EnterGenerate, SkipGenerate,
                PersistRows, EnterExport, WriteReport, WriteCoverage, WriteSheets,
                CompleteNode, WrapUp, CloseTask, MarkFailed, MarkFailedStage, Raise,
                TaskDies, history
  <2>6. earlier[k] \subseteq Jobs
    BY <1>0 DEF TypeOK
  <2> QED
    BY <1>0, <2>4, <2>5, <2>6, NumbersFrame
<1>4. CASE ApiStart \/ ExtraApiStart \/ Crash
  <2>1. \A i \in Jobs : table'[i].run = table[i].run
    BY <1>0, <1>4, ProcessLife
  <2>2. \A i \in Jobs : table'[i].status = "absent" <=> table[i].status = "absent"
    <3>1. table' = table \/ table' = Reconcile(table)
      BY <1>4 DEF ApiStart, ExtraApiStart, Crash, durable, ReconcileAll
    <3>2. ASSUME NEW i \in Jobs
          PROVE  Reconcile(table)[i].status = "absent" <=> table[i].status = "absent"
      BY <1>0 DEF TypeOK, Row, Reconcile, Orphans, Unfinished
    <3> QED
      BY <3>1, <3>2
  <2>3. Present(table)' = Present(table)
    BY <2>2 DEF Present
  <2>4. earlier' = earlier /\ (submit' = submit \/ \A i \in Jobs : submit'[i].pc = "idle")
    BY <1>4 DEF ApiStart, ExtraApiStart, Crash, history, Idle
  <2>5. earlier[k] \subseteq Jobs
    BY <1>0 DEF TypeOK
  <2> QED
    BY <1>0, <2>1, <2>3, <2>4, <2>5, NumbersFrame
<1> QED
  BY <1>1, <1>2, <1>3, <1>4 DEF RunnerNext

LEMMA BoardInvStarts == RunnerInit => BoardInv
BY DEF RunnerInit, BoardInv, Life, LivingThreads, Numbered, NoRow, Idle, Present

LEMMA BoardInvKept == RunnerInv /\ BoardInv /\ [RunnerNext]_runnerVars => BoardInv'
<1> SUFFICES ASSUME RunnerInv, BoardInv, [RunnerNext]_runnerVars, NEW k \in Jobs
             PROVE  Life(k)' /\ LivingThreads(k)' /\ Numbered(k)'
  BY DEF BoardInv
<1>0. TypeOK /\ \A i \in Jobs : JobInv(i) /\ Life(i) /\ LivingThreads(i)
  BY DEF RunnerInv, JobInv, BoardInv
<1>1. Life(k)'
  <2>1. CASE UNCHANGED runnerVars
    BY <1>0, <2>1, LifeFrame DEF runnerVars, Same
  <2>2. ASSUME NEW j \in Jobs, SubmitStep(j) \/ TaskWork(j) \/ Raise(j) \/ TaskDies(j)
        PROVE  Life(k)'
    <3>1. CASE k = j
      BY <1>0, <2>2, <3>1, SubmitShows, TaskShows
    <3>2. CASE k # j
      BY <1>0, <2>2, <3>2, Others, LifeFrame
    <3> QED
      BY <3>1, <3>2
  <2>3. CASE ApiStart \/ ExtraApiStart \/ Crash
    BY <1>0, <2>3, ProcessLife
  <2> QED
    BY <2>1, <2>2, <2>3 DEF RunnerNext
<1>2. LivingThreads(k)'
  BY <1>0, ThreadsLive
<1>3. Numbered(k)'
  BY NumbersKept
<1> QED
  BY <1>1, <1>2, <1>3

\* The invariant behind the theorems that follow: what a job has been through
\* when its threads get somewhere, and whom its number follows.
THEOREM BoardInvariant == RunnerSpec => [](RunnerInv /\ BoardInv)
BY InitInv, NextInv, BoardInvStarts, BoardInvKept, PTL DEF RunnerSpec

\* A job that had a row when another one was numbered has the smaller number,
\* although MAX(run_number) is read before the transaction that uses it.
THEOREM NumbersFollowCreation == RunnerSpec => []RunNumbersFollowCreation
<1>1. BoardInv => RunNumbersFollowCreation
  BY DEF BoardInv, Numbered, RunNumbersFollowCreation, Present
<1> QED
  BY <1>1, BoardInvariant, PTL

-----------------------------------------------------------------------------
(* The runner implements the board of JobContract.                         *)

\* When one job shows an action of the board and the others nothing, the board
\* takes that step.
LEMMA OneJobOnBoard ==
    ASSUME TypeOK, TypeOK', NEW j \in Jobs, Shows(j) \/ Accepts(j),
           \A k \in Jobs \ {j} : Unshown(k)
    PROVE  [Contract!BoardNext]_(Contract!boardVars)
<1> DEFINE shown(t) == [k \in Jobs |-> t[k].status]
           out == {k \in Jobs : Published(k)}
<1>0. /\ seen \in [Jobs -> SUBSET Statuses] /\ seen' \in [Jobs -> SUBSET Statuses]
      /\ \A k \in Jobs \ {j} : /\ table'[k].status = table[k].status /\ seen'[k] = seen[k]
                               /\ Published(k)' <=> Published(k)
  BY DEF TypeOK, Unshown
<1>1. CASE Unshown(j)
  <2>1. shown(table') = shown(table) /\ seen' = seen /\ out' = out
    BY <1>0, <1>1 DEF Unshown
  <2> QED
    BY <2>1 DEF Contract!boardVars
<1>2. CASE Turns(j, "RUNNING") /\ SamePublished(j) /\ "PENDING" \in seen[j]
  <2>1. /\ shown(table') = [shown(table) EXCEPT ![j] = "RUNNING"]
        /\ seen' = [seen EXCEPT ![j] = @ \cup {"RUNNING"}]
        /\ out' = out
    BY <1>0, <1>2 DEF Turns, SamePublished
  <2>2. Contract!Begin(j)
    BY <1>2, <2>1 DEF Contract!Begin
  <2> QED
    BY <2>2 DEF Contract!BoardNext
<1>3. CASE Turns(j, "COMPLETED") /\ Published(j)' /\ "RUNNING" \in seen[j]
  <2>1. /\ shown(table') = [shown(table) EXCEPT ![j] = "COMPLETED"]
        /\ seen' = [seen EXCEPT ![j] = @ \cup {"COMPLETED"}]
        /\ out' = out \cup {j}
    BY <1>0, <1>3 DEF Turns
  <2>2. Contract!Complete(j)
    BY <1>3, <2>1 DEF Contract!Complete
  <2> QED
    BY <2>2 DEF Contract!BoardNext
<1>4. CASE Turns(j, "FAILED") /\ SamePublished(j) /\ seen[j] # {}
  <2>1. /\ shown(table') = [k \in Jobs |-> IF k \in {j} THEN "FAILED" ELSE shown(table)[k]]
        /\ seen' = [k \in Jobs |-> IF k \in {j} THEN seen[k] \cup {"FAILED"} ELSE seen[k]]
        /\ out' = out
    BY <1>0, <1>4 DEF Turns, SamePublished
  <2>2. Contract!Fail({j})
    BY <1>4, <2>1 DEF Contract!Fail
  <2> QED
    BY <2>2 DEF Contract!BoardNext
<1>5. CASE Accepts(j)
  <2>1. /\ shown(table') = [shown(table) EXCEPT ![j] = "PENDING"]
        /\ seen' = [seen EXCEPT ![j] = {"PENDING"}]
        /\ out' = out
    BY <1>0, <1>5 DEF Accepts, SamePublished
  <2>2. Contract!Accept(j)
    BY <1>5, <2>1 DEF Accepts, Contract!Accept
  <2> QED
    BY <2>2 DEF Contract!BoardNext
<1> QED
  BY <1>1, <1>2, <1>3, <1>4, <1>5 DEF Shows

\* A start of the API is a failure of all unfinished jobs.
LEMMA StartOnBoard ==
    ASSUME TypeOK, TypeOK', \A k \in Jobs : JobInv(k), ReconcileAll, UNCHANGED <<rows, disk>>
    PROVE  Contract!BoardNext
<1> DEFINE shown(t) == [k \in Jobs |-> t[k].status]
           out == {k \in Jobs : Published(k)}
           S == Orphans(table)
<1>1. \A k \in Jobs : IF k \in S THEN Turns(k, "FAILED") /\ SamePublished(k) /\ seen[k] # {}
                      ELSE Unshown(k)
  BY StartShows
<1>2. S \subseteq Jobs
  BY DEF Orphans
<1> HIDE DEF S
<1>3. /\ shown(table') = [k \in Jobs |-> IF k \in S THEN "FAILED" ELSE shown(table)[k]]
      /\ seen' = [k \in Jobs |-> IF k \in S THEN seen[k] \cup {"FAILED"} ELSE seen[k]]
      /\ out' = out
  BY <1>1 DEF Turns, SamePublished, Unshown, TypeOK
<1>4. S \in SUBSET Jobs /\ Contract!Fail(S)
  BY <1>1, <1>2, <1>3 DEF Contract!Fail
<1> QED
  BY <1>4 DEF Contract!BoardNext, Contract!Fail

LEMMA StutterOnBoard ==
    ASSUME TypeOK, TypeOK', \A k \in Jobs : Unshown(k)
    PROVE  UNCHANGED (Contract!boardVars)
BY DEF Unshown, TypeOK, Contract!boardVars

LEMMA RunnerOnBoard ==
    ASSUME RunnerInv, BoardInv, [RunnerNext]_runnerVars
    PROVE  [Contract!BoardNext]_(Contract!boardVars)
<1>0. TypeOK /\ TypeOK' /\ \A i \in Jobs : JobInv(i) /\ Life(i)
  BY NextInv DEF RunnerInv, JobInv, BoardInv
<1>1. CASE UNCHANGED runnerVars
  <2>1. \A k \in Jobs : Same(k)
    BY <1>1 DEF runnerVars, Same
  <2> QED
    BY <1>0, <2>1, SameUnshown, StutterOnBoard
<1>2. ASSUME NEW j \in Jobs, SubmitStep(j) \/ TaskWork(j) \/ Raise(j) \/ TaskDies(j)
      PROVE  [Contract!BoardNext]_(Contract!boardVars)
  <2>1. \A k \in Jobs \ {j} : Unshown(k)
    BY <1>0, <1>2, Others, SameUnshown
  <2>2. Shows(j) \/ Accepts(j)
    BY <1>0, <1>2, SubmitShows, TaskShows DEF Shows
  <2> QED
    BY <1>0, <2>1, <2>2, OneJobOnBoard
<1>3. CASE ApiStart \/ ExtraApiStart
  <2>1. ReconcileAll /\ UNCHANGED <<rows, disk>>
    BY <1>3 DEF ApiStart, ExtraApiStart
  <2> QED
    BY <1>0, <2>1, StartOnBoard
<1>4. CASE Crash
  <2>1. \A k \in Jobs : Unshown(k)
    BY <1>4 DEF Crash, durable, history, Unshown, Published, HasRows
  <2> QED
    BY <1>0, <2>1, StutterOnBoard
<1> QED
  BY <1>1, <1>2, <1>3, <1>4 DEF RunnerNext

LEMMA BoardStarts == RunnerInit => Contract!BoardInit
BY DEF RunnerInit, Contract!BoardInit, NoRow, Published

\* The jobs table keeps the contract of the board through submissions, tasks,
\* failures, crashes, restarts and extra starts.
THEOREM RunnerKeepsBoard == RunnerSpec => BoardKept
<1>1. (RunnerInv /\ BoardInv) /\ [RunnerNext]_runnerVars
        => [Contract!BoardNext]_(Contract!boardVars)
  BY RunnerOnBoard
<1> QED
  BY <1>1, BoardStarts, BoardInvariant, PTL DEF RunnerSpec, BoardKept, Contract!Board

-----------------------------------------------------------------------------
(* What a job has published stays published.                               *)

LEMMA RunnerWithdrawsNothing ==
    ASSUME RunnerInv, BoardInv, [RunnerNext]_runnerVars, NEW k \in Jobs, Published(k)
    PROVE  Published(k)'
<1>0. TypeOK /\ \A i \in Jobs : JobInv(i) /\ Life(i)
  BY DEF RunnerInv, JobInv, BoardInv
<1>1. CASE UNCHANGED runnerVars
  BY <1>1 DEF runnerVars, Published, HasRows
<1>2. ASSUME NEW j \in Jobs, SubmitStep(j) \/ TaskWork(j) \/ Raise(j) \/ TaskDies(j)
      PROVE  Published(k)'
  <2>1. CASE k = j
    BY <1>0, <1>2, <2>1, SubmitShows, TaskShows DEF Shows, Accepts, Unshown, SamePublished
  <2>2. CASE k # j
    BY <1>0, <1>2, <2>2, Others, SameUnshown DEF Unshown
  <2> QED
    BY <2>1, <2>2
<1>3. CASE ApiStart \/ ExtraApiStart
  <2>1. ReconcileAll /\ UNCHANGED <<rows, disk>>
    BY <1>3 DEF ApiStart, ExtraApiStart
  <2> QED
    BY <1>0, <2>1, StartShows DEF Unshown, SamePublished
<1>4. CASE Crash
  BY <1>4 DEF Crash, durable, Published, HasRows
<1> QED
  BY <1>1, <1>2, <1>3, <1>4 DEF RunnerNext

\* No status update, failure, crash or restart takes a path or a file of a
\* published job away.
THEOREM RunnerNeverWithdraws == RunnerSpec => NeverWithdrawn
<1>1. (RunnerInv /\ BoardInv) /\ [RunnerNext]_runnerVars
        => [\A j \in Jobs : Published(j) => Published(j)']_runnerVars
  BY RunnerWithdrawsNothing
<1> QED
  BY <1>1, BoardInvariant, PTL DEF RunnerSpec, NeverWithdrawn

-----------------------------------------------------------------------------
(* Who fails an unfinished job, and who owns it.                           *)

\* A job turns FAILED by its own task or, at a start, when it has none.
LEMMA OnlyOrphansFail ==
    ASSUME RunnerInv, BoardInv, [RunnerNext]_runnerVars, budget'.starts = budget.starts,
           NEW k \in Jobs, table[k].status \in Unfinished, table'[k].status = "FAILED"
    PROVE  task[k] \in {"none", "failing"}
<1>0. TypeOK /\ \A i \in Jobs : JobInv(i) /\ Life(i) /\ LivingThreads(i)
  BY DEF RunnerInv, JobInv, BoardInv
<1>1. table'[k].status # table[k].status
  BY DEF Unfinished
<1>2. ~(UNCHANGED runnerVars)
  BY <1>1 DEF runnerVars
<1>3. ASSUME NEW j \in Jobs, SubmitStep(j) \/ TaskWork(j) \/ Raise(j) \/ TaskDies(j)
      PROVE  task[k] \in {"none", "failing"}
  <2>1. k = j
    BY <1>0, <1>1, <1>3, Others DEF Same
  <2>2. CASE SubmitStep(j)
    BY <1>0, <1>1, <2>1, <2>2, SubmitShows DEF Unshown, Accepts
  <2>3. CASE TaskWork(j) \/ Raise(j) \/ TaskDies(j)
    <3>1. task[k] # "failing" => \/ table'[k].status = table[k].status
                                 \/ table'[k].status \in {"RUNNING", "COMPLETED"}
      <4> SUFFICES ASSUME task[k] # "failing"
                   PROVE  \/ table'[k].status = table[k].status
                          \/ table'[k].status \in {"RUNNING", "COMPLETED"}
        OBVIOUS
      <4>1. \/ MarkRunning(j) \/ CompleteNode(j) \/ WrapUp(j)
            \/ (\E stage \in Stages \cup TaskPcs : WriteStage(j, stage)) \/ table' = table
        BY <2>1, <2>3 DEF TaskWork, MarkStarting, RunNode, EnterGenerate, SkipGenerate,
              PersistRows, EnterExport, WriteReport, WriteCoverage, WriteSheets, CloseTask,
              MarkFailed, MarkFailedStage, Raise, TaskDies, Step, durable, Stages, TaskPcs,
              Nodes, InTry
      <4>2. ASSUME NEW stage, WriteStage(j, stage) PROVE table'[k].status = table[k].status
        BY <1>0, <2>1, <4>2, StageRow
      <4>3. CASE MarkRunning(j)
        <5>1. WriteStatus(j, "RUNNING", FALSE, FALSE, "none")
          BY <4>3 DEF MarkRunning
        <5> QED
          BY <1>0, <2>1, <5>1, StatusRow DEF Turns
      <4>4. CASE CompleteNode(j)
        <5>1. WriteStatus(j, "COMPLETED", TRUE, HasRows(j), "none")
          BY <4>4, Zenon DEF CompleteNode
        <5> QED
          BY <1>0, <2>1, <5>1, CompletedRow DEF Turns
      <4>5. CASE WrapUp(j)
        <5>1. WriteStatus(j, "COMPLETED", TRUE, HasRows(j), "none")
          BY <4>5, Zenon DEF WrapUp
        <5> QED
          BY <1>0, <2>1, <5>1, CompletedRow DEF Turns
      <4> QED
        BY <4>1, <4>2, <4>3, <4>4, <4>5
    <3> QED
      BY <1>1, <3>1
  <2> QED
    BY <1>3, <2>2, <2>3
<1>4. CASE ApiStart
  <2>1. ~up
    BY <1>4 DEF ApiStart
  <2> QED
    BY <1>0, <2>1 DEF LivingThreads
<1>5. ~ExtraApiStart
  BY <1>0 DEF ExtraApiStart, TypeOK
<1>6. ~Crash
  BY <1>1 DEF Crash, durable
<1> QED
  BY <1>2, <1>3, <1>4, <1>5, <1>6 DEF RunnerNext

\* Unless a second API process starts beside a running one, an unfinished job
\* is failed by its own task or has none, for any number of jobs and crashes.
THEOREM OnlyOrphansAreFailed == RunnerSpec => RestartFailsOrphans
<1>1. (RunnerInv /\ BoardInv) /\ [RunnerNext]_runnerVars
        => [budget'.starts = budget.starts =>
              \A j \in Jobs :
                table[j].status \in Unfinished /\ table'[j].status = "FAILED"
                => task[j] \in {"none", "failing"}]_runnerVars
  BY OnlyOrphansFail
<1> QED
  BY <1>1, BoardInvariant, PTL DEF RunnerSpec, RestartFailsOrphans

(* The owner of an unfinished row; a task about to end has finished its row. *)
Owned(k) ==
    /\ up /\ budget.deaths = 0 /\ table[k].status \in Unfinished
         => task[k] # "none" \/ submit[k].pc = "inserted"
    /\ task[k] \in {"closing", "failnote"} => table[k].status \notin Unfinished

LEMMA TaskOwns ==
    ASSUME TypeOK, NEW j \in Jobs, Owned(j), TaskWork(j) \/ Raise(j) \/ TaskDies(j)
    PROVE  Owned(j)'
<1> USE DEF TypeOK, Owned
<1>1. CASE CloseTask(j) \/ MarkFailedStage(j)
  BY <1>1, StageRow DEF CloseTask, MarkFailedStage, Step
<1>2. CASE CompleteNode(j)
  BY <1>2 DEF CompleteNode, Step
<1>3. CASE WrapUp(j)
  <2>1. WriteStatus(j, "COMPLETED", TRUE, HasRows(j), "none")
    BY <1>3, Zenon DEF WrapUp
  <2>2. table'[j].status = "COMPLETED"
    BY <2>1, CompletedRow DEF Turns
  <2> QED
    BY <1>3, <2>2 DEF WrapUp, Step, Unfinished
<1>4. CASE MarkFailed(j)
  <2>1. WriteStatus(j, "FAILED", FALSE, FALSE, "exception")
    BY <1>4 DEF MarkFailed
  <2>2. table'[j].status = "FAILED"
    BY <2>1, StatusRow DEF Turns
  <2> QED
    BY <1>4, <2>2 DEF MarkFailed, Step, Unfinished
<1>5. CASE TaskDies(j)
  <2>1. budget'.deaths # 0 /\ task'[j] = "none"
    BY <1>5 DEF TaskDies
  <2> QED
    BY <2>1
<1>6. CASE RunNode(j)
  <2>1. task'[j] \notin {"none", "closing", "failnote"}
    BY <1>6 DEF RunNode, Nodes, Following
  <2> QED
    BY <2>1
<1>7. ASSUME \/ MarkRunning(j) \/ MarkStarting(j) \/ EnterGenerate(j) \/ SkipGenerate(j)
             \/ PersistRows(j) \/ EnterExport(j) \/ WriteReport(j) \/ WriteCoverage(j)
             \/ WriteSheets(j) \/ Raise(j)
      PROVE  Owned(j)'
  <2>1. task'[j] \notin {"none", "closing", "failnote"}
    BY <1>7 DEF MarkRunning, MarkStarting, EnterGenerate, SkipGenerate, PersistRows,
                EnterExport, WriteReport, WriteCoverage, WriteSheets, Raise, Step
  <2> QED
    BY <2>1
<1> QED
  BY <1>1, <1>2, <1>3, <1>4, <1>5, <1>6, <1>7 DEF TaskWork

LEMMA OwnersKept ==
    ASSUME RunnerInv, NEW k \in Jobs, Owned(k), [RunnerNext]_runnerVars
    PROVE  Owned(k)'
<1>0. TypeOK /\ \A i \in Jobs : JobInv(i)
  BY DEF RunnerInv, JobInv
<1>1. CASE UNCHANGED runnerVars
  BY <1>1 DEF runnerVars, Owned
<1>2. ASSUME NEW j \in Jobs, SubmitStep(j) \/ TaskWork(j) \/ Raise(j) \/ TaskDies(j)
      PROVE  Owned(k)'
  <2>1. CASE k # j
    <3>1. Same(k)
      BY <1>0, <1>2, <2>1, Others
    <3>2. up' = up /\ (budget'.deaths = 0 => budget.deaths = 0)
      <4>1. CASE TaskDies(j)
        <5>1. up' = up /\ budget'.deaths = budget.deaths + 1 /\ budget.deaths \in Nat
          BY <1>0, <4>1 DEF TaskDies, TypeOK
        <5> QED
          BY <5>1
      <4>2. CASE SubmitStep(j)
        BY <4>2 DEF SubmitStep, SubmitNumber, SubmitInsert, SubmitFails, SubmitQueue
      <4>3. CASE TaskWork(j) \/ Raise(j)
        BY <4>3 DEF TaskWork, MarkRunning, MarkStarting, RunNode, EnterGenerate, SkipGenerate,
                    PersistRows, EnterExport, WriteReport, WriteCoverage, WriteSheets,
                    CompleteNode, WrapUp, CloseTask, MarkFailed, MarkFailedStage, Raise
      <4> QED
        BY <1>2, <4>1, <4>2, <4>3
    <3> QED
      BY <3>1, <3>2 DEF Owned, Same
  <2>2. CASE k = j /\ ~SubmitStep(j)
    BY <1>0, <1>2, <2>2, TaskOwns
  <2>3. CASE k = j /\ SubmitStep(j)
    <3>1. CASE SubmitNumber(j)
      BY <1>0, <2>3, <3>1 DEF SubmitNumber, Owned, durable, Unfinished
    <3>2. CASE SubmitInsert(j)
      BY <1>0, <2>3, <3>2 DEF SubmitInsert, Owned, TypeOK, JobInv, Completion
    <3>3. CASE SubmitFails(j)
      BY <1>0, <2>3, <3>3 DEF SubmitFails, Owned, durable, JobInv, Completion, Unfinished
    <3>4. CASE SubmitQueue(j)
      BY <1>0, <2>3, <3>4 DEF SubmitQueue, Owned, TypeOK
    <3> QED
      BY <2>3, <3>1, <3>2, <3>3, <3>4 DEF SubmitStep
  <2> QED
    BY <2>1, <2>2, <2>3
<1>3. CASE ApiStart \/ ExtraApiStart
  <2>1. /\ table' = Reconcile(table) /\ UNCHANGED <<submit, task>>
    BY <1>3 DEF ApiStart, ExtraApiStart, ReconcileAll
  <2>2. Reconcile(table)[k].status \notin Unfinished
    BY <1>0 DEF TypeOK, Row, Reconcile, Orphans, Unfinished
  <2> QED
    BY <2>1, <2>2 DEF Owned
<1>4. CASE Crash
  BY <1>4 DEF Crash, Owned
<1> QED
  BY <1>1, <1>2, <1>3, <1>4 DEF RunnerNext

-----------------------------------------------------------------------------
(* The same board with downloads that write back what they read, and       *)
(* reviewers: a stale status is a Revert of the board.                     *)

\* A reviewed file and a decided row show nothing.
LEMMA QuietSteps ==
    ASSUME ServiceInv,
           (\E h \in Handlers : DownloadExport(h)) \/ (\E j \in Jobs : ReviewerDecides(j))
    PROVE  /\ UNCHANGED <<table, up, submit, task, seen, earlier>>
           /\ \A k \in Jobs : Unshown(k)
<1>0. TypeOK
  BY DEF ServiceInv, RunnerInv
<1>1. ASSUME NEW h \in Handlers, DownloadExport(h)
      PROVE  /\ UNCHANGED <<table, up, submit, task, seen, earlier>>
             /\ \A k \in Jobs : Unshown(k)
  <2>1. /\ UNCHANGED <<table, rows, up, submit, task, seen, earlier>>
        /\ disk' = [disk EXCEPT ![download[h].job] = @ \cup {"reviewed"}]
    BY <1>1 DEF DownloadExport, memory, history
  <2>2. \A k \in Jobs : disk'[k] = disk[k] \/ disk'[k] = disk[k] \cup {"reviewed"}
    BY <1>0, <2>1 DEF TypeOK
  <2>3. ASSUME NEW k \in Jobs PROVE Unshown(k)
    <3>1. \A file \in {"report", "qa", "csv", "xlsx"} : file \in disk'[k] <=> file \in disk[k]
      BY <2>2
    <3> QED
      BY <2>1, <3>1 DEF Unshown, Published, HasRows
  <2> QED
    BY <2>1, <2>3
<1>2. ASSUME NEW j \in Jobs, ReviewerDecides(j)
      PROVE  /\ UNCHANGED <<table, up, submit, task, seen, earlier>>
             /\ \A k \in Jobs : Unshown(k)
  <2>1. /\ rows' = [rows EXCEPT ![j].pending = @ - 1]
        /\ UNCHANGED <<table, disk, up, submit, task, seen, earlier>>
    BY <1>2 DEF ReviewerDecides, memory, history
  <2>2. \A k \in Jobs : rows'[k].total = rows[k].total
    BY <1>0, <2>1 DEF TypeOK
  <2> QED
    BY <2>1, <2>2 DEF Unshown, Published, HasRows
<1> QED
  BY <1>1, <1>2

\* A write-back changes the status to one the job has been through, and no path.
LEMMA WriteBackShows ==
    ASSUME ServiceInv, NEW h \in Handlers, DownloadWriteBack(h)
    PROVE  /\ UNCHANGED <<rows, disk, up, submit, task, seen, earlier>>
           /\ \E j \in Jobs :
                 /\ \E status \in seen[j] \cap Statuses : table'[j].status = status
                 /\ seen[j] # {}
                 /\ \A k \in Jobs \ {j} : table'[k] = table[k]
           /\ \A k \in Jobs : /\ table'[k].run = table[k].run
                              /\ table'[k].report <=> table[k].report
                              /\ table'[k].excel <=> table[k].excel
<1>0. TypeOK
  BY DEF ServiceInv, RunnerInv
<1> DEFINE j == download[h].job
           status == download[h].status
<1>1. /\ j \in Jobs /\ status \in seen[j] \cap Statuses
      /\ table' = [table EXCEPT ![j] = UpdateStatus(table[j], status, FALSE, FALSE, "none")]
  BY <1>0 DEF ServiceInv, CarriesHistory, DownloadWriteBack, TypeOK
<1> HIDE DEF j, status
<1>2. UNCHANGED <<rows, disk, up, submit, task, seen, earlier>>
  BY DEF DownloadWriteBack, memory, history
<1>3. /\ table'[j] = UpdateStatus(table[j], status, FALSE, FALSE, "none")
      /\ table[j] \in Row
      /\ \A k \in Jobs \ {j} : table'[k] = table[k]
  BY <1>0, <1>1 DEF TypeOK
<1>4. /\ table'[j].status = status /\ table'[j].run = table[j].run
      /\ table'[j].report <=> table[j].report
      /\ table'[j].excel <=> table[j].excel
  BY <1>3 DEF UpdateStatus, Row
<1> QED
  BY <1>1, <1>2, <1>3, <1>4

LEMMA ServiceBoardInv == ServiceInv /\ BoardInv /\ [Next]_vars => BoardInv'
<1> SUFFICES ASSUME ServiceInv, BoardInv, [Next]_vars PROVE BoardInv'
  OBVIOUS
<1>0. RunnerInv /\ TypeOK /\ \A i \in Jobs : JobInv(i) /\ Life(i) /\ LivingThreads(i) /\ Numbered(i)
  BY DEF ServiceInv, RunnerInv, JobInv, BoardInv
<1>1. CASE [RunnerNext]_runnerVars
  BY <1>0, <1>1, BoardInvKept
<1>2. CASE (\E h \in Handlers : DownloadExport(h)) \/ (\E j \in Jobs : ReviewerDecides(j))
  <2>1. UNCHANGED <<table, up, submit, task, seen, earlier>>
    BY <1>2, QuietSteps
  <2> QED
    BY <1>0, <2>1 DEF BoardInv, Life, LivingThreads, Numbered, Present
<1>3. ASSUME NEW h \in Handlers, DownloadWriteBack(h) PROVE BoardInv'
  <2>1. UNCHANGED <<up, submit, task, seen, earlier>>
    BY <1>3, WriteBackShows
  <2>2. \A k \in Jobs : table'[k].run = table[k].run /\ (table'[k].report <=> table[k].report)
    BY <1>3, WriteBackShows
  <2>3. \A k \in Jobs : table'[k].status = "absent" <=> table[k].status = "absent"
    BY <1>0, <1>3, WriteBackShows DEF Statuses, Unfinished, JobInv, Completion
  <2>4. Present(table)' = Present(table)
    BY <2>3 DEF Present
  <2>5. \A k \in Jobs : earlier[k] \subseteq Jobs
    BY <1>0 DEF TypeOK
  <2>6. \A k \in Jobs : Numbered(k)'
    BY <1>0, <2>1, <2>2, <2>4, <2>5, NumbersFrame
  <2> QED
    BY <1>0, <2>1, <2>2, <2>6 DEF BoardInv, Life, LivingThreads
<1> QED
  BY <1>1, <1>2, <1>3, StepKinds

LEMMA ServiceOnBoard ==
    ASSUME ServiceInv, BoardInv, [Next]_vars
    PROVE  [Contract!BoardNext]_(Contract!boardVars)
<1>0. RunnerInv /\ TypeOK /\ TypeOK'
  BY RunnerInvKept DEF ServiceInv, RunnerInv
<1>1. CASE [RunnerNext]_runnerVars
  BY <1>0, <1>1, RunnerOnBoard
<1>2. CASE (\E h \in Handlers : DownloadExport(h)) \/ (\E j \in Jobs : ReviewerDecides(j))
  BY <1>0, <1>2, QuietSteps, StutterOnBoard
<1>3. ASSUME NEW h \in Handlers, DownloadWriteBack(h) PROVE Contract!BoardNext
  <2> DEFINE shown(t) == [k \in Jobs |-> t[k].status]
             out == {k \in Jobs : Published(k)}
  <2>1. PICK j \in Jobs : /\ \E status \in seen[j] : table'[j].status = status
                          /\ \A k \in Jobs \ {j} : table'[k] = table[k]
    BY <1>3, WriteBackShows
  <2>2. seen' = seen /\ \A k \in Jobs : Published(k)' <=> Published(k)
    BY <1>3, WriteBackShows DEF Published, HasRows
  <2>3. /\ \E status \in seen[j] : shown(table') = [shown(table) EXCEPT ![j] = status]
        /\ out' = out
    BY <2>1, <2>2
  <2>4. Contract!Revert(j)
    BY <2>1, <2>2, <2>3 DEF Contract!Revert
  <2> QED
    BY <2>4 DEF Contract!BoardNext
<1> QED
  BY <1>1, <1>2, <1>3, StepKinds

\* Numbers follow creation although downloads rewrite rows.
THEOREM ServiceNumbers == Spec => []RunNumbersFollowCreation
<1>1. BoardInv => RunNumbersFollowCreation
  BY DEF BoardInv, Numbered, RunNumbersFollowCreation, Present
<1>2. Init => BoardInv
  BY BoardInvStarts DEF Init
<1> QED
  BY <1>1, <1>2, ServiceInvariant, ServiceBoardInv, PTL DEF Spec

\* The jobs table keeps the contract of the board with any number of downloads
\* that write back a status they read long ago: what a reader sees is a status
\* the job has been through, and COMPLETED is not seen before the report.
THEOREM ServiceKeepsBoard == Spec => BoardKept
<1>1. ServiceInv /\ BoardInv /\ [Next]_vars => [Contract!BoardNext]_(Contract!boardVars)
  BY ServiceOnBoard
<1>2. Init => BoardInv /\ Contract!BoardInit
  BY BoardInvStarts, BoardStarts DEF Init
<1> QED
  BY <1>1, <1>2, ServiceInvariant, ServiceBoardInv, PTL DEF Spec, BoardKept, Contract!Board

(* An unfinished row has an owner unless a download took it back. *)
Accounted(k) == k \in restored \/ Owned(k)

LEMMA AccountedKept ==
    ASSUME ServiceInv, NEW k \in Jobs, Accounted(k), [Next]_vars
    PROVE  Accounted(k)'
<1>0. RunnerInv /\ TypeOK
  BY DEF ServiceInv, RunnerInv
<1>1. ASSUME table'[k].status \notin Unfinished PROVE Owned(k)'
  BY <1>1 DEF Owned
<1>2. ASSUME NEW h \in Handlers, DownloadWriteBack(h) PROVE Accounted(k)'
  <2> DEFINE j == download[h].job
  <2>1. /\ UNCHANGED <<up, submit, task, budget>>
        /\ restored' = {i \in restored \cup ({j} \ Orphans(table)) :
                           table'[i].status \in Unfinished}
    BY <1>2 DEF DownloadWriteBack, memory, history
  <2>2. k # j => table'[k] = table[k]
    BY <1>0, <1>2 DEF DownloadWriteBack, TypeOK
  <2> HIDE DEF j
  <2> SUFFICES ASSUME table'[k].status \in Unfinished, k \notin restored'
               PROVE  Owned(k)'
    BY <1>1 DEF Accounted
  <2>3. k \notin restored /\ (k # j \/ table[k].status \in Unfinished)
    BY <2>1 DEF Orphans
  <2>4. Owned(k) /\ table[k].status \in Unfinished
    BY <2>2, <2>3 DEF Accounted
  <2> QED
    BY <2>1, <2>4 DEF Owned
<1>3. CASE (\E h \in Handlers : DownloadExport(h)) \/ (\E j \in Jobs : ReviewerDecides(j))
  <2>1. UNCHANGED <<table, up, submit, task, budget, restored>>
    BY <1>3 DEF DownloadExport, ReviewerDecides, memory, history
  <2> QED
    BY <2>1 DEF Accounted, Owned
<1>4. CASE [RunnerNext]_runnerVars /\ (restored' = restored \/ KeepRestored)
  <2>1. CASE k \in restored
    BY <1>1, <1>4, <2>1 DEF Accounted, KeepRestored
  <2>2. CASE k \notin restored
    BY <1>0, <1>4, <2>2, OwnersKept DEF Accounted
  <2> QED
    BY <2>1, <2>2
<1> QED
  BY <1>2, <1>3, <1>4, StepKinds, RestoredSteps

\* While the process lives and no database error met a spot without handler,
\* every unfinished row belongs to a submission or a task, unless a download
\* took it back from a final status: for any number of jobs, crashes, restarts,
\* extra starts, downloads and reviewers.
THEOREM UnfinishedAreOwned == Spec => []UnfinishedHasOwner
<1> DEFINE AllAccounted == \A k \in Jobs : Accounted(k)
<1>1. Init => AllAccounted
  BY DEF Init, RunnerInit, Accounted, Owned
<1>2. ServiceInv /\ AllAccounted /\ [Next]_vars => AllAccounted'
  BY AccountedKept
<1>3. AllAccounted => UnfinishedHasOwner
  BY DEF Accounted, Owned, UnfinishedHasOwner, Orphans
<1> HIDE DEF AllAccounted
<1> QED
  BY <1>1, <1>2, <1>3, ServiceInvariant, PTL DEF Spec
=============================================================================
