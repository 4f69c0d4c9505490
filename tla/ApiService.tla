----------------------------- MODULE ApiService -----------------------------
(***************************************************************************)
(* The API around the running jobs, composed with JobRunner: the status    *)
(* endpoint and the UI that polls it (_wait_for_job), the reviewed CSV and *)
(* Excel downloads, and the reviewers, who write dd_rows from the          *)
(* Streamlit process.                                                      *)
(*                                                                         *)
(* Both endpoints read the database in more than one transaction.  The     *)
(* download handlers even write: the status they read at the start, once   *)
(* the export is done, back into the row.                                  *)
(***************************************************************************)
EXTENDS JobRunner, Sequences

CONSTANT Handlers      \* request threads serving reviewed downloads

VARIABLES
    poll,       \* per job: the UI that submitted it, polling /status
    download,   \* per handler: the reviewed download it serves
    restored    \* history: the unfinished jobs whose row a download took
                \* back from a final status

serviceVars == <<poll, download>>
vars == <<table, rows, disk, up, submit, task, budget, seen, earlier, poll, download, restored>>

\* The order in which get_job_status reads: the job's row, then, on a second
\* connection, the PENDING_REVIEW count and the total count.
MutReadStatusLast  == <<"pending", "total", "status">>
ReadOrder          == <<"status", "pending", "total">>

NoJob   == "none"
NotPolling == [pc |-> "off", reads |-> 0, status |-> "absent", pending |-> 0, total |-> 0]
NoRequest  == [pc |-> "idle", job |-> NoJob, status |-> "absent"]

\* Polls and downloads hold what the two loops keep between their reads.
ServiceTypeOK ==
    /\ TypeOK
    /\ poll \in [Jobs -> [pc : {"off", "asking", "stopped", "gaveup"},
                          reads : 0..3, status : Statuses \cup {"absent"},
                          pending : Nat, total : Nat]]
    /\ download \in [Handlers -> [pc : {"idle", "read", "exported"},
                                  job : Jobs \cup {NoJob},
                                  status : Statuses \cup {"absent"}]]
    /\ restored \subseteq Jobs

Init ==
    /\ RunnerInit
    /\ poll     = [j \in Jobs |-> NotPolling]
    /\ download = [h \in Handlers |-> NoRequest]
    /\ restored = {}

\* The history of the write-backs ends for a job that shows a final status.
KeepRestored == restored' = {j \in restored : table'[j].status \in Unfinished}

-----------------------------------------------------------------------------
(* GET /jobs/{id}/status and the UI loop around it. *)

\* The response to POST /jobs: from now on the UI asks for this job.
QueueAndAnswer(j) ==
    /\ SubmitQueue(j)
    /\ poll' = [poll EXCEPT ![j] = [NotPolling EXCEPT !.pc = "asking"]]
    /\ UNCHANGED <<download, restored>>

\* One read of the endpoint; the answer leaves with the third.
PollRead(j) ==
    /\ up
    /\ poll[j].pc = "asking"
    /\ poll[j].reads < 3
    /\ LET column == ReadOrder[poll[j].reads + 1] IN
       poll' = [poll EXCEPT
           ![j].reads   = @ + 1,
           ![j].status  = IF column = "status"  THEN table[j].status ELSE @,
           ![j].pending = IF column = "pending" THEN rows[j].pending ELSE @,
           ![j].total   = IF column = "total"   THEN rows[j].total   ELSE @]
    /\ UNCHANGED <<runnerVars, download, restored>>

Answered(j) == poll[j].pc = "asking" /\ poll[j].reads = 3

MutPollStop(j) ==
    /\ Answered(j)
    /\ poll[j].status # "RUNNING"
    /\ poll' = [poll EXCEPT ![j].pc = "stopped"]
    /\ UNCHANGED <<runnerVars, download, restored>>

\* _wait_for_job: a final status ends the loop, anything else asks again.
PollStop(j) ==
    /\ Answered(j)
    /\ poll[j].status \in {"COMPLETED", "FAILED"}
    /\ poll' = [poll EXCEPT ![j].pc = "stopped"]
    /\ UNCHANGED <<runnerVars, download, restored>>

PollAgain(j) ==
    /\ Answered(j)
    /\ poll[j].status \notin {"COMPLETED", "FAILED"}
    /\ poll' = [poll EXCEPT ![j] = [NotPolling EXCEPT !.pc = "asking"]]
    /\ UNCHANGED <<runnerVars, download, restored>>

\* The loop ends with an error: the endpoint answers 500, or 1800 seconds are
\* over without a final status or without an API that can be reached.
PollGiveUp(j) ==
    /\ poll[j].pc = "asking"
    /\ ~(Answered(j) /\ poll[j].status \in {"COMPLETED", "FAILED"})
    /\ poll' = [poll EXCEPT ![j].pc = "gaveup"]
    /\ UNCHANGED <<runnerVars, download, restored>>

-----------------------------------------------------------------------------
(* GET /jobs/{id}/csv and /excel.  Both are the same three transactions.   *)

DownloadRead(h, j) ==
    /\ up
    /\ download[h].pc = "idle"
    /\ table[j].status # "absent"
    /\ download' = [download EXCEPT ![h] =
                       [pc |-> "read", job |-> j, status |-> table[j].status]]
    /\ UNCHANGED <<runnerVars, poll, restored>>

\* The reviewed rows go to a file of their own, one for each endpoint.
DownloadExport(h) ==
    /\ download[h].pc = "read"
    /\ disk' = [disk EXCEPT ![download[h].job] = @ \cup {"reviewed"}]
    /\ download' = [download EXCEPT ![h].pc = "exported"]
    /\ UNCHANGED <<table, rows, up, memory, budget, history, poll, restored>>

MutDownloadWriteBack(h) ==
    /\ download[h].pc = "exported"
    /\ LET j == download[h].job IN
       table' = [table EXCEPT ![j] =
                    UpdateStatus(table[j], "COMPLETED", FALSE, FALSE, "none")]
    /\ KeepRestored
    /\ download' = [download EXCEPT ![h] = NoRequest]
    /\ UNCHANGED <<rows, disk, up, memory, budget, history, poll>>

\* update_job_status(job_id, job["status"]) with every other argument NULL.
DownloadWriteBack(h) ==
    /\ download[h].pc = "exported"
    /\ LET j == download[h].job IN
       table' = [table EXCEPT ![j] =
                    UpdateStatus(table[j], download[h].status, FALSE, FALSE, "none")]
    /\ restored' = LET back == {download[h].job} \ Orphans(table) IN
                   {j \in restored \cup back : table'[j].status \in Unfinished}
    /\ download' = [download EXCEPT ![h] = NoRequest]
    /\ UNCHANGED <<rows, disk, up, memory, budget, history, poll>>

\* The export or the write-back raises: the request answers 500.
DownloadFails(h) ==
    /\ download[h].pc # "idle"
    /\ download' = [download EXCEPT ![h] = NoRequest]
    /\ UNCHANGED <<runnerVars, poll, restored>>

-----------------------------------------------------------------------------
(* A reviewer decides a pending row (record_review_decision), whether the  *)
(* API is up or not; ReviewStore looks into the row itself.      *)
ReviewerDecides(j) ==
    /\ rows[j].pending > 0
    /\ rows' = [rows EXCEPT ![j].pending = @ - 1]
    /\ UNCHANGED <<table, disk, up, memory, budget, history, serviceVars, restored>>

-----------------------------------------------------------------------------
\* A killed process drops its requests; the UI's next try starts afresh.
CrashService ==
    /\ Crash
    /\ download' = [h \in Handlers |-> NoRequest]
    /\ poll' = [j \in Jobs |->
                   IF poll[j].pc = "asking" /\ poll[j].reads < 3
                   THEN [NotPolling EXCEPT !.pc = "asking"]
                   ELSE poll[j]]
    /\ UNCHANGED restored

\* A step of the runner that no request in progress takes part in.
Beside == UNCHANGED serviceVars /\ KeepRestored

TaskThread(j)   == (TaskWork(j) \/ Raise(j) \/ TaskDies(j)) /\ Beside
SubmitThread(j) == ((SubmitInsert(j) \/ SubmitFails(j)) /\ Beside) \/ QueueAndAnswer(j)
Request(j)      == SubmitNumber(j) /\ Beside
Starts          == (ApiStart \/ ExtraApiStart) /\ Beside
PollLoop(j)     == PollRead(j) \/ PollStop(j) \/ PollAgain(j)
DownloadStep(h) == \/ \E j \in Jobs : DownloadRead(h, j)
                   \/ DownloadExport(h) \/ DownloadWriteBack(h) \/ DownloadFails(h)

Next ==
    \/ \E j \in Jobs : \/ Request(j) \/ SubmitThread(j) \/ TaskThread(j)
                       \/ PollLoop(j) \/ PollGiveUp(j) \/ ReviewerDecides(j)
    \/ \E h \in Handlers : DownloadStep(h)
    \/ Starts \/ CrashService

Spec == Init /\ [][Next]_vars

(* A thread that can run does run: threads are scheduled by the operating   *)
(* system and every node terminates.  A UI that waits keeps polling (its    *)
(* loop sleeps two seconds between answers), and each of its requests is    *)
(* served while the API is up.  Nothing makes a request arrive, a node      *)
(* raise, or the process die or come back.                                  *)
FairSpec ==
    /\ Spec
    /\ \A j \in Jobs : /\ WF_vars(SubmitThread(j))
                       /\ WF_vars(TaskWork(j) /\ Beside)
                       /\ WF_vars(PollLoop(j))

-----------------------------------------------------------------------------
(* Properties. *)

\* A download carries a status its job has been through.
CarriesHistory(h) ==
    download[h].pc # "idle" => /\ download[h].job \in Jobs
                               /\ download[h].status \in seen[download[h].job]

ServiceInv == RunnerInv /\ ServiceTypeOK /\ \A h \in Handlers : CarriesHistory(h)

\* An answer that says COMPLETED has all the rows the job will ever have, and
\* its report can be fetched: the UI reads both once and never again.
CompletedAnswerIsFinal ==
    \A j \in Jobs : Answered(j) /\ poll[j].status = "COMPLETED" =>
                      poll[j].total = rows[j].total /\ Published(j)

\* No reviewed download disturbs the board: each one writes back the status
\* it read, over whatever the task has written since.
NoDownloads == [](\A h \in Handlers : download[h].pc = "idle")

\* Without one, a job that started settles while a UI watches it.
SettlesUndisturbed == NoDownloads => Settles

\* Once the process stays up, a UI that waits for a job and does not give up
\* is told how the job ended, and what it stopped asking at is not undone: a
\* job it saw FAILED stays FAILED, and one it saw COMPLETED has its artifacts
\* (a late error may still write FAILED over COMPLETED).  No start of a second
\* API process: it fails a job that goes on and may complete.
ToldHowItEnded(j) ==
    \/ poll[j].status = "FAILED" /\ table[j].status = "FAILED"
    \/ poll[j].status = "COMPLETED" /\ Published(j)

UiLearnsOutcome ==
    (<>[]up /\ NoDownloads /\ [](budget.starts = 0)) =>
        \A j \in Jobs :
            /\ [](poll[j].pc = "stopped" => ToldHowItEnded(j))
            /\ [](poll[j].pc # "gaveup") => (poll[j].pc = "asking" ~> poll[j].pc = "stopped")

\* While the API is up, every unfinished row belongs to a living thread: the
\* submission that is about to queue it or the task that works on it.  A row
\* without one is the "permanently stuck" job of reconcile_orphaned_jobs, and
\* two things leave one behind: a database error that nobody catches, and a
\* download that read an unfinished status before the job ended and wrote it
\* back over the final one.
UnfinishedHasOwner ==
    up /\ budget.deaths = 0 =>
      \A j \in Orphans(table) \ restored : task[j] # "none" \/ submit[j].pc = "inserted"
=============================================================================
