---------------------------- MODULE JobContract ----------------------------
(***************************************************************************)
(* What the job board promises its readers, whatever happens inside: the   *)
(* /status endpoint, the /report endpoint and the review UI all read one   *)
(* status column, which several threads and processes write.               *)
(*                                                                         *)
(* The column is no atomic register: a reviewed download puts back the     *)
(* status it read earlier.  It is still a truthful one: the status shown   *)
(* is one the job really has been through, a job is COMPLETED only after   *)
(* it was RUNNING and its report is published, and a published report is   *)
(* never unpublished.                                                      *)
(***************************************************************************)
CONSTANT Jobs

VARIABLES
    shown,      \* per job: the status a reader of the board sees
    been,       \* per job: the statuses the job has been through
    published   \* the jobs whose report can be fetched

boardVars == <<shown, been, published>>

BoardInit ==
    /\ shown = [j \in Jobs |-> "absent"]
    /\ been  = [j \in Jobs |-> {}]
    /\ published = {}

Accept(j) ==
    /\ been[j] = {}
    /\ shown' = [shown EXCEPT ![j] = "PENDING"]
    /\ been'  = [been EXCEPT ![j] = {"PENDING"}]
    /\ UNCHANGED published

Begin(j) ==
    /\ "PENDING" \in been[j]
    /\ shown' = [shown EXCEPT ![j] = "RUNNING"]
    /\ been'  = [been EXCEPT ![j] = @ \cup {"RUNNING"}]
    /\ UNCHANGED published

\* Publishing and turning COMPLETED are one step of the board.
Complete(j) ==
    /\ "RUNNING" \in been[j]
    /\ shown' = [shown EXCEPT ![j] = "COMPLETED"]
    /\ been'  = [been EXCEPT ![j] = @ \cup {"COMPLETED"}]
    /\ published' = published \cup {j}

\* A failure of one job, or of all those a restart finds unfinished.
Fail(S) ==
    /\ \A j \in S : been[j] # {}
    /\ shown' = [j \in Jobs |-> IF j \in S THEN "FAILED" ELSE shown[j]]
    /\ been'  = [j \in Jobs |-> IF j \in S THEN been[j] \cup {"FAILED"} ELSE been[j]]
    /\ UNCHANGED published

\* A stale status comes back.
Revert(j) ==
    /\ \E status \in been[j] : shown' = [shown EXCEPT ![j] = status]
    /\ UNCHANGED <<been, published>>

BoardNext ==
    \/ \E j \in Jobs : Accept(j) \/ Begin(j) \/ Complete(j) \/ Revert(j)
    \/ \E S \in SUBSET Jobs : Fail(S)

Board == BoardInit /\ [][BoardNext]_boardVars

\* The guarantee a reader relies on: COMPLETED is shown only for a job whose
\* report can be fetched.
BoardTruthful == \A j \in Jobs : shown[j] = "COMPLETED" => j \in published
=============================================================================
