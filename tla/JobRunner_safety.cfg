\* Two jobs, a crash, a start of a second API process and a database error.
CONSTANTS
    j1 = j1
    j2 = j2
    Jobs <- TwoJobs
    MaxRows = 1
    MaxCrashes = 1
    MaxExtraStarts = 1
    MaxTaskDeaths = 1
SPECIFICATION RunnerSpec
SYMMETRY Symmetry
INVARIANTS
    CompletedMeansArtifacts
    RunNumbersFollowCreation
PROPERTIES
    NeverWithdrawn
    RestartFailsOrphans
\* the jobs are done and the bounds are used up
CHECK_DEADLOCK FALSE
