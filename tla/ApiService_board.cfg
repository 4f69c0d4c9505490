CONSTANTS
    j1 = j1
    h1 = h1
    Jobs <- OneJob
    Handlers <- OneHandler
    MaxRows = 1
    MaxCrashes = 1
    MaxExtraStarts = 1
    MaxTaskDeaths = 0
SPECIFICATION FairSpec
INVARIANTS
    CompletedAnswerIsFinal
    UnfinishedHasOwner
PROPERTIES
    BoardKept
    SettlesUndisturbed
    UiLearnsOutcome
CHECK_DEADLOCK FALSE
