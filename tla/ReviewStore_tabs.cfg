\* Two reviewers on the same row; requests may time out while the API thread
\* goes on with them.
SPECIFICATION PagesSpec
CONSTANTS
    Rows = {r1}
    Sessions = {tab1, tab2}
    Handlers = {h1}
    MayTimeOut = TRUE
SYMMETRY Interchangeable
INVARIANTS RowShowsItsLog DecidesOnce SheetsShowDecisions PageIsCurrent PageIsWhole
CHECK_DEADLOCK TRUE
