\* Three columns of every shape, two threads.
SPECIFICATION FairSpec
CONSTANTS
    NumJobs = 3
    MaxWorkers = 2
    Shapes <- MCShapes
INVARIANTS NotesAreInherited
PROPERTIES RowsOfColumns EveryColumnReturns
\* It stops when every row has been returned.
CHECK_DEADLOCK FALSE
