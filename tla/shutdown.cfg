CONSTANTS LINES = 2
SPECIFICATION FairSpec
INVARIANTS TypeOK LinesWhole ClosedUnused ShutdownLogged
PROPERTIES StopsOrDeadlocks
CHECK_DEADLOCK FALSE
