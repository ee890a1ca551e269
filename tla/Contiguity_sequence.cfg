CONSTANTS
    Faults = {"skip", "unsound", "inject", "restart"}
    MaxRecords = 4
    MaxSessions = 2
    MaxSkips = 2
SPECIFICATION Spec
INVARIANTS SkipIsOnRecord GapMeansSkip
CHECK_DEADLOCK FALSE
