CONSTANTS
    Schedule <- MCSchedule
    StableReset = 60
    Jitter = {8, 12}
    Pauses = {0, 300}
    MaxExchanges = 11
SPECIFICATION Spec
INVARIANTS FailuresPaced
CHECK_DEADLOCK FALSE
