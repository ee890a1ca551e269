CONSTANTS
    Thresholds = {0, 2}
    Skew = 1
    Times = {0, 3}
    MaxNow = 11
    MaxRecords = 2
SPECIFICATION LiveSpec
INVARIANTS ToldIsStored
PROPERTIES NeverFresher AgesOut
CHECK_DEADLOCK FALSE
