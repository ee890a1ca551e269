CONSTANTS
    s = s
    t = t
    Incarnations = {1, 2}
    Times = {1, 2}
    States = {s, t}
    MaxIdentities = 2
    MaxRecords = 4
    MaxEpoch = 2
    MaxNow = 1
SPECIFICATION SinkSpec
SYMMETRY Interchangeable
INVARIANTS TombstoneClosed AcceptedOnce OlderIncarnationEnds EpochClosed
PROPERTIES CurrentNeverBack 
CHECK_DEADLOCK FALSE
