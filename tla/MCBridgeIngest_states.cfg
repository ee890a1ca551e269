CONSTANTS
    a = a
    d1 = d1
    d2 = d2
    Operator = Operator
    Instances = {a}
    Ids = {d1}
    Kinds = {"refused","gap","reset","stop"}
    Faults = {"auth","identities","unavailable","commit"}
    MaxHead = 2
    MaxSession = 1
    MaxSequence = 1
    MaxAged = 1
    RetentionRecords = 2
    FetchLimit = 2
    MaxFence = 3
    MaxQueue = 1
    RetryMax = 2
    Revisions = {1,2}
SPECIFICATION Spec
SYMMETRY Interchangeable
INVARIANTS TypeOK GapOnRecord
PROPERTIES HeldUntilReleased
