CONSTANTS
    a = a
    d1 = d1
    d2 = d2
    Operator = Operator
    Instances = {a}
    Ids = {d1,d2}
    Kinds = {"report"}
    Faults = {}
    MaxHead = 2
    MaxSession = 2
    MaxSequence = 0
    MaxAged = 2
    RetentionRecords = 2
    FetchLimit = 1
    MaxFence = 3
    MaxQueue = 9
    RetryMax = 2
    Revisions = {1}
SPECIFICATION Spec
PROPERTIES LossIsOnRecord
