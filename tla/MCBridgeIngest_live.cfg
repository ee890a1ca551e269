CONSTANTS
    a = a
    b = b
    d1 = d1
    Operator = Operator
    Instances = {a,b}
    Ids = {d1}
    Kinds = {"report"}
    Faults = {"ack","sink","garbled"}
    MaxHead = 1
    MaxSession = 1
    MaxSequence = 0
    MaxAged = 0
    RetentionRecords = 2
    FetchLimit = 1
    MaxFence = 2
    MaxQueue = 1
    RetryMax = 1
    Revisions = {1}
SPECIFICATION FairSpec
PROPERTIES RecordsSettle EventsDispatched CommitsReleased
