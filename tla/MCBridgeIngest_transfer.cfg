CONSTANTS
    a = a
    b = b
    d1 = d1
    d2 = d2
    Operator = Operator
    Instances = {a,b}
    Ids = {d1,d2}
    Kinds = {"report"}
    Faults = {"ack"}
    MaxHead = 2
    MaxSession = 2
    MaxSequence = 0
    MaxAged = 0
    RetentionRecords = 1
    FetchLimit = 2
    MaxFence = 2
    MaxQueue = 9
    RetryMax = 2
    Revisions = {1}
SPECIFICATION Spec
SYMMETRY Interchangeable
INVARIANTS NothingForgotten CursorsBehindRecords CountedOnce MarkedIsTaken
PROPERTIES FenceAdvances TransferSpec LossInSessionIsOnRecord
