CONSTANTS
    a = a
    b = b
    r1 = r1
    r2 = r2
    Operator = Operator
    Instances = {a}
    Requests = {r1, r2}
    Refused = {r2}
    Faults = {"lost", "unavailable", "commit", "crash"}
    Immediate = FALSE
    MaxExports = 1
    MaxFence = 4
SPECIFICATION Spec
INVARIANTS QueueBounded SentOnce
CHECK_DEADLOCK FALSE
