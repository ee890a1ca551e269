CONSTANTS
    a = a
    b = b
    r1 = r1
    r2 = r2
    Operator = Operator
    Instances = {a, b}
    Requests = {r1}
    Refused = {}
    Faults = {"lost", "unavailable", "auth", "crash"}
    Immediate = TRUE
    MaxExports = 2
    MaxFence = 4
SPECIFICATION FairSpec
CHECK_DEADLOCK FALSE
PROPERTIES FinalStays OutcomeSpec 
