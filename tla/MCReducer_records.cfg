CONSTANTS
    o1 = o1
    o2 = o2
    o3 = o3
    x1 = x1
    x2 = x2
    Tokens = {o1, o2, o3}
    Triples = {x1, x2}
    Reflections <- MCReflections
    MaxAttributes = 3
    MaxBytes = 6
    MaxObjects = 2
    MaxTokens = 3
    MaxGenerations = 2
    MaxRevision = 1
SPECIFICATION Spec
SYMMETRY Interchangeable
INVARIANTS ViewIsEligible BooksBalance
PROPERTIES LifeSpec
CHECK_DEADLOCK FALSE
