CONSTANTS
    Reported = {"CONNECT", "RETRACTION"}
    Retries = 1
    MaxFrames = 7
    Faults = {"io", "outputs", "spawn", "rss", "reducer"}
SPECIFICATION LiveSpec
INVARIANTS EndFits DiagnosedOnce BoundaryFollowsFooter 
PROPERTIES WellShaped StopEnds LifeEnds
CHECK_DEADLOCK FALSE
