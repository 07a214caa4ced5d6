SPECIFICATION Spec
CONSTANTS
    N = 2
    Relayed = {}
    ChunkSize = 1
    MaxQueue = 2
    MaxCuts = 1
CHECK_DEADLOCK FALSE
INVARIANTS CaughtUp
