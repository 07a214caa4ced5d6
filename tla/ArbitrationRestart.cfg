SPECIFICATION Spec
CONSTANTS
    Host = {1, 2}
    MaxBoot = 2
    MaxPhysical = 1
    EventHlc <- MCEventHlc
CHECK_DEADLOCK FALSE
INVARIANTS TypeOK WonRowIsLowest LateClaimIsReported
PROPERTIES NoUndercutting
