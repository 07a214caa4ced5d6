SPECIFICATION FairSpec
CONSTANTS
    Host = {1, 2, 3}
    MaxBoot = 1
    MaxPhysical = 1
    EventHlc <- MCEventHlc
CHECK_DEADLOCK FALSE
INVARIANTS UnflaggedWinnersHaveNotMet YieldsOnlyToLower LowestOwns
PROPERTIES ImplementsOwnership EventuallyOneOwner
