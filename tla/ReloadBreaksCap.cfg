SPECIFICATION Spec
CONSTANTS
    N = 3
    Team <- MCFewTeam
    Claimable <- MCClaimable
    UnknownTeam = {}
    Limit = 1
    MaxGen = 2
CHECK_DEADLOCK FALSE
INVARIANTS CapPerSlot
