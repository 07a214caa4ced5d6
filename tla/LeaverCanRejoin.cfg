INIT Init
NEXT Next
CONSTANTS
    TeamHosts = {a, b, c}
    TeamFounder = a
    Invites = {i1, i2}
    NoHost = NoHost
    NoInvite = NoInvite
    MaxLeaves = 1
    MaxRestarts = 1
    MaxHandshakeLosses = 1
INVARIANTS LeaverCanRejoin
CHECK_DEADLOCK FALSE
