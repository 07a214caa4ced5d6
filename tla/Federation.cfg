SPECIFICATION FederationSpec
CONSTANTS
    Replica = {r1, r2}
    MemEvent <- MCMemEvent
    Last = 3
    Relayed = {2}
    ChunkSize = 1
    MaxQueue = 1
    MaxCuts = 2
    TeamHosts = {a, b, c}
    TeamFounder = a
    Invites = {i1, i2}
    NoHost = NoHost
    NoInvite = NoInvite
    MaxLeaves = 1
    MaxRestarts = 1
    MaxHandshakeLosses = 1
CHECK_DEADLOCK FALSE
INVARIANTS MemoriesAgree HandledOnce InviteAdmitsOne MembersCanSpeak
PROPERTIES NoResurrection CatchupCompletes MeshSettles
