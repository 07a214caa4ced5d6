SPECIFICATION ExtensionSpec
CONSTANTS
    SlackEvents = {"e1", "e2"}  SlackDials = 3  SeenEventCap = 1
    Exts = {"a", "b"}  Callers = {p1, p2}  Threshold = 2  MaxLoads = 2
    Sessions = 2  SessionEvents = 3  Connects = 4
    Updates = 3  Loads = 3
    Pieces = 2  Turns = 2  Messages = 2  Waiting = 2  Private = TRUE
    BridgeThreads = {"chat", "job"}  JobThreads = {"job"}  BridgeTurns = 3  BridgePieces = 2
    StreamTexts <- MCTexts  StreamCalls = 5  ChunkOf = 2  ChunkCap = 2
    MaxDecisions = 2  InitialDecisions = {1}  Matching = {1}  VoteKeys = {"modify"}
    MaxKeys = 3  MaxReplies = 1
CHECK_DEADLOCK FALSE
SYMMETRY Symmetry
INVARIANTS RegistriesAreWhole SocketsRecover InboundOnce RepliesAreWhole InboxIsShown
