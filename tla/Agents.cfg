SPECIFICATION AgentSpec
CONSTANTS
    Thread = {t1, t2}
    Disposable = {t1, t2}
    Retention = 1
    N = 3
    Extending = {2}
    MaxRounds = 2
    Cap = 2
    Tiers <- MCTiers  Tools <- MCTools  TierOf <- MCTierOf  Unset = Unset
    Human = Human  Root = Root  Children = {child}  NoOne = NoOne
    Delegable = "strategic"  SpawnScopes <- MCSpawnScopes  Payloads <- MCPayloads
    ProposeTool = otherTool  RespondTool = otherTool
    plainTool = plainTool  otherTool = otherTool  bigTool = bigTool
    Asks = {1}  Decisions = {1, 2}
    MailThreads = {"work", "mailbox"}  Mailbox = "mailbox"
    Deadlines = {0}  Never = Never
    MaxTime = 1  MaxRestarts = 1
    CliThreads = {"cli"}  MaxCliInputs = 3  MaxSessions = 2  MaxCliCrashes = 1  MaxCalls = 1
    MemoryTeams = {"squad"}  MemoryRoles = {"principle", "skill"}  MaxMemories = 2  MaxEdits = 1
CHECK_DEADLOCK FALSE
INVARIANTS SpendIsKept HistoryIsSound ThreadsAreKept GrantedIsCallable AnswersArrive CliTurnsAreWhole MemoriesStayPrivate
PROPERTIES EveryInputIsTaken NothingFromNowhere
