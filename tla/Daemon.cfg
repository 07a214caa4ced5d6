SPECIFICATION DaemonSpec
CONSTANTS
    N = 4
    Team <- MCTeam
    Claimable <- MCClaimable
    UnknownTeam = {4}
    Limit = 2
    MaxGen = 3
    Agents = {"a", "b"}  MaxJobs = 1  Jobs = {1, 2}  Schedules <- MCSchedules  MaxTime = 2  MaxTimers = 4
    MaxSecretCalls = 3  MaxModelCalls = 2  MaxInputs = 2  LoopMayFail = TRUE
    Threads = {ta, tb}  Threshold = 2  WindowTicks = 2  MaxStrikes = 5
CHECK_DEADLOCK FALSE
INVARIANTS SlotsAreKept OneVerdict TimersFollowRows SomeoneAnswers DefaultIsHonoured PagedOncePerOutage
PROPERTIES EventsSettle
