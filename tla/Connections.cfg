SPECIFICATION ConnectionSpec
CONSTANTS
    MaxSends = 3
    MaxQueue = 2
    StaleAfter = 1
    Methods = {"publish", "tools.call", "inbox.respond", "gone"}
    Configs <- MCConfigs
    MaxRequests = 3
    MaxEvents = 2
    Streamers = {"host"}
    Quota <- MCQuota
    MaxIds = 2
    MaxItems = 1
CHECK_DEADLOCK FALSE
INVARIANTS LinkIsKept OneAnswer
PROPERTIES CallsSettle
