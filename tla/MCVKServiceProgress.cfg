CONSTANTS
    m1 = m1
    r1 = r1
    r2 = r2
    NoOne = NoOne
    Messages <- OneMessage
    Requests <- OneRequest
    Mode = "hybrid"
    LLMConfigured = TRUE
    IntentOf <- IntentOne
    Choices <- OnOrOff
    MayFail = FALSE
    MayExpire = TRUE
    MayDisconnect = TRUE
    MayCrash = FALSE
    OAuths = {o1}
    Manuals = {h1}
    Disconnects = {}
    Boots = {b1}
    NoWorker = NoWorker
    FirstTs = 9
    LastTs = 11
    CallsMayFail = FALSE
    MayExpireKey = FALSE
CHECK_DEADLOCK FALSE
SPECIFICATION ServiceFairSpec
INVARIANT LateGenerateSendsNothing
PROPERTIES
    EveryMessageProcessed
    CancelledEnds
    AwaitedIsStored
