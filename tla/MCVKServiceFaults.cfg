CONSTANTS
    m1 = m1
    r1 = r1
    r2 = r2
    NoOne = NoOne
    Messages <- OneMessage
    Requests <- TwoRequests
    Mode = "hybrid"
    LLMConfigured = TRUE
    IntentOf <- IntentOne
    Choices <- OnOrOff
    MayFail = TRUE
    MayExpire = FALSE
    MayDisconnect = TRUE
    MayCrash = TRUE
    OAuths = {o1}
    Manuals = {h1}
    Disconnects = {d1}
    Boots = {b1}
    NoWorker = NoWorker
    FirstTs = 8
    LastTs = 10
    CallsMayFail = TRUE
    MayExpireKey = TRUE
CHECK_DEADLOCK FALSE
SYMMETRY RequestSymmetry
SPECIFICATION ServiceSpec
CONSTRAINT Instance
INVARIANTS
    TypeOK
    SentDraftNamesDelivery
    ApprovedMeansHumanReply
    ProcessedHasOutcome
    AutoReplyHasConsent
    WorkersTypeOK
    LiveIsRegistered
    OnePipelinePerMessage
    ManualTokenKept
    ConsumedWasSeen
PROPERTIES
    ApprovalIsPermanent
    ImplementsLedger
