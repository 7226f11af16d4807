CONSTANTS
    SendCodes = {s1, s2}
    SignIns = {r1}
    SignOuts = {}
    Boots = {b1}
    DMs = {}
    Owners = {}
    Chans = {}
    Numbers = {}
    Connects = {}
    Leaves = {}
    Hooks = {}
    NoOne = NoOne
    Nobody = Nobody
    MayFail = FALSE
SPECIFICATION TelegramFairSpec
CHECK_DEADLOCK FALSE
PROPERTIES
    EveryFlowEnds
    RequestsAnswered
    StoredIsConnected
