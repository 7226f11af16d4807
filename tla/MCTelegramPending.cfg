CONSTANTS
    SendCodes = {s1, s2}
    SignIns = {r1}
    SignOuts = {}
    Boots = {}
    DMs = {}
    Owners = {}
    Chans = {}
    Numbers = {}
    Connects = {}
    Leaves = {}
    Hooks = {}
    NoOne = NoOne
    Nobody = Nobody
    MayFail = FALSE
SPECIFICATION TelegramSpec
CHECK_DEADLOCK FALSE
INVARIANT PendingUntilDone
