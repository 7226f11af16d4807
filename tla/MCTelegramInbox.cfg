CONSTANTS
    SendCodes = {s1}
    SignIns = {r1}
    SignOuts = {}
    Boots = {}
    DMs = {m1, m2}
    Owners = {}
    Chans = {}
    Numbers = {}
    Connects = {}
    Leaves = {}
    Hooks = {}
    NoOne = NoOne
    Nobody = Nobody
    MayFail = FALSE
SPECIFICATION TelegramSpec
CHECK_DEADLOCK FALSE
INVARIANT EveryDMIsStored
