CONSTANTS
    OAuths = {o1}
    Manuals = {}
    Disconnects = {d1}
    Boots = {}
    NoWorker = NoWorker
    FirstTs = 8
    LastTs = 9
    CallsMayFail = FALSE
    MayExpireKey = FALSE
CHECK_DEADLOCK FALSE
SPECIFICATION WorkersSpec
INVARIANTS DisconnectStops
