CONSTANTS
    SendCodes = {s1, s2}
    SignIns = {r1, r2}
    SignOuts = {o1}
    Boots = {b1}
    DMs = {m1, m2}
    Owners = {u1}
    Chans = {c1, c2}
    Numbers = {1}
    Connects = {k1, k2}
    Leaves = {d1, d2}
    Hooks = {h1, h2}
    NoOne = NoOne
    Nobody = Nobody
    MayFail = TRUE
SPECIFICATION TelegramSpec
CONSTRAINT Instance
SYMMETRY Symmetry
CHECK_DEADLOCK FALSE
INVARIANTS
    TelegramTypeOK
    SuccessWasSaved
    LiveListenerRegistered
    StoredIsAuthorized
    RepliesAreRecorded
    PostsAreConsented
