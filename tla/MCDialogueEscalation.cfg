CONSTANTS
    t1 = t1
    t2 = t2
    o1 = o1
    k1 = k1
    a1 = a1
    a2 = a2
    NoOne = NoOne
    NoAgent = NoAgent
    Unscored = Unscored
    Everything = Everything
    Turns <- MCTurns
    Requests <- MCRequests
    Callers <- MCCallers
    Scorers <- MCTurns
    Callbacks <- MCCallbacks
    Accounts <- MCAccounts
    Agents <- MCAgents
    Messages <- MCMessages
    Slugs = {"sales", ""}
    MaxEdits = 3
    MaxAttempts = 2
    Life = 1
    LastTick = 2
    MaxIter = 2
    MaxCalls = 2
    Threshold = 60
    MayFail = FALSE
    ScoreMayFail = FALSE
SPECIFICATION Spec
CONSTRAINT Instance
SYMMETRY Symmetry
INVARIANT EscalationAlerts
CHECK_DEADLOCK FALSE
