CONSTANTS
    u1 = u1
    u2 = u2
    u3 = u3
    m1 = m1
    v1 = v1
    v2 = v2
    t1 = t1
    t2 = t2
    d1 = d1
    d2 = d2
    r1 = r1
    r2 = r2
    None = None
    Users <- MCUsers
    Mails <- MCMails
    VKUsers <- MCVKUsers
    Tokens <- MCTokens
    Devices <- MCDevices
    AuthRequests <- MCRequests
SPECIFICATION AccountsSpec
CONSTRAINT Instance
SYMMETRY Symmetry
INVARIANTS AccountsTypeOK OneSubscription AccountsStayReachable
