SPECIFICATION Spec
CONSTANTS
    c1 = c1
    c2 = c2
    q1 = q1
    q2 = q2
    t1 = t1
    t2 = t2
    t3 = t3
    None = None
    Clients <- TwoClients
    Requests <- TwoRequests
    Tokens <- ThreeTokens
    MaxResets = 1
    MaxMishaps = 1
SYMMETRY Symmetry
CHECK_DEADLOCK FALSE
INVARIANTS
    TypeOK
    RestingCookieIsActive
    NothingForTheBarred
    ResetEndsOldSessions
    TokenExchangedOnce
    LogoutEndsSession
