SPECIFICATION HostSpec
CONSTANTS
    q1 = q1
    q2 = q2
    q3 = q3
    x = x
    y = y
    AuthCalls = {q1, q2, q3}
    Accounts = {x, y}
    Scoped = x
    Nobody = Nobody
    MaxTokens = 3
    AuthSetups <- HostSetups
    ManagerCalls = {q1, q2, q3}
    Identities = {x, y}
    NoIdentity = NoIdentity
    MaxLives = 2
    ManagerOps = {"load", "connect", "session", "invalidate", "disconnect", "cancel", "dispose"}
    tab1 = tab1
    tab2 = tab2
    A = A
    B = B
    Nothing = Nothing
    All = All
    Setups <- CacheSetups
    ExpireAfter = 1
    MaxPuts = 2
    MaxClears = 1
SYMMETRY Symmetry
INVARIANTS CredentialsAgree HeldForIdentity
    ClearedStaysCleared NoSaveForgotten
PROPERTIES AnsweredForSameIdentity ExchangedForIdentity
CHECK_DEADLOCK FALSE
