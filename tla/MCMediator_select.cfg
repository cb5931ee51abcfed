SPECIFICATION Spec
CONSTANTS
    n1 = n1
    n2 = n2
    c1 = c1
    c2 = c2
    c3 = c3
    Node = {n1, n2}
    Account = {Shared}
    Shared = Shared
    AckAccount = {Shared}
    Cred = {c1, c2}
    NoCred = NoCred
    Garbage = Garbage
    Undecodable = Undecodable
    LiveResults = {"none", "revoked"}
    Cooldown = 1
    PushAll = TRUE
    SendsFail = TRUE
    ChannelBuf = 1
    MaxConn = 1
    MaxTime = 2
    FormatName = "codex"
    Skew = 1
    expiresAt <- MCExpiresAt
    lastRefresh <- MCLastRefresh
INVARIANTS TruthSupported MirrorAgrees PushIsNewest
PROPERTIES NoRegression ImplementsRegister
SYMMETRY NodeSymmetry
CHECK_DEADLOCK FALSE
