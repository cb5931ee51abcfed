SPECIFICATION SyncFairSpec
CONSTANTS
    n1 = n1
    n2 = n2
    a1 = a1
    a2 = a2
    c1 = c1
    c2 = c2
    c3 = c3
    c4 = c4
    Node = {n1, n2}
    Account = {Shared, a1, a2}
    Shared = Shared
    AckAccount = {Shared}
    Cred = {c1, c2, c3, c4}
    NoCred = NoCred
    Garbage = Garbage
    Undecodable = Undecodable
    LiveResults = {"none"}
    Cooldown = 0
    PushAll = FALSE
    SendsFail = FALSE
    ChannelBuf = 1
    MaxConn = 1
    MaxTime = 1
    FormatName = "codex"
    Skew = 0
    expiresAt <- MCExpiresTied
    lastRefresh <- MCLastRefresh
    owner <- MCOwner
    InitFile <- MCInitFile
    Workloads <- MCConverge
INVARIANTS SyncTypeOK TruthIsNewest BoundariesKept
PROPERTIES Convergence
CHECK_DEADLOCK FALSE
