SPECIFICATION FairSpec
CONSTANTS
    m1 = m1
    m2 = m2
    m3 = m3
    m4 = m4
    Bye = Bye
    Msg = {m1, m2}
    From <- MCFrom
    Unsendable = {}
    Malformed = {}
    Hurried = {m1}
    RecvBuf = 1
    Closers = {"agent", "server"}
    CanCut = TRUE
INVARIANTS LatestKept SuccessIsDelivered
PROPERTIES SendReturns BothEnd
CHECK_DEADLOCK FALSE
