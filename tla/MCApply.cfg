SPECIFICATION FairSpec
CONSTANTS
    x = x
    y = y
    a1 = a1
    a2 = a2
    Applier = {a1, a2}
    Cli = Cli
    Free = Free
    Content = {x, y}
    Absent = Absent
    Pushes <- MCPushes
    NoPush = NoPush
    LockRetryMax = 3
    DiskFails = TRUE
    CliBare = TRUE
INVARIANTS AckMeansApplied Recoverable
PROPERTIES RestoresOwnWrite Answered LockFreed
CHECK_DEADLOCK FALSE
