SPECIFICATION FairSpec
CONSTANTS
    r1 = r1
    r2 = r2
    Content = {old, new, torn}
    Torn = torn
    NoFile = NoFile
    Tokenless = {}
    InitStatus <- MCStatus
    Aging = {old}
    Reporter = {r1, r2}
    MaxWrites = 1
INVARIANTS SingleAttempt
PROPERTIES Nudged
