SPECIFICATION FairSpec
CONSTANTS
    Path = {cred, meta}
    Primary = cred
    Content = {old, new, torn}
    Torn = torn
    NoFile = NoFile
    QueueCap = 1
    StableTicks = 2
    KernelCap = 2
    EventsLost = FALSE
    MaxWrites = 2
INVARIANTS NothingForgotten
PROPERTIES Settles
