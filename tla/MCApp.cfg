SPECIFICATION FairSpec
CONSTANTS
    Profile = {"p1", "p2"}
    Cred = {"v1"}
    Sinks = 2
    Chats = 2
    Configs <- MCConfigs
    Down <- MCDown
    MaxChanges <- MCMaxChanges
    MaxUpdates = 2
    Member = {"listener", "reload"}
    MaxStarts <- MCMaxStarts
INVARIANTS NoCommandVanishes
PROPERTIES ReturnMeansShut RunReturns 
CHECK_DEADLOCK FALSE
