SPECIFICATION Spec
CONSTANTS
    Node = {"n1", "n2"}
    Profile = {"p"}
    ServerSpecs <- MCServerSpecs
    MaxCommands = 3
    MaxAborts = 2
INVARIANTS NothingDestroyed SuccessUsable
CHECK_DEADLOCK FALSE
