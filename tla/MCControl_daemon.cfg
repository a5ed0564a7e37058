SPECIFICATION ControlSpec
CONSTANTS
    Table <- MCTable
    Final = {"HUP", "QUIT"}
    MaxSent = 0
    D = {"ino", "src", "out", "cli"}
    Kind <- MCKind
    Setups <- MCSetups
    MaxAppends = 1
INVARIANT SuccessorFound
CHECK_DEADLOCK FALSE
