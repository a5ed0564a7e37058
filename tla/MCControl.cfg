SPECIFICATION ControlSpec
CONSTANTS
    Table <- MCTable
    Final = {"HUP", "QUIT"}
    MaxSent = 3
    D = {"ino", "src", "out", "cli"}
    Kind <- MCKind
    Setups <- MCSetups
    MaxAppends = 1
INVARIANTS
    ServedOnlyIfSent
    OverlookedOnlyIfLate
    DrainedAtExit
    HandedOverExactly
    PidFileKept
    DaemonCutOff
PROPERTIES
    AnnouncedIsServed
    OldGoes
    TransferEnds
CHECK_DEADLOCK FALSE
