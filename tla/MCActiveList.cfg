SPECIFICATION Spec
CONSTANTS
    d1 = d1
    d2 = d2
    d3 = d3
    D = {d1, d2, d3}
    Configs <- PeersOrLogs
    Connects = {"ACTIVE", "PENDING", "INIT", "DEAD"}
    Rotations = {"ok", "rename_fails", "open_fails"}
    EofReported = TRUE
    Head = Head
    NULL = NULL
INVARIANTS
    ListExact
    MissedOnlyBehindRenewed
    CrashOnlyByLateConnect
PROPERTY WalkEndsOrLoops
CHECK_DEADLOCK FALSE
