SPECIFICATION Spec
CONSTANTS
    HighWM = 2
    Lens = {1, 2}
    Connects = {"ACTIVE", "PENDING", "INIT", "DEAD"}
    Reports = {"error", "eof"}
    MaxWrites = 4
INVARIANTS
    LinesKept
    ActiveIsConnected
    OwnNumberOnly
PROPERTY EstablishedNoticed
CHECK_DEADLOCK FALSE
