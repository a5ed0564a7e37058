SPECIFICATION OutputSpec
CONSTANTS
    MaxStatements = 4
    None = None
    Rules <- MCRules
    HighWM = 3
    Lens = {1, 2}
    Faults = {"write_error", "short_write"}
    MaxWrites = 6
INVARIANTS
    EvaluatedExactly
    CapturesOfEnclosing
    NothingLost
    NoDangling
    InOrder
    LossOnlyByShortWrite
CHECK_DEADLOCK FALSE
