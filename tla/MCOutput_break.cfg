SPECIFICATION OutputSpec
CONSTANTS
    MaxStatements = 3
    None = None
    Rules <- MCRules
    HighWM = 3
    Lens = {1, 2}
    Faults = {"write_error", "short_write"}
    MaxWrites = 0
INVARIANT BreakLeavesRule
CHECK_DEADLOCK FALSE
