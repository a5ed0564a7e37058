SPECIFICATION SourceSpec
CONSTANTS
    AtStart = {0, 1}
    Ways = {"create", "delete", "rename", "move_in"}
    MaxFiles = 2
    MaxLines = 2
    NL = nl
    Text = {a}
    MaxLen = 6
    Inputs <- MCInputs
INVARIANTS
    UnreadIsAnnounced
    DrainedBeforeGone
    ChangesNoticed
    Conservation
    DeliveredExactly
PROPERTY AppendedIsRead
CHECK_DEADLOCK FALSE
