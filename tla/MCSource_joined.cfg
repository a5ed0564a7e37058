SPECIFICATION SourceSpec
CONSTANTS
    AtStart = {0}
    Ways = {}
    MaxFiles = 1
    MaxLines = 0
    NL = nl
    Text = {a}
    MaxLen = 4
    Inputs <- MCInputs
INVARIANT LineByLine
CHECK_DEADLOCK FALSE
