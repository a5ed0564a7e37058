SPECIFICATION Spec
CONSTANTS
    HighWM = 2
    RotSize = 3
    Lens = {1, 2}
    Faults = {"write_error", "short_write", "rename_fails", "open_fails", "same_second"}
    MaxWrites = 4
    MaxNow = 2
INVARIANTS
    SplitOnlyIfStrayed
    SizeTracksFile
    LinesAccounted
