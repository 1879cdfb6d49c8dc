SPECIFICATION Spec
CONSTANTS
    Commands = {c1}
    Shell = shell
    Writers = {c1}
    Readers = {c1}
    Sizes = {1}
    MaxEvents = 3
    RecordingLimit = 1
    LiveLimit = 2
    PageEvents = 2
    ReadLimit = 2
    StorageFaults = FALSE
INVARIANTS
    CursorSkipsNothing
CHECK_DEADLOCK FALSE
