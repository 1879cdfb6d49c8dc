SPECIFICATION McpSpec
CONSTANTS
    Commands = {c1}
    Shell = shell
    Writers = {c1}
    Readers = {c1, shell}
    Sizes = {3}
    MaxEvents = 2
    RecordingLimit = 9
    LiveLimit = 2
    PageEvents = 2
    ReadLimit = 2
    StorageFaults = TRUE
    RenderBytes = 1
    MaxLost = 0
INVARIANTS
    CompleteMeansAll
    CursorSkipsNothing
    MoreMeansProgress
PROPERTIES
    PollCompletes
CHECK_DEADLOCK FALSE
