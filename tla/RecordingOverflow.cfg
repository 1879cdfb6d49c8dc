SPECIFICATION McpSpec
CONSTANTS
    Commands = {c1}
    Shell = shell
    Writers = {c1, shell}
    Readers = {c1}
    Sizes = {1}
    MaxEvents = 3
    RecordingLimit = 1
    LiveLimit = 1
    PageEvents = 2
    ReadLimit = 2
    StorageFaults = TRUE
    RenderBytes = 1
    MaxLost = 1
INVARIANTS
    NoSilentLoss
    LossIsWarned
    NoLostWakeup
    TextIsExact
    RenderedTextIsHonest
    PageIsBounded
CHECK_DEADLOCK FALSE
