SPECIFICATION ReadyFairSpec
CONSTANTS
    Callers = {k1, k2}
    Commands = {}
    Ptys = {p1}
    Conns = {n1}
    Reaper = reaper
    Creator = creator
    None = none
    ShellCloseAnytime = FALSE
    ExitSignals = FALSE
    StorageFaults = FALSE
    Quiet = FALSE
PROPERTIES
    CloseOutlastsWrites
CHECK_DEADLOCK FALSE
