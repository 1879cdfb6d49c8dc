SPECIFICATION ReadySpec
CONSTANTS
    Callers = {k1, k2}
    Commands = {c1}
    Ptys = {p1}
    Conns = {n1, n2}
    Reaper = reaper
    Creator = creator
    None = none
    ShellCloseAnytime = FALSE
    ExitSignals = FALSE
    StorageFaults = FALSE
    Quiet = FALSE
SYMMETRY Symmetry
INVARIANTS
    ForegroundExclusive
    RunningIsCancellable
    BusyHasTask
    InterruptedMeansTransportLost
PROPERTIES
    ReconnectKeepsLiveHandle
    ImplementsSlot
CHECK_DEADLOCK FALSE
