SPECIFICATION ReadySpec
CONSTANTS
    Callers = {k1}
    Commands = {c1, c2}
    Ptys = {}
    Conns = {n1}
    Reaper = reaper
    Creator = creator
    None = none
    ShellCloseAnytime = TRUE
    ExitSignals = FALSE
    StorageFaults = FALSE
    Quiet = FALSE
SYMMETRY Symmetry
INVARIANTS
    ForegroundExclusive
CHECK_DEADLOCK FALSE
