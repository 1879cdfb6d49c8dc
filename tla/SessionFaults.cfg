SPECIFICATION FairSpec
CONSTANTS
    Callers = {k1}
    Commands = {c1}
    Ptys = {p1}
    Conns = {n1}
    Reaper = reaper
    Creator = creator
    None = none
    ShellCloseAnytime = TRUE
    ExitSignals = TRUE
    StorageFaults = TRUE
    Quiet = FALSE
INVARIANTS
    Inv
PROPERTIES
    TasksNeverReopen
    CommandsEnd
    HungUpShellEnds
CHECK_DEADLOCK FALSE
