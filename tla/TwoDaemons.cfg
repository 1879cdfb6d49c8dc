SPECIFICATION DaemonSpec
CONSTANTS
    Daemons = {d1, d2, d3}
    Sessions = {}
    Nobody = nobody
    Platforms = {"unix"}
    OverlapStarts = TRUE
    MaxStarts = 3
    MaxCrashes = 1
INVARIANTS
    OneDaemon
CHECK_DEADLOCK FALSE
