SPECIFICATION DaemonSpec
CONSTANTS
    Daemons = {d1, d2, d3}
    Sessions = {s1}
    Nobody = nobody
    Platforms = {"unix", "windows"}
    OverlapStarts = FALSE
    MaxStarts = 4
    MaxCrashes = 2
INVARIANTS
    OneDaemon
    DeadIsTakenOver
    HistoryAgrees
    RunningIsHonest
    RecentCommandsAreKept
CHECK_DEADLOCK FALSE
