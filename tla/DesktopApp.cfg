SPECIFICATION FairSpec
CONSTANTS
    Daemons = {d1}
    Sessions = {}
    Nobody = nobody
    Platforms = {"unix", "windows"}
    OverlapStarts = FALSE
    MaxStarts = 1
    MaxCrashes = 1
    App = app
    Calls = {k1}
    Inputs <- MCInputs
    MaxLaunches = 2
    Savers = {d1, k1, app}
    Files = {f1, f2}
    MaxDays = 1
    DefaultDays = 1
    OverlapSaves = FALSE
    Absent = absent
    Empty = empty
    Torn = torn
INVARIANTS
    LoginEntryFollows
PROPERTIES
    AckMeansLoaded
    RollbackRestores
    HelperStaysRunnable
    ImplementsAtomicFile
    AppSettles
CHECK_DEADLOCK FALSE
