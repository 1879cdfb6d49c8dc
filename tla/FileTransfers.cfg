SPECIFICATION Spec
CONSTANTS
    Writes = {w1}
    Appends = {a1}
    SudoWrites = {s1}
    SudoAppends = {s1}
    Downloads = {d1}
    Chunks = 2
    AppendLimit = 2
    ReadLimit = 3
    Depth = 2
    MaxCalls = 3
    Reads = {r1, r2}
    SudoReads = {r2}
    Mkdirs = {m1}
    MaxBad = 1
    Remote = remote
    Local = local
    LocalStage = localStage
    OldFile = oldFile
    Hole = hole
    Bad = bad
    None = none
INVARIANTS
    TypeOK
    RemoteIsWhole
    LocalIsWhole
    NothingIsLost
    NoLeftovers
    VerifiedIsAVersion
    ReadIsHonest
    DirectoriesReady
CHECK_DEADLOCK FALSE
