SPECIFICATION ClusterSpec
CONSTANTS
    w1 = w1
    w2 = w2
    etl = etl
    bi = bi
    p1 = p1
    p2 = p2
    p3 = p3
    ca = ca
    cb = cb
    Worker <- MCWorker
    Ungated = {w2}
    Skew <- MCSkew
    Timeout = 3
    MaxRestarts = 1
    Houses = {etl, bi}
    Sizes <- MCSizes
    Half = 4
    MaxCommands = 2
    MaxMisses = 1
    MaxApplies = 1
    Procs = {p1, p2, p3}
    Flags <- MCFlags
    FileSets <- MCFileSets
    Envs <- MCEnvs
    Columns <- MCColumns
    Foreign = {}
    MaxStarts = 2
CHECK_DEADLOCK FALSE
INVARIANTS
    AvailableIsRecent
    ServesOnlyReady
PROPERTIES
    ImplementsMembership
    StoppedLeavesPool
    Converges
    WholeOrGone
