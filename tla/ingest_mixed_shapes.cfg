SPECIFICATION FeedsSpec
CONSTANTS
    r1 = r1
    r2 = r2
    r3 = r3
    p1 = p1
    p2 = p2
    c1 = c1
    c2 = c2
    f1 = f1
    f2 = f2
    Tenant <- Tenants
    DefaultTenant = "default"
    Table <- OneTable
    Name <- PlainNames
    Prefixed <- PlainPrefixed
    Row <- Rows2
    ShapeOf <- MixedShape
    FlushThreshold = 2
    MaxCrashes = 0
    MaxEarlyFaults = 0
    MaxLateFaults = 0
    Pipes = {p1}
    Commands = {c1}
    PipeFiles = {f1}
    PlaceOf <- MCPlace
    FileName <- MCFileName
    Watches <- MCWatches
    MaxTasks = 0
    MaxCopyFaults = 0
    MaxPipeCalls = 0
    Topic <- NoTopic
    BatchSize = 2
    MaxKafkaFaults = 0
    MaxKafkaCrashes = 0
CHECK_DEADLOCK FALSE
PROPERTY EventuallyOnDisk
