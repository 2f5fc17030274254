SPECIFICATION FeedsSpec
CONSTANTS
    r1 = r1
    r2 = r2
    r3 = r3
    p1 = p1
    p2 = p2
    c1 = c1
    c2 = c2
    f1 = f1
    f2 = f2
    Tenant <- Tenants
    DefaultTenant = "default"
    Table <- OneTable
    Name <- PlainNames
    Prefixed <- PlainPrefixed
    Row <- Rows3
    ShapeOf <- MixedShape3
    FlushThreshold = 2
    MaxCrashes = 1
    MaxEarlyFaults = 1
    MaxLateFaults = 1
    Pipes = {p1, p2}
    Commands = {c1, c2}
    PipeFiles = {f1, f2}
    PlaceOf <- MCPlace
    FileName <- MCFileName
    Watches <- MCWatches
    MaxTasks = 2
    MaxCopyFaults = 1
    MaxPipeCalls = 3
    Topic <- MCTopic
    BatchSize = 2
    MaxKafkaFaults = 1
    MaxKafkaCrashes = 1
CHECK_DEADLOCK FALSE
INVARIANTS
    RowsAccounted
    FlushedIsVisible
    ConsumedOnce
PROPERTIES
    ImplementsLog
    EventuallyVisible
    FileArrives
