CONSTANTS
    nojob = nojob
    NoJob = nojob
    j1 = j1
    j2 = j2
    w1 = w1
    w2 = w2
    ca = ca
    cb = cb
    cc = cc
    Job <- OneJob
    Warehouse <- Warehouses
    WarehouseOf <- OneEtl
    QueueWorker = {w1}
    WarehousesOf <- PollsOne
    Connection = {ca, cb, cc}
    HandlerConn = cc
    WorkerConn <- OwnConn
    PopTimeout = 5
    MaxCommandFaults = 0
    MaxWorkerCrashes = 0
    MaxExpiries = 0
    MaxTroubles = 0
SPECIFICATION QueueSpec
CHECK_DEADLOCK FALSE
PROPERTY TerminalStays
