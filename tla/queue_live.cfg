CONSTANTS
    nojob = nojob
    NoJob = nojob
    j1 = j1
    j2 = j2
    w1 = w1
    w2 = w2
    ca = ca
    cb = cb
    cc = cc
    Job <- TwoJobs
    Warehouse <- Warehouses
    WarehouseOf <- JobSplit
    QueueWorker <- Workers
    WarehousesOf <- Polls
    Connection = {ca, cb, cc}
    HandlerConn = cc
    WorkerConn <- OwnConns
    PopTimeout = 5
    MaxCommandFaults = 1
    MaxWorkerCrashes = 1
    MaxExpiries = 1
    MaxTroubles = 1
SPECIFICATION QueueFairSpec
CHECK_DEADLOCK FALSE
PROPERTY QueueProgress
