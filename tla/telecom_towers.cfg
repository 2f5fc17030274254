SPECIFICATION StorageSpec
CONSTANTS
    h1 = h1
    h2 = h2
    t = t
    m = m
    j1 = j1
    j2 = j2
    w1 = w1
    w2 = w2
    ca = ca
    cb = cb
    cc = cc
    e1 = e1
    e2 = e2
    Handle = {h1}
    Writer = {h1}
    RowCount = {1}
    MaxAppends = 1
    MaxDataFaults = 0
    MaxHandleCrashes = 0
    Name = {t}
    MaxWrites = 1
    MaxFaults = 0
    MaxCrashes = 0
    NoJob = NoJob
    Job = {j1}
    Warehouse <- MCWarehouses
    WarehouseOf <- MCOneEtl
    QueueWorker = {w1}
    WarehousesOf <- MCOnePolls
    Connection = {ca, cb, cc}
    HandlerConn = cc
    WorkerConn <- MCOneConn
    PopTimeout = 5
    MaxCommandFaults = 0
    MaxWorkerCrashes = 0
    MaxExpiries = 0
    MaxTroubles = 0
    MaxText = 1
    MaxItems = 2
    Scales = {1}
    Exports = {e1}
    MaxTrouble = 0
    LeadDigits = {0, 1, 4, 6, 9}
    Leads = 3
    FillDigit = 5
    MaxDigits = 1
CHECK_DEADLOCK FALSE
INVARIANT TowersForReference
