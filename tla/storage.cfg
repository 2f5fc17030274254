SPECIFICATION StorageSpec
CONSTANTS
    h1 = h1
    h2 = h2
    t = t
    m = m
    j1 = j1
    j2 = j2
    w1 = w1
    w2 = w2
    ca = ca
    cb = cb
    cc = cc
    e1 = e1
    e2 = e2
    Handle = {h1, h2}
    Writer = {h1}
    RowCount = {1, 2}
    MaxAppends = 4
    MaxDataFaults = 1
    MaxHandleCrashes = 1
    Name = {t, m}
    MaxWrites = 3
    MaxFaults = 1
    MaxCrashes = 2
    NoJob = NoJob
    Job = {j1, j2}
    Warehouse <- MCWarehouses
    WarehouseOf <- MCWarehouseOf
    QueueWorker = {w1, w2}
    WarehousesOf <- MCPolls
    Connection = {ca, cb, cc}
    HandlerConn = cc
    WorkerConn <- MCOwnConns
    PopTimeout = 5
    MaxCommandFaults = 1
    MaxWorkerCrashes = 1
    MaxExpiries = 1
    MaxTroubles = 3
    MaxText = 5
    MaxItems = 7
    Scales = {1, 4}
    Exports = {e1, e2}
    MaxTrouble = 2
    LeadDigits = {0, 1, 4, 6, 9}
    Leads = 3
    FillDigit = 5
    MaxDigits = 20
INVARIANTS
    MetadataSound
    CommittedVisible
    RegisteredHasFile
    AckedStands
    InOrderAtMostOnce
    StatusTruthful
    CheckedIsRun
    DatasetsJoin
    ExportExact
    NumbersAgree
SYMMETRY Symmetry
CHECK_DEADLOCK FALSE
PROPERTY ImplementsJobLog
