SPECIFICATION MCServicesSpec
CONSTANTS
    a1 = a1
    a2 = a2
    sl = sl
    wh1 = wh1
    wh2 = wh2
    cl1 = cl1
    cl2 = cl2
    v1 = v1
    s1 = s1
    s2 = s2
    x = x
    y = y
    z = z
    h1 = h1
    h2 = h2
    h3 = h3
    Accounts = {a1, a2}
    Slugs = {sl}
    Calls = {cl1, cl2}
    WarehouseNames = {wh1, wh2}
    Joined <- Names
    Limit = 1
    Entitlements = {"good"}
    MaxLog = 3
    MaxTampers = 1
    MaxCalls = 3
    Viewers = {v1}
    MaxRuns = 3
    Savers = {s1, s2}
    ChartIds = {x, y, z}
    MaxCharts = 2
    MaxSaves = 3
    MaxTears = 1
    Handlers = {h1, h2, h3}
    ChannelCap = 1
    MaxPanics = 1
    MaxHangups = 1
    MaxTimeouts = 1
    MaxBadRows = 1
    MaxLost = 1
CHECK_DEADLOCK FALSE
INVARIANT ChartsPersist
