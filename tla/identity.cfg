SPECIFICATION MCIdentitySpec
CONSTANTS
    t1 = t1
    t2 = t2
    h1 = h1
    h2 = h2
    v1 = v1
    v2 = v2
    old = old
    k2 = k2
    i1 = i1
    i2 = i2
    e1 = e1
    st1 = st1
    w1 = w1
    w2 = w2
    n1 = n1
    n2 = n2
    p1 = p1
    p2 = p2
    q1 = q1
    q2 = q2
    ann = ann
    bob = bob
    m1 = m1
    m2 = m2
    Threads = {t1, t2}
    Handles = {h1, h2}
    Secrets = {v1, v2}
    RotatedKeys = {k2}
    Legacy = old
    MaxVersion = 2
    Conns = {c1}
    Configs <- MCConfigs
    ClientSecrets = {v1}
    Emails = {e1}
    Groups = {g1}
    SsoRoles = {role1}
    LoginStates = {st1}
    Callbacks = {w1, w2}
    Sessions = {n1, n2}
    MaxEpoch = 2
    Procs = {p1, p2}
    Requests = {q1, q2}
    Clients = {c1}
    Configured = {c1}
    EvalClients = {e1}
    Keys = {k2}
    Quota = 1
    MaxChanges = 2
    Nodes = {p1, p2}
    Handlers = {m1, m2}
    MaxId = 2
    GroupIds = {1}
    UserNames = {ann, bob}
    MaxTokens = 3
    MaxScimFaults = 1
    Patches <- MCPatches
    sk1 = sk1
    sk2 = sk2
    is1 = is1
    is2 = is2
    mc1 = mc1
    mc2 = mc2
    g1 = g1
    g2 = g2
    mo = mo
    ta = ta
    Issuers = {is1, is2}
    SigningKeys = {sk1, sk2}
    Plan <- MCPlan
    Ttl = 2
    Lag = 1
    MaxTime = 4
    McpCalls = {mc1, mc2}
    Purposes <- MCPurposes
    MaxFetchFails = 1
    Agents = {g1, g2}
    ModelNames = {mo}
    Relations = {ta}
    MaxCards = 2
    MaxToolCalls = 3
    MaxToolFaults = 1
CHECK_DEADLOCK FALSE
INVARIANTS
    RetireSafe
    NothingOutlivesConnection
    IssuedTokenWorks
    RolloutKeepsTokens
    ToolsLeaveWhole
PROPERTIES
    RevokedIsFinal
    RevokedIsRefused
    TrustFollowsIssuer
