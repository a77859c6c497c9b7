CONSTANTS
    ma = ma
    mb = mb
    ca = ca
    cb = cb
    cc = cc
    Ranks = {0, 1, 2}
    Above <- MCAbove
    Online = "broker.online"
    Torpid = "broker.torpid"
    Rpcs <- MCRpcs
    ModuleNames = {ma, mb}
    BrokerScenarios <- MCBrokerScenarios
    GroupScenarios <- MCGroupScenarios
    OverlayScenarios <- MCOverlayScenarios
    RunatScenarios <- MCRunatScenarios
    ModuleScenarios <- MCModuleScenarios
    bx = bx
    by = by
    fx = fx
    sx0 = sx0
    sy0 = sy0
    sx1 = sx1
    lx0 = lx0
    lx1 = lx1
    fl0 = fl0
    fl1 = fl1
    Peer = Peer
    NoFile = NoFile
    Blobs = {bx, by}
    Files = {fx}
    BlobOf <- MCBlobOf
    Clients = {sx0, sy0, sx1, lx0, lx1, fl0, fl1}
    Ask <- MCAsk
    ContentScenarios <- MCContentScenarios
    FlushBatchLimit = 1
    ka = ka
    kb = kb
    nso = nso
    sa = sa
    pb = pb
    oa = oa
    Primary = Primary
    Period = Period
    NoRef = NoRef
    KVals = {ka, kb}
    KNames = {Primary, nso}
    KTxns = {sa, pb, oa, Period}
    TxOf <- MCTxOf
    DurableScenarios <- MCDurableScenarios
    DiskBatchLimit = 1
    get1 = get1
    get2 = get2
    Puts = {1, 2}
    Gets = {get1, get2}
    CkScenarios <- MCCkScenarios
SPECIFICATION Spec
INVARIANTS
    CommandsInOrder GroupsAgree
    OverlayKept
    ModuleRequestsAnswered
    ContentKept DurableKept
PROPERTIES BrokersExit StorageSettles
CHECK_DEADLOCK FALSE
