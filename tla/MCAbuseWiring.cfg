SPECIFICATION AbuseSpec
CONSTANTS
    AbusePeers = {"p", "q"}
    Managers = {"core", "engine"}
    SignalManager = "core"
    EngineManager = "engine"
    MaxTracked = 1
    RepeatThreshold = 2
    FloodMax = 2
    ColdMinimum = 2
    MaxAbuseCalls = 4
    MaxAuditEntries = 1
INVARIANTS
    AbusersBlocked
CHECK_DEADLOCK FALSE
