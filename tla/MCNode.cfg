SPECIFICATION NodeSpec
CONSTANTS
    SourcePeers = {p1, p2, p3}
    Messages = {m1}
    Multipliers = {2}
    TopMultiplier = 2
    COST = 2
    RELAY_PEER_BUCKET_BURST_CAPACITY = 1
    RELAY_PEER_BUCKET_REFILL = 1
    RELAY_PEER_BUCKET_MAX_TRACKED = 2
    BUCKET_IDLE = 2
    RELAY_DUPLICATE_WINDOW = 1
    RELAY_MAX_TRACKED_DUPLICATES = 2
    HOUR = 2
    RelayBudgets = {1, 2}
    TopBudget = 2
    MaxGuardNow = 2
    NONCE_LEN = 24
    TAG_LEN = 16
    SALT_LEN = 16
    Passphrases = {"x", "y"}
    MaxText = 20
    BreakerCallers = {"t1", "t2"}
    FailureThreshold = 2
    SuccessThreshold = 2
    MaxHalfOpenProbes = 3
    HopPeers = {"p", "q", "r", "s"}
    SegmentOf <- MCSegmentOf
    MIN_HOPS = 2
    MAX_HOPS = 3
    MinReliability = 1
    MaxReliability = 2
    Processes = {"x", "y"}
    UiPorts = {"p1", "p2"}
    UiPeers = {"a"}
    UiClients = {"c"}
    MaxIdentities = 2
    MaxLaunches = 2
    MaxUiEvents = 1
    MaxUiSteps = 3
    Contacts = {p}
    DeviceIds = {d1, d2}
    Mail = {m1, m2}
    SenderOf <- MCSenderOf
    NoDeviceId = NoDeviceId
    MAX_SEEN_IDS = 1
    MaxReceived = 2
    Threads = {"app", "network", "timer"}
    CallsOf <- MCCallsOf
    Recipients = {o1, o2}
    MAX_QUEUE_PER_PEER = 2
    MAX_TOTAL_QUEUED = 3
    DRIFT_MAX_MESSAGES = 1
    OUTBOX_MAX_AGE = 2
    MILLIS_PER_SEC = 1000
    OutboxStart = 1
    MaxOutboxNow = 3
    MaxPrepared = 4
    MaxOutboxRestarts = 1
    CoverRates = {0, 1, 2, 8}
    MINUTE = 4
    MaxCoverTime = 8
    MaxDedupId = 3
    MaxDedupEntries = 2
    MaxDedupTime = 2
    MaxDedupSteps = 2
    Reporters = {rep1, rep2}
    Bands = {100}
    Overrides = {5}
    NoOverride = NoOverride
    MaxReports = 3
    DriftNodes = {"a", "b"}
    DriftEnvelopes = {"e", "f"}
    DriftPriority <- MCDriftPriority
    DriftHint <- MCDriftHint
    DriftExpiry <- MCDriftExpiry
    SyncInitiators = {"a", "b"}
    CoverEnvelopes = {"e"}
    DeepEnvelopes = {}
    StoreCapacity = 1
    HourlyBudgets = {0, 1}
    MaxDriftClock = 1
    MaxArrivals = 2
    MaxAdministered = 1
    KeyBits = {1, 2}
    CheckBits = {1}
    SketchCells = 3
    HashCount = 2
    MaxSketched = 2
    CountWrap = 4
    EndpointDevices <- MCEndpointDevices
    Platforms = {"ios", "web"}
    Nicks = {"n"}
    MaxIds = 4
    MaxIdKills = 2
    MaxIdFails = 2
    RecordPeers = {"p","q"}
    DerivablePeers = {"p"}
    LogLines = {"l"}
    MaxDeltas = 2
    MaxHistory = 1
    MaxRecordTime = 1
    MaxRecordSteps = 4
    MaxRecordFaults = 1
    Callers = {c1, c2}
    Budgets = {0, 1}
    InitialBudget = 1
    None = None
    NearbyPeers = {"near"}
    MaxCalls = 3
    RecordIds = {1, 2}
    StorePeers = {"a"}
    StoreCallers = {"ui", "net"}
    MaxStoreTime = 1
    MaxLedgerCount = 2
    MaxStoreCalls = 4
    Notices = {n1, n2}
    NoticeFrom <- MCNoticeFrom
    Spellings = {"lower", "upper"}
    MaxNotices = 3
    OnionNodes = {"a", "b", "c"}
    MAX_ONION_HOPS = 3
    MaxMisroutes = 2
    PadBytes = {0, 1, 128}
    STANDARD_SIZES = {2, 4}
    MaxBody = 5
    PageKeys = {"k", "l"}
    PageValues = {"v", "w"}
    MaxTasks = 3
    MaxReloads = 1
    MaxSkipKeys = 1
    MaxRatchetSteps = 3
    MaxSent = 3
    MaxDeliveries = 3
    MaxPlain = 1
    Initiators = {"a"}
    MaxUpsets = 1
    Identities = {i1}
    Keys = {k1}
    IdentityOfKey <- MCIdentityOfKey
    Devices = {a, b, c}
    NoIdentity = NoIdentity
    NoDevice = NoDevice
    REGISTRATION_STALE_TAKEOVER_MS = 2
    HANDOVER_STALE_COLLAPSE_MS = 2
    MaxNow = 8
INVARIANTS
    NodeTypeOK AdmissionSound BreakerNotWedged NoCircularWait ProfileSound
    DriftSound RecordsSound  RatchetSound
PROPERTIES
    StoreHasOneOwner InboxSound OutboxSound StoresKept
    OwnerDisplacedOnlyWhenStale
CHECK_DEADLOCK FALSE
