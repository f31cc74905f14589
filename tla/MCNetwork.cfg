SPECIFICATION NetworkSpec
CONSTANTS
    ActivePeers = {"p"}
    ManyMessages = 3
    SomeMessages = 1
    BaseTtl = 1
    MaxTtl = 4
    MaxActivity = 5
    MaxActivityTime = 4
    GroupKeys = {"g", "h"}
    DEFAULT_ROTATION = 5
    OtherRotation = 2
    MaxBeaconTime = 12
    MaxSkew = 11
    Peripherals = {"p", "q"}
    MaxSightings = 3
    BleMessages = {"m", "n"}
    BodyLen <- MCBodyLen
    FragmentPayload = 3
    CrcLen = 2
    WriteDepth = 2
    PeerMemory = 9
    PartialAge = 0
    MaxBleSends = 2
    MaxBleRepeats = 1
    BridgePeers = {"p"}
    MaxCapabilities = 2
    BootAddrs <- MCBootAddrs
    LocalId = "self"
    AddrContains <- MCContains
    BACKOFF_MAX = 2
    MaxBrowseTime = 3
    MaxLosses = 1
    NetRelays = {"a", "b"}
    RelayTasks = {"t", "u"}
    MaxRelayConnections = 1
    RelayTimeout = 0
    MaxNetTime = 1
    MaxNetCalls = 3
    LedgerAddrs = {"addr1", "addr2", "addr3"}
    PeerAddr = "addr1"
    OwnBootstrap = {"addr2"}
    PeerLedgers = {{"addr2", "addr3"}}
    MaxConnects = 2
    MaxMdnsReports = 1
    MaxKills = 1
    MaxFailures = 1
    EventRoom = 2
    Reflectors = 3
    MIN_RESPONSES = 2
    PunchPeers = {"p"}
    PunchCallers = {"c", "d"}
    ATTEMPT_TIMEOUT = 0
    MaxNatTime = 1
    MaxMoves = 1
    MaxNatCalls = 2
    MaxPaceTime = 3000
    MaxLeap = 1000
    MaxPaceSteps = 3
    COMMON_PORTS <- MCCommonPorts
    AdditionalPorts <- MCAdditionalPorts
    Relays = {"me", "a", "b"}
    MAX_KNOWN = 2
    PEER_TTL = 1
    MAX_OFFERED = 1
    MAX_DELEGATES = 1
    STALE_TIMEOUT = 0
    INVITE_VALID = 1
    BEACON_INTERVAL = 2
    WakeupHints <- MCHints
    Self = "me"
    MaxDirTime = 2
    MaxDirSteps = 3
    LinkTasks = {"x", "y"}
    MaxStoredPerPeer = 1
    MaxEnvelopes = 1
    MaxLinkConnects = 1
    MaxPulls = 2
    MaxServed = 1
    RelayPeers = {"me", "o"}
    MaxLinkClock = 1
    Nodes = {"a", "b"}
    Leaves = {"l", "k"}
    CellHints = {"h"}
    ActiveTimeout = 1
    StaleTimeout = 2
    MaxCellPeers = 1
    MaxStaleness = 1
    MaxHops = 3
    MaxTime = 3
    MaxCellSteps = 2
    Hints = {"h"}
    Hops = {"x", "y", "z"}
    BloomBits <- MCBloomBits
    MaxRoutesPerHint = 2
    MaxTotalRoutes = 3
    MaxNegative = 1
    MaxPaths = 1
    RouteTtl = 2
    NegativeTtl = 1
    MaxStaleAge = 1
    RequestTtl = 1
    MaxHopCount = 2
    Reliabilities = {1, 2}
    MaxSequence = 2
    MaxRouteTime = 2
    MaxRouteSteps = 3
    NetPeers = {"p", "q"}
    LanPeers = {"p"}
    SocketAddrs = {"a"}
    PeerTopics = {"t"}
    MaxLinks = 2
    MaxListeners = 2
    MaxNetSteps = 5
    Calls = {"c1", "c2"}
    Kinds <- MCKinds
    DeliveryRelays = {"relay1"}
    MaxMillis = 1
    MaxDispatches = 2
    FollowedPeers = {"p"}
    ManagedPeers = {"p", "q"}
    TransportKinds = {"ble", "net"}
    Rank <- MCRank
    MaxConcurrent = 1
    MaxRedialFailures = 2
    MaxInterval = 3
    SilentAfter = 1
    HealthTtl = 1
    Priorities = {1, 2}
    MaxPending = 2
    MaxManagerTime = 3
    MaxManagerSteps = 4
    WebPeers = {"p"}
    WebMessages = {"m", "n"}
    RelayedMessages = {"r"}
    EventCapacity = 1
    RelayHourBudget = 1
    MaxSwarms = 2
    MaxWebCalls = 1
    MaxUserSteps = 1
    PoolNames = {"a", "b"}
    MAX_PEERS = 2
    MaxHandles = 3
    MaxFrames = 1
    Requests = {"q"}
    Payloads = {"e"}
    MaxSockets = 2
    MaxWebSteps = 5
    AwarePeers = {w1, w2, w3}
    PathRequests = {req1, req2}
    MAX_DATA_PATHS = 1
    NoRequest = NoRequest
    DirectPeers = {"d1", "d2"}
    DirectCallers = {"c1"}
INVARIANTS
    NetworkTypeOK IngressExclusive MessagesWhole RelaysSound 
    NewsDiesOut ConnectionsSound SendsSound  SocketsSound
PROPERTIES
    LinkSound RoutesSound PeersSound PathsSound
CHECK_DEADLOCK FALSE
