SPECIFICATION ReconnectAlone
CONSTANTS
    DialAddrs = {"a", "b"}
    FallbackOf <- MCFallbackOf
    DialPeers = {"p"}
    BackoffCap = 2
    FailureClamp = 2
    MaxPeerEvents = 0
    MaxNodeStarts = 0
    CliPeers <- MCCliPeers
    CliMessages <- MCCliMessages
    CliRecipient <- MCCliRecipient
    MaxLinkEvents = 2
    MaxStoreFaults = 0
    MaxCliCrashes = 1
    Identities = {i1}
    Keys = {k1}
    IdentityOfKey <- MCIdentityOfKey
    Devices = {}
    NoIdentity = NoIdentity
    NoDevice = NoDevice
    REGISTRATION_STALE_TAKEOVER_MS = 0
    HANDOVER_STALE_COLLAPSE_MS = 0
    MaxNow = 0
    Senders = {s1}
    Destinations = {d1}
    LocalPeer = self
    Messages = {m1}
    MAX_PENDING_PER_DESTINATION = 2
    MAX_DELIVERY_ATTEMPTS = 3
    RELAY_MAX_INFLIGHT_DISPATCHES = 2
    PULL_LIMIT = 2
    MaxCustody = 0
    MaxFaults = 0
    MaxCrashes = 0
    EVENT_CAPACITY = 2
    EventKinds = {"message", "identified", "nat"}
    AwaitingKinds = {"identified"}
    LockingKinds = {"message", "identified", "disconnected"}
    ReenteringKinds = {"disconnected"}
    MaxEvents = 0
    LoopUsers = {"ui"}
    MaxUserCommands = 0
    MeshPeers = {r1}
    Relays = {r1}
    BootstrapPeers = {}
    BOOTSTRAP_BACKOFF_INITIAL = 1
    BOOTSTRAP_BACKOFF_MAX = 3
    RelayBackoff <- MCRelayBackoff
    MaxConnections = 1
    MaxDialFaults = 0
    BootstrapNodes <- MCBootstrapNodes
    MaxRetries = 3
    MaxBootstraps = 0
    FailureThreshold = 2
    SuccessThreshold = 2
    MaxHalfOpenProbes = 3
    Calls = {"c1"}
    Kinds <- MCKinds
    DeliveryRelays = {"relay1"}
    MaxMillis = 0
    MaxDispatches = 1
    MaxPaceTime = 3000
    MaxLeap = 1000
    MaxPaceSteps = 3
PROPERTY LostRelayRedialled
