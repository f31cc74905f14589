SPECIFICATION FairSpec
CONSTANTS
    Identities = {}
    Keys = {}
    IdentityOfKey <- MCIdentityOfKey
    Devices = {}
    NoIdentity = NoIdentity
    NoDevice = NoDevice
    REGISTRATION_STALE_TAKEOVER_MS = 0
    HANDOVER_STALE_COLLAPSE_MS = 0
    MaxNow = 0
    Senders = {s1}
    Destinations = {d1}
    LocalPeer = self
    Messages = {m1}
    MAX_PENDING_PER_DESTINATION = 2
    MAX_DELIVERY_ATTEMPTS = 3
    RELAY_MAX_INFLIGHT_DISPATCHES = 1
    PULL_LIMIT = 1
    MaxCustody = 2
    MaxFaults = 0
    MaxCrashes = 1
PROPERTIES
    EventuallyForwarded
