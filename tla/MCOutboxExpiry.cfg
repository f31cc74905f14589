SPECIFICATION OutboxSpec
CONSTANTS
    Recipients = {o1}
    MAX_QUEUE_PER_PEER = 2
    MAX_TOTAL_QUEUED = 3
    DRIFT_MAX_MESSAGES = 1
    OUTBOX_MAX_AGE = 2
    MILLIS_PER_SEC = 1000
    OutboxStart = 1
    MaxOutboxNow = 3
    MaxPrepared = 2
    MaxOutboxRestarts = 1
INVARIANT ExpiredRemoved
CHECK_DEADLOCK FALSE
