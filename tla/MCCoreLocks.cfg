SPECIFICATION LocksSpec
CONSTANTS
    Threads = {"app", "service"}
    CallsOf <- MCCallsOf
INVARIANT NoCircularWait
CHECK_DEADLOCK FALSE
