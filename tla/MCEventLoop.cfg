SPECIFICATION LoopLiveSpec
CONSTANTS
    EVENT_CAPACITY = 2
    EventKinds = {"message", "disconnected"}
    AwaitingKinds = {}
    LockingKinds = {"message", "disconnected"}
    ReenteringKinds = {"disconnected"}
    LoopUsers = {"ui"}
    MaxEvents = 2
    MaxUserCommands = 1
PROPERTY SessionResetOnDisconnect
CHECK_DEADLOCK FALSE
