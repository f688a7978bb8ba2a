SPECIFICATION FairClientSpec
CONSTANTS
    Incoming <- Lively
    Garbage <- Unset
    MaxSend = 2
INVARIANTS ClientTypeOK ActedOnce NoEcho
PROPERTIES HandedOver CallbackReturns HeartbeatsGoOn
CHECK_DEADLOCK FALSE
