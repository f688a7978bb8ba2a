SPECIFICATION FairClientSpec
CONSTANTS
    Incoming <- Late
    Garbage <- Zero
    MaxSend = 2
PROPERTY ClientEnds
CHECK_DEADLOCK FALSE
