SPECIFICATION BenchSpec
CONSTANTS
    Timeouts = {0}
    Initially = {FALSE}
    Faults = {"poll", "accept", "socket"}
    MaxBytes = 3
    MaxSends = 0
    MaxSessions = 2
    Programs = {"echo", "counter"}
    Chars = {48, 49, 90}
    COUNT_PER_SEND = 1
    MaxRecords = 4
CHECK_DEADLOCK FALSE
INVARIANTS AnnouncementsTile
PROPERTIES ImplementsEcho BytesTakeEffect
