SPECIFICATION Spec
CONSTANTS
    Timeouts = {0}
    Initially = {FALSE}
    Faults = {}
    MaxBytes = 1
    MaxSends = 1
    MaxSessions = 1
CHECK_DEADLOCK FALSE
INVARIANTS NeverBlocksInWrite
