SPECIFICATION Spec
CONSTANTS
    Timeouts = {0, 2}
    Initially = {TRUE, FALSE}
    Faults = {"poll", "accept", "socket"}
    MaxBytes = 2
    MaxSends = 2
    MaxSessions = 2
CHECK_DEADLOCK FALSE
INVARIANTS TypeOK BytesInOrder OneStaleSend OneReadQueued BytesReadPromptly
PROPERTIES LossLeadsToListening SilentPeerDropped
