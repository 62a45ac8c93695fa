SPECIFICATION Spec
CONSTANTS
    Size = 4
    RecordSize = 3
    MaxWritten = 15
CHECK_DEADLOCK FALSE
INVARIANTS HoldsTheLatest StreamIntact
PROPERTIES ImplementsStream AnnouncedIsSent
