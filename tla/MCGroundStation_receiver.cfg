SPECIFICATION Spec
CONSTANTS
    HeaderSize = 2
    PayloadSize = 2
    Garbled <- MCGarbled
    MaxMessages = 1
    MaxConnects = 1
CHECK_DEADLOCK FALSE
INVARIANTS ReceiverSurvives
