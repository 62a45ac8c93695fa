SPECIFICATION Spec
CONSTANTS
    HeaderSize = 2
    PayloadSize = 2
    Garbled <- MCGarbled
    MaxMessages = 2
    MaxConnects = 2
CHECK_DEADLOCK FALSE
INVARIANTS TypeOK
PROPERTIES FramesMatch HandedInOrder ReadsEventually MessagesProcessed
