SPECIFICATION Spec
CONSTANTS
    Width = 32
    BootTime = 2
    Jumps <- MCJumps
    MaxWall = 7
    MaxJumps = 2
    Sensors <- MCSensors
    Input <- MCInput
    Delay <- MCDelay
    Codes <- MCCodes
    MaxBurns = 2
    MaxUnknown = 2
CHECK_DEADLOCK FALSE
INVARIANTS NeverLate ReadingIsSensors
PROPERTIES NeverEarly
