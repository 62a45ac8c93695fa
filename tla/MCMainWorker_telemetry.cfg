SPECIFICATION Spec
CONSTANTS
    NumSensors = 2
    Delay <- MCDelay
    SendTime = 1
    Budget <- QuietBudget
    MaxSamples = 2
INVARIANTS AnnouncedInOrder EveryRecordAccounted
