SPECIFICATION Spec
CONSTANTS
    NumSensors = 1
    Delay <- MCDelay
    SendTime = 1
    Budget <- KnownBudget
    MaxSamples = 1
INVARIANTS TypeOK SequenceOpenHasCutoff IgniterHasCutoff
PROPERTIES ValveOpensOnSchedule SingleBurnLastsItsTime ImplementsSequence BurnEnds
