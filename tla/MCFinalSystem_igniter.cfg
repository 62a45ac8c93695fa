SPECIFICATION SystemSpec
CONSTANTS
    NumSensors = 1
    Delay <- MCDelay
    SendTime = 0
    Budget <- MCBudget
    MaxSamples = 0
    MaxPresses = 1
    MaxStarts = 1
CHECK_DEADLOCK FALSE
INVARIANTS IgniterFollowsButtons
