SPECIFICATION SystemSpec
CONSTANTS
    NumSensors = 1
    Delay <- MCDelay
    SendTime = 0
    Budget <- MCBudget
    MaxSamples = 0
    MaxPresses = 2
    MaxStarts = 2
CHECK_DEADLOCK FALSE
INVARIANTS SystemTypeOK ValveFollowsButtons QuietEndLeavesPinsLow HighIsCommanded
 
