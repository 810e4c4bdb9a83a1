CONSTANTS
    SampleInterval = 2
    OverloadPercent = 0
    OverloadSustain = 5
    RecoverPercent = 75
    RecoverSustain = 4
    CriticalPercent = 95
    CriticalSustain = 3
    Jiffies = 1000
    Readings <- HostReadings
    MaxSamples = 6
SPECIFICATION Spec
INVARIANTS
    TypeOK
    OverloadedIsHysteresis
    CriticalIsHysteresis
    RecoveryClearsBoth
CHECK_DEADLOCK FALSE
