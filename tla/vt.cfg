SPECIFICATION Spec
CONSTANTS
    Timers = {v1, v2}
    Delays = {1, 28}
    W = 24
    I = 32
    MaxDelay = 6
    TimeDelta = 2
    MaxSection = 2
    MaxTicker = 1
    MaxLatency = 1
    Span = 10
VIEW MC_View
SYMMETRY MC_Symmetry
INVARIANTS
    DeadlinesExact
    AlarmCovers
    NotLate
PROPERTIES
    NeverEarly
