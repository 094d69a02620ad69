SPECIFICATION Spec
CONSTANTS
    Timers = {v1, v2}
    Delays = {4}
    W = 16
    I = 64
    MaxDelay = 8
    TimeDelta = 2
    MaxSection = 0
    MaxTicker = 0
    MaxLatency = 0
    Span = 64
INVARIANT
    NotLate
