SPECIFICATION Spec
CONSTANTS
    m1 = m1
    m2 = m2
    MaxThreads = 2
    Queues = {"qw", "qr"}
    NoQueue = NoQueue
    Width = 5
    TimeDelta = 2
    Msgs = {m1, m2}
    Size = 2
    Timeouts <- MC_Timeouts
    Naps <- MC_Naps
    NoCall = NoCall
VIEW MC_View
INVARIANTS
    KernelOK
    NoLostWakeup
    TimeoutsExact
PROPERTIES
    NeverEarly
    ImplementsMailboxSpec
