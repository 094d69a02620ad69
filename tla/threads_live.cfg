SPECIFICATION FairSpec
CONSTANTS
    c0 = c0
    c1 = c1
    idle0 = idle0
    idle1 = idle1
    tA = tA
    tB = tB
    tC = tC
    tD = tD
    Cores = {c0}
    Threads = {idle0, tA, tB, tC, tD}
    Idle <- MC_Idle1
    Owner <- MC_Owner1
    Prio <- MC_PrioRR
    Quantum = 2
    Messages = {"OK", "TIMEOUT", "RESET"}
    NoThread = NoThread
    NoObj = NoObj
    Refs = {}
    Queues = {}
INVARIANTS
    PreemptedKeepsTurn
PROPERTIES
    RoundRobin
    TimedSleepEnds
