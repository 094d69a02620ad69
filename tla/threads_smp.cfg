SPECIFICATION Spec
CONSTANTS
    c0 = c0
    c1 = c1
    idle0 = idle0
    idle1 = idle1
    tA = tA
    tB = tB
    tC = tC
    tD = tD
    Cores = {c0, c1}
    Threads = {idle0, idle1, tA, tB, tC}
    Idle <- MC_Idle2
    Owner <- MC_Owner2
    Prio <- MC_Prio2
    Quantum = 0
    Messages = {"OK", "TIMEOUT", "RESET"}
    NoThread = NoThread
    NoObj = NoObj
    Refs = {r1}
    Queues = {q1}
INVARIANTS
    ReadyListOK
    HighestPriorityRuns
    WaitersLinked
    TimerFrameAlive
PROPERTIES
    WakeMessageStable
