SPECIFICATION Spec
CONSTANTS
    c0 = c0
    c1 = c1
    idle0 = idle0
    idle1 = idle1
    tA = tA
    tB = tB
    s1 = s1
    s2 = s2
    Cores = {c0, c1}
    Threads = {idle0, idle1, tA, tB}
    Idle <- MC_Idle
    Owner <- MC_Owner
    Prio <- MC_Prio
    Quantum = 0
    Messages = {"OK", "TIMEOUT", "RESET"}
    NoThread = NoThread
    NoSem = NoSem
    Sems = {s1, s2}
    InitCnt <- MC_Init
    MaxCount = 2
    SemPriority = TRUE
INVARIANTS
    TypeOK
    SemConsistent
    UnitsConserved
    KernelOK
PROPERTIES
    ImplementsSemSpec
