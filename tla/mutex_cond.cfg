SPECIFICATION Spec
CONSTANTS
    c0 = c0
    c1 = c1
    idle0 = idle0
    idle1 = idle1
    tA = tA
    tB = tB
    tC = tC
    Cores = {c0}
    Threads = {idle0, tA, tB, tC}
    Idle <- MC_Idle1
    Owner <- MC_Owner1
    Prio <- MC_Prio1
    Quantum = 0
    Messages = {"OK", "TIMEOUT", "RESET"}
    NoThread = NoThread
    NoObj = NoObj
    Mutexes = {m1, m2}
    Conds = {v1}
    Recursive = TRUE
    MaxRecursion = 2
    NewPrios = {}
CHECK_DEADLOCK FALSE
INVARIANTS
    MutexConsistent
    InheritanceExact
    CondConsistent
    CondWaitReturnsOwner
PROPERTIES
    LockReturnsOwned
