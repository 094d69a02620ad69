SPECIFICATION Spec
CONSTANTS
    c0 = c0
    c1 = c1
    idle0 = idle0
    idle1 = idle1
    tA = tA
    tB = tB
    tC = tC
    Cores = {c0, c1}
    Threads = {idle0, idle1, tA, tB, tC}
    Idle <- MC_Idle2
    Owner <- MC_Owner2
    Prio <- MC_Prio2
    Quantum = 0
    Messages = {"OK", "TIMEOUT", "RESET"}
    NoThread = NoThread
    NoObj = NoObj
    Mutexes = {m1, m2}
    Conds = {}
    Recursive = FALSE
    MaxRecursion = 1
    NewPrios = {3}
CHECK_DEADLOCK FALSE
INVARIANTS
    InheritanceExact
    KernelOK
