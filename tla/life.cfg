SPECIFICATION Spec
CONSTANTS
    c0 = c0
    c1 = c1
    idle0 = idle0
    idle1 = idle1
    main = main
    wS = wS
    wD = wD
    Cores = {c0, c1}
    Threads = {idle0, idle1, main, wS, wD}
    Idle <- MC_Idle
    Owner <- MC_Owner
    Prio <- MC_Prio
    Quantum = 0
    Messages = {"OK", "TIMEOUT", "RESET", "EXIT"}
    NoThread = NoThread
    Main = main
    Static = {wS}
    Dynamic = {wD}
    Stacks = 1
    MaxRefs = 2
CHECK_DEADLOCK FALSE
INVARIANTS
    ReferencesSafe
    MemoryAccounted
    ExitObserved
