SPECIFICATION Spec
CONSTANTS
    c0 = c0
    c1 = c1
    idle1 = idle1
    idle0 = idle0
    tA = tA
    tB = tB
    f1 = f1
    f2 = f2
    Cores = {c0, c1}
    Threads = {idle0, idle1, tA, tB}
    Idle <- MC_Idle
    Owner <- MC_Owner
    Prio <- MC_Prio
    Quantum = 0
    Messages = {"OK", "TIMEOUT", "RESET"}
    NoThread = NoThread
    NoSource = NoSource
    Events = {0, 1}
    Flags = {f1, f2}
    Sources = {s1}
    Listeners = {e1, e2}
    RegArgs <- MC_RegArgs
    Given = {{1}}
    Waits <- MC_Waits
SYMMETRY MC_Symmetry
VIEW MC_View
INVARIANTS
    EventWaitExact
    FlagsAnnounced
    KernelOK
PROPERTIES
    GrantedNotLost
