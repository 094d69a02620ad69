SPECIFICATION Spec
CONSTANTS
    c0 = c0
    c1 = c1
    idle0 = idle0
    idle1 = idle1
    tA = tA
    tB = tB
    tC = tC
    Cores = {c0, c1}
    Threads = {idle0, idle1, tA, tB, tC}
    Idle <- MC_Idle
    Owner <- MC_Owner
    Prio <- MC_Prio
    Quantum = 0
    Messages = {"OK", "TIMEOUT", "RESET", "yes", "no"}
    NoThread = NoThread
    Replies = {"yes", "no"}
    MsgPriority = TRUE
CHECK_DEADLOCK FALSE
INVARIANTS
    SendersServed
    HeldSendersBlocked
    AnswersMatch
    KernelOK
