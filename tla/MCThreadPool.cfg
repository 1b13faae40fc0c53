SPECIFICATION ListSpec
CONSTANTS
    ThreadCount = 2
    Clients = {c1, c2}
    Tasks = {n1, n2, n3}
    Owner = owner
    NoTask = noTask
    Free = free
    Null = null
INVARIANTS TypeOK PermitAccounting NoPrematureExit SemaphoreAlive GracefulDrain ExactlyOnce NodeOwnership ListIsQueue
PROPERTIES ShutdownTerminates AcceptedTaskRuns
