SPECIFICATION ListSpec
CONSTANTS
    ThreadCount = 1
    Clients = {c1}
    Tasks = {n1}
    Owner = owner
    NoTask = noTask
    Free = free
    Null = null
INVARIANT LockAlive
