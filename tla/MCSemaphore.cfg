SPECIFICATION SemaphoresSpec
CONSTANTS
    Threads = {t1, t2, t3, t4}
    MaxPermits = 2
    Free = free
    Processes = {p1, p2}
    SemKeys <- MCKeys
    NameSize = 3
    MaxValue = 2
    MaxObjects = 4
INVARIANTS TypeOK NoLostWakeup PermitsConserved SameKeySameSemaphore
PROPERTIES ImplementsAtomic ServesWaiters
