------------------------------ MODULE Semaphore ------------------------------
(***************************************************************************)
(* The POSIX build of concurrency/semaphore.c: a counter under a mutex and *)
(* a condition variable.  Taking the mutex, the test of the counter, and   *)
(* giving the mutex back are separate steps; pthread_cond_wait releases    *)
(* the mutex and sleeps in one step and takes the mutex again when it is   *)
(* woken, by a signal or spuriously.                                       *)
(***************************************************************************)
EXTENDS Naturals, FiniteSets

CONSTANTS
    Threads,
    MaxPermits,     \* bound on the permits of a model
    Free            \* the mutex is not held

ASSUME SemaphoreAssumption ==
    IsFiniteSet(Threads) /\ MaxPermits \in Nat /\ Free \notin Threads

VARIABLES
    live,   \* the semaphore is initialised
    mutex,  \* holder of p->mutex
    count,  \* p->count
    pc,     \* where each thread is in its call
    op      \* the operation a thread has called last

vars == <<live, mutex, count, pc, op>>

Init ==
    /\ live = FALSE /\ mutex = Free /\ count = 0
    /\ pc = [t \in Threads |-> "idle"]
    /\ op = [t \in Threads |-> "wait"]

\* Threads asleep in pthread_cond_wait; threads on their way to the test of
\* the counter in d4np_semaphore_wait.
Sleepers == {t \in Threads : pc[t] = "sleep"}
Awake == {t \in Threads : op[t] = "wait" /\ pc[t] \in {"lock", "test"}}
Posting == {t \in Threads : op[t] = "post" /\ pc[t] \in {"lock", "test"}}

SemInit ==
    /\ ~live
    /\ \E initial_count \in 0..MaxPermits : count' = initial_count
    /\ live' = TRUE
    /\ UNCHANGED <<mutex, pc, op>>

SemDestroy ==
    /\ live /\ \A t \in Threads : pc[t] = "idle"
    /\ live' = FALSE
    /\ UNCHANGED <<mutex, count, pc, op>>

Call(t, o) ==
    /\ live /\ pc[t] = "idle"
    /\ o = "post" => count + Cardinality(Posting) < MaxPermits
    /\ pc' = [pc EXCEPT ![t] = "lock"]
    /\ op' = [op EXCEPT ![t] = o]
    /\ UNCHANGED <<live, mutex, count>>

Lock(t) ==
    /\ pc[t] = "lock" /\ mutex = Free
    /\ mutex' = t
    /\ pc' = [pc EXCEPT ![t] = "test"]
    /\ UNCHANGED <<live, count, op>>

\* Seeded fault: the counter is not tested again after the wake-up.
WaitUntested(t) ==
    /\ op[t] = "wait" /\ pc[t] = "test"
    /\ count' = count - 1 /\ pc' = [pc EXCEPT ![t] = "granted"]
    /\ UNCHANGED <<live, mutex, op>>

Wait(t) ==
    /\ op[t] = "wait" /\ pc[t] = "test"
    /\ IF count = 0
       THEN mutex' = Free /\ pc' = [pc EXCEPT ![t] = "sleep"] /\ UNCHANGED count
       ELSE count' = count - 1 /\ pc' = [pc EXCEPT ![t] = "granted"] /\ UNCHANGED mutex
    /\ UNCHANGED <<live, op>>

\* pthread_cond_wait may return without a signal.
SpuriousWakeup(t) ==
    /\ pc[t] = "sleep"
    /\ pc' = [pc EXCEPT ![t] = "lock"]
    /\ UNCHANGED <<live, mutex, count, op>>

\* Seeded fault: the last permit is held back.
TryWaitOffByOne(t) ==
    /\ op[t] = "try" /\ pc[t] = "test"
    /\ IF count > 1
       THEN count' = count - 1 /\ pc' = [pc EXCEPT ![t] = "granted"]
       ELSE UNCHANGED count /\ pc' = [pc EXCEPT ![t] = "refused"]
    /\ UNCHANGED <<live, mutex, op>>

TryWait(t) ==
    /\ op[t] = "try" /\ pc[t] = "test"
    /\ IF count > 0
       THEN count' = count - 1 /\ pc' = [pc EXCEPT ![t] = "granted"]
       ELSE UNCHANGED count /\ pc' = [pc EXCEPT ![t] = "refused"]
    /\ UNCHANGED <<live, mutex, op>>

\* Seeded fault: post signals only when the counter was zero.
PostSignalsOnZero(t) ==
    /\ op[t] = "post" /\ pc[t] = "test"
    /\ count' = count + 1
    /\ IF Sleepers = {} \/ count > 0
       THEN pc' = [pc EXCEPT ![t] = "posted"]
       ELSE \E s \in Sleepers : pc' = [pc EXCEPT ![t] = "posted", ![s] = "lock"]
    /\ UNCHANGED <<live, mutex, op>>

\* pthread_cond_signal wakes one sleeper, if there is one.
Post(t) ==
    /\ op[t] = "post" /\ pc[t] = "test"
    /\ count' = count + 1
    /\ IF Sleepers = {}
       THEN pc' = [pc EXCEPT ![t] = "posted"]
       ELSE \E s \in Sleepers : pc' = [pc EXCEPT ![t] = "posted", ![s] = "lock"]
    /\ UNCHANGED <<live, mutex, op>>

Unlock(t) ==
    /\ pc[t] \in {"granted", "refused", "posted"}
    /\ mutex' = Free
    /\ pc' = [pc EXCEPT ![t] = "idle"]
    /\ UNCHANGED <<live, count, op>>

Step(t) == Lock(t) \/ Wait(t) \/ TryWait(t) \/ Post(t) \/ Unlock(t)

Next ==
    \/ SemInit \/ SemDestroy
    \/ \E t \in Threads :
        \/ \E o \in {"wait", "try", "post"} : Call(t, o)
        \/ Step(t) \/ SpuriousWakeup(t)

\* A thread in a call, or signalled, goes on; spurious wake-ups and new calls
\* are not assumed.
Fairness == \A t \in Threads : WF_vars(Step(t))

Spec == Init /\ [][Next]_vars
FairSpec == Spec /\ Fairness

-----------------------------------------------------------------------------
(* Properties *)

TypeOK ==
    /\ live \in BOOLEAN
    /\ mutex \in Threads \cup {Free}
    /\ count \in Nat
    /\ pc \in [Threads -> {"idle", "lock", "test", "sleep", "granted", "refused", "posted"}]
    /\ op \in [Threads -> {"wait", "try", "post"}]

\* No wake-up is lost: while somebody sleeps in d4np_semaphore_wait, every
\* permit of the counter has a waiter of its own that is awake and will find it.
NoLostWakeup == Sleepers # {} => count <= Cardinality(Awake)

\* The semaphore of module AtomicSemaphore, with a limit that is never met: a
\* call takes effect when it changes, or refuses on, the counter.
Atomic == INSTANCE AtomicSemaphore WITH
    MaxCount <- MaxPermits,
    st <- [t \in Threads |-> IF pc[t] \in {"lock", "test", "sleep"} THEN op[t] ELSE pc[t]]

\* The mutex and condition variable of semaphore.c implement an atomic
\* counting semaphore: no permit is lost, invented, or refused while there is one.
ImplementsAtomic == Atomic!Spec

\* A waiter is not left asleep beside a permit: once no thread makes a new call
\* (before that the mutex may always go to another thread), either the permits
\* run out or nobody is left in d4np_semaphore_wait.
NewCall == \E t \in Threads : pc[t] = "idle" /\ pc'[t] # "idle"
InWait(t) == op[t] = "wait" /\ pc[t] \in {"lock", "test", "sleep"}
ServesWaiters ==
    <>[][~NewCall]_vars => <>[](count = 0 \/ \A t \in Threads : ~InWait(t))
=============================================================================
