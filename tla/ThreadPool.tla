----------------------------- MODULE ThreadPool -----------------------------
(***************************************************************************)
(* The fixed-size thread pool of concurrency/thread_pool.c: one owner that *)
(* initialises and destroys the pool, the workers it spawns, and callers   *)
(* of d4np_thread_pool_submit, which are client threads and the tasks the  *)
(* workers run.                                                            *)
(*                                                                         *)
(* pool->items is the atomic counting semaphore that module Semaphore      *)
(* shows concurrency/semaphore.c to implement, pool->lock a mutex, and the *)
(* intrusive list q_head/q_tail a sequence (module TaskList adds its       *)
(* pointers and shows that they spell it).  A critical section is two      *)
(* steps: taking the lock, then its body with the unlock.                  *)
(***************************************************************************)
EXTENDS Naturals, Sequences, FiniteSets

CONSTANTS
    ThreadCount,    \* the thread_count argument of d4np_thread_pool_init
    Clients,        \* threads other than the workers that call submit
    Tasks,          \* task nodes; each identifies one call of submit
    Owner,          \* the thread that calls init and destroy
    NoTask, Free    \* no node; an unlocked mutex

Workers == 1..ThreadCount
Callers == Clients \cup Workers

\* d4np_thread_pool_init refuses thread_count = 0.
ASSUME ThreadCountAssumption == ThreadCount \in Nat \ {0}
ASSUME CallersAssumption ==
    /\ IsFiniteSet(Clients)
    /\ Clients \cap Workers = {}
    /\ Owner \notin Callers
    /\ Free \notin Callers \cup {Owner}
    /\ NoTask \notin Tasks

VARIABLES
    live,           \* which of the mutex, the semaphore, the handle array exist
    lock,           \* holder of pool->lock
    items,          \* count of the semaphore pool->items
    queue,          \* the nodes from q_head to q_tail
    shutting_down, thread_count,
    phase, pc, i,   \* the owner: which call, where in it, its loop index
    wpc, cur,       \* each worker: where it is, the node it has popped
    spc, arg,       \* each caller: where it is in submit, the node it carries
    heap,           \* nodes allocated and not yet freed
    result,         \* what the submit of a task returned
    runs            \* how often a task has been executed

ownerVars  == <<phase, pc, i, thread_count, live>>
workerVars == <<wpc, cur>>
submitVars == <<spc, arg, result>>
vars == <<ownerVars, lock, items, queue, shutting_down, workerVars, submitVars,
          heap, runs>>

Queued == {queue[k] : k \in DOMAIN queue}

Init ==
    /\ live = {} /\ lock = Free /\ items = 0 /\ queue = <<>>
    /\ shutting_down = FALSE /\ thread_count = ThreadCount
    /\ phase = "init" /\ pc = "mutex" /\ i = 0
    /\ wpc = [w \in Workers |-> "unborn"]
    /\ cur = [w \in Workers |-> NoTask]
    /\ spc = [t \in Callers |-> "idle"]
    /\ arg = [t \in Callers |-> NoTask]
    /\ heap = {}
    /\ result = [n \in Tasks |-> "none"]
    /\ runs = [n \in Tasks |-> 0]

-----------------------------------------------------------------------------
(* d4np_thread_pool_init *)

\* The primitives are made one after the other; a failure releases those made
\* before it and init returns an error.
InitFails(undone) == live' = live \ undone /\ phase' = "failed" /\ pc' = "over"

InitMutex ==
    /\ pc = "mutex"
    /\ \/ live' = live \cup {"lock"} /\ pc' = "sem" /\ UNCHANGED phase
       \/ InitFails({})
    /\ UNCHANGED <<i, thread_count, lock, items, queue, shutting_down,
                   workerVars, submitVars, heap, runs>>

InitSemaphore ==
    /\ pc = "sem"
    /\ \/ live' = live \cup {"items"} /\ pc' = "alloc" /\ UNCHANGED phase
       \/ InitFails({"lock"})
    /\ UNCHANGED <<i, thread_count, lock, items, queue, shutting_down,
                   workerVars, submitVars, heap, runs>>

InitHandles ==
    /\ pc = "alloc"
    /\ \/ live' = live \cup {"threads"} /\ pc' = "spawn" /\ UNCHANGED phase
       \/ InitFails({"items", "lock"})
    /\ UNCHANGED <<i, thread_count, lock, items, queue, shutting_down,
                   workerVars, submitVars, heap, runs>>

\* One turn of the spawn loop; a failed pool_spawn leaves the loop with
\* thread_count = i and rolls back.
Spawn ==
    /\ pc = "spawn" /\ i < thread_count
    /\ \/ /\ wpc' = [wpc EXCEPT ![i + 1] = "wait"]
          /\ i' = i + 1
          /\ UNCHANGED <<pc, thread_count>>
       \/ /\ thread_count' = i
          /\ pc' = "lock"
          /\ UNCHANGED <<wpc, i>>
    /\ UNCHANGED <<phase, live, lock, items, queue, shutting_down, cur,
                   submitVars, heap, runs>>

InitDone ==
    /\ pc = "spawn" /\ i = thread_count
    /\ phase' = "up" /\ pc' = "ready"
    /\ UNCHANGED <<i, thread_count, live, lock, items, queue, shutting_down,
                   workerVars, submitVars, heap, runs>>

-----------------------------------------------------------------------------
(* Shutdown: the steps of d4np_thread_pool_destroy.  The rollback in init  *)
(* takes the same ones, except for the defensive drain.                    *)

DestroyCall ==
    /\ phase = "up" /\ "threads" \in live
    /\ phase' = "destroy" /\ pc' = "lock"
    /\ UNCHANGED <<i, thread_count, live, lock, items, queue, shutting_down,
                   workerVars, submitVars, heap, runs>>

OwnerLock ==
    /\ pc = "lock" /\ lock = Free
    /\ lock' = Owner /\ pc' = "flag"
    /\ UNCHANGED <<phase, i, thread_count, live, items, queue, shutting_down,
                   workerVars, submitVars, heap, runs>>

SetShuttingDown ==
    /\ pc = "flag"
    /\ shutting_down' = TRUE /\ lock' = Free
    /\ pc' = "post" /\ i' = 0
    /\ UNCHANGED <<phase, thread_count, live, items, queue, workerVars,
                   submitVars, heap, runs>>

PostPermits ==
    /\ pc = "post"
    /\ IF i < thread_count
       THEN items' = items + 1 /\ i' = i + 1 /\ UNCHANGED pc
       ELSE pc' = "join" /\ i' = 0 /\ UNCHANGED items
    /\ UNCHANGED <<phase, thread_count, live, lock, queue, shutting_down,
                   workerVars, submitVars, heap, runs>>

\* Seeded fault: destroy does not wait for the workers.
SkipJoin ==
    /\ pc = "join"
    /\ pc' = (IF phase = "destroy" THEN "drain" ELSE "release") /\ UNCHANGED i
    /\ UNCHANGED <<phase, thread_count, live, lock, items, queue,
                   shutting_down, workerVars, submitVars, heap, runs>>

JoinWorkers ==
    /\ pc = "join"
    /\ IF i < thread_count
       THEN wpc[i + 1] = "exited" /\ i' = i + 1 /\ UNCHANGED pc
       ELSE /\ pc' = IF phase = "destroy" THEN "drain" ELSE "release"
            /\ UNCHANGED i
    /\ UNCHANGED <<phase, thread_count, live, lock, items, queue,
                   shutting_down, workerVars, submitVars, heap, runs>>

Drain ==
    /\ pc = "drain"
    /\ heap' = heap \ Queued /\ queue' = <<>>
    /\ pc' = "release"
    /\ UNCHANGED <<phase, i, thread_count, live, lock, items, shutting_down,
                   workerVars, submitVars, runs>>

Release ==
    /\ pc = "release"
    /\ live' = live \ {"threads", "items", "lock"} /\ pc' = "over"
    /\ phase' = IF phase = "destroy" THEN "down" ELSE "failed"
    /\ UNCHANGED <<i, thread_count, lock, items, queue, shutting_down,
                   workerVars, submitVars, heap, runs>>

Shutdown == OwnerLock \/ SetShuttingDown \/ PostPermits \/ JoinWorkers \/ Release

Rollback == phase = "init" /\ Shutdown

Destroy == phase = "destroy" /\ (Shutdown \/ Drain)

-----------------------------------------------------------------------------
(* pool_worker *)

\* Seeded fault: a waiter goes on without having taken a permit.
WaitUnguarded(w) ==
    /\ wpc[w] = "wait"
    /\ items' = items - 1
    /\ wpc' = [wpc EXCEPT ![w] = "lock"]
    /\ UNCHANGED <<ownerVars, lock, queue, shutting_down, cur, submitVars,
                   heap, runs>>

WorkerWait(w) ==
    /\ wpc[w] = "wait" /\ items > 0
    /\ items' = items - 1
    /\ wpc' = [wpc EXCEPT ![w] = "lock"]
    /\ UNCHANGED <<ownerVars, lock, queue, shutting_down, cur, submitVars,
                   heap, runs>>

WorkerLock(w) ==
    /\ wpc[w] = "lock" /\ lock = Free
    /\ lock' = w
    /\ wpc' = [wpc EXCEPT ![w] = "pop"]
    /\ UNCHANGED <<ownerVars, items, queue, shutting_down, cur, submitVars,
                   heap, runs>>

\* Seeded fault: a worker that sees the shutdown flag leaves at once.
PopUnlessShutdown(w) ==
    /\ wpc[w] = "pop" /\ lock' = Free
    /\ IF shutting_down \/ queue = <<>>
       THEN wpc' = [wpc EXCEPT ![w] = "exited"] /\ UNCHANGED <<queue, cur>>
       ELSE /\ cur' = [cur EXCEPT ![w] = Head(queue)]
            /\ queue' = Tail(queue)
            /\ wpc' = [wpc EXCEPT ![w] = "run"]
    /\ UNCHANGED <<ownerVars, items, shutting_down, submitVars, heap, runs>>

\* Seeded fault: the popped node stays at the head of the list.
PopKeepsHead(w) ==
    /\ wpc[w] = "pop" /\ lock' = Free
    /\ IF queue = <<>>
       THEN wpc' = [wpc EXCEPT ![w] = "exited"] /\ UNCHANGED cur
       ELSE /\ cur' = [cur EXCEPT ![w] = Head(queue)]
            /\ wpc' = [wpc EXCEPT ![w] = "run"]
    /\ UNCHANGED <<ownerVars, items, queue, shutting_down, submitVars, heap,
                   runs>>

\* Seeded fault: a worker that finds the queue empty looks again.
PopRetries(w) ==
    /\ wpc[w] = "pop" /\ lock' = Free
    /\ IF queue = <<>>
       THEN wpc' = [wpc EXCEPT ![w] = "lock"] /\ UNCHANGED <<queue, cur>>
       ELSE /\ cur' = [cur EXCEPT ![w] = Head(queue)]
            /\ queue' = Tail(queue)
            /\ wpc' = [wpc EXCEPT ![w] = "run"]
    /\ UNCHANGED <<ownerVars, items, shutting_down, submitVars, heap, runs>>

WorkerPop(w) ==
    /\ wpc[w] = "pop" /\ lock' = Free
    /\ IF queue = <<>>
       THEN wpc' = [wpc EXCEPT ![w] = "exited"] /\ UNCHANGED <<queue, cur>>
       ELSE /\ cur' = [cur EXCEPT ![w] = Head(queue)]
            /\ queue' = Tail(queue)
            /\ wpc' = [wpc EXCEPT ![w] = "run"]
    /\ UNCHANGED <<ownerVars, items, shutting_down, submitVars, heap, runs>>

\* The task function returns (it may have called submit meanwhile) and its
\* node is freed.
WorkerFinish(w) ==
    /\ wpc[w] = "run" /\ spc[w] = "idle"
    /\ runs' = [runs EXCEPT ![cur[w]] = @ + 1]
    /\ heap' = heap \ {cur[w]}
    /\ cur' = [cur EXCEPT ![w] = NoTask]
    /\ wpc' = [wpc EXCEPT ![w] = "wait"]
    /\ UNCHANGED <<ownerVars, lock, items, queue, shutting_down, submitVars>>

-----------------------------------------------------------------------------
(* d4np_thread_pool_submit *)

\* A client may call submit until destroy has returned; a task may call it
\* while it runs.
MayCall(t) ==
    /\ spc[t] = "idle"
    /\ IF t \in Workers THEN wpc[t] = "run" ELSE phase \in {"up", "destroy"}

SubmitAlloc(t) ==
    /\ MayCall(t)
    /\ \E n \in Tasks :
        /\ result[n] = "none"
        /\ \/ /\ heap' = heap \cup {n}
              /\ arg' = [arg EXCEPT ![t] = n]
              /\ spc' = [spc EXCEPT ![t] = "lock"]
              /\ result' = [result EXCEPT ![n] = "busy"]
           \/ /\ result' = [result EXCEPT ![n] = "oom"]
              /\ UNCHANGED <<heap, arg, spc>>
    /\ UNCHANGED <<ownerVars, lock, items, queue, shutting_down, workerVars,
                   runs>>

\* The result of pthread_mutex_lock is ignored: on a destroyed mutex the call
\* fails, or never returns, and submit goes on without the lock in the first case.
SubmitLock(t) ==
    /\ spc[t] = "lock"
    /\ IF "lock" \in live THEN lock = Free /\ lock' = t ELSE UNCHANGED lock
    /\ spc' = [spc EXCEPT ![t] = "check"]
    /\ UNCHANGED <<ownerVars, items, queue, shutting_down, workerVars, arg,
                   result, heap, runs>>

Unlock(t) == lock' = IF lock = t THEN Free ELSE lock

\* Seeded fault: submit does not look at shutting_down.
SubmitUnchecked(t) ==
    /\ spc[t] = "check" /\ Unlock(t)
    /\ queue' = Append(queue, arg[t])
    /\ spc' = [spc EXCEPT ![t] = "post"]
    /\ UNCHANGED <<ownerVars, items, shutting_down, workerVars, arg, result,
                   heap, runs>>

SubmitCheck(t) ==
    /\ spc[t] = "check" /\ Unlock(t)
    /\ IF shutting_down
       THEN /\ heap' = heap \ {arg[t]}
            /\ result' = [result EXCEPT ![arg[t]] = "unsupported"]
            /\ arg' = [arg EXCEPT ![t] = NoTask]
            /\ spc' = [spc EXCEPT ![t] = "idle"]
            /\ UNCHANGED queue
       ELSE /\ queue' = Append(queue, arg[t])
            /\ spc' = [spc EXCEPT ![t] = "post"]
            /\ UNCHANGED <<heap, result, arg>>
    /\ UNCHANGED <<ownerVars, items, shutting_down, workerVars, runs>>

\* Seeded fault: the permit of the task is forgotten.
SubmitNoPost(t) ==
    /\ spc[t] = "post"
    /\ result' = [result EXCEPT ![arg[t]] = "ok"]
    /\ arg' = [arg EXCEPT ![t] = NoTask]
    /\ spc' = [spc EXCEPT ![t] = "idle"]
    /\ UNCHANGED <<ownerVars, lock, items, queue, shutting_down, workerVars,
                   heap, runs>>

SubmitPost(t) ==
    /\ spc[t] = "post"
    /\ items' = items + 1
    /\ result' = [result EXCEPT ![arg[t]] = "ok"]
    /\ arg' = [arg EXCEPT ![t] = NoTask]
    /\ spc' = [spc EXCEPT ![t] = "idle"]
    /\ UNCHANGED <<ownerVars, lock, queue, shutting_down, workerVars, heap,
                   runs>>

-----------------------------------------------------------------------------
Worker(w) == WorkerWait(w) \/ WorkerLock(w) \/ WorkerPop(w) \/ WorkerFinish(w)

Submitting(t) == SubmitLock(t) \/ SubmitCheck(t) \/ SubmitPost(t)

InitCall == InitMutex \/ InitSemaphore \/ InitHandles \/ Spawn \/ InitDone

\* Nothing is left to do once init has failed or destroy has returned.
Over ==
    /\ pc = "over" /\ \A t \in Callers : spc[t] = "idle"
    /\ UNCHANGED vars

Next ==
    \/ InitCall \/ Rollback \/ DestroyCall \/ Destroy
    \/ \E w \in Workers : Worker(w)
    \/ \E t \in Callers : SubmitAlloc(t) \/ Submitting(t)
    \/ Over

\* Every thread that can take a step inside a library call, and every task,
\* eventually does; nobody has to call submit or destroy, and a submit that
\* meets a destroyed mutex may hang.
Fairness ==
    /\ WF_vars(InitCall) /\ WF_vars(Rollback) /\ WF_vars(Destroy)
    /\ \A w \in Workers : WF_vars(Worker(w))
    /\ \A t \in Callers : WF_vars("lock" \in live /\ Submitting(t))

Spec == Init /\ [][Next]_vars
FairSpec == Spec /\ Fairness

-----------------------------------------------------------------------------
(* Properties *)

TypeOK ==
    /\ live \subseteq {"lock", "items", "threads"}
    /\ lock \in Callers \cup {Owner, Free}
    /\ items \in Nat
    /\ queue \in Seq(Tasks)
    /\ shutting_down \in BOOLEAN
    /\ thread_count \in 0..ThreadCount
    /\ phase \in {"init", "up", "destroy", "failed", "down"}
    /\ pc \in {"mutex", "sem", "alloc", "spawn", "ready", "lock", "flag",
               "post", "join", "drain", "release", "over"}
    /\ i \in 0..ThreadCount
    /\ wpc \in [Workers -> {"unborn", "wait", "lock", "pop", "run", "exited"}]
    /\ cur \in [Workers -> Tasks \cup {NoTask}]
    /\ spc \in [Callers -> {"idle", "lock", "check", "post"}]
    /\ arg \in [Callers -> Tasks \cup {NoTask}]
    /\ heap \subseteq Tasks
    /\ result \in [Tasks -> {"none", "busy", "ok", "unsupported", "oom"}]
    /\ runs \in [Tasks -> Nat]

Holding == {w \in Workers : wpc[w] \in {"lock", "pop"}}
Exited  == {w \in Workers : wpc[w] = "exited"}
Pending == {t \in Callers : spc[t] = "post"}

\* Permits the owner has posted to stop the workers.
StopPermits ==
    IF ~shutting_down THEN 0 ELSE IF pc = "post" THEN i ELSE thread_count

\* "Exactly one permit per submitted task plus one per worker": the permits
\* not yet spent (in the semaphore, in a worker's hands, spent on leaving, or
\* owed by a submit between its unlock and its post) match the queued tasks
\* plus the stop permits posted.
PermitAccounting ==
    items + Cardinality(Holding) + Cardinality(Exited) + Cardinality(Pending)
        = Len(queue) + StopPermits

\* pool_worker takes an empty queue for a shutdown signal.  It never errs: a
\* worker has left only if the shutdown has begun and no task is queued, now
\* or ever after.
NoPrematureExit == Exited # {} => shutting_down /\ queue = <<>>

\* A submit that passed the shutting_down check posts to a semaphore that
\* still exists, and a worker waits on one, however late they are: destroy
\* cannot overtake them.
SemaphoreAlive ==
    \/ "items" \in live
    \/ Pending = {} /\ \A w \in Workers : wpc[w] \in {"unborn", "exited"}

\* When the workers have been joined no task is queued, none runs, and every
\* accepted task has been executed: the drain is graceful, and the defensive
\* loop over the remaining nodes has nothing to free.  A failed init and a
\* finished destroy leave no primitive, no handle array and no worker behind.
GracefulDrain ==
    /\ pc \in {"drain", "release", "over"} =>
           /\ queue = <<>>
           /\ \A w \in Workers : cur[w] = NoTask
           /\ \A n \in Tasks : result[n] = "ok" => runs[n] = 1
    /\ pc = "over" => live = {} /\ \A w \in Workers : wpc[w] \in {"unborn", "exited"}

\* A task has been linked into the queue.
Linked(n) == result[n] = "ok" \/ \E t \in Pending : arg[t] = n

\* A linked task has run once when its node is gone and not at all before
\* that; a task that was refused never runs.
ExactlyOnce ==
    \A n \in Tasks : runs[n] = IF Linked(n) /\ n \notin heap THEN 1 ELSE 0

\* Every allocated node is in exactly one place (a submit that has not linked
\* it, the queue, a worker), and a freed one in none: no leak, no double free,
\* no use of a freed node.
NodeOwnership ==
    \A n \in Tasks :
        Cardinality({k \in DOMAIN queue : queue[k] = n})
      + Cardinality({w \in Workers : cur[w] = n})
      + Cardinality({t \in Callers : arg[t] = n /\ spc[t] \in {"lock", "check"}})
        = IF n \in heap THEN 1 ELSE 0

\* thread_pool.h promises a thread-safe submit that is rejected once the
\* shutdown has begun; so no submit enters its critical section after destroy
\* has destroyed the mutex.
LockAlive == \A t \in Callers : spc[t] = "check" => "lock" \in live

\* destroy returns: no worker sleeps on for want of a permit, no join waits
\* for ever; the same for the rollback of init.
ShutdownTerminates == phase \in {"init", "destroy"} ~> phase \in {"up", "failed", "down"}

\* Every task whose submit returned OK is executed, whether or not the pool
\* is ever destroyed: no wake-up is lost.
AcceptedTaskRuns == \A n \in Tasks : result[n] = "ok" ~> runs[n] = 1
=============================================================================
