-------------------------- MODULE ThreadPoolProofs --------------------------
(***************************************************************************)
(* Machine-checked proofs about the thread pool, for every number of       *)
(* workers, clients and tasks.                                             *)
(*                                                                         *)
(* The argument is a count of permits.  Each semaphore permit stands for a *)
(* queued task or for a worker that is to stop (PermitAccounting); so a    *)
(* worker that holds a permit and finds the queue empty holds a stop       *)
(* permit, and once all workers have spent theirs no permit can be         *)
(* outstanding, neither in the semaphore nor owed by a late submit.        *)
(*                                                                         *)
(* A second invariant says where every node is: in the list, with a worker *)
(* or with a submit, and in one of them only.                              *)
(***************************************************************************)
EXTENDS TaskList, SharedProofs

\* How many workers have been spawned.
Born ==
    IF pc \in {"mutex", "sem", "alloc", "spawn"} \/ (pc = "over" /\ ~shutting_down)
    THEN i ELSE thread_count

\* Where the owner is determines the flag, the phase and the loop bounds.
OwnerInv ==
    /\ pc \in {"mutex", "sem", "alloc", "spawn", "ready", "lock", "flag"} => ~shutting_down
    /\ pc \in {"post", "join", "drain", "release"} => shutting_down
    /\ pc \in {"mutex", "sem", "alloc", "spawn"} => phase = "init" /\ thread_count = ThreadCount
    /\ phase = "up" <=> pc = "ready"
    /\ phase \in {"failed", "down"} <=> pc = "over"
    /\ phase = "down" => shutting_down
    /\ phase \in {"up", "destroy", "down"} => thread_count = ThreadCount
    /\ pc \in {"mutex", "sem", "alloc"} => i = 0
    /\ pc = "over" /\ ~shutting_down => i = 0
    /\ pc \in {"spawn", "post", "join"} => i <= thread_count
    /\ pc = "drain" => phase = "destroy"
    /\ pc \notin {"mutex", "sem", "over"} => "items" \in live

\* The workers that exist, and those the owner has joined.
WorkersInv ==
    /\ \A w \in Workers : wpc[w] = "unborn" <=> w > Born
    /\ pc = "join" => \A w \in 1..i : wpc[w] = "exited"
    /\ pc \in {"drain", "release"} \/ (pc = "over" /\ shutting_down)
         => \A w \in 1..thread_count : wpc[w] = "exited"

\* Nobody submits to a pool whose init has not succeeded.
QuietInv ==
    /\ phase \in {"init", "failed"} =>
         /\ queue = <<>>
         /\ \A t \in Callers : spc[t] = "idle"
         /\ \A w \in Workers : wpc[w] # "run"
    /\ \A t \in Callers : spc[t] # "idle" => arg[t] \in Tasks

Inv ==
    /\ TypeOK
    /\ OwnerInv
    /\ WorkersInv
    /\ QuietInv
    /\ NoPrematureExit
    /\ PermitAccounting

-----------------------------------------------------------------------------
\* The sets the accounting counts are finite, because the threads are.
LEMMA FiniteThreads ==
    /\ IsFiniteSet(Workers) /\ IsFiniteSet(Callers)
    /\ IsFiniteSet(Holding) /\ Cardinality(Holding) \in Nat
    /\ IsFiniteSet(Exited)  /\ Cardinality(Exited) \in Nat
    /\ IsFiniteSet(Pending) /\ Cardinality(Pending) \in Nat
<1>1. IsFiniteSet(Workers)
  BY FS_Interval, ThreadCountAssumption DEF Workers
<1>2. IsFiniteSet(Callers)
  BY <1>1, FS_Union, CallersAssumption, Zenon DEF Callers
<1>3. Holding \in SUBSET Workers /\ Exited \in SUBSET Workers /\ Pending \in SUBSET Callers
  BY DEF Holding, Exited, Pending
<1>4. IsFiniteSet(Holding) /\ IsFiniteSet(Exited) /\ IsFiniteSet(Pending)
  BY <1>1, <1>2, <1>3, FS_Subset
<1> QED
  BY <1>1, <1>2, <1>4, FS_CardinalityType

\* Counting one more execution keeps the execution counts naturals.
LEMMA CountUp ==
    ASSUME NEW S, NEW f \in [S -> Nat], NEW x
    PROVE  [f EXCEPT ![x] = @ + 1] \in [S -> Nat]
<1> DEFINE g == [y \in S |-> IF y = x THEN f[y] + 1 ELSE f[y]]
<1>1. g \in [S -> Nat]
  OBVIOUS
<1>2. [f EXCEPT ![x] = @ + 1] = g
  BY Zenon
<1> QED
  BY <1>1, <1>2, Zenon

\* Steps preserve the types: the only value that is not obviously typed is the
\* node a submit links, which QuietInv says is a task.
LEMMA TypeStep == Inv /\ [Next]_vars => TypeOK'
<1> SUFFICES ASSUME Inv, [Next]_vars PROVE TypeOK'
  OBVIOUS
<1> USE ThreadCountAssumption, CallersAssumption DEF Inv, TypeOK, ownerVars, workerVars, submitVars
<1>1. CASE InitCall
  <2>1. CASE InitMutex \/ InitSemaphore \/ InitHandles \/ InitDone
    BY <2>1, ZenonT(30) DEF InitMutex, InitSemaphore, InitHandles, InitDone, InitFails
  <2>2. CASE Spawn
    <3>1. thread_count' \in 0..ThreadCount /\ i' \in 0..ThreadCount
      BY <2>2 DEF Spawn
    <3> QED
      BY <2>2, <3>1 DEF Spawn
  <2> QED
    BY <1>1, <2>1, <2>2 DEF InitCall
<1>2. CASE Shutdown
  <2>1. CASE OwnerLock
    BY <2>1 DEF OwnerLock
  <2>2. CASE SetShuttingDown
    BY <2>2 DEF SetShuttingDown
  <2>3. CASE PostPermits
    BY <2>3 DEF PostPermits
  <2>4. CASE JoinWorkers
    BY <2>4 DEF JoinWorkers
  <2>5. CASE Release
    BY <2>5 DEF Release
  <2> QED
    BY <1>2, <2>1, <2>2, <2>3, <2>4, <2>5, Zenon DEF Shutdown
<1>3. CASE DestroyCall
  BY <1>3 DEF DestroyCall
<1>4. CASE Drain
  BY <1>4 DEF Drain
<1>5. ASSUME NEW w \in Workers, Worker(w) PROVE TypeOK'
  <2>1. CASE WorkerWait(w)
    BY <2>1 DEF WorkerWait
  <2>2. CASE WorkerLock(w)
    BY <2>2 DEF WorkerLock, Callers
  <2>3. CASE WorkerPop(w)
    <3>1. CASE queue = <<>>
      BY <2>3, <3>1, SMTT(20) DEF WorkerPop
    <3>2. CASE queue # <<>>
      <4>1. Head(queue) \in Tasks /\ Tail(queue) \in Seq(Tasks)
        BY <3>2, HeadTailProperties
      <4>2. queue' \in Seq(Tasks)
        BY <2>3, <3>2, <4>1, Zenon DEF WorkerPop
      <4>3. cur' \in [Workers -> Tasks \cup {NoTask}]
        BY <2>3, <3>2, <4>1, Zenon DEF WorkerPop
      <4>4. wpc' = [wpc EXCEPT ![w] = "run"] /\ lock' = Free
        BY <2>3, <3>2 DEF WorkerPop
      <4> QED
        BY <2>3, <4>2, <4>3, <4>4 DEF WorkerPop
    <3> QED
      BY <3>1, <3>2
  <2>4. CASE WorkerFinish(w)
    <3>1. runs' \in [Tasks -> Nat]
      BY <2>4, CountUp DEF WorkerFinish
    <3> QED
      BY <2>4, <3>1 DEF WorkerFinish
  <2> QED
    BY <1>5, <2>1, <2>2, <2>3, <2>4, Zenon DEF Worker
<1>6. ASSUME NEW t \in Callers, SubmitAlloc(t) PROVE TypeOK'
  <2> PICK n \in Tasks : result[n] = "none" /\
        \/ /\ heap' = heap \cup {n}
           /\ arg' = [arg EXCEPT ![t] = n]
           /\ spc' = [spc EXCEPT ![t] = "lock"]
           /\ result' = [result EXCEPT ![n] = "busy"]
        \/ /\ result' = [result EXCEPT ![n] = "oom"]
           /\ UNCHANGED <<heap, arg, spc>>
    BY <1>6 DEF SubmitAlloc
  <2>0. heap' \subseteq Tasks
    OBVIOUS
  <2>1. arg' \in [Callers -> Tasks \cup {NoTask}]
    BY ZenonT(30)
  <2>2. spc' \in [Callers -> {"idle", "lock", "check", "post"}]
    BY Zenon
  <2>3. result' \in [Tasks -> {"none", "busy", "ok", "unsupported", "oom"}]
    OBVIOUS
  <2> QED
    BY <1>6, <2>0, <2>1, <2>2, <2>3 DEF SubmitAlloc
<1>7. ASSUME NEW t \in Callers, Submitting(t) PROVE TypeOK'
  <2>1. CASE SubmitLock(t)
    BY <2>1 DEF SubmitLock
  <2>2. CASE SubmitCheck(t)
    <3>1. arg[t] \in Tasks
      BY <2>2 DEF SubmitCheck, QuietInv
    <3>2. Append(queue, arg[t]) \in Seq(Tasks)
      BY <3>1, AppendProperties
    <3>3. queue' \in Seq(Tasks) /\ heap' \subseteq Tasks
      BY <2>2, <3>2, Zenon DEF SubmitCheck
    <3>4. spc' \in [Callers -> {"idle", "lock", "check", "post"}]
      BY <2>2, ZenonT(30) DEF SubmitCheck
    <3>5. arg' \in [Callers -> Tasks \cup {NoTask}]
      BY <2>2, Zenon DEF SubmitCheck
    <3>6. result' \in [Tasks -> {"none", "busy", "ok", "unsupported", "oom"}]
      BY <2>2, <3>1 DEF SubmitCheck
    <3> QED
      BY <2>2, <3>3, <3>4, <3>5, <3>6 DEF SubmitCheck, Unlock
  <2>3. CASE SubmitPost(t)
    <3>1. arg[t] \in Tasks
      BY <2>3 DEF SubmitPost, QuietInv
    <3> QED
      BY <2>3, <3>1 DEF SubmitPost
  <2> QED
    BY <1>7, <2>1, <2>2, <2>3, Zenon DEF Submitting
<1>8. CASE Over \/ UNCHANGED vars
  BY <1>8, ZenonT(30) DEF Over, vars
<1> HIDE DEF TypeOK
<1>9. CASE Rollback \/ Destroy
  BY <1>2, <1>3, <1>4, <1>9, Zenon DEF Rollback, Destroy
<1> QED
  BY <1>1, <1>3, <1>5, <1>6, <1>7, <1>8, <1>9, Zenon DEF Next

-----------------------------------------------------------------------------
\* Steps of workers and submitters leave the owner's state alone.
LEMMA OwnerFrame ==
    ASSUME \/ \E w \in Workers : Worker(w)
           \/ \E t \in Callers : SubmitAlloc(t) \/ Submitting(t)
           \/ Over \/ UNCHANGED vars
    PROVE  UNCHANGED <<phase, pc, i, thread_count, live, shutting_down>>
BY Zenon DEF Worker, WorkerWait, WorkerLock, WorkerPop, WorkerFinish, SubmitAlloc,
       Submitting, SubmitLock, SubmitCheck, SubmitPost, Over, vars, ownerVars

\* The owner's bookkeeping is kept by every step.
LEMMA OwnerStep == Inv /\ [Next]_vars => OwnerInv'
<1> SUFFICES ASSUME TypeOK, OwnerInv, [Next]_vars PROVE OwnerInv'
  BY DEF Inv
<1> USE ThreadCountAssumption
<1>0. /\ i \in Nat /\ thread_count \in Nat
      /\ phase \in {"init", "up", "destroy", "failed", "down"}
      /\ pc \in {"mutex", "sem", "alloc", "spawn", "ready", "lock", "flag",
                 "post", "join", "drain", "release", "over"}
  BY DEF TypeOK
<1>1. CASE InitMutex \/ InitSemaphore \/ InitHandles \/ InitDone
  BY <1>0, <1>1 DEF InitMutex, InitSemaphore, InitHandles, InitDone, InitFails, OwnerInv
<1>2. CASE Spawn
  BY <1>0, <1>2 DEF Spawn, OwnerInv
<1>3. CASE Rollback
  BY <1>0, <1>3 DEF Rollback, Shutdown, OwnerLock, SetShuttingDown, PostPermits,
       JoinWorkers, Release, OwnerInv
<1>4. CASE DestroyCall
  BY <1>0, <1>4 DEF DestroyCall, OwnerInv
<1>5. CASE Destroy
  BY <1>0, <1>5 DEF Destroy, Shutdown, OwnerLock, SetShuttingDown, PostPermits,
       JoinWorkers, Release, Drain, OwnerInv
<1>6. CASE UNCHANGED <<phase, pc, i, thread_count, live, shutting_down>>
  BY <1>6 DEF OwnerInv
<1> QED
  BY <1>1, <1>2, <1>3, <1>4, <1>5, <1>6, OwnerFrame DEF Next, InitCall

\* A worker is born once and, once it has left, never comes back.
LEMMA WorkerMoves ==
    ASSUME TypeOK, NEW w \in Workers, Worker(w), OwnerInv, WorkersInv
    PROVE  WorkersInv'
<1>1. UNCHANGED <<phase, pc, i, thread_count, live, shutting_down>>
  BY OwnerFrame
<1>2. wpc \in [Workers -> {"unborn", "wait", "lock", "pop", "run", "exited"}]
  BY DEF TypeOK
<1>3. /\ wpc[w] \notin {"unborn", "exited"}
      /\ \E l \in {"wait", "lock", "pop", "run", "exited"} : wpc' = [wpc EXCEPT ![w] = l]
  BY <1>2 DEF Worker, WorkerWait, WorkerLock, WorkerPop, WorkerFinish
<1>4. Born' = Born
  BY <1>1 DEF Born
<1>5. \A v \in Workers : /\ wpc'[v] = "unborn" <=> wpc[v] = "unborn"
                         /\ wpc[v] = "exited" => wpc'[v] = "exited"
  BY <1>2, <1>3
<1>6. 1..i \subseteq Workers /\ 1..thread_count \subseteq Workers
  BY ThreadCountAssumption DEF TypeOK, Workers
<1> QED
  BY <1>1, <1>4, <1>5, <1>6 DEF WorkersInv

\* Every step keeps what WorkersInv says of the workers that exist and of those
\* that destroy has joined.
LEMMA WorkersStep == Inv /\ [Next]_vars => WorkersInv'
<1> SUFFICES ASSUME TypeOK, OwnerInv, WorkersInv, [Next]_vars PROVE WorkersInv'
  BY DEF Inv
<1>0. /\ i \in 0..ThreadCount /\ thread_count \in 0..ThreadCount
      /\ phase \in {"init", "up", "destroy", "failed", "down"}
      /\ pc \in {"mutex", "sem", "alloc", "spawn", "ready", "lock", "flag",
                 "post", "join", "drain", "release", "over"}
      /\ wpc \in [Workers -> {"unborn", "wait", "lock", "pop", "run", "exited"}]
      /\ ThreadCount \in Nat
  BY ThreadCountAssumption DEF TypeOK
<1>1. CASE InitMutex \/ InitSemaphore \/ InitHandles \/ InitDone
  BY <1>0, <1>1 DEF InitMutex, InitSemaphore, InitHandles, InitDone, InitFails,
       OwnerInv, WorkersInv, Born, workerVars, Workers
<1>2. CASE Spawn
  BY <1>0, <1>2 DEF Spawn, OwnerInv, WorkersInv, Born, Workers
<1>3. CASE Shutdown
  <2>1. CASE OwnerLock \/ SetShuttingDown \/ Release
    BY <1>0, <2>1, Zenon DEF OwnerLock, SetShuttingDown, Release, OwnerInv, WorkersInv,
         Born, workerVars
  <2>2. CASE PostPermits
    BY <1>0, <2>2 DEF PostPermits, OwnerInv, WorkersInv, Born, workerVars
  <2>3. CASE JoinWorkers
    BY <1>0, <2>3 DEF JoinWorkers, OwnerInv, WorkersInv, Born, workerVars
  <2> QED
    BY <1>3, <2>1, <2>2, <2>3 DEF Shutdown
<1>4. CASE DestroyCall \/ Drain
  BY <1>0, <1>4, Zenon DEF DestroyCall, Drain, OwnerInv, WorkersInv, Born, workerVars
<1>5. ASSUME NEW w \in Workers, Worker(w) PROVE WorkersInv'
  BY <1>5, WorkerMoves
<1>6. CASE UNCHANGED wpc /\ UNCHANGED <<phase, pc, i, thread_count, live, shutting_down>>
  BY <1>6 DEF WorkersInv, Born
<1>7. ASSUME NEW t \in Callers, SubmitAlloc(t) \/ Submitting(t) PROVE UNCHANGED wpc
  BY <1>7, Zenon DEF SubmitAlloc, Submitting, SubmitLock, SubmitCheck, SubmitPost, workerVars
<1>8. ASSUME Over \/ UNCHANGED vars PROVE UNCHANGED wpc
  BY <1>8 DEF Over, vars, workerVars
<1> QED
  BY <1>1, <1>2, <1>3, <1>4, <1>5, <1>6, <1>7, <1>8, OwnerFrame, SMTT(20)
     DEF Next, InitCall, Rollback, Destroy

\* A pool that is not up stays without tasks, and a submit in progress carries
\* a task.
LEMMA QuietStep == Inv /\ [Next]_vars => QuietInv'
<1> SUFFICES ASSUME TypeOK, OwnerInv, WorkersInv, QuietInv, [Next]_vars PROVE QuietInv'
  BY DEF Inv
<1>0. /\ phase \in {"init", "up", "destroy", "failed", "down"}
      /\ wpc \in [Workers -> {"unborn", "wait", "lock", "pop", "run", "exited"}]
      /\ spc \in [Callers -> {"idle", "lock", "check", "post"}]
      /\ arg \in [Callers -> Tasks \cup {NoTask}]
      /\ Workers \subseteq Callers
  BY DEF TypeOK, Callers
<1>1. CASE InitCall
  BY <1>0, <1>1, Zenon DEF InitCall, InitMutex, InitSemaphore, InitHandles, InitDone, Spawn,
       InitFails, QuietInv, OwnerInv, workerVars, submitVars
<1>2. CASE Rollback \/ DestroyCall
  BY <1>0, <1>2, Zenon DEF Rollback, Shutdown, OwnerLock, SetShuttingDown, PostPermits,
       JoinWorkers, Release, DestroyCall, QuietInv, workerVars, submitVars
<1>3. CASE Destroy
  BY <1>0, <1>3, Zenon DEF Destroy, Shutdown, OwnerLock, SetShuttingDown, PostPermits,
       JoinWorkers, Release, Drain, QuietInv, workerVars, submitVars
<1>4. ASSUME NEW w \in Workers, Worker(w) PROVE QuietInv'
  <2>1. UNCHANGED <<phase, spc, arg>>
    BY <1>4, Zenon DEF Worker, WorkerWait, WorkerLock, WorkerPop, WorkerFinish, ownerVars, submitVars
  <2>2. CASE phase \in {"init", "failed"}
    BY <1>0, <1>4, <2>1, <2>2, Zenon DEF Worker, WorkerWait, WorkerLock, WorkerPop,
         WorkerFinish, QuietInv
  <2>3. CASE phase \notin {"init", "failed"}
    BY <2>1, <2>3 DEF QuietInv
  <2> QED
    BY <2>2, <2>3
<1>5. ASSUME NEW t \in Callers, SubmitAlloc(t) PROVE QuietInv'
  <2>1. phase \notin {"init", "failed"} /\ UNCHANGED phase
    BY <1>0, <1>5 DEF SubmitAlloc, MayCall, QuietInv, ownerVars
  <2>2. \A u \in Callers : spc'[u] # "idle" => arg'[u] \in Tasks
    BY <1>0, <1>5 DEF SubmitAlloc, QuietInv
  <2> QED
    BY <2>1, <2>2, Zenon DEF QuietInv
<1>6. ASSUME NEW t \in Callers, Submitting(t) PROVE QuietInv'
  <2>1. phase \notin {"init", "failed"} /\ UNCHANGED phase
    BY <1>0, <1>6, Zenon DEF Submitting, SubmitLock, SubmitCheck, SubmitPost, QuietInv, ownerVars
  <2>2. \A u \in Callers : spc'[u] # "idle" => arg'[u] \in Tasks
    BY <1>0, <1>6, SMTT(20) DEF Submitting, SubmitLock, SubmitCheck, SubmitPost, QuietInv
  <2> QED
    BY <2>1, <2>2 DEF QuietInv
<1>7. CASE Over \/ UNCHANGED vars
  BY <1>7 DEF Over, vars, ownerVars, workerVars, submitVars, QuietInv
<1> QED
  BY <1>1, <1>2, <1>3, <1>4, <1>5, <1>6, <1>7 DEF Next

-----------------------------------------------------------------------------
\* A worker that holds a permit and finds the queue empty holds a stop permit.
LEMMA StopSignal ==
    ASSUME Inv, NEW w \in Workers, wpc[w] = "pop", queue = <<>>
    PROVE  shutting_down
<1> SUFFICES ASSUME ~shutting_down PROVE FALSE
  OBVIOUS
<1>1. items + Cardinality(Holding) + Cardinality(Exited) + Cardinality(Pending) = 0
  BY EmptySeq DEF Inv, PermitAccounting, StopPermits
<1>2. Cardinality(Holding) = 0
  BY <1>1, FiniteThreads DEF Inv, TypeOK
<1>3. Holding = {}
  BY <1>2, FiniteThreads, FS_EmptySet
<1>4. w \in Holding
  BY DEF Holding
<1> QED
  BY <1>3, <1>4

\* A worker that has left implies a shutdown and an empty queue, after every
\* step: a worker leaves on a stop permit only, and nothing is linked after.
LEMMA ExitStep == Inv /\ [Next]_vars => NoPrematureExit'
<1> SUFFICES ASSUME Inv, [Next]_vars PROVE NoPrematureExit'
  BY Zenon
<1>0. /\ wpc \in [Workers -> {"unborn", "wait", "lock", "pop", "run", "exited"}]
      /\ NoPrematureExit /\ OwnerInv
      /\ i \in Nat
  BY DEF Inv, TypeOK
<1>1. CASE InitCall
  BY <1>0, <1>1, Zenon DEF InitCall, InitMutex, InitSemaphore, InitHandles, InitDone, Spawn,
       InitFails, workerVars, NoPrematureExit, Exited, Workers
<1>2. CASE Rollback \/ DestroyCall \/ Destroy
  BY <1>0, <1>2, Zenon DEF Rollback, DestroyCall, Destroy, Shutdown, OwnerLock, SetShuttingDown,
       PostPermits, JoinWorkers, Release, Drain, workerVars, NoPrematureExit, Exited
<1>3. ASSUME NEW w \in Workers, Worker(w) PROVE NoPrematureExit'
  <2>1. CASE WorkerWait(w) \/ WorkerLock(w) \/ WorkerFinish(w)
    BY <1>0, <2>1 DEF WorkerWait, WorkerLock, WorkerFinish, NoPrematureExit, Exited
  <2>2. CASE WorkerPop(w) /\ queue = <<>>
    BY <1>0, <2>2, StopSignal DEF WorkerPop, NoPrematureExit
  <2>3. CASE WorkerPop(w) /\ queue # <<>>
    BY <1>0, <2>3 DEF WorkerPop, NoPrematureExit, Exited
  <2> QED
    BY <1>3, <2>1, <2>2, <2>3 DEF Worker
<1>4. ASSUME NEW t \in Callers, SubmitAlloc(t) \/ Submitting(t) PROVE NoPrematureExit'
  BY <1>0, <1>4, Zenon DEF SubmitAlloc, Submitting, SubmitLock, SubmitCheck, SubmitPost,
       workerVars, NoPrematureExit, Exited
<1>5. CASE Over \/ UNCHANGED vars
  BY <1>0, <1>5 DEF Over, vars, workerVars, NoPrematureExit, Exited
<1> QED
  BY <1>1, <1>2, <1>3, <1>4, <1>5 DEF Next

-----------------------------------------------------------------------------
\* The sum the accounting compares, by its terms.
LEMMA SameCounts ==
    ASSUME PermitAccounting, UNCHANGED <<items, queue>>, StopPermits' = StopPermits,
           Holding' = Holding, Exited' = Exited, Pending' = Pending
    PROVE  PermitAccounting'
BY DEF PermitAccounting

\* Steps of the owner: only posting a stop permit changes the sum, on both sides.
LEMMA OwnerAccounting ==
    ASSUME Inv, InitCall \/ Shutdown \/ DestroyCall \/ Drain
    PROVE  PermitAccounting'
<1>0. /\ wpc \in [Workers -> {"unborn", "wait", "lock", "pop", "run", "exited"}]
      /\ i \in Nat /\ thread_count \in 0..ThreadCount /\ items \in Nat /\ queue \in Seq(Tasks)
      /\ PermitAccounting /\ OwnerInv /\ WorkersInv /\ NoPrematureExit
  BY ThreadCountAssumption DEF Inv, TypeOK
<1>1. CASE InitMutex \/ InitSemaphore \/ InitHandles \/ InitDone \/ DestroyCall
  <2>1. ~shutting_down /\ shutting_down' = shutting_down
    BY <1>0, <1>1, Zenon DEF InitMutex, InitSemaphore, InitHandles, InitDone, DestroyCall, OwnerInv
  <2>2. StopPermits' = StopPermits
    BY <2>1 DEF StopPermits
  <2> QED
    BY <1>0, <1>1, <2>2, SameCounts, Zenon DEF InitMutex, InitSemaphore, InitHandles, InitDone,
         DestroyCall, workerVars, submitVars, Holding, Exited, Pending
<1>2. CASE Spawn
  <2>1. StopPermits' = StopPermits
    BY <1>0, <1>2 DEF Spawn, StopPermits, OwnerInv
  <2>2. UNCHANGED <<items, queue, spc>>
    BY <1>2 DEF Spawn, submitVars
  <2>3. i + 1 \in Workers /\ wpc[i + 1] = "unborn"
    BY <1>0, <1>2, ThreadCountAssumption DEF Spawn, WorkersInv, Born, Workers
  <2>4. Holding' = Holding /\ Exited' = Exited
    BY <1>0, <1>2, <2>3 DEF Spawn, Holding, Exited
  <2> QED
    BY <1>0, <2>1, <2>2, <2>4, SameCounts DEF Pending
<1>3. CASE OwnerLock \/ JoinWorkers \/ Release
  <2>1. /\ pc # "post" /\ pc' # "post"
        /\ shutting_down' = shutting_down /\ thread_count' = thread_count
    BY <1>3 DEF OwnerLock, JoinWorkers, Release
  <2>2. StopPermits' = StopPermits
    BY <2>1 DEF StopPermits
  <2> QED
    BY <1>0, <1>3, <2>2, SameCounts, Zenon DEF OwnerLock, JoinWorkers, Release, workerVars,
         submitVars, Holding, Exited, Pending
<1>4. CASE SetShuttingDown
  <2>1. StopPermits' = StopPermits
    BY <1>0, <1>4 DEF SetShuttingDown, StopPermits, OwnerInv
  <2> QED
    BY <1>0, <1>4, <2>1, SameCounts DEF SetShuttingDown, workerVars, submitVars,
         Holding, Exited, Pending
<1>5. CASE PostPermits
  <2>1. wpc' = wpc /\ spc' = spc /\ queue' = queue
    BY <1>5 DEF PostPermits, workerVars, submitVars
  <2>2. Holding' = Holding /\ Exited' = Exited /\ Pending' = Pending
    BY <2>1 DEF Holding, Exited, Pending
  <2>3. \/ items' = items + 1 /\ StopPermits' = StopPermits + 1
        \/ items' = items /\ StopPermits' = StopPermits
    BY <1>0, <1>5 DEF PostPermits, StopPermits, OwnerInv
  <2>4. items \in Nat /\ StopPermits \in Nat /\ Len(queue) \in Nat /\ PermitAccounting
    BY <1>0, LenProperties DEF StopPermits
  <2> QED
    BY <2>1, <2>2, <2>3, <2>4, FiniteThreads DEF PermitAccounting
<1>6. CASE Drain
  <2>1. queue = <<>>
    <3>1. 1 \in 1..thread_count /\ 1 \in Workers
      BY <1>0, <1>6, ThreadCountAssumption DEF Drain, OwnerInv, Workers
    <3>2. 1 \in Exited
      BY <1>0, <1>6, <3>1 DEF Drain, WorkersInv, Exited
    <3> QED
      BY <1>0, <3>2 DEF NoPrematureExit
  <2>2. StopPermits' = StopPermits /\ queue' = queue
    BY <1>0, <1>6, <2>1 DEF Drain, StopPermits
  <2> QED
    BY <1>0, <1>6, <2>2, SameCounts DEF Drain, workerVars, submitVars, Holding, Exited, Pending
<1> QED
  BY <1>1, <1>2, <1>3, <1>4, <1>5, <1>6 DEF InitCall, Shutdown

\* Steps of a worker move one permit: out of the semaphore, into a popped task,
\* or into its own exit.
LEMMA WorkerAccounting ==
    ASSUME Inv, NEW w \in Workers, Worker(w)
    PROVE  PermitAccounting'
<1>0. /\ wpc \in [Workers -> {"unborn", "wait", "lock", "pop", "run", "exited"}]
      /\ items \in Nat /\ queue \in Seq(Tasks)
      /\ PermitAccounting
  BY DEF Inv, TypeOK
<1>1. StopPermits' = StopPermits
  BY OwnerFrame DEF StopPermits
<1>2. Pending' = Pending
  BY Zenon DEF Worker, WorkerWait, WorkerLock, WorkerPop, WorkerFinish, submitVars, Pending
<1>3. items \in Nat /\ StopPermits \in Nat /\ Len(queue) \in Nat /\ PermitAccounting
  BY LenProperties DEF Inv, TypeOK, StopPermits
<1>4. CASE WorkerWait(w)
  <2>1. w \notin Holding /\ Holding' = Holding \cup {w} /\ Exited' = Exited
    BY <1>0, <1>4 DEF WorkerWait, Holding, Exited
  <2>2. Cardinality(Holding') = Cardinality(Holding) + 1
    BY <2>1, FiniteThreads, FS_AddElement, Zenon
  <2>3. items' = items - 1 /\ queue' = queue
    BY <1>4 DEF WorkerWait
  <2> QED
    BY <1>1, <1>2, <1>3, <2>1, <2>2, <2>3, FiniteThreads, SMTT(20) DEF PermitAccounting
<1>5. CASE WorkerLock(w)
  <2>1. Holding' = Holding /\ Exited' = Exited
    BY <1>0, <1>5 DEF WorkerLock, Holding, Exited
  <2> QED
    BY <1>0, <1>1, <1>2, <1>5, <2>1, SameCounts DEF WorkerLock
<1>6. CASE WorkerPop(w) /\ queue = <<>>
  <2>1. w \in Holding /\ Holding' = Holding \ {w}
    BY <1>0, <1>6 DEF WorkerPop, Holding
  <2>2. w \notin Exited /\ Exited' = Exited \cup {w}
    BY <1>0, <1>6 DEF WorkerPop, Exited
  <2>3. Cardinality(Holding') = Cardinality(Holding) - 1
    BY <2>1, FiniteThreads, FS_RemoveElement, Zenon
  <2>4. Cardinality(Exited') = Cardinality(Exited) + 1
    BY <2>2, FiniteThreads, FS_AddElement, Zenon
  <2>5. items' = items /\ queue' = queue
    BY <1>6 DEF WorkerPop
  <2> QED
    BY <1>1, <1>2, <1>3, <2>3, <2>4, <2>5, FiniteThreads, SMTT(20) DEF PermitAccounting
<1>7. CASE WorkerPop(w) /\ queue # <<>>
  <2>1. w \in Holding /\ Holding' = Holding \ {w} /\ Exited' = Exited
    BY <1>0, <1>7 DEF WorkerPop, Holding, Exited
  <2>2. Cardinality(Holding') = Cardinality(Holding) - 1
    BY <2>1, FiniteThreads, FS_RemoveElement, Zenon
  <2>3. items' = items /\ Len(queue)' = Len(queue) - 1
    BY <1>0, <1>7, HeadTailProperties DEF WorkerPop
  <2>4. Exited' = Exited
    BY <2>1
  <2>5. items + (Cardinality(Holding) - 1) + Cardinality(Exited) + Cardinality(Pending)
          = (Len(queue) - 1) + StopPermits
    BY <1>3, FiniteThreads, SMTT(20) DEF PermitAccounting
  <2> QED
    BY <1>1, <1>2, <2>2, <2>3, <2>4, <2>5, SMTT(20) DEF PermitAccounting
<1>8. CASE WorkerFinish(w)
  <2>1. Holding' = Holding /\ Exited' = Exited
    BY <1>0, <1>8 DEF WorkerFinish, Holding, Exited
  <2> QED
    BY <1>0, <1>1, <1>2, <1>8, <2>1, SameCounts, Zenon DEF WorkerFinish
<1> QED
  BY <1>4, <1>5, <1>6, <1>7, <1>8 DEF Worker

\* Steps of a submit: linking a task owes a permit, posting pays it.
LEMMA SubmitAccounting ==
    ASSUME Inv, NEW t \in Callers, SubmitAlloc(t) \/ Submitting(t)
    PROVE  PermitAccounting'
<1>0. /\ spc \in [Callers -> {"idle", "lock", "check", "post"}]
      /\ items \in Nat /\ queue \in Seq(Tasks)
      /\ PermitAccounting
  BY Zenon DEF Inv, TypeOK
<1>1. StopPermits' = StopPermits
  BY OwnerFrame DEF StopPermits
<1>2. Holding' = Holding /\ Exited' = Exited
  BY Zenon DEF SubmitAlloc, Submitting, SubmitLock, SubmitCheck, SubmitPost, workerVars,
       Holding, Exited
<1>3. items \in Nat /\ StopPermits \in Nat /\ Len(queue) \in Nat /\ PermitAccounting
  BY LenProperties, SMTT(20) DEF Inv, TypeOK, StopPermits
<1>4. CASE SubmitAlloc(t) \/ SubmitLock(t) \/ (SubmitCheck(t) /\ shutting_down)
  <2>1. Pending' = Pending
    BY <1>0, <1>4, Zenon DEF SubmitAlloc, MayCall, SubmitLock, SubmitCheck, Pending
  <2> QED
    BY <1>0, <1>1, <1>2, <1>4, <2>1, SameCounts, SMTT(20) DEF SubmitAlloc, SubmitLock, SubmitCheck
<1>5. CASE SubmitCheck(t) /\ ~shutting_down
  <2>1. t \notin Pending /\ Pending' = Pending \cup {t}
    BY <1>0, <1>5, Zenon DEF SubmitCheck, Pending
  <2>2. Cardinality(Pending') = Cardinality(Pending) + 1
    BY <2>1, FiniteThreads, FS_AddElement, Zenon
  <2>3. arg[t] \in Tasks
    BY <1>0, <1>5 DEF SubmitCheck, Inv, QuietInv
  <2>4. items' = items /\ Len(queue)' = Len(queue) + 1
    BY <1>0, <1>5, <2>3, AppendProperties, ZenonT(30) DEF SubmitCheck
  <2>5. items + Cardinality(Holding) + Cardinality(Exited) + (Cardinality(Pending) + 1)
          = (Len(queue) + 1) + StopPermits
    BY <1>3, FiniteThreads DEF PermitAccounting
  <2> QED
    BY <1>1, <1>2, <2>2, <2>4, <2>5 DEF PermitAccounting
<1>6. CASE SubmitPost(t)
  <2>1. t \in Pending /\ Pending' = Pending \ {t}
    BY <1>0, <1>6 DEF SubmitPost, Pending
  <2>2. Cardinality(Pending') = Cardinality(Pending) - 1
    BY <2>1, FiniteThreads, FS_RemoveElement, Zenon
  <2>3. items' = items + 1 /\ queue' = queue
    BY <1>6 DEF SubmitPost
  <2> QED
    BY <1>1, <1>2, <1>3, <2>2, <2>3, FiniteThreads, SMTT(20) DEF PermitAccounting
<1> QED
  BY <1>4, <1>5, <1>6 DEF Submitting

\* Every step keeps the permits balanced: the three lemmas above, by thread.
LEMMA AccountingStep == Inv /\ [Next]_vars => PermitAccounting'
<1> SUFFICES ASSUME Inv, [Next]_vars PROVE PermitAccounting'
  OBVIOUS
<1>1. CASE Over \/ UNCHANGED vars
  <2>1. UNCHANGED <<items, queue>> /\ wpc' = wpc /\ spc' = spc
    BY <1>1 DEF Over, vars, workerVars, submitVars
  <2>2. StopPermits' = StopPermits
    BY <1>1, OwnerFrame DEF StopPermits
  <2> QED
    BY <2>1, <2>2, SameCounts DEF Inv, Holding, Exited, Pending
<1> QED
  BY <1>1, OwnerAccounting, WorkerAccounting, SubmitAccounting DEF Next, Rollback, Destroy

-----------------------------------------------------------------------------
\* The initial state of d4np_thread_pool_init satisfies the invariant.
LEMMA InitInv == Init => Inv
<1> SUFFICES ASSUME Init PROVE Inv
  BY Zenon
<1> USE ThreadCountAssumption, CallersAssumption
<1>1. TypeOK
  <2>1. queue \in Seq(Tasks)
    BY EmptySeq DEF Init
  <2>2. /\ lock \in Callers \cup {Owner, Free} /\ live \subseteq {"lock", "items", "threads"}
        /\ items \in Nat /\ thread_count \in 0..ThreadCount /\ i \in 0..ThreadCount
        /\ heap \subseteq Tasks
    BY DEF Init
  <2>3. shutting_down \in BOOLEAN
    BY Zenon DEF Init
  <2>4. /\ wpc \in [Workers -> {"unborn", "wait", "lock", "pop", "run", "exited"}]
        /\ cur \in [Workers -> Tasks \cup {NoTask}]
        /\ spc \in [Callers -> {"idle", "lock", "check", "post"}]
        /\ arg \in [Callers -> Tasks \cup {NoTask}]
    BY DEF Init
  <2>5. /\ result \in [Tasks -> {"none", "busy", "ok", "unsupported", "oom"}]
        /\ runs \in [Tasks -> Nat]
    BY Zenon DEF Init
  <2> QED
    BY <2>1, <2>2, <2>3, <2>4, <2>5, SMTT(20) DEF Init, TypeOK
<1>2. OwnerInv
  BY Zenon DEF Init, OwnerInv
<1>3. WorkersInv
  BY DEF Init, WorkersInv, Born, Workers
<1>4. QuietInv
  BY Zenon DEF Init, QuietInv
<1>5. Holding = {} /\ Exited = {} /\ Pending = {}
  BY Zenon DEF Init, Holding, Exited, Pending
<1>6. NoPrematureExit
  BY <1>5 DEF NoPrematureExit
<1>7. PermitAccounting
  <2>1. items = 0 /\ Len(queue) = 0 /\ StopPermits = 0
    BY EmptySeq DEF Init, StopPermits
  <2> QED
    BY <1>5, <2>1, FS_EmptySet DEF PermitAccounting
<1> QED
  BY <1>1, <1>2, <1>3, <1>4, <1>6, <1>7 DEF Inv

\* The inductive invariant holds in every reachable state of the pool.
THEOREM Invariance == Spec => []Inv
<1>1. Inv /\ [Next]_vars => Inv'
  BY TypeStep, OwnerStep, WorkersStep, QuietStep, ExitStep, AccountingStep DEF Inv
<1> QED
  BY InitInv, <1>1, PTL DEF Spec

\* Every variable of the pool keeps its type.
THEOREM TypeCorrect == Spec => []TypeOK
<1>1. Inv => TypeOK
  BY DEF Inv
<1> QED
  BY Invariance, <1>1, PTL

\* There is one permit per submitted task plus one per worker to stop.
THEOREM PermitsAccounted == Spec => []PermitAccounting
<1>1. Inv => PermitAccounting
  BY DEF Inv
<1> QED
  BY Invariance, <1>1, PTL

\* No worker takes a wake-up for a shutdown signal before the shutdown, or
\* while a task is queued.
THEOREM WorkersStayForTheirTasks == Spec => []NoPrematureExit
<1>1. Inv => NoPrematureExit
  BY DEF Inv
<1> QED
  BY Invariance, <1>1, PTL

\* Once every worker has been joined, nothing is queued and no submit still
\* owes a permit.
LEMMA JoinedMeansDrained ==
    ASSUME Inv, pc \in {"drain", "release"} \/ (pc = "over" /\ shutting_down)
    PROVE  /\ queue = <<>> /\ Pending = {}
           /\ \A w \in Workers : wpc[w] \in {"unborn", "exited"}
<1>0. /\ OwnerInv /\ WorkersInv /\ QuietInv /\ NoPrematureExit /\ PermitAccounting
      /\ thread_count \in 0..ThreadCount /\ items \in Nat /\ shutting_down
      /\ phase \in {"init", "up", "destroy", "failed", "down"}
      /\ ThreadCount \in Nat \ {0}
  BY ThreadCountAssumption, Zenon DEF Inv, TypeOK, OwnerInv
<1>1. Exited = 1..thread_count
  <2>1. Born = thread_count
    BY <1>0 DEF Born
  <2>2. 1..thread_count \subseteq Exited
    BY <1>0 DEF WorkersInv, Exited, Workers
  <2>3. \A w \in Workers : w > thread_count => wpc[w] = "unborn"
    BY <1>0, <2>1 DEF WorkersInv
  <2>4. Exited \subseteq 1..thread_count
    BY <1>0, <2>3 DEF Exited, Workers
  <2> QED
    BY <2>2, <2>4, Zenon
<1>2. queue = <<>>
  <2>1. CASE thread_count = 0
    <3>1. phase \in {"init", "failed"}
      BY <1>0, <2>1 DEF OwnerInv
    <3> QED
      BY <1>0, <3>1 DEF QuietInv
  <2>2. CASE thread_count # 0
    BY <1>0, <1>1, <2>2 DEF NoPrematureExit
  <2> QED
    BY <2>1, <2>2
<1>3. Cardinality(Exited) = thread_count
  BY <1>0, <1>1, FS_Interval
<1>4. StopPermits = thread_count /\ Len(queue) = 0
  BY <1>0, <1>2, EmptySeq DEF StopPermits
<1>5. items + Cardinality(Holding) + Cardinality(Pending) = 0
  BY <1>0, <1>3, <1>4, FiniteThreads DEF PermitAccounting
<1>6. Pending = {}
  BY <1>0, <1>5, FiniteThreads, FS_EmptySet
<1>7. \A w \in Workers : wpc[w] \in {"unborn", "exited"}
  BY <1>0, <1>1 DEF WorkersInv, Born, Workers, Exited
<1> QED
  BY <1>2, <1>6, <1>7, SMTT(20)

\* destroy cannot destroy the semaphore under a submit that was accepted, nor
\* under a worker, however slow they are.
THEOREM SemaphoreOutlivesItsUsers == Spec => []SemaphoreAlive
<1>1. Inv => SemaphoreAlive
  <2> SUFFICES ASSUME Inv, "items" \notin live
               PROVE  Pending = {} /\ \A w \in Workers : wpc[w] \in {"unborn", "exited"}
    BY DEF SemaphoreAlive
  <2>1. pc \in {"mutex", "sem", "over"}
    BY DEF Inv, OwnerInv
  <2>2. CASE pc = "over" /\ shutting_down
    BY <2>2, JoinedMeansDrained
  <2>3. CASE pc # "over" \/ ~shutting_down
    <3>1. phase \in {"init", "failed"} /\ i = 0 /\ Born = i
      BY <2>1, <2>3 DEF Inv, OwnerInv, Born
    <3>2. Pending = {}
      BY <3>1 DEF Inv, QuietInv, Pending
    <3>3. \A w \in Workers : wpc[w] = "unborn"
      BY <3>1, ThreadCountAssumption DEF Inv, WorkersInv, Workers
    <3> QED
      BY <3>2, <3>3
  <2> QED
    BY <2>2, <2>3
<1> QED
  BY Invariance, <1>1, PTL

-----------------------------------------------------------------------------
(* The nodes: where each one is, and how often its task has run.           *)

\* Workers that execute a task, and submits that carry a node not yet linked.
Running  == {w \in Workers : wpc[w] = "run"}
Carrying == {t \in Callers : spc[t] \in {"lock", "check"}}

\* What a thread holds follows from where it is, and a node in a submit is
\* the node of one submit only.
HoldersInv ==
    /\ \A w \in Workers : cur[w] # NoTask <=> w \in Running
    /\ \A t \in Callers : arg[t] # NoTask <=> t \in Carrying \cup Pending
    /\ \A t \in Carrying \cup Pending : result[arg[t]] = "busy"
    /\ \A t, u \in Carrying \cup Pending : arg[t] = arg[u] => t = u

\* Nodes in the list, in a worker and in a submit are allocated and different,
\* and those the workers can reach have been linked.
NoDuplicates(q) == \A k, l \in DOMAIN q : q[k] = q[l] => k = l
PlacesInv ==
    /\ NoDuplicates(queue)
    /\ \A n \in Queued : n \in heap /\ Linked(n)
    /\ \A w \in Running : cur[w] \in heap /\ Linked(cur[w]) /\ cur[w] \notin Queued
    /\ \A v, w \in Running : cur[v] = cur[w] => v = w
    /\ \A t \in Carrying : arg[t] \in heap

\* No node is lost: an allocated one is in one of the three places.
ReachableInv ==
    \A n \in heap : \/ n \in Queued
                    \/ \E w \in Running : cur[w] = n
                    \/ \E t \in Carrying : arg[t] = n

NodeInv == HoldersInv /\ PlacesInv /\ ReachableInv /\ ExactlyOnce

\* The primitives that exist, by the place of the owner.
LiveInv ==
    /\ pc \in {"mutex", "over"} => live = {}
    /\ pc = "sem" => live = {"lock"}
    /\ pc = "alloc" => live = {"lock", "items"}

\* Linking a new node at the tail.
LEMMA LinkTail ==
    ASSUME NEW S, NEW q \in Seq(S), NEW n \in S, NoDuplicates(q),
           n \notin {q[k] : k \in DOMAIN q}
    PROVE  LET r == Append(q, n) IN
           /\ NoDuplicates(r)
           /\ {r[k] : k \in DOMAIN r} = {q[k] : k \in DOMAIN q} \cup {n}
<1> DEFINE r == Append(q, n)
<1>1. /\ Len(q) \in Nat /\ DOMAIN q = 1..Len(q)
      /\ DOMAIN r = 1..(Len(q) + 1)
      /\ \A k \in 1..Len(q) : r[k] = q[k]
      /\ r[Len(q) + 1] = n
  BY AppendProperties, LenProperties
<1> HIDE DEF r
<1>2. NoDuplicates(r)
  BY <1>1 DEF NoDuplicates
<1>3. {r[k] : k \in DOMAIN r} = {q[k] : k \in DOMAIN q} \cup {n}
  BY <1>1
<1> QED
  BY <1>2, <1>3, Zenon DEF r

\* Unlinking the node at the head.
LEMMA UnlinkHead ==
    ASSUME NEW S, NEW q \in Seq(S), q # <<>>, NoDuplicates(q)
    PROVE  /\ NoDuplicates(Tail(q))
           /\ Head(q) \in {q[k] : k \in DOMAIN q}
           /\ {Tail(q)[k] : k \in DOMAIN Tail(q)} = {q[k] : k \in DOMAIN q} \ {Head(q)}
<1> DEFINE r == Tail(q)
<1>1. /\ Len(q) \in Nat \ {0} /\ DOMAIN q = 1..Len(q)
      /\ DOMAIN r = 1..(Len(q) - 1)
      /\ \A k \in 1..(Len(q) - 1) : r[k] = q[k + 1]
      /\ Head(q) = q[1]
  <2>1. Len(q) \in Nat /\ DOMAIN q = 1..Len(q) /\ Len(q) # 0 /\ Head(q) = q[1]
    BY LenProperties, EmptySeq
  <2>2. r \in Seq(S) /\ Len(r) = Len(q) - 1 /\ \A k \in 1..Len(r) : r[k] = q[k + 1]
    BY HeadTailProperties, Zenon
  <2>3. DOMAIN r = 1..Len(r)
    BY <2>2, LenProperties
  <2> QED
    BY <2>1, <2>2, <2>3, Zenon
<1> HIDE DEF r
<1>2. NoDuplicates(r)
  BY <1>1 DEF NoDuplicates
<1>3. Head(q) \in {q[k] : k \in DOMAIN q}
  BY <1>1
<1>4. {r[k] : k \in DOMAIN r} \subseteq {q[k] : k \in DOMAIN q} \ {Head(q)}
  BY <1>1 DEF NoDuplicates
<1>5. {q[k] : k \in DOMAIN q} \ {Head(q)} \subseteq {r[k] : k \in DOMAIN r}
  <2> SUFFICES ASSUME NEW k \in DOMAIN q, q[k] # Head(q)
               PROVE  \E l \in DOMAIN r : r[l] = q[k]
    OBVIOUS
  <2>1. k - 1 \in DOMAIN r /\ r[k - 1] = q[k]
    BY <1>1
  <2> QED
    BY <2>1
<1> QED
  BY <1>2, <1>3, <1>4, <1>5, Zenon DEF r

\* Steps that move no node keep the invariant.
LEMMA NodeFrame ==
    ASSUME NodeInv, UNCHANGED <<queue, cur, arg, heap, result, runs>>,
           Running' = Running, Carrying' = Carrying, Pending' = Pending
    PROVE  NodeInv'
<1>1. Queued' = Queued /\ \A n \in Tasks : Linked(n)' <=> Linked(n)
  BY Zenon DEF Queued, Linked
<1>2. HoldersInv' /\ ReachableInv'
  BY <1>1, Zenon DEF NodeInv, HoldersInv, ReachableInv
<1>3. ExactlyOnce'
  BY <1>1 DEF NodeInv, ExactlyOnce
<1>4. PlacesInv'
  BY DEF NodeInv, PlacesInv, NoDuplicates, Queued, Linked
<1> QED
  BY <1>2, <1>3, <1>4 DEF NodeInv

\* The owner moves no node; its defensive drain finds the list empty.
LEMMA OwnerNodes ==
    ASSUME Inv, NodeInv, InitCall \/ Shutdown \/ DestroyCall \/ Drain
    PROVE  NodeInv'
<1>0. wpc \in [Workers -> {"unborn", "wait", "lock", "pop", "run", "exited"}]
  BY Zenon DEF Inv, TypeOK
<1>1. UNCHANGED <<cur, arg, result, runs, spc>>
  BY DEF InitCall, InitMutex, InitSemaphore, InitHandles, Spawn, InitDone, Shutdown,
       OwnerLock, SetShuttingDown, PostPermits, JoinWorkers, Release, DestroyCall, Drain,
       workerVars, submitVars
<1>2. UNCHANGED <<queue, heap>>
  <2>1. CASE Drain
    <3>1. queue = <<>>
      BY <2>1, JoinedMeansDrained DEF Drain
    <3>2. Queued = {}
      BY <3>1 DEF Queued
    <3> QED
      BY <2>1, <3>1, <3>2 DEF Drain
  <2>2. CASE ~Drain
    BY <2>2, Zenon DEF InitCall, InitMutex, InitSemaphore, InitHandles, Spawn, InitDone, Shutdown,
         OwnerLock, SetShuttingDown, PostPermits, JoinWorkers, Release, DestroyCall
  <2> QED
    BY <2>1, <2>2
<1>3. Running' = Running
  <2>1. CASE Spawn
    <3>1. i + 1 \in Workers /\ wpc[i + 1] = "unborn"
      BY <2>1, ThreadCountAssumption DEF Spawn, Inv, TypeOK, WorkersInv, Born, Workers
    <3> QED
      BY <1>0, <2>1, <3>1, Zenon DEF Spawn, Running
  <2>2. CASE ~Spawn
    BY <2>2, Zenon DEF InitCall, InitMutex, InitSemaphore, InitHandles, InitDone, Shutdown,
         OwnerLock, SetShuttingDown, PostPermits, JoinWorkers, Release, DestroyCall, Drain,
         workerVars, Running
  <2> QED
    BY <2>1, <2>2
<1>4. Carrying' = Carrying /\ Pending' = Pending
  BY <1>1 DEF Carrying, Pending
<1> QED
  BY <1>1, <1>2, <1>3, <1>4, NodeFrame

\* Types of what the nodes' invariants speak of.
LEMMA NodeTypes ==
    ASSUME Inv
    PROVE  /\ wpc \in [Workers -> {"unborn", "wait", "lock", "pop", "run", "exited"}]
           /\ cur \in [Workers -> Tasks \cup {NoTask}]
           /\ spc \in [Callers -> {"idle", "lock", "check", "post"}]
           /\ arg \in [Callers -> Tasks \cup {NoTask}]
           /\ heap \subseteq Tasks
           /\ result \in [Tasks -> {"none", "busy", "ok", "unsupported", "oom"}]
           /\ runs \in [Tasks -> Nat]
           /\ queue \in Seq(Tasks)
           /\ NoTask \notin Tasks
           /\ Queued \subseteq Tasks
           /\ Running \subseteq Workers /\ Carrying \subseteq Callers /\ Pending \subseteq Callers
           /\ \A t \in Carrying \cup Pending : arg[t] \in Tasks
<1>1. Queued \subseteq Tasks
  BY LenProperties DEF Inv, TypeOK, Queued
<1>2. NoTask \notin Tasks
  BY CallersAssumption
<1>3. \A t \in Carrying \cup Pending : arg[t] \in Tasks
  BY DEF Inv, QuietInv, Carrying, Pending
<1> QED
  BY <1>1, <1>2, <1>3, Zenon DEF Inv, TypeOK, Running, Carrying, Pending

\* A worker that pops takes the head of the list; one that waits, locks or
\* leaves takes nothing.
LEMMA PopNodes ==
    ASSUME Inv, NodeInv, NEW w \in Workers,
           WorkerWait(w) \/ WorkerLock(w) \/ WorkerPop(w)
    PROVE  NodeInv'
<1>0. UNCHANGED <<arg, heap, result, runs, spc>>
  BY Zenon DEF WorkerWait, WorkerLock, WorkerPop, submitVars
<1>1. Carrying' = Carrying /\ Pending' = Pending /\ \A n \in Tasks : Linked(n)' <=> Linked(n)
  BY <1>0, Zenon DEF Carrying, Pending, Linked
<1>2. CASE WorkerWait(w) \/ WorkerLock(w) \/ (WorkerPop(w) /\ queue = <<>>)
  <2>1. UNCHANGED <<queue, cur>> /\ Running' = Running
    BY <1>2, NodeTypes, Zenon DEF WorkerWait, WorkerLock, WorkerPop, Running
  <2> QED
    BY <1>0, <1>1, <2>1, NodeFrame
<1>3. CASE WorkerPop(w) /\ queue # <<>>
  <2> DEFINE h == Head(queue)
  <2>1. h \in Queued /\ Queued' = Queued \ {h} /\ NoDuplicates(queue)'
    <3>1. queue' = Tail(queue) /\ queue \in Seq(Tasks) /\ NoDuplicates(queue)
      BY <1>3, NodeTypes, Zenon DEF WorkerPop, NodeInv, PlacesInv
    <3>2. /\ NoDuplicates(Tail(queue))
          /\ Head(queue) \in {queue[k] : k \in DOMAIN queue}
          /\ {Tail(queue)[k] : k \in DOMAIN Tail(queue)}
               = {queue[k] : k \in DOMAIN queue} \ {Head(queue)}
      BY <1>3, <3>1, UnlinkHead, Zenon
    <3>3. NoDuplicates(queue)' = NoDuplicates(Tail(queue))
      BY <3>1, Zenon DEF NoDuplicates
    <3>4. Queued' = {Tail(queue)[k] : k \in DOMAIN Tail(queue)}
      BY <3>1, Zenon DEF Queued
    <3> QED
      BY <3>2, <3>3, <3>4 DEF Queued
  <2>2. h \in Tasks /\ h \in heap /\ Linked(h)
    BY <2>1, NodeTypes, Zenon DEF NodeInv, PlacesInv
  <2>3. w \notin Running /\ Running' = Running \cup {w}
    BY <1>3, NodeTypes DEF WorkerPop, Running
  <2>4. cur' = [cur EXCEPT ![w] = h]
    BY <1>3, Zenon DEF WorkerPop
  <2> HIDE DEF h
  <2>5. HoldersInv'
    BY <1>0, <1>1, <2>2, <2>3, <2>4, NodeTypes DEF NodeInv, HoldersInv
  <2>6. ReachableInv'
    BY <1>0, <1>1, <2>1, <2>3, <2>4, NodeTypes DEF NodeInv, ReachableInv
  <2>7. PlacesInv'
    <3>1. \A n \in Queued' : n \in heap' /\ Linked(n)'
      BY <1>0, <1>1, <2>1, NodeTypes, Zenon DEF NodeInv, PlacesInv
    <3>2. ASSUME NEW v \in Running'
          PROVE  cur'[v] \in heap' /\ Linked(cur[v])' /\ cur'[v] \notin Queued'
      <4>1. PICK n \in Tasks : n = cur'[v] /\ n \in heap /\ Linked(n) /\ n \notin Queued'
        <5>1. CASE v = w
          <6>1. cur'[v] = h
            BY <2>4, <5>1, NodeTypes, Zenon
          <6>2. h \notin Queued'
            BY <2>1, Zenon
          <6> QED
            BY <2>2, <6>1, <6>2, Zenon
        <5>2. CASE v # w
          <6>1. v \in Running /\ cur'[v] = cur[v] /\ cur[v] \in Tasks
            BY <2>3, <2>4, <5>2, NodeTypes, Zenon DEF NodeInv, PlacesInv
          <6>2. cur[v] \in heap /\ Linked(cur[v]) /\ cur[v] \notin Queued
            BY <6>1, Zenon DEF NodeInv, PlacesInv
          <6>3. cur[v] \notin Queued'
            BY <2>1, <6>2, Zenon
          <6> QED
            BY <6>1, <6>2, <6>3, Zenon
        <5> QED
          BY <5>1, <5>2, Zenon
      <4> QED
        BY <1>0, <1>1, <4>1, Zenon
    <3>3. \A u, v \in Running' : cur'[u] = cur'[v] => u = v
      <4>1. cur'[w] = h /\ \A v \in Running : cur'[v] = cur[v] /\ cur[v] # h
        <5>1. cur'[w] = h
          BY <2>4, NodeTypes, Zenon
        <5>2. \A v \in Running : v # w /\ v \in Workers /\ cur[v] # h
          BY <2>1, <2>3, NodeTypes, Zenon DEF NodeInv, PlacesInv
        <5> QED
          BY <2>4, <5>1, <5>2, NodeTypes, Zenon
      <4>2. \A u, v \in Running : cur[u] = cur[v] => u = v
        BY Zenon DEF NodeInv, PlacesInv
      <4> QED
        BY <2>3, <4>1, <4>2, Zenon
    <3>4. \A t \in Carrying' : arg'[t] \in heap'
      BY <1>0, <1>1, Zenon DEF NodeInv, PlacesInv
    <3> QED
      BY <2>1, <3>1, <3>2, <3>3, <3>4, Zenon DEF PlacesInv
  <2>8. ExactlyOnce'
    BY <1>0, <1>1 DEF NodeInv, ExactlyOnce
  <2> QED
    BY <2>5, <2>6, <2>7, <2>8, Zenon DEF NodeInv
<1> QED
  BY <1>2, <1>3

\* A task that returns counts as run, and its node is freed; it was in one
\* worker only.
LEMMA FinishNodes ==
    ASSUME Inv, NodeInv, NEW w \in Workers, WorkerFinish(w)
    PROVE  NodeInv'
<1> DEFINE n == cur[w]
<1>0. UNCHANGED <<arg, result, spc, queue>>
  BY Zenon DEF WorkerFinish, submitVars
<1>1. Carrying' = Carrying /\ Pending' = Pending /\ \A m \in Tasks : Linked(m)' <=> Linked(m)
  BY <1>0, Zenon DEF Carrying, Pending, Linked
<1>2. w \in Running /\ Running' = Running \ {w}
  BY NodeTypes, Zenon DEF WorkerFinish, Running
<1>3. n \in Tasks /\ n \in heap /\ Linked(n) /\ n \notin Queued
  BY <1>2, NodeTypes, Zenon DEF NodeInv, PlacesInv
<1>4. /\ cur' = [cur EXCEPT ![w] = NoTask]
      /\ heap' = heap \ {n}
      /\ Queued' = Queued
  BY <1>0, Zenon DEF WorkerFinish, Queued
<1>5. \A m \in Tasks : runs'[m] = IF m = n THEN runs[m] + 1 ELSE runs[m]
  BY <1>3, NodeTypes, Zenon DEF WorkerFinish
<1>6. \A t \in Carrying : arg[t] # n
  <2> SUFFICES ASSUME NEW t \in Carrying, arg[t] = n PROVE FALSE
    BY Zenon
  <2>1. result[n] = "busy"
    BY Zenon DEF NodeInv, HoldersInv
  <2>2. PICK u \in Pending : arg[u] = n
    BY <1>3, <2>1, Zenon DEF Linked
  <2>3. t = u
    BY <2>2, Zenon DEF NodeInv, HoldersInv
  <2> QED
    BY <2>3, <2>2 DEF Carrying, Pending
<1> HIDE DEF n
<1>7. HoldersInv'
  BY <1>0, <1>1, <1>2, <1>4, NodeTypes DEF NodeInv, HoldersInv
<1>8. ReachableInv'
  BY <1>0, <1>1, <1>2, <1>4, NodeTypes, Zenon DEF NodeInv, ReachableInv, n
<1>9. PlacesInv'
  <2>1. NoDuplicates(queue)' /\ \A m \in Queued' : m \in heap' /\ Linked(m)'
    BY <1>0, <1>1, <1>3, <1>4, NodeTypes, Zenon DEF NodeInv, PlacesInv, NoDuplicates
  <2>2. ASSUME NEW v \in Running'
        PROVE  cur'[v] \in heap' /\ Linked(cur[v])' /\ cur'[v] \notin Queued'
    <3>1. PICK m \in Tasks : m = cur'[v] /\ m \in heap' /\ Linked(m) /\ m \notin Queued'
      BY <1>2, <1>4, NodeTypes, Zenon DEF NodeInv, PlacesInv, n
    <3> QED
      BY <1>1, <3>1
  <2>3. \A u, v \in Running' : cur'[u] = cur'[v] => u = v
    BY <1>2, <1>4, NodeTypes, Zenon DEF NodeInv, PlacesInv
  <2>4. \A t \in Carrying' : arg'[t] \in heap'
    BY <1>0, <1>1, <1>4, <1>6, Zenon DEF NodeInv, PlacesInv
  <2> QED
    BY <2>1, <2>2, <2>3, <2>4, Zenon DEF PlacesInv
<1>10. ExactlyOnce'
  <2> SUFFICES ASSUME NEW m \in Tasks
               PROVE  runs'[m] = IF Linked(m)' /\ m \notin heap' THEN 1 ELSE 0
    BY Zenon DEF ExactlyOnce
  <2>1. runs[m] = IF Linked(m) /\ m \notin heap THEN 1 ELSE 0
    BY Zenon DEF NodeInv, ExactlyOnce
  <2>2. Linked(m)' <=> Linked(m)
    BY <1>1, Zenon
  <2>3. CASE m = n
    <3>1. runs[m] = 0
      BY <1>3, <2>1, <2>3, Zenon
    <3>2. runs'[m] = runs[m] + 1
      BY <1>5, <2>3, Zenon
    <3>3. Linked(m)' /\ m \notin heap'
      BY <1>3, <1>4, <2>2, <2>3, Zenon
    <3> QED
      BY <3>1, <3>2, <3>3
  <2>4. CASE m # n
    <3>1. runs'[m] = runs[m] /\ (m \in heap' <=> m \in heap)
      BY <1>4, <1>5, <2>4, Zenon
    <3> QED
      BY <2>1, <2>2, <3>1, Zenon
  <2> QED
    BY <2>3, <2>4, Zenon
<1> QED
  BY <1>7, <1>8, <1>9, <1>10 DEF NodeInv

\* An allocated node belongs to a task that has been submitted.
LEMMA HeapIsSubmitted ==
    ASSUME Inv, NodeInv, NEW n \in heap
    PROVE  result[n] \in {"busy", "ok"}
<1>1. ASSUME Linked(n) PROVE result[n] \in {"busy", "ok"}
  BY <1>1, Zenon DEF Linked, NodeInv, HoldersInv
<1>2. ASSUME NEW t \in Carrying, arg[t] = n PROVE result[n] \in {"busy", "ok"}
  BY <1>2 DEF NodeInv, HoldersInv
<1> QED
  BY <1>1, <1>2, Zenon DEF NodeInv, ReachableInv, PlacesInv

\* submit allocates a node for a task that has none, or gives up.
LEMMA AllocNodes ==
    ASSUME Inv, NodeInv, NEW t \in Callers, SubmitAlloc(t)
    PROVE  NodeInv'
<1>0. UNCHANGED <<wpc, cur, queue, runs>>
  BY Zenon DEF SubmitAlloc, workerVars
<1>1. Running' = Running /\ Queued' = Queued
  BY <1>0 DEF Running, Queued
<1>2. t \notin Carrying \cup Pending
  BY Zenon DEF SubmitAlloc, MayCall, Carrying, Pending
<1>3. PICK n \in Tasks : result[n] = "none" /\
        \/ /\ heap' = heap \cup {n}
           /\ arg' = [arg EXCEPT ![t] = n]
           /\ spc' = [spc EXCEPT ![t] = "lock"]
           /\ result' = [result EXCEPT ![n] = "busy"]
        \/ /\ result' = [result EXCEPT ![n] = "oom"]
           /\ UNCHANGED <<heap, arg, spc>>
  BY Zenon DEF SubmitAlloc
<1>4. n \notin heap
  BY <1>3, HeapIsSubmitted
<1>5. \A u \in Carrying \cup Pending : arg[u] # n
  BY <1>3, Zenon DEF NodeInv, HoldersInv
<1>6. /\ Pending' = Pending
      /\ \A u \in Carrying \cup Pending : arg'[u] = arg[u]
      /\ \A m \in Tasks : result'[m] = "ok" <=> result[m] = "ok"
  <2>1. \A u \in Callers : u # t => spc'[u] = spc[u] /\ arg'[u] = arg[u]
    BY <1>3, NodeTypes, Zenon
  <2>2. spc[t] # "post" /\ spc'[t] # "post"
    BY <1>2, <1>3, NodeTypes, Zenon DEF Pending
  <2>3. \A m \in Tasks : result'[m] = "ok" <=> result[m] = "ok"
    BY <1>3, NodeTypes, Zenon
  <2> QED
    BY <1>2, <2>1, <2>2, <2>3, Zenon DEF Pending, Carrying
<1>7. \A m \in Tasks : Linked(m)' <=> Linked(m)
  BY <1>6, Zenon DEF Linked
<1>8. ~Linked(n)
  BY <1>3, <1>5 DEF Linked
<1>9. ExactlyOnce'
  <2>1. \A m \in Tasks : m # n => (m \in heap' <=> m \in heap)
    BY <1>3
  <2> QED
    BY <1>0, <1>7, <1>8, <2>1 DEF NodeInv, ExactlyOnce
<1>10. \A w \in Running' : cur'[w] = cur[w] /\ cur[w] \in Tasks
  BY <1>0, <1>1, NodeTypes, Zenon DEF NodeInv, PlacesInv
<1>11. CASE UNCHANGED <<heap, arg, spc>>
  <2>1. Carrying' = Carrying
    BY <1>11 DEF Carrying
  <2>2. HoldersInv'
    <3>1. \A u \in Carrying' \cup Pending' : arg'[u] = arg[u] /\ result'[arg[u]] = result[arg[u]]
      <4>1. \A m \in Tasks : m # n => result'[m] = result[m]
        BY <1>3, NodeTypes, Zenon
      <4> QED
        BY <1>5, <1>6, <2>1, <4>1, NodeTypes, Zenon
    <3> QED
      BY <1>0, <1>1, <1>6, <1>11, <2>1, <3>1, Zenon DEF NodeInv, HoldersInv
  <2>3. ReachableInv'
    BY <1>0, <1>1, <1>11, <2>1, Zenon DEF NodeInv, ReachableInv
  <2>4. PlacesInv'
    BY <1>0, <1>1, <1>6, <1>7, <1>10, <1>11, <2>1, NodeTypes, Zenon DEF NodeInv, PlacesInv, NoDuplicates
  <2> QED
    BY <1>9, <2>2, <2>3, <2>4 DEF NodeInv
<1>12. CASE /\ heap' = heap \cup {n}
            /\ arg' = [arg EXCEPT ![t] = n]
            /\ spc' = [spc EXCEPT ![t] = "lock"]
            /\ result' = [result EXCEPT ![n] = "busy"]
  <2>1. Carrying' = Carrying \cup {t} /\ arg'[t] = n
    BY <1>12, NodeTypes DEF Carrying
  <2>2. HoldersInv'
    BY <1>0, <1>1, <1>2, <1>5, <1>6, <1>12, <2>1, NodeTypes DEF NodeInv, HoldersInv
  <2>3. ReachableInv'
    <3>1. \A u \in Carrying : u \in Carrying' /\ arg'[u] = arg[u]
      BY <1>6, <2>1, Zenon
    <3>2. t \in Carrying' /\ heap' = heap \cup {n}
      BY <1>12, <2>1, Zenon
    <3> QED
      BY <1>0, <1>1, <2>1, <3>1, <3>2, Zenon DEF NodeInv, ReachableInv
  <2>4. PlacesInv'
    <3>1. NoDuplicates(queue)' /\ \A m \in Queued' : m \in heap' /\ Linked(m)'
      BY <1>0, <1>1, <1>7, <1>12, NodeTypes, Zenon DEF NodeInv, PlacesInv, NoDuplicates
    <3>2. \A w \in Running' : cur'[w] \in heap' /\ Linked(cur[w])' /\ cur'[w] \notin Queued'
      BY <1>0, <1>1, <1>7, <1>10, <1>12, Zenon DEF NodeInv, PlacesInv
    <3>3. \A v, w \in Running' : cur'[v] = cur'[w] => v = w
      BY <1>0, <1>1, <1>10, Zenon DEF NodeInv, PlacesInv
    <3>4. \A u \in Carrying' : arg'[u] \in heap'
      BY <1>12, <2>1, NodeTypes, Zenon DEF NodeInv, PlacesInv, Carrying
    <3> QED
      BY <3>1, <3>2, <3>3, <3>4, Zenon DEF PlacesInv
  <2> QED
    BY <1>9, <2>2, <2>3, <2>4, Zenon DEF NodeInv
<1> QED
  BY <1>3, <1>11, <1>12

\* submit links its node, or frees it when the shutdown has begun.
LEMMA CheckNodes ==
    ASSUME Inv, NodeInv, NEW t \in Callers, SubmitCheck(t)
    PROVE  NodeInv'
<1> DEFINE n == arg[t]
<1>0. UNCHANGED <<wpc, cur, runs>> /\ Running' = Running
  BY Zenon DEF SubmitCheck, workerVars, Running
<1>1. t \in Carrying /\ t \notin Pending
  BY DEF SubmitCheck, Carrying, Pending
<1>2. n \in Tasks /\ n \in heap /\ result[n] = "busy"
  BY <1>1, NodeTypes, Zenon DEF NodeInv, PlacesInv, HoldersInv
<1>3. \A u \in Carrying \cup Pending : arg[u] = n => u = t
  BY <1>1, Zenon DEF NodeInv, HoldersInv
<1>4. ~Linked(n)
  BY <1>1, <1>2, <1>3, Zenon DEF Linked
<1>5. n \notin Queued /\ \A w \in Running : cur[w] # n
  BY <1>4, Zenon DEF NodeInv, PlacesInv
<1>6. runs[n] = 0
  BY <1>2, <1>4, Zenon DEF NodeInv, ExactlyOnce
<1>7. Carrying' = Carrying \ {t}
  BY NodeTypes, Zenon DEF SubmitCheck, Carrying
<1>8. \A w \in Running : cur[w] \in Tasks /\ cur[w] \in heap /\ Linked(cur[w]) /\ cur[w] \notin Queued
  BY NodeTypes, Zenon DEF NodeInv, PlacesInv
<1> HIDE DEF n
<1>9. CASE shutting_down
  <2>1. /\ heap' = heap \ {n} /\ result' = [result EXCEPT ![n] = "unsupported"]
        /\ arg' = [arg EXCEPT ![t] = NoTask] /\ UNCHANGED queue
    BY <1>9, Zenon DEF SubmitCheck, n
  <2>2. Pending' = Pending /\ Queued' = Queued
    <3>1. spc' = [spc EXCEPT ![t] = "idle"]
      BY <1>9, Zenon DEF SubmitCheck
    <3>2. \A u \in Callers : spc'[u] = "post" <=> spc[u] = "post"
      BY <1>1, <3>1, NodeTypes, Zenon DEF Pending
    <3> QED
      BY <2>1, <3>2, Zenon DEF Pending, Queued
  <2>3. \A m \in Tasks : Linked(m)' <=> Linked(m)
    BY <1>1, <1>2, <1>4, <2>1, <2>2, NodeTypes, Zenon DEF Linked
  <2>4. HoldersInv'
    <3>1. arg'[t] = NoTask /\ t \notin Carrying' \cup Pending'
      BY <1>1, <1>7, <2>1, <2>2, NodeTypes, Zenon
    <3>2. \A u \in Callers : u # t => arg'[u] = arg[u]
                                   /\ (u \in Carrying' \cup Pending' <=> u \in Carrying \cup Pending)
      BY <1>7, <2>1, <2>2, NodeTypes, Zenon
    <3>3. \A u \in Carrying' \cup Pending' :
             u # t /\ u \in Carrying \cup Pending /\ arg'[u] = arg[u] /\ arg[u] # n
      BY <1>3, <1>7, <2>2, <3>1, <3>2, NodeTypes, Zenon
    <3>4. \A u \in Carrying' \cup Pending' : result'[arg'[u]] = "busy"
      <4>1. \A m \in Tasks : m # n => result'[m] = result[m]
        BY <2>1, NodeTypes, Zenon
      <4> QED
        BY <3>3, <4>1, NodeTypes, Zenon DEF NodeInv, HoldersInv
    <3>5. \A u \in Callers : arg'[u] # NoTask <=> u \in Carrying' \cup Pending'
      BY <3>1, <3>2, Zenon DEF NodeInv, HoldersInv
    <3>6. \A u, v \in Carrying' \cup Pending' : arg'[u] = arg'[v] => u = v
      BY <3>3, Zenon DEF NodeInv, HoldersInv
    <3> QED
      BY <1>0, <3>4, <3>5, <3>6, Zenon DEF NodeInv, HoldersInv
  <2>5. ReachableInv'
    BY <1>0, <1>7, <2>1, <2>2, NodeTypes, Zenon DEF NodeInv, ReachableInv, n
  <2>6. PlacesInv'
    <3>1. ASSUME NEW v \in Running'
          PROVE  cur'[v] \in heap' /\ Linked(cur[v])' /\ cur'[v] \notin Queued'
      <4>1. PICK m \in Tasks : m = cur'[v] /\ m \in heap' /\ Linked(m) /\ m \notin Queued'
        BY <1>0, <1>5, <1>8, <2>1, <2>2, Zenon
      <4> QED
        BY <2>3, <4>1, Zenon
    <3>2. NoDuplicates(queue)' /\ \A m \in Queued' : m \in heap' /\ Linked(m)'
      BY <1>5, <2>1, <2>2, <2>3, NodeTypes, Zenon DEF NodeInv, PlacesInv, NoDuplicates
    <3>3. \A u \in Carrying' : arg'[u] \in heap'
      BY <1>3, <1>7, <2>1, NodeTypes, Zenon DEF NodeInv, PlacesInv
    <3> QED
      BY <1>0, <3>1, <3>2, <3>3, Zenon DEF NodeInv, PlacesInv
  <2>7. ExactlyOnce'
    BY <1>0, <1>2, <1>4, <2>1, <2>3, Zenon DEF NodeInv, ExactlyOnce
  <2> QED
    BY <2>4, <2>5, <2>6, <2>7, Zenon DEF NodeInv
<1>10. CASE ~shutting_down
  <2>1. UNCHANGED <<heap, result, arg>> /\ queue' = Append(queue, n)
    BY <1>10, Zenon DEF SubmitCheck, n
  <2>2. Pending' = Pending \cup {t}
    <3>1. spc' = [spc EXCEPT ![t] = "post"]
      BY <1>10, Zenon DEF SubmitCheck
    <3>2. \A u \in Callers : spc'[u] = "post" <=> (spc[u] = "post" \/ u = t)
      BY <3>1, NodeTypes, Zenon
    <3> QED
      BY <3>2, Zenon DEF Pending
  <2>3. Queued' = Queued \cup {n} /\ NoDuplicates(queue)'
    <3>1. queue \in Seq(Tasks) /\ NoDuplicates(queue)
      BY NodeTypes, Zenon DEF NodeInv, PlacesInv
    <3> QED
      BY <1>2, <1>5, <2>1, <3>1, LinkTail DEF Queued, NoDuplicates
  <2>4. \A m \in Tasks : Linked(m)' <=> (Linked(m) \/ m = n)
    BY <1>1, <2>1, <2>2, Zenon DEF Linked, n
  <2>5. HoldersInv'
    <3>1. Carrying' \cup Pending' = Carrying \cup Pending
      BY <1>1, <1>7, <2>2, Zenon
    <3> QED
      BY <1>0, <2>1, <3>1, Zenon DEF NodeInv, HoldersInv
  <2>6. ReachableInv'
    BY <1>0, <1>7, <2>1, <2>2, <2>3, NodeTypes, Zenon DEF NodeInv, ReachableInv, n
  <2>7. PlacesInv'
    <3>1. ASSUME NEW v \in Running'
          PROVE  cur'[v] \in heap' /\ Linked(cur[v])' /\ cur'[v] \notin Queued'
      <4>1. PICK m \in Tasks : m = cur'[v] /\ m \in heap' /\ Linked(m) /\ m \notin Queued'
        BY <1>0, <1>5, <1>8, <2>1, <2>3, Zenon
      <4> QED
        BY <2>4, <4>1, Zenon
    <3>2. \A m \in Queued' : m \in heap' /\ Linked(m)'
      BY <1>2, <2>1, <2>3, <2>4, NodeTypes, Zenon DEF NodeInv, PlacesInv
    <3>3. \A u \in Carrying' : arg'[u] \in heap'
      BY <1>7, <2>1, Zenon DEF NodeInv, PlacesInv
    <3> QED
      BY <1>0, <2>3, <3>1, <3>2, <3>3, Zenon DEF NodeInv, PlacesInv
  <2>8. ExactlyOnce'
    BY <1>0, <1>2, <1>6, <2>1, <2>4, Zenon DEF NodeInv, ExactlyOnce
  <2> QED
    BY <2>5, <2>6, <2>7, <2>8, Zenon DEF NodeInv
<1> QED
  BY <1>9, <1>10

\* The post makes the submit's answer ok; the node may be anywhere by then,
\* or gone.
LEMMA PostNodes ==
    ASSUME Inv, NodeInv, NEW t \in Callers, SubmitPost(t)
    PROVE  NodeInv'
<1> DEFINE n == arg[t]
<1>0. UNCHANGED <<wpc, cur, runs, queue, heap>> /\ Running' = Running /\ Queued' = Queued
  BY Zenon DEF SubmitPost, workerVars, Running, Queued
<1>1. t \in Pending /\ t \notin Carrying /\ Pending' = Pending \ {t} /\ Carrying' = Carrying
  BY NodeTypes, Zenon DEF SubmitPost, Carrying, Pending
<1>2. n \in Tasks
  BY <1>1, NodeTypes, Zenon
<1>3. \A u \in Carrying \cup Pending : arg[u] = n => u = t
  BY <1>1, Zenon DEF NodeInv, HoldersInv
<1>4. result' = [result EXCEPT ![n] = "ok"] /\ arg' = [arg EXCEPT ![t] = NoTask]
  BY DEF SubmitPost
<1>5. \A m \in Tasks : Linked(m)' <=> Linked(m)
  <2>1. ASSUME NEW m \in Tasks, m # n PROVE Linked(m)' <=> Linked(m)
    BY <1>1, <1>4, <2>1, NodeTypes, Zenon DEF Linked
  <2>2. Linked(n)
    BY <1>1, Zenon DEF Linked
  <2>3. \A m \in Tasks : m = n => Linked(m)'
    BY <1>2, <1>4, NodeTypes, Zenon DEF Linked
  <2> QED
    BY <2>1, <2>2, <2>3
<1> HIDE DEF n
<1>6. HoldersInv'
  <2>1. arg'[t] = NoTask /\ t \notin Carrying' \cup Pending'
    BY <1>1, <1>4, NodeTypes, Zenon
  <2>2. \A u \in Callers : u # t => arg'[u] = arg[u]
                                 /\ (u \in Carrying' \cup Pending' <=> u \in Carrying \cup Pending)
    BY <1>1, <1>4, NodeTypes, Zenon
  <2>3. \A u \in Carrying' \cup Pending' :
           u # t /\ u \in Carrying \cup Pending /\ arg'[u] = arg[u] /\ arg[u] # n
    BY <1>1, <1>3, <2>1, <2>2, NodeTypes, Zenon
  <2>4. \A u \in Carrying' \cup Pending' : result'[arg'[u]] = "busy"
    <3>1. \A m \in Tasks : m # n => result'[m] = result[m]
      BY <1>4, NodeTypes, Zenon
    <3> QED
      BY <2>3, <3>1, NodeTypes, Zenon DEF NodeInv, HoldersInv
  <2>5. \A u \in Callers : arg'[u] # NoTask <=> u \in Carrying' \cup Pending'
    BY <2>1, <2>2, Zenon DEF NodeInv, HoldersInv
  <2>6. \A u, v \in Carrying' \cup Pending' : arg'[u] = arg'[v] => u = v
    BY <2>3, Zenon DEF NodeInv, HoldersInv
  <2> QED
    BY <1>0, <2>4, <2>5, <2>6, Zenon DEF NodeInv, HoldersInv
<1>7. ReachableInv'
  BY <1>0, <1>1, <1>4, NodeTypes DEF NodeInv, ReachableInv
<1>8. PlacesInv'
  <2>1. ASSUME NEW v \in Running'
        PROVE  cur'[v] \in heap' /\ Linked(cur[v])' /\ cur'[v] \notin Queued'
    <3>1. PICK m \in Tasks : m = cur'[v] /\ m \in heap' /\ Linked(m) /\ m \notin Queued'
      BY <1>0, NodeTypes, Zenon DEF NodeInv, PlacesInv
    <3> QED
      BY <1>5, <3>1, Zenon
  <2>2. NoDuplicates(queue)' /\ \A m \in Queued' : m \in heap' /\ Linked(m)'
    BY <1>0, <1>5, NodeTypes, Zenon DEF NodeInv, PlacesInv, NoDuplicates
  <2>3. \A u \in Carrying' : arg'[u] \in heap'
    BY <1>0, <1>1, <1>4, NodeTypes DEF NodeInv, PlacesInv
  <2> QED
    BY <1>0, <2>1, <2>2, <2>3, Zenon DEF NodeInv, PlacesInv
<1>9. ExactlyOnce'
  BY <1>0, <1>5, Zenon DEF NodeInv, ExactlyOnce
<1> QED
  BY <1>6, <1>7, <1>8, <1>9, Zenon DEF NodeInv

\* Every step keeps the nodes' invariant: the lemmas above, by action.
LEMMA NodeStep == Inv /\ NodeInv /\ [Next]_vars => NodeInv'
<1> SUFFICES ASSUME Inv, NodeInv, [Next]_vars PROVE NodeInv'
  OBVIOUS
<1>1. ASSUME NEW t \in Callers, SubmitLock(t) PROVE NodeInv'
  <2>1. Carrying' = Carrying /\ Pending' = Pending
    BY <1>1, NodeTypes, Zenon DEF SubmitLock, Carrying, Pending
  <2>2. UNCHANGED <<queue, cur, arg, heap, result, runs>> /\ Running' = Running
    BY <1>1 DEF SubmitLock, workerVars, Running
  <2> QED
    BY <2>1, <2>2, NodeFrame
<1>2. CASE Over \/ UNCHANGED vars
  BY <1>2, NodeFrame, Zenon DEF Over, vars, workerVars, submitVars, Running, Carrying, Pending
<1> QED
  BY <1>1, <1>2, OwnerNodes, PopNodes, FinishNodes, AllocNodes, CheckNodes, PostNodes, Zenon
     DEF Next, Rollback, Destroy, Worker, Submitting

\* Init and destroy make and release the primitives in order.
LEMMA LiveStep == Inv /\ LiveInv /\ [Next]_vars => LiveInv'
<1> SUFFICES ASSUME TypeOK, LiveInv, [Next]_vars PROVE LiveInv'
  BY DEF Inv
<1>1. CASE InitCall
  BY <1>1, Zenon DEF InitCall, InitMutex, InitSemaphore, InitHandles, Spawn, InitDone, InitFails, LiveInv
<1>2. CASE Shutdown \/ DestroyCall \/ Drain
  BY <1>2, Zenon DEF Shutdown, OwnerLock, SetShuttingDown, PostPermits, JoinWorkers, Release,
       DestroyCall, Drain, TypeOK, LiveInv
<1>3. CASE UNCHANGED <<phase, pc, i, thread_count, live, shutting_down>>
  BY <1>3 DEF LiveInv
<1> QED
  BY <1>1, <1>2, <1>3, OwnerFrame DEF Next, Rollback, Destroy

\* No node is in two places and each task counts its runs, in every reachable
\* state.
THEOREM NodeInvariance == Spec => [](NodeInv /\ LiveInv)
<1>1. Init => NodeInv /\ LiveInv
  <2> SUFFICES ASSUME Init PROVE NodeInv /\ LiveInv
    OBVIOUS
  <2>1. Running = {} /\ Carrying = {} /\ Pending = {} /\ Queued = {}
    BY DEF Init, Running, Carrying, Pending, Queued
  <2>2. \A n \in Tasks : ~Linked(n)
    BY <2>1, Zenon DEF Init, Linked
  <2>3. ExactlyOnce
    BY <2>2, Zenon DEF Init, ExactlyOnce
  <2>4. NoDuplicates(queue)
    BY DEF Init, NoDuplicates
  <2>5. HoldersInv /\ PlacesInv /\ ReachableInv
    BY <2>1, <2>4, Zenon DEF Init, HoldersInv, PlacesInv, ReachableInv
  <2> QED
    BY <2>3, <2>5, Zenon DEF Init, NodeInv, LiveInv
<1>2. Inv /\ NodeInv /\ LiveInv /\ [Next]_vars => (NodeInv /\ LiveInv)'
  BY NodeStep, LiveStep
<1> QED
  BY <1>1, <1>2, Invariance, PTL DEF Spec

\* Every task that was linked runs exactly once, whichever worker pops it and
\* however late its submit posts; a refused one never runs.
THEOREM TasksRunExactlyOnce == Spec => []ExactlyOnce
<1>1. NodeInv => ExactlyOnce
  BY DEF NodeInv
<1> QED
  BY NodeInvariance, <1>1, PTL

\* Every allocated node has one owner (a submit, the list, a worker), and a
\* freed one has none.
THEOREM NodesHaveOneOwner == Spec => []NodeOwnership
<1>1. Inv /\ NodeInv => NodeOwnership
  <2> SUFFICES ASSUME Inv, NodeInv, NEW n \in Tasks
               PROVE  Cardinality({k \in DOMAIN queue : queue[k] = n})
                        + Cardinality({w \in Workers : cur[w] = n})
                        + Cardinality({t \in Callers : arg[t] = n /\ spc[t] \in {"lock", "check"}})
                        = IF n \in heap THEN 1 ELSE 0
    BY Zenon DEF NodeOwnership
  <2> DEFINE Q == {k \in DOMAIN queue : queue[k] = n}
             W == {w \in Workers : cur[w] = n}
             C == {t \in Callers : arg[t] = n /\ spc[t] \in {"lock", "check"}}
  <2>1. W = {w \in Running : cur[w] = n} /\ C = {t \in Carrying : arg[t] = n}
    <3>1. n # NoTask
      BY NodeTypes, Zenon
    <3>2. \A w \in Workers : cur[w] = n => w \in Running
      BY <3>1, Zenon DEF NodeInv, HoldersInv
    <3>3. \A t \in Callers : t \in Carrying <=> spc[t] \in {"lock", "check"}
      BY Zenon DEF Carrying
    <3>4. Running \subseteq Workers /\ Carrying \subseteq Callers
      BY NodeTypes, Zenon
    <3> QED
      BY <3>2, <3>3, <3>4, Zenon
  <2>2. Q # {} <=> n \in Queued
    BY DEF Queued
  <2>3. /\ \A k, l \in Q : k = l
        /\ \A v, w \in W : v = w
        /\ \A t, u \in C : t = u
    BY <2>1, Zenon DEF NodeInv, HoldersInv, PlacesInv, NoDuplicates
  <2>4. C # {} => ~Linked(n)
    <3> SUFFICES ASSUME NEW t \in C, Linked(n) PROVE FALSE
      BY Zenon
    <3>1. t \in Carrying /\ arg[t] = n /\ result[n] = "busy"
      BY <2>1, Zenon DEF NodeInv, HoldersInv
    <3>2. PICK u \in Pending : arg[u] = n
      BY <3>1, Zenon DEF Linked
    <3>3. t = u
      BY <3>1, <3>2, Zenon DEF NodeInv, HoldersInv
    <3> QED
      BY <3>1, <3>2, <3>3, Zenon DEF Carrying, Pending
  <2>5. /\ n \in heap <=> Q # {} \/ W # {} \/ C # {}
        /\ Q # {} => W = {} /\ C = {}
        /\ W # {} => C = {}
    <3>0. ASSUME NEW w \in W PROVE n \in heap /\ Linked(n) /\ n \notin Queued
      <4>1. w \in Running /\ cur[w] = n
        BY <2>1, Zenon
      <4> QED
        BY <4>1, Zenon DEF NodeInv, PlacesInv
    <3>1. Q # {} => n \in heap /\ Linked(n) /\ W = {}
      BY <2>2, <3>0, Zenon DEF NodeInv, PlacesInv
    <3>2. W # {} => n \in heap /\ Linked(n)
      BY <3>0, Zenon
    <3>3. ASSUME NEW t \in C PROVE n \in heap
      <4>1. t \in Carrying /\ arg[t] = n
        BY <2>1, Zenon
      <4> QED
        BY <4>1, Zenon DEF NodeInv, PlacesInv
    <3>4. n \in heap => Q # {} \/ W # {} \/ C # {}
      BY <2>1, <2>2, Zenon DEF NodeInv, ReachableInv
    <3> QED
      BY <2>4, <3>1, <3>2, <3>3, <3>4, Zenon
  <2> HIDE DEF Q, W, C
  <2>6. ASSUME NEW S, \A x, y \in S : x = y
        PROVE  Cardinality(S) = IF S = {} THEN 0 ELSE 1
    <3>1. ASSUME NEW x \in S PROVE S = {x}
      BY <2>6, <3>1
    <3> QED
      BY <3>1, FS_EmptySet, FS_Singleton, Zenon
  <2>7. Cardinality(Q) + Cardinality(W) + Cardinality(C) = IF n \in heap THEN 1 ELSE 0
    BY <2>3, <2>5, <2>6
  <2> QED
    BY <2>7, Zenon DEF Q, W, C
<1> QED
  BY Invariance, NodeInvariance, <1>1, PTL

\* The drain is graceful: after the joins nothing is queued or running and
\* every accepted task has been executed; nothing is left behind at the end.
THEOREM DrainIsGraceful == Spec => []GracefulDrain
<1>1. Inv /\ NodeInv /\ LiveInv => GracefulDrain
  <2> SUFFICES ASSUME Inv, NodeInv, LiveInv, pc \in {"drain", "release", "over"}
               PROVE  /\ queue = <<>>
                      /\ \A w \in Workers : cur[w] = NoTask
                      /\ \A n \in Tasks : result[n] = "ok" => runs[n] = 1
                      /\ pc = "over" => live = {}
                      /\ \A w \in Workers : wpc[w] \in {"unborn", "exited"}
    BY Zenon DEF GracefulDrain
  <2>1. queue = <<>> /\ \A w \in Workers : wpc[w] \in {"unborn", "exited"}
    <3>1. CASE pc = "over" /\ ~shutting_down
      <4>1. phase \in {"init", "failed"} /\ i = 0 /\ Born = i
        BY <3>1, Zenon DEF Inv, TypeOK, OwnerInv, Born
      <4> QED
        BY <4>1, ThreadCountAssumption DEF Inv, QuietInv, WorkersInv, Workers
    <3>2. CASE pc # "over" \/ shutting_down
      BY <3>2, JoinedMeansDrained
    <3> QED
      BY <3>1, <3>2
  <2>2. \A w \in Workers : cur[w] = NoTask
    BY <2>1, Zenon DEF NodeInv, HoldersInv, Running
  <2>3. ASSUME NEW n \in Tasks, result[n] = "ok" PROVE runs[n] = 1
    <3>1. n \notin heap
      BY <2>1, <2>3 DEF NodeInv, HoldersInv, ReachableInv, Queued, Running
    <3> QED
      BY <2>3, <3>1, Zenon DEF NodeInv, ExactlyOnce, Linked
  <2> QED
    BY <2>1, <2>2, <2>3, Zenon DEF LiveInv
<1> QED
  BY Invariance, NodeInvariance, <1>1, PTL

-----------------------------------------------------------------------------
(* The pointers of the task list *)

\* The pointers spell the queue, and a queue without nodes has none.
PointersInv ==
    /\ next \in [Tasks -> Tasks \cup {Null}]
    /\ queue = <<>> => q_head = Null /\ q_tail = Null
    /\ queue # <<>> => /\ Path(queue, q_head, next, Tasks)
                       /\ q_tail = queue[Len(queue)]

\* The steps of the pointers are steps of the pool.
LEMMA ListRefines == ListSpec => Spec
<1>1. ListInit => Init
  BY DEF ListInit
<1>2. [ListNext]_<<vars, listVars>> => [Next]_vars
  <2> SUFFICES ASSUME [ListNext]_<<vars, listVars>> PROVE [Next]_vars
    OBVIOUS
  <2>1. CASE Elsewhere
    BY <2>1, Zenon DEF Elsewhere, Next, Destroy, Worker, Submitting
  <2>2. CASE \E t \in Callers : ListSubmit(t)
    BY <2>2, Zenon DEF ListSubmit, Next, Submitting
  <2>3. CASE \E w \in Workers : WorkerPop(w) /\ PopNode
    BY <2>3 DEF Next, Worker
  <2>4. CASE phase = "destroy" /\ Drain /\ DrainList
    BY <2>4 DEF Next, Destroy
  <2>5. CASE UNCHANGED <<vars, listVars>>
    BY <2>5
  <2> QED
    BY <2>1, <2>2, <2>3, <2>4, <2>5, Zenon DEF ListNext
<1> QED
  BY <1>1, <1>2, PTL DEF ListSpec, Spec

\* A submit that passed the check links the node it carries, which is in no
\* place of the list yet, behind q_tail.
LEMMA SubmitLinks ==
    ASSUME Inv, NodeInv, PointersInv, NEW t \in Callers, ListSubmit(t), ~shutting_down
    PROVE  PointersInv'
<1>1. t \in Carrying /\ spc[t] = "check"
  BY Zenon DEF ListSubmit, SubmitCheck, Carrying
<1>2. PICK n \in Tasks : n = arg[t]
  BY <1>1, NodeTypes, Zenon
<1>3. n \notin Queued
  <2> SUFFICES ASSUME Linked(n) PROVE FALSE
    BY Zenon DEF NodeInv, PlacesInv
  <2>1. result[n] = "busy"
    BY <1>1, <1>2, Zenon DEF NodeInv, HoldersInv
  <2>2. PICK u \in Pending : arg[u] = n
    BY <2>1, Zenon DEF Linked
  <2>3. t = u
    BY <1>1, <1>2, <2>2, Zenon DEF NodeInv, HoldersInv
  <2> QED
    BY <1>1, <2>2, <2>3, Zenon DEF Pending
<1>4. queue' = Append(queue, n) /\ AppendNode(n) /\ queue \in Seq(Tasks)
  BY <1>2, NodeTypes, Zenon DEF ListSubmit, SubmitCheck
<1>5. CASE queue = <<>>
  <2>1. q_tail = Null /\ next' = [next EXCEPT ![n] = Null] /\ q_head' = n /\ q_tail' = n
    BY <1>4, <1>5, Zenon DEF PointersInv, AppendNode
  <2>2. next' \in [Tasks -> Tasks \cup {Null}] /\ next'[n] = Null
    BY <2>1, Zenon DEF PointersInv
  <2>3. queue' = <<n>>
    BY <1>4, <1>5
  <2>4. Path(<<n>>, n, next', Tasks)
    BY <2>2, PathOfOne, NullAssumption, Zenon
  <2> QED
    BY <2>1, <2>2, <2>3, <2>4, Zenon DEF PointersInv
<1>6. CASE queue # <<>>
  <2>1. Path(queue, q_head, next, Tasks) /\ q_tail = queue[Len(queue)]
    BY <1>6, Zenon DEF PointersInv
  <2>2. Len(queue) \in Nat \ {0} /\ q_tail \in OnPath(queue) /\ q_tail \in Tasks
    BY <2>1, PathEnds, Zenon
  <2>3. n \notin OnPath(queue) /\ n # q_tail
    <3>1. OnPath(queue) = Queued
      BY <1>4, LenProperties, Zenon DEF OnPath, Queued
    <3> QED
      BY <1>3, <2>2, <3>1
  <2>4. /\ next' = [next EXCEPT ![n] = Null, ![q_tail] = n]
        /\ q_head' = q_head /\ q_tail' = n
    BY <1>4, <2>2, NullAssumption, Zenon DEF AppendNode
  <2>5. /\ next' \in [Tasks -> Tasks \cup {Null}]
        /\ next'[q_tail] = n /\ next'[n] = Null
        /\ \A m \in Tasks : m # q_tail /\ m # n => next'[m] = next[m]
    BY <2>2, <2>3, <2>4, Zenon DEF PointersInv
  <2>6. \A m \in OnPath(queue) : m # queue[Len(queue)] => next'[m] = next[m]
    BY <2>1, <2>3, <2>5, PathEnds, Zenon
  <2>7. /\ Path(Append(queue, n), q_head, next', Tasks)
        /\ Len(Append(queue, n)) = Len(queue) + 1
        /\ Append(queue, n)[Len(queue) + 1] = n
    <3>1. n \in Tasks /\ next'[queue[Len(queue)]] = n /\ next'[n] \notin Tasks
      BY <1>2, <2>1, <2>5, NodeTypes, NullAssumption, Zenon
    <3> QED
      <4>1. PICK nx2 : nx2 = next'
        BY Zenon
      <4>2. /\ nx2[queue[Len(queue)]] = n /\ nx2[n] \notin Tasks
            /\ \A m \in OnPath(queue) : m # queue[Len(queue)] => nx2[m] = next[m]
            /\ Path(queue, q_head, next, Tasks) /\ n \in Tasks /\ n \notin OnPath(queue)
        BY <2>1, <2>3, <2>6, <3>1, <4>1, Zenon
      <4>3. Path(Append(queue, n), q_head, nx2, Tasks)
        <5>1. LinkedAfter(queue, n, next, nx2, Tasks)
          BY <4>2, Zenon DEF LinkedAfter
        <5> QED
          BY <4>2, <5>1, PathGrown, Zenon
      <4>4. Len(Append(queue, n)) = Len(queue) + 1 /\ Append(queue, n)[Len(queue) + 1] = n
        <5>1. queue \in Seq(Tasks) /\ n \in Tasks
          BY <4>2, Zenon DEF Path
        <5> QED
          BY ONLY <5>1, AppendProperties, Zenon
      <4> QED
        BY <4>1, <4>3, <4>4, Zenon
  <2>8. queue' # <<>>
    BY <1>4, <2>7, Zenon DEF Path
  <2> QED
    BY <1>4, <2>4, <2>5, <2>7, <2>8, Zenon DEF PointersInv
<1> QED
  BY <1>5, <1>6

\* A worker that finds a node unlinks the one at q_head; with the last one
\* q_tail is cleared.
LEMMA PopUnlinks ==
    ASSUME Inv, PointersInv, NEW w \in Workers, WorkerPop(w), PopNode
    PROVE  PointersInv'
<1>1. queue \in Seq(Tasks)
  BY NodeTypes, Zenon
<1>2. CASE queue = <<>>
  BY <1>2, Zenon DEF PointersInv, PopNode, WorkerPop, listVars
<1>3. CASE queue # <<>>
  <2>1. Path(queue, q_head, next, Tasks) /\ q_tail = queue[Len(queue)]
    BY <1>3, Zenon DEF PointersInv
  <2>2. /\ Len(queue) \in Nat \ {0} /\ q_head \in Tasks
        /\ next[q_head] \notin Tasks <=> Len(queue) = 1
        /\ Len(queue) > 1 => next[q_head] = queue[2]
    <3>1. Len(queue) \in Nat \ {0} /\ q_head \in Tasks
      BY ONLY <2>1, PathEnds, Zenon
    <3>2. next[q_head] \notin Tasks => Len(queue) = 1
      BY ONLY <2>1, PathEnds, Zenon
    <3>3. Len(queue) = 1 => next[q_head] \notin Tasks
      BY ONLY <2>1, PathEnds, Zenon
    <3>4. Len(queue) > 1 => next[q_head] = queue[2] /\ queue[2] \in OnPath(queue)
      BY ONLY <2>1, PathEnds, Zenon
    <3> QED
      BY <3>1, <3>2, <3>3, <3>4, Zenon
  <2>3. /\ queue' = Tail(queue) /\ q_head' = next[q_head] /\ next' = next
        /\ q_tail' = IF next[q_head] = Null THEN Null ELSE q_tail
    BY <1>3, <2>2, NullAssumption, Zenon DEF WorkerPop, PopNode
  <2>4. next[q_head] \in Tasks \cup {Null} /\ next \in [Tasks -> Tasks \cup {Null}]
    BY <2>2, Zenon DEF PointersInv
  <2>5. CASE Len(queue) = 1
    <3>1. Tail(queue) \in Seq(Tasks) /\ Len(Tail(queue)) = 0
      BY <1>1, <1>3, <2>5, HeadTailProperties
    <3>2. queue' = <<>>
      BY <2>3, <3>1, EmptySeq, Zenon
    <3>3. q_head' = Null /\ q_tail' = Null
      BY <2>2, <2>3, <2>4, <2>5, Zenon
    <3> QED
      BY <2>3, <2>4, <3>2, <3>3, Zenon DEF PointersInv
  <2>6. CASE Len(queue) > 1
    <3>1. /\ Path(Tail(queue), queue[2], next, Tasks)
          /\ Len(Tail(queue)) = Len(queue) - 1
          /\ \A k \in 1..(Len(queue) - 1) : Tail(queue)[k] = queue[k + 1]
      BY <2>1, <2>6, PathShrinks
    <3>2. q_head' = queue[2] /\ q_tail' = q_tail
      BY <2>2, <2>3, <2>6, NullAssumption
    <3>3. Tail(queue)[Len(queue) - 1] = q_tail
      <4>1. Len(queue) - 1 \in 1..(Len(queue) - 1) /\ (Len(queue) - 1) + 1 = Len(queue)
        BY <2>2, <2>6
      <4> QED
        BY <2>1, <3>1, <4>1, Zenon
    <3>4. queue' # <<>>
      BY <2>3, <3>1, Zenon DEF Path
    <3> QED
      BY <2>3, <2>4, <3>1, <3>2, <3>3, <3>4, Zenon DEF PointersInv
  <2>7. Len(queue) = 1 \/ Len(queue) > 1
    <3>1. PICK L \in Nat : L = Len(queue) /\ L # 0
      BY <2>2, Zenon
    <3> QED
      BY <3>1
  <2> QED
    BY <2>5, <2>6, <2>7
<1> QED
  BY <1>2, <1>3

\* The pointers of the list, which the worker and destroy go by, spell the
\* queue: the chain from q_head is the queue and q_tail its last node.
THEOREM PointersSpellTheQueue == ListSpec => []ListIsQueue
<1>1. ListInit => PointersInv
  BY Zenon DEF ListInit, Init, PointersInv
<1>2. Inv /\ NodeInv /\ PointersInv /\ [ListNext]_<<vars, listVars>> => PointersInv'
  <2> SUFFICES ASSUME Inv, NodeInv, PointersInv, [ListNext]_<<vars, listVars>>
               PROVE  PointersInv'
    OBVIOUS
  <2>1. CASE Elsewhere /\ UNCHANGED listVars
    <3>1. queue' = queue
      BY <2>1, Zenon DEF Elsewhere, InitCall, InitMutex, InitSemaphore, InitHandles, Spawn, InitDone,
           Rollback, Shutdown, OwnerLock, SetShuttingDown, PostPermits, JoinWorkers, Release,
           DestroyCall, WorkerWait, WorkerLock, WorkerFinish, SubmitAlloc, SubmitLock,
           SubmitPost, Over, vars
    <3> QED
      BY <2>1, <3>1, Zenon DEF PointersInv, listVars
  <2>2. ASSUME NEW t \in Callers, ListSubmit(t) PROVE PointersInv'
    <3>1. CASE shutting_down
      BY <2>2, <3>1, Zenon DEF ListSubmit, SubmitCheck, PointersInv, listVars
    <3>2. CASE ~shutting_down
      BY <2>2, <3>2, SubmitLinks
    <3> QED
      BY <3>1, <3>2
  <2>3. ASSUME NEW w \in Workers, WorkerPop(w), PopNode PROVE PointersInv'
    BY <2>3, PopUnlinks
  <2>4. CASE Drain /\ DrainList
    BY <2>4, Zenon DEF Drain, DrainList, PointersInv
  <2>5. CASE UNCHANGED <<vars, listVars>>
    BY <2>5, Zenon DEF PointersInv, vars, listVars
  <2> QED
    BY <2>1, <2>2, <2>3, <2>4, <2>5, Zenon DEF ListNext
<1>3. PointersInv => ListIsQueue
  <2> SUFFICES ASSUME PointersInv PROVE ListIsQueue
    OBVIOUS
  <2>1. CASE queue = <<>>
    <3>1. Chain = <<>>
      BY <2>1, AlongNothing, NullAssumption, Zenon DEF PointersInv, Chain
    <3> QED
      BY <2>1, <3>1 DEF PointersInv, ListIsQueue
  <2>2. CASE queue # <<>>
    <3>1. Chain = queue
      BY <2>2, AlongPath, NullAssumption, Zenon DEF PointersInv, Chain
    <3> QED
      BY <2>2, <3>1, Zenon DEF PointersInv, ListIsQueue
  <2> QED
    BY <2>1, <2>2
<1>4. ListSpec => ListInit /\ [][ListNext]_<<vars, listVars>>
  BY DEF ListSpec
<1> QED
  BY ListRefines, Invariance, NodeInvariance, <1>1, <1>2, <1>3, <1>4, PTL
=============================================================================
