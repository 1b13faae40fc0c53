--------------------------- MODULE AtomicSemaphore ---------------------------
(***************************************************************************)
(* What a counting semaphore promises: a permit is taken or released in    *)
(* one indivisible step between the call and the return.  It is the        *)
(* abstract specification that module Semaphore implements, and it is the  *)
(* kernel object of the Win32 build of concurrency/semaphore.c, where the  *)
(* count cannot exceed LONG_MAX and a release beyond it is ignored.        *)
(***************************************************************************)
EXTENDS Naturals

CONSTANTS Threads, MaxCount     \* MaxCount is LONG_MAX in the Win32 build

VARIABLES
    live,   \* the semaphore is initialised
    count,  \* its permits
    st      \* where each thread is: idle, in a call, or about to return

vars == <<live, count, st>>

Init == live = FALSE /\ count = 0 /\ st = [t \in Threads |-> "idle"]

\* d4np_semaphore_init; initial_count above LONG_MAX is refused.
Create ==
    /\ ~live
    /\ \E c \in 0..MaxCount : count' = c
    /\ live' = TRUE
    /\ UNCHANGED st

\* d4np_semaphore_destroy; no thread may be in a call.
Destroy ==
    /\ live /\ \A t \in Threads : st[t] = "idle"
    /\ live' = FALSE
    /\ UNCHANGED <<count, st>>

Call(t, op) ==
    /\ live /\ st[t] = "idle"
    /\ st' = [st EXCEPT ![t] = op]
    /\ UNCHANGED <<live, count>>

\* d4np_semaphore_wait blocks until there is a permit and takes it.
Wait(t) ==
    /\ st[t] = "wait" /\ count > 0
    /\ count' = count - 1
    /\ st' = [st EXCEPT ![t] = "granted"]
    /\ UNCHANGED live

\* d4np_semaphore_trywait takes a permit if there is one.
TryWait(t) ==
    /\ st[t] = "try"
    /\ IF count > 0
       THEN count' = count - 1 /\ st' = [st EXCEPT ![t] = "granted"]
       ELSE UNCHANGED count /\ st' = [st EXCEPT ![t] = "refused"]
    /\ UNCHANGED live

\* d4np_semaphore_post ignores the failure of ReleaseSemaphore at the limit.
Post(t) ==
    /\ st[t] = "post"
    /\ count' = IF count < MaxCount THEN count + 1 ELSE count
    /\ st' = [st EXCEPT ![t] = "posted"]
    /\ UNCHANGED live

Return(t) ==
    /\ st[t] \in {"granted", "refused", "posted"}
    /\ st' = [st EXCEPT ![t] = "idle"]
    /\ UNCHANGED <<live, count>>

Next ==
    \/ Create \/ Destroy
    \/ \E t \in Threads :
        \/ \E op \in {"wait", "try", "post"} : Call(t, op)
        \/ Wait(t) \/ TryWait(t) \/ Post(t) \/ Return(t)

Spec == Init /\ [][Next]_vars
=============================================================================
