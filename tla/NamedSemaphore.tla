--------------------------- MODULE NamedSemaphore ---------------------------
(***************************************************************************)
(* The semaphores of concurrency/named_semaphore.c, which processes find   *)
(* by a key: kernel objects, the names bound to them and the processes'    *)
(* handles, for the POSIX and the Win32 build.  A call that fails changes  *)
(* nothing.  A process may die at any moment and be started again.         *)
(***************************************************************************)
EXTENDS Naturals, Sequences, FiniteSets

CONSTANTS
    Processes,
    SemKeys,        \* the keys, sequences of characters
    NameSize,       \* sizeof path in the POSIX build
    MaxValue,       \* SEM_VALUE_MAX, LONG_MAX
    MaxObjects      \* bound on the kernel objects alive at a time

ASSUME NamedSemaphoreAssumption ==
    /\ IsFiniteSet(Processes)
    /\ <<>> \notin SemKeys /\ \A k \in SemKeys : k \in Seq({k[i] : i \in DOMAIN k})
    /\ NameSize \in Nat \ {0}
    /\ MaxValue \in Nat \ {0} /\ MaxObjects \in Nat

VARIABLES
    platform,       \* "posix" or "win32"
    bound,          \* the object each name is bound to, or 0
    value,          \* of each kernel object
    handle,         \* of each process: [object, key, linked], object 0 for none
    call,           \* where each process is in d4np_named_semaphore_wait
    permits         \* of each object, as its users count them: posts less passes

namedVars == <<platform, bound, value, handle, call, permits>>

\* What snprintf puts into the buffer: the key behind a slash, cut to fit.
Printed(k) ==
    SubSeq(<<"/">> \o k, 1, IF Len(k) + 1 < NameSize THEN Len(k) + 1 ELSE NameSize - 1)

Names == {Printed(k) : k \in SemKeys} \cup SemKeys
Objects == 1..MaxObjects
NoHandle == [object |-> 0, key |-> <<>>, linked |-> FALSE]

NamedStart ==
    /\ platform \in {"posix", "win32"}
    /\ bound = [n \in Names |-> 0]
    /\ value = [o \in Objects |-> 0] /\ permits = value
    /\ handle = [p \in Processes |-> NoHandle]
    /\ call = [p \in Processes |-> "none"]

\* Seeded fault: a name that does not fit is cut off.
NameCut(k) ==
    IF platform = "win32" THEN [ok |-> TRUE, name |-> k]
    ELSE [ok |-> TRUE, name |-> Printed(k)]

\* d4np_nsem_name refuses a key that snprintf has cut.
Name(k) ==
    IF platform = "win32" THEN [ok |-> TRUE, name |-> k]
    ELSE [ok |-> Len(k) + 1 < NameSize, name |-> Printed(k)]

\* The objects that no name and no handle refers to: not made yet, or reclaimed.
Unused(names, handles) ==
    {o \in Objects : /\ \A n \in Names : names[n] # o
                     /\ \A p \in Processes : handles[p].object # o}

\* The counts c after a step that may have dropped the last reference to objects.
Reclaimed(c) == [o \in Objects |-> IF o \in Unused(bound', handle') THEN 0 ELSE c[o]]

Attach(p, k, o) == handle' = [handle EXCEPT ![p] = [object |-> o, key |-> k, linked |-> TRUE]]

\* sem_open with O_CREAT, CreateSemaphore: initial_count counts only for the
\* call that creates the object.
NamedOpen(p, k, initial) ==
    /\ handle[p].object = 0 /\ Name(k).ok
    /\ LET n == Name(k).name IN
       IF bound[n] # 0
       THEN Attach(p, k, bound[n]) /\ UNCHANGED <<bound, value, permits>>
       ELSE \E o \in Unused(bound, handle) :
            /\ \A u \in Unused(bound, handle) : o <= u
            /\ bound' = [bound EXCEPT ![n] = o]
            /\ value' = [value EXCEPT ![o] = initial]
            /\ permits' = [permits EXCEPT ![o] = initial]
            /\ Attach(p, k, o)
    /\ UNCHANGED <<platform, call>>

\* The kernel drops p's handle; Windows reclaims an object with its last handle.
Detach(p) ==
    LET o == handle[p].object
        others == \E q \in Processes \ {p} : handle[q].object = o
    IN  /\ handle' = [handle EXCEPT ![p] = NoHandle]
        /\ bound' = [n \in Names |-> IF platform = "win32" /\ bound[n] = o /\ ~others
                                     THEN 0 ELSE bound[n]]

NamedClose(p) ==
    /\ handle[p].object # 0 /\ call[p] = "none"
    /\ Detach(p)
    /\ value' = Reclaimed(value) /\ permits' = Reclaimed(permits)
    /\ UNCHANGED <<platform, call>>

\* Removes the name on POSIX only; a name that is not there is no error.
NamedUnlink(k) ==
    LET n == Name(k).name IN
    /\ platform = "posix" /\ Name(k).ok /\ bound[n] # 0
    /\ bound' = [bound EXCEPT ![n] = 0]
    /\ handle' = [p \in Processes |->
                     [handle[p] EXCEPT !.linked = @ /\ handle[p].key # k]]
    /\ value' = Reclaimed(value) /\ permits' = Reclaimed(permits)
    /\ UNCHANGED <<platform, call>>

\* The kernel takes a permit of p's object.
Take(p) ==
    LET o == handle[p].object IN
    /\ value[o] > 0
    /\ value' = [value EXCEPT ![o] = @ - 1]

\* Its users' count when a wait of p has returned.
Passed(p) == [permits EXCEPT ![handle[p].object] = @ - 1]

NamedWait(p) ==
    /\ handle[p].object # 0 /\ call[p] = "none"
    /\ call' = [call EXCEPT ![p] = "waiting"]
    /\ UNCHANGED <<platform, bound, value, handle, permits>>

\* sem_wait or WaitForSingleObject returns with a permit.
WaitGranted(p) ==
    /\ call[p] = "waiting" /\ Take(p)
    /\ call' = [call EXCEPT ![p] = "granted"]
    /\ UNCHANGED <<platform, bound, handle, permits>>

\* A signal handler ran: sem_wait returns with EINTR.
WaitInterrupted(p) ==
    /\ platform = "posix" /\ call[p] = "waiting"
    /\ call' = [call EXCEPT ![p] = "interrupted"]
    /\ UNCHANGED <<platform, bound, value, handle, permits>>

\* Seeded fault: sem_wait is called once, and wait returns whatever it answered.
WaitOnce(p) ==
    /\ call[p] \in {"granted", "interrupted"}
    /\ call' = [call EXCEPT ![p] = "none"] /\ permits' = Passed(p)
    /\ UNCHANGED <<platform, bound, value, handle>>

\* The loop's test: after EINTR sem_wait is called again, else wait returns.
WaitLoop(p) ==
    /\ \/ /\ call[p] = "interrupted"
          /\ call' = [call EXCEPT ![p] = "waiting"] /\ UNCHANGED permits
       \/ /\ call[p] = "granted"
          /\ call' = [call EXCEPT ![p] = "none"] /\ permits' = Passed(p)
    /\ UNCHANGED <<platform, bound, value, handle>>

\* With no permit, or in the retries after EINTR, trywait changes nothing.
NamedTrywait(p) ==
    /\ handle[p].object # 0 /\ call[p] = "none"
    /\ Take(p) /\ permits' = Passed(p)
    /\ UNCHANGED <<platform, bound, handle, call>>

\* A post at the limit fails in the kernel, and post does not look.
NamedPost(p) ==
    LET o == handle[p].object IN
    /\ o # 0 /\ call[p] = "none" /\ value[o] < MaxValue
    /\ value' = [value EXCEPT ![o] = @ + 1]
    /\ permits' = [permits EXCEPT ![o] = @ + 1]
    /\ UNCHANGED <<platform, bound, handle, call>>

\* The process dies, in a wait or between calls; the kernel closes its handle.
\* A permit it had taken is not given back.
ProcessDies(p) ==
    /\ handle[p].object # 0
    /\ Detach(p)
    /\ call' = [call EXCEPT ![p] = "none"]
    /\ value' = Reclaimed(value)
    /\ permits' = Reclaimed(IF call[p] = "granted" THEN Passed(p) ELSE permits)
    /\ UNCHANGED platform

NamedNext ==
    \/ \E p \in Processes :
        \/ \E k \in SemKeys, n \in 0..MaxValue : NamedOpen(p, k, n)
        \/ NamedClose(p) \/ ProcessDies(p)
        \/ NamedWait(p) \/ WaitGranted(p) \/ WaitInterrupted(p) \/ WaitLoop(p)
        \/ NamedTrywait(p) \/ NamedPost(p)
    \/ \E k \in SemKeys : NamedUnlink(k)

NamedSpec == NamedStart /\ [][NamedNext]_namedVars

-----------------------------------------------------------------------------
\* Nobody passes a named semaphore without a permit and none is invented: what
\* the posts, and the initial_count of the one call that created the object, have
\* given, less the waits that returned, is the kernel's value and the permits on
\* their way to a waiter, across signals that interrupt a wait, openers that bring
\* an initial_count of their own, and processes that die.
PermitsConserved ==
    \A o \in Objects :
        LET granted == {p \in Processes : handle[p].object = o /\ call[p] = "granted"} IN
        value[o] + Cardinality(granted) = permits[o]

\* The same key names the same semaphore in every process, as long as it is not
\* unlinked, and different keys never do, though POSIX names are of bounded
\* length and Windows gives a name back with the last handle.
SameKeySameSemaphore ==
    \A p, q \in {r \in Processes : handle[r].object # 0} :
        /\ handle[p].object = handle[q].object => handle[p].key = handle[q].key
        /\ handle[p].key = handle[q].key /\ handle[p].linked /\ handle[q].linked
               => handle[p].object = handle[q].object
=============================================================================
