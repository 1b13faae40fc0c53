---------------------------- MODULE AtomicQueue -----------------------------
(***************************************************************************)
(* The lock-free unbounded queue of concurrency/atomic_queue.c: a linked   *)
(* list with a dummy head, one producer thread, one consumer thread.  The  *)
(* allocator may hand out a freed node again.  As in RingBuffer, release   *)
(* stores and acquire loads order the accesses around them.                *)
(***************************************************************************)
EXTENDS Chains, Pointers

CONSTANTS
    Values,
    Nodes,          \* addresses the allocator can hand out
    Garbage

ASSUME QueueAssumption ==
    /\ IsFiniteSet(Nodes) /\ Null \notin Nodes
    /\ Garbage \notin Values

VARIABLES
    head, tail,         \* the d4np_atomic_queue_t
    next, data,         \* the link and the element bytes of each node
    heap,               \* the allocated nodes
    ppc, pn, pv, put,   \* enqueue: where it is, its node, its element, its result
    cpc, cn, cv, old, got   \* dequeue: where it is, the node after head, what it
                            \* copied, the node it is to free, its result

listVars == <<head, tail, next, data, heap>>
enqVars  == <<ppc, pn, pv, put>>
deqVars  == <<cpc, cn, cv, old, got>>
vars == <<listVars, enqVars, deqVars>>

\* The nodes from head along the links.
Chain  == Along(head, next, Nodes)
Linked == {Chain[k] : k \in DOMAIN Chain}

\* node_alloc: any free node, with its link cleared and its bytes undefined.
NodeAlloc(n) ==
    /\ n \in Nodes \ heap
    /\ heap' = heap \cup {n}
    /\ next' = [next EXCEPT ![n] = Null]
    /\ data' = [data EXCEPT ![n] = Garbage]

Init ==
    /\ \E n \in Nodes : head = n /\ tail = n /\ heap = {n}
    /\ next = [n \in Nodes |-> Null] /\ data = [n \in Nodes |-> Garbage]
    /\ ppc = "idle" /\ pn = Null /\ pv = Garbage /\ put = "none"
    /\ cpc = "idle" /\ cn = Null /\ cv = Garbage /\ old = Null /\ got = "none"

-----------------------------------------------------------------------------
(* d4np_atomic_queue_enqueue *)

EnqueueAlloc(v) ==
    /\ ppc = "idle" /\ tail # Null
    /\ \/ \E n \in Nodes : NodeAlloc(n) /\ pn' = n /\ pv' = v /\ ppc' = "copy" /\ UNCHANGED put
       \/ put' = "refused" /\ UNCHANGED <<heap, next, data, pn, pv, ppc>>
    /\ UNCHANGED <<head, tail, deqVars>>

EnqueueCopied ==
    /\ ppc = "copy"
    /\ data' = [data EXCEPT ![pn] = pv]
    /\ ppc' = "publish"
    /\ UNCHANGED <<head, tail, next, heap, pn, pv, put, deqVars>>

EnqueuePublish ==
    /\ ppc = "publish"
    /\ next' = [next EXCEPT ![tail] = pn]
    /\ ppc' = "advance" /\ put' = "ok"
    /\ UNCHANGED <<head, tail, data, heap, pn, pv, deqVars>>

\* Seeded fault: the producer's end of the list is not advanced.
EnqueueStays ==
    /\ ppc = "advance"
    /\ ppc' = "idle" /\ pn' = Null /\ pv' = Garbage
    /\ UNCHANGED <<listVars, put, deqVars>>

EnqueueAdvance ==
    /\ ppc = "advance"
    /\ tail' = pn
    /\ ppc' = "idle" /\ pn' = Null /\ pv' = Garbage
    /\ UNCHANGED <<head, next, data, heap, put, deqVars>>

-----------------------------------------------------------------------------
(* d4np_atomic_queue_dequeue *)

DequeueLoad ==
    /\ cpc = "idle" /\ head # Null
    /\ IF next[head] = Null
       THEN got' = "empty" /\ UNCHANGED <<cpc, cn, cv>>
       ELSE /\ cn' = next[head]
            /\ \/ cpc' = "copy" /\ UNCHANGED cv
               \/ cpc' = "advance" /\ cv' = "dropped"
            /\ UNCHANGED got
    /\ UNCHANGED <<listVars, old, enqVars>>

DequeueCopied ==
    /\ cpc = "copy"
    /\ cv' = data[cn]
    /\ cpc' = "advance"
    /\ UNCHANGED <<listVars, cn, old, got, enqVars>>

\* Seeded fault: the node that was read is freed, not the old dummy.
AdvanceFreesNext ==
    /\ cpc = "advance"
    /\ old' = cn /\ head' = cn
    /\ cpc' = "free" /\ got' = cv /\ cv' = Garbage
    /\ UNCHANGED <<tail, next, data, heap, cn, enqVars>>

DequeueAdvance ==
    /\ cpc = "advance"
    /\ old' = head /\ head' = cn
    /\ cpc' = "free" /\ got' = cv /\ cv' = Garbage
    /\ UNCHANGED <<tail, next, data, heap, cn, enqVars>>

\* Seeded fault: the old dummy is not freed.
DequeueLeaks ==
    /\ cpc = "free"
    /\ cpc' = "idle" /\ cn' = Null /\ old' = Null
    /\ UNCHANGED <<listVars, cv, got, enqVars>>

DequeueFree ==
    /\ cpc = "free"
    /\ heap' = heap \ {old}
    /\ data' = [data EXCEPT ![old] = Garbage]
    /\ cpc' = "idle" /\ cn' = Null /\ old' = Null
    /\ UNCHANGED <<head, tail, next, cv, got, enqVars>>

-----------------------------------------------------------------------------
(* d4np_atomic_queue_destroy and _init, not concurrent with anything else  *)

Destroy ==
    /\ ppc = "idle" /\ cpc = "idle" /\ head # Null
    /\ heap' = heap \ Linked
    /\ head' = Null /\ tail' = Null
    /\ UNCHANGED <<next, data, enqVars, deqVars>>

QueueInit ==
    /\ ppc = "idle" /\ cpc = "idle" /\ head = Null
    /\ \E n \in Nodes : NodeAlloc(n) /\ head' = n /\ tail' = n
    /\ UNCHANGED <<enqVars, deqVars>>

-----------------------------------------------------------------------------
Next ==
    \/ \E v \in Values : EnqueueAlloc(v)
    \/ EnqueueCopied \/ EnqueuePublish \/ EnqueueAdvance
    \/ DequeueLoad \/ DequeueCopied \/ DequeueAdvance \/ DequeueFree
    \/ Destroy \/ QueueInit

Spec == Init /\ [][Next]_vars

-----------------------------------------------------------------------------
(* Properties *)

\* "The producer is provably done with it (no use-after-free)": every node a
\* thread is about to read, write or free is allocated.  Between linking its
\* node and storing tail the producer's tail may dangle, but it is only
\* overwritten then.
NoUseAfterFree ==
    /\ ppc = "copy" => pn \in heap
    /\ ppc = "publish" => pn \in heap
    /\ head # Null => head \in heap /\ (ppc = "advance" \/ tail \in heap)
    /\ cpc \in {"copy", "advance"} => cn \in heap
    /\ cpc = "free" => old \in heap

\* The allocated nodes are those of the list, the one an enqueue has not linked
\* yet and the one a dequeue has still to free: nothing leaks, and destroy
\* leaves nothing behind.
NoLeak ==
    heap = Linked \cup (IF ppc \in {"copy", "publish"} THEN {pn} ELSE {})
                  \cup (IF cpc = "free" THEN {old} ELSE {})

\* The elements of the list: the first node is a dummy.
Elements == [k \in 1..(IF head = Null THEN 0 ELSE Len(Chain) - 1) |-> data[Chain[k + 1]]]
Room     == IF head = Null THEN 0 ELSE Cardinality(Nodes)

\* The linked list implements a FIFO that refuses a put only for want of
\* memory: an element is visible, whole, as soon as its node is linked.
Queue == INSTANCE Fifo WITH
    MayFail <- TRUE, Capacity <- Cardinality(Nodes), cap <- Room, q <- Elements

ImplementsFifo == Queue!Spec
=============================================================================
