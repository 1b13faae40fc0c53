------------------------------ MODULE TaskList ------------------------------
(***************************************************************************)
(* The thread pool with the pointers of its task list: q_head, q_tail and  *)
(* the next field of the nodes of concurrency/thread_pool.c.  They move    *)
(* with the steps of ThreadPool, where the list is the sequence queue; the *)
(* list code shares its critical sections and looks at pointers only.      *)
(***************************************************************************)
EXTENDS ThreadPool, Chains, Pointers

ASSUME NullAssumption == Null \notin Tasks /\ IsFiniteSet(Tasks)

VARIABLES q_head, q_tail, next

listVars == <<q_head, q_tail, next>>

ListInit == Init /\ q_head = Null /\ q_tail = Null /\ next = [n \in Tasks |-> Null]

\* The node submit allocated, with its link cleared, is linked at the tail.
AppendNode(n) ==
    /\ next' = IF q_tail # Null THEN [next EXCEPT ![n] = Null, ![q_tail] = n]
                                ELSE [next EXCEPT ![n] = Null]
    /\ q_head' = IF q_tail # Null THEN q_head ELSE n
    /\ q_tail' = n

\* Seeded fault: q_tail is not cleared when the last node leaves.
PopKeepsTail ==
    IF q_head = Null THEN UNCHANGED listVars
    ELSE q_head' = next[q_head] /\ UNCHANGED <<q_tail, next>>

\* A worker takes the node at the head, if there is one.
PopNode ==
    IF q_head = Null THEN UNCHANGED listVars
    ELSE /\ q_head' = next[q_head]
         /\ q_tail' = IF next[q_head] = Null THEN Null ELSE q_tail
         /\ UNCHANGED next

DrainList == q_head' = Null /\ q_tail' = Null /\ UNCHANGED next

ListSubmit(t) ==
    /\ SubmitCheck(t)
    /\ IF shutting_down THEN UNCHANGED listVars ELSE AppendNode(arg[t])

\* The steps that leave the list alone.
Elsewhere ==
    \/ InitCall \/ Rollback \/ DestroyCall \/ (phase = "destroy" /\ Shutdown)
    \/ \E w \in Workers : WorkerWait(w) \/ WorkerLock(w) \/ WorkerFinish(w)
    \/ \E t \in Callers : SubmitAlloc(t) \/ SubmitLock(t) \/ SubmitPost(t)
    \/ Over

ListNext ==
    \/ Elsewhere /\ UNCHANGED listVars
    \/ \E t \in Callers : ListSubmit(t)
    \/ \E w \in Workers : WorkerPop(w) /\ PopNode
    \/ phase = "destroy" /\ Drain /\ DrainList

ListSpec == ListInit /\ [][ListNext]_<<vars, listVars>> /\ Fairness

-----------------------------------------------------------------------------
\* The nodes from q_head along the links.
Chain == Along(q_head, next, Tasks)

\* The pointers spell the queue: from q_head along the links to q_tail, in the
\* order of submission, whatever the links of nodes that were freed say.  So the
\* worker's test of q_head and the drain in destroy see the queue as it is.
ListIsQueue ==
    /\ Chain = queue
    /\ q_tail = IF queue = <<>> THEN Null ELSE queue[Len(queue)]
=============================================================================
