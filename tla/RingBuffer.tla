----------------------------- MODULE RingBuffer -----------------------------
(***************************************************************************)
(* The lock-free ring buffer of ds/ring_buffer.c: one producer thread, one *)
(* consumer thread, and callers of d4np_ring_buffer_count.  head and tail  *)
(* are size_t counters that wrap at Word = 2^w and are masked to a slot.   *)
(* A memcpy takes time: the producer's slot holds garbage while it is      *)
(* being written.  A release store and the acquire load that reads it      *)
(* order the copies around them, so memory is sequentially consistent      *)
(* here; the order of the copies and the stores is what is checked.        *)
(***************************************************************************)
EXTENDS Naturals, Sequences

CONSTANTS
    Values,
    Capacity,   \* slots, a power of two
    Word,       \* number of values of a size_t
    Observers,  \* threads that call count: "producer", "consumer", others
    Garbage     \* bytes that are not an element

\* next_pow2_at_least returns a power of two and the buffer fits in memory.
ASSUME RingAssumption ==
    /\ Capacity \in Nat \ {0} /\ Word \in Nat
    /\ Word % Capacity = 0 /\ Word > Capacity
    /\ Garbage \notin Values

VARIABLES
    cap, head, tail, slot,  \* the d4np_ring_buffer_t
    ppc, pv, put,           \* push: where it is, its element, its last result
    cpc, cv, got,           \* pop: where it is, what it copied, its last result
    opc, ot, counted        \* count: where each caller is, the tail it loaded, its result

ringVars == <<cap, head, tail, slot>>
pushVars == <<ppc, pv, put>>
popVars  == <<cpc, cv, got>>
countVars == <<opc, ot, counted>>
vars == <<ringVars, pushVars, popVars, countVars>>

Slots == 0..(Capacity - 1)
Minus(a, b) == (a + Word - b) % Word    \* size_t subtraction

Init ==
    /\ cap = Capacity /\ head = 0 /\ tail = 0 /\ slot = [s \in Slots |-> Garbage]
    /\ ppc = "idle" /\ pv = Garbage /\ put = "none"
    /\ cpc = "idle" /\ cv = Garbage /\ got = "none"
    /\ opc = [o \in Observers |-> "idle"]
    /\ ot = [o \in Observers |-> 0]
    /\ counted = [o \in Observers |-> 0]

\* The thread o is not inside a call of count.
NotCounting(o) == o \in Observers => opc[o] = "idle"

-----------------------------------------------------------------------------
(* d4np_ring_buffer_push *)

\* Seeded fault: the producer takes one slot too many for free.
PushLoadOffByOne(v) ==
    /\ ppc = "idle" /\ NotCounting("producer")
    /\ IF Minus(tail, head) = cap + 1
       THEN put' = "refused" /\ UNCHANGED <<ppc, pv, slot>>
       ELSE /\ ppc' = "copy" /\ pv' = v
            /\ slot' = [slot EXCEPT ![tail % Capacity] = Garbage]
            /\ UNCHANGED put
    /\ UNCHANGED <<cap, head, tail, popVars, countVars>>

\* The loads of tail (which only the producer writes) and of head; then the
\* copy into the slot begins.
PushLoad(v) ==
    /\ ppc = "idle" /\ NotCounting("producer")
    /\ IF Minus(tail, head) = cap
       THEN put' = "refused" /\ UNCHANGED <<ppc, pv, slot>>
       ELSE /\ ppc' = "copy" /\ pv' = v
            /\ slot' = [slot EXCEPT ![tail % Capacity] = Garbage]
            /\ UNCHANGED put
    /\ UNCHANGED <<cap, head, tail, popVars, countVars>>

PushCopied ==
    /\ ppc = "copy"
    /\ slot' = [slot EXCEPT ![tail % Capacity] = pv]
    /\ ppc' = "publish"
    /\ UNCHANGED <<cap, head, tail, pv, put, popVars, countVars>>

PushPublish ==
    /\ ppc = "publish"
    /\ tail' = (tail + 1) % Word
    /\ ppc' = "idle" /\ put' = "ok" /\ pv' = Garbage
    /\ UNCHANGED <<cap, head, slot, popVars, countVars>>

-----------------------------------------------------------------------------
(* d4np_ring_buffer_pop *)

\* The loads of head (which only the consumer writes) and of tail; then the
\* copy out of the slot begins, if the caller wants the element.
PopLoad ==
    /\ cpc = "idle" /\ NotCounting("consumer")
    /\ IF head = tail
       THEN got' = "empty" /\ UNCHANGED <<cpc, cv>>
       ELSE /\ \/ cpc' = "copy" /\ UNCHANGED cv
               \/ cpc' = "publish" /\ cv' = "dropped"
            /\ UNCHANGED got
    /\ UNCHANGED <<ringVars, pushVars, countVars>>

\* Seeded fault: head is advanced before the element is copied out.
PopPublishFirst ==
    /\ cpc = "copy"
    /\ cv' = slot[(head + 1) % Capacity]
    /\ cpc' = "publish"
    /\ UNCHANGED <<ringVars, got, pushVars, countVars>>

PopCopied ==
    /\ cpc = "copy"
    /\ cv' = slot[head % Capacity]
    /\ cpc' = "publish"
    /\ UNCHANGED <<ringVars, got, pushVars, countVars>>

PopPublish ==
    /\ cpc = "publish"
    /\ head' = (head + 1) % Word
    /\ cpc' = "idle" /\ got' = cv /\ cv' = Garbage
    /\ UNCHANGED <<cap, tail, slot, pushVars, countVars>>

-----------------------------------------------------------------------------
(* d4np_ring_buffer_count, which is_empty calls too; the producer and the  *)
(* consumer are in one call at a time.                                     *)

CountTail(o) ==
    /\ opc[o] = "idle"
    /\ o = "producer" => ppc = "idle"
    /\ o = "consumer" => cpc = "idle"
    /\ ot' = [ot EXCEPT ![o] = tail]
    /\ opc' = [opc EXCEPT ![o] = "head"]
    /\ UNCHANGED <<ringVars, pushVars, popVars, counted>>

\* Seeded fault: the operands of the subtraction are swapped.
CountSwapped(o) ==
    /\ opc[o] = "head"
    /\ counted' = [counted EXCEPT ![o] = Minus(head, ot[o])]
    /\ opc' = [opc EXCEPT ![o] = "idle"]
    /\ ot' = [ot EXCEPT ![o] = 0]
    /\ UNCHANGED <<ringVars, pushVars, popVars>>

CountHead(o) ==
    /\ opc[o] = "head"
    /\ counted' = [counted EXCEPT ![o] = Minus(ot[o], head)]
    /\ opc' = [opc EXCEPT ![o] = "idle"]
    /\ ot' = [ot EXCEPT ![o] = 0]
    /\ UNCHANGED <<ringVars, pushVars, popVars>>

-----------------------------------------------------------------------------
(* d4np_ring_buffer_destroy and _init, not concurrent with anything else   *)

Quiescent == ppc = "idle" /\ cpc = "idle" /\ \A o \in Observers : opc[o] = "idle"

Destroy ==
    /\ Quiescent /\ cap # 0
    /\ cap' = 0 /\ head' = 0 /\ tail' = 0 /\ slot' = [s \in Slots |-> Garbage]
    /\ UNCHANGED <<pushVars, popVars, countVars>>

RingInit ==
    /\ Quiescent /\ cap = 0
    /\ cap' = Capacity /\ head' = 0 /\ tail' = 0
    /\ UNCHANGED <<slot, pushVars, popVars, countVars>>

-----------------------------------------------------------------------------
Next ==
    \/ \E v \in Values : PushLoad(v)
    \/ PushCopied \/ PushPublish
    \/ PopLoad \/ PopCopied \/ PopPublish
    \/ \E o \in Observers : CountTail(o) \/ CountHead(o)
    \/ Destroy \/ RingInit

Spec == Init /\ [][Next]_vars

-----------------------------------------------------------------------------
(* Properties *)

Used == Minus(tail, head)

\* The producer and the consumer never access the same slot at the same time,
\* before and after the counters wrap: no data race on the elements.
NoSlotRace ==
    ppc \in {"copy", "publish"} /\ cpc = "copy" =>
        tail % Capacity # head % Capacity

\* What count returns to the producer or to the consumer is a possible number
\* of queued elements, though the other end moves between its two loads.
CountInRange == \A o \in Observers : counted[o] <= Capacity

\* The lock-free code implements a bounded FIFO: nothing lost, duplicated or
\* reordered, "full" only when full, "empty" only when empty.
Queue == INSTANCE Fifo WITH
    MayFail <- FALSE,
    q <- [k \in 1..Used |-> slot[(head + k - 1) % Capacity]]

ImplementsFifo == Queue!Spec
=============================================================================
