-------------------------------- MODULE Fifo --------------------------------
(***************************************************************************)
(* What a single-producer, single-consumer queue promises: a put and a get *)
(* take effect in one step; put is refused only by a full queue (or, where *)
(* it allocates, at any time), get only by an empty one; the values come   *)
(* out in the order they went in.  RingBuffer and AtomicQueue are shown to *)
(* implement it.                                                           *)
(***************************************************************************)
EXTENDS Naturals, Sequences

CONSTANTS
    Values, Capacity,
    MayFail     \* put may be refused for want of memory

VARIABLES
    q,          \* the queued values, oldest first
    cap,        \* Capacity, or 0 when the queue has been destroyed
    put, got    \* what the last put and the last get returned

vars == <<q, cap, put, got>>

Init == q = <<>> /\ cap = Capacity /\ put = "none" /\ got = "none"

Put(v) ==
    /\ Len(q) < cap
    /\ q' = Append(q, v) /\ put' = "ok"
    /\ UNCHANGED <<cap, got>>

Refuse ==
    /\ Len(q) = cap \/ MayFail
    /\ put' = "refused"
    /\ UNCHANGED <<q, cap, got>>

\* A get may ask for the value to be dropped.
Get ==
    /\ q # <<>>
    /\ q' = Tail(q) /\ got' \in {Head(q), "dropped"}
    /\ UNCHANGED <<cap, put>>

GetNothing ==
    /\ q = <<>>
    /\ got' = "empty"
    /\ UNCHANGED <<q, cap, put>>

Close == cap # 0 /\ cap' = 0 /\ q' = <<>> /\ UNCHANGED <<put, got>>

Open == cap = 0 /\ cap' = Capacity /\ UNCHANGED <<q, put, got>>

Next == (\E v \in Values : Put(v)) \/ Refuse \/ Get \/ GetNothing \/ Close \/ Open

Spec == Init /\ [][Next]_vars
=============================================================================
