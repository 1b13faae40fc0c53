------------------------------ MODULE Allocator -----------------------------
(***************************************************************************)
(* The allocator interface of core/d4np_allocator.c over malloc, realloc   *)
(* and free.  A block is a function from its byte offsets to what the      *)
(* bytes hold; Null is no block and Junk an uninitialised byte.            *)
(***************************************************************************)
EXTENDS Words, Pointers

CONSTANT Junk

AlignOk(align) == align <= MaxAlign

Resized(ptr, size) ==
    [i \in 0..(size - 1) |-> IF ptr # Null /\ i \in DOMAIN ptr THEN ptr[i] ELSE Junk]

\* What d4np_realloc may answer when the largest block has limit bytes.  After a
\* NULL answer to a size above 0, the only sizes the callers pass, ptr is as it
\* was.
Realloc(ptr, size, align, limit) ==
    {Null} \cup IF AlignOk(align) /\ size \in 1..limit THEN {Resized(ptr, size)} ELSE {}
=============================================================================
