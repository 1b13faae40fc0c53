-------------------------------- MODULE Words -------------------------------
(* size_t, whose arithmetic wraps at Word, and the widest fundamental      *)
(* alignment, which mem/arena.c and mem/pool.c compute with a union.       *)
EXTENDS Naturals

CONSTANTS
    Word,       \* SIZE_MAX + 1
    MaxAlign    \* alignof(d4np_arena_max_align_t), alignof(d4np_pool_max_align_t)

ASSUME WordsAssumption ==
    Word \in Nat \ {0} /\ MaxAlign \in Nat \ {0} /\ Word % MaxAlign = 0
=============================================================================
