------------------------------- MODULE Arena --------------------------------
(***************************************************************************)
(* The bump-pointer arena of mem/arena.c.  The backing block is requested  *)
(* with the widest fundamental alignment, so its address is any multiple   *)
(* of MaxAlign.                                                            *)
(***************************************************************************)
EXTENDS Words

CONSTANTS
    Bases,          \* addresses the backing allocator may return
    Capacities, Sizes,
    Aligns          \* the powers of two, or 0, that callers ask for

ASSUME ArenaAssumption ==
    /\ Bases \subseteq {MaxAlign * k : k \in 1..(Word - 1)}
    /\ Capacities \subseteq 1..(Word - 1)
    /\ Sizes \subseteq 0..(Word - 1)
    /\ Aligns \subseteq {0} \cup {2^b : b \in 0..8} /\ \A a \in Aligns : a < Word
    /\ \A a \in Aligns \ {0} : a <= MaxAlign => MaxAlign % a = 0

VARIABLES
    base, capacity, offset,     \* the d4np_arena_t; base = 0 is NULL
    given,                      \* the allocations since the last reset
    last                        \* what the last alloc returned: an address or 0

arenaVars == <<base, capacity, offset, given, last>>

\* Seeded fault: the sum is not checked for overflow.
AlignUpUnchecked(value, align) ==
    LET a   == IF align = 0 THEN 1 ELSE align
        sum == (value + (a - 1)) % Word
    IN  [overflow |-> FALSE, value |-> sum - (sum % a)]

AlignUp(value, align) ==
    LET a   == IF align = 0 THEN 1 ELSE align
        sum == (value + (a - 1)) % Word
    IN  [overflow |-> sum < value, value |-> sum - (sum % a)]

ArenaStart == base = 0 /\ capacity = 0 /\ offset = 0 /\ given = {} /\ last = 0

\* Fails, leaving the arena as it is, when the backing allocation does; a block
\* that is provided lies in the address space.
ArenaInit(c) ==
    /\ base = 0
    /\ base' \in {b \in Bases : b + c <= Word}
    /\ capacity' = c /\ offset' = 0
    /\ UNCHANGED <<given, last>>

ArenaFits(size, up) ==
    /\ size # 0
    /\ ~up.overflow /\ up.value <= capacity
    /\ size <= capacity - up.value

ArenaAlloc(size, align) ==
    LET up == AlignUp(offset, align) IN
    /\ base # 0
    /\ IF ArenaFits(size, up)
       THEN /\ last' = base + up.value
            /\ offset' = (up.value + size) % Word
            /\ given' = given \cup {[at |-> up.value, size |-> size, align |-> align]}
       ELSE last' = 0 /\ UNCHANGED <<offset, given>>
    /\ UNCHANGED <<base, capacity>>

\* Every allocation since the last reset becomes invalid.
ArenaReset ==
    /\ offset' = 0 /\ given' = {}
    /\ UNCHANGED <<base, capacity, last>>

ArenaDestroy ==
    /\ base # 0
    /\ base' = 0 /\ capacity' = 0 /\ offset' = 0 /\ given' = {}
    /\ UNCHANGED last

ArenaNext ==
    \/ \E c \in Capacities : ArenaInit(c)
    \/ \E s \in Sizes, a \in Aligns : ArenaAlloc(s, a)
    \/ ArenaReset \/ ArenaDestroy

ArenaSpec == ArenaStart /\ [][ArenaNext]_arenaVars

-----------------------------------------------------------------------------
\* The allocations lie inside the block, do not overlap, and requests up to the
\* fundamental alignment get an address with that alignment, though offset and
\* padding are computed in a size_t that wraps.
WellPlaced ==
    /\ \A g \in given : g.at + g.size <= capacity
    /\ \A g, h \in given : g # h => g.at + g.size <= h.at \/ h.at + h.size <= g.at
    /\ \A g \in given : 0 < g.align /\ g.align <= MaxAlign => (base + g.at) % g.align = 0

\* "O(1) allocation of size bytes aligned to align", a power of two: the address
\* alloc returns is a multiple of the alignment asked for.
Aligned ==
    \A g \in given : g.align # 0 => (base + g.at) % g.align = 0
=============================================================================
