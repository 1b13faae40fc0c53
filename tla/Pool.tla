-------------------------------- MODULE Pool --------------------------------
(***************************************************************************)
(* The fixed-block pool of mem/pool.c: slots in one block, the free ones   *)
(* threaded through their own first bytes.  size_t wraps at Word.          *)
(***************************************************************************)
EXTENDS Allocator, Chains

CONSTANTS
    PtrSize,            \* sizeof(void *)
    BlockSizes, BlockCounts,
    MaxTotal            \* the largest block the backing allocator can provide

ASSUME PoolAssumption ==
    /\ PtrSize \in Nat \ {0}
    /\ BlockSizes \subseteq 0..(Word - 1) /\ BlockCounts \subseteq 0..(Word - 1)
    /\ MaxTotal < Word /\ Null \notin Nat

VARIABLES
    live,                       \* base # NULL
    want,                       \* the block_size init was called with
    stride, block_count, total_size,
    free_list, free_count,
    bytes,                      \* the first bytes of each slot: a link, or Junk
    held,                       \* the slots callers hold
    status

poolVars == <<live, want, stride, block_count, total_size, free_list, free_count, bytes, held, status>>
sizes == <<live, want, stride, block_count, total_size>>

\* Addresses are offsets from base; a slot is the address i * stride.
PoolSlots == {i * stride : i \in 0..(block_count - 1)}

RoundUp(value, multiple) ==
    LET sum == (value + (multiple - 1)) % Word IN sum - (sum % multiple)

Stride(size) == RoundUp(IF size < PtrSize THEN PtrSize ELSE size, MaxAlign)

PoolStart ==
    /\ live = FALSE /\ want = 0 /\ stride = 0 /\ block_count = 0 /\ total_size = 0
    /\ free_list = Null /\ free_count = 0
    /\ bytes = <<>> /\ held = {} /\ status = "none"

\* Seeded fault: the wrap of the rounding is not noticed.
GuardOnlyTotal(size, count) ==
    IF Stride(size) # 0 /\ count > (Word - 1) \div Stride(size) THEN "overflow" ELSE "ok"

\* The early returns of init, before it allocates.
Guard(size, count) ==
    LET slot == IF size < PtrSize THEN PtrSize ELSE size IN
    IF size = 0 \/ count = 0 THEN "invalid"
    ELSE IF Stride(size) < slot \/ count > (Word - 1) \div Stride(size) THEN "overflow"
    ELSE "ok"

PoolInit(size, count) ==
    LET st == Stride(size) IN
    /\ ~live
    /\ \/ /\ Guard(size, count) # "ok" /\ status' = Guard(size, count)
          /\ UNCHANGED <<sizes, free_list, free_count, bytes, held>>
       \/ /\ Guard(size, count) = "ok" /\ status' = "oom"
          /\ UNCHANGED <<sizes, free_list, free_count, bytes, held>>
       \/ /\ Guard(size, count) = "ok" /\ (st * count) % Word <= MaxTotal
          /\ live' = TRUE /\ want' = size /\ stride' = st
          /\ block_count' = count /\ total_size' = (st * count) % Word
          /\ free_list' = 0 /\ free_count' = count
          /\ bytes' = [s \in {i * st : i \in 0..(count - 1)} |->
                          IF s = (count - 1) * st THEN Null ELSE s + st]
          /\ status' = "ok"
          /\ UNCHANGED held

\* An exhausted pool answers NULL and changes nothing.
PoolAlloc ==
    /\ live /\ free_list # Null
    /\ free_list' = bytes[free_list]
    /\ free_count' = free_count - 1
    /\ held' = held \cup {free_list}
    /\ UNCHANGED <<sizes, bytes, status>>

\* The holder of a slot writes over the bytes that held the link.
Use(s) ==
    /\ s \in held
    /\ bytes' = [bytes EXCEPT ![s] = Junk]
    /\ UNCHANGED <<sizes, free_list, free_count, held, status>>

\* Only the holder frees a slot, once: the caller owns provenance.
PoolFree(s) ==
    /\ s \in held
    /\ bytes' = [bytes EXCEPT ![s] = free_list]
    /\ free_list' = s /\ free_count' = free_count + 1
    /\ held' = held \ {s}
    /\ UNCHANGED <<sizes, status>>

\* PoolSlots still held become invalid with the block.
PoolDestroy ==
    /\ live
    /\ live' = FALSE /\ want' = 0 /\ stride' = 0 /\ block_count' = 0 /\ total_size' = 0
    /\ free_list' = Null /\ free_count' = 0 /\ bytes' = <<>> /\ held' = {}
    /\ UNCHANGED status

PoolNext ==
    \/ \E size \in BlockSizes, count \in BlockCounts : PoolInit(size, count)
    \/ PoolAlloc \/ PoolDestroy
    \/ \E s \in PoolSlots : Use(s) \/ PoolFree(s)

PoolSpec == PoolStart /\ [][PoolNext]_poolVars

-----------------------------------------------------------------------------
\* The addresses from free_list along the links.
FreeChain == Along(free_list, bytes, PoolSlots)

\* The free list is a NULL-terminated, acyclic list of exactly the slots no
\* caller holds, and free_count is its length: no slot is handed out twice or
\* lost, whatever its holder wrote over the link.  Every slot lies in the block,
\* is aligned, and has room for the block_size asked for and for a link: the
\* guards of init catch every wrap of the sizes.
PoolSound ==
    /\ {FreeChain[k] : k \in DOMAIN FreeChain} = PoolSlots \ held
    /\ Len(FreeChain) = Cardinality(PoolSlots \ held)
    /\ free_count = Len(FreeChain)
    /\ FreeChain # <<>> => bytes[FreeChain[Len(FreeChain)]] = Null
    /\ live => /\ stride >= want /\ stride >= PtrSize /\ stride % MaxAlign = 0
               /\ \A s \in PoolSlots : s + stride <= total_size
=============================================================================
