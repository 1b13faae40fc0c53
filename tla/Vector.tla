------------------------------- MODULE Vector -------------------------------
(***************************************************************************)
(* The dynamic array of ds/vector.c, byte by byte: an element v takes      *)
(* elem_size bytes, <<v, 0>>, <<v, 1>>, ...  size_t wraps at Word.         *)
(***************************************************************************)
EXTENDS Allocator, Sequences

CONSTANTS
    Elems, ElemSizes,
    Wanted,                 \* the capacities callers ask for
    VectorMinCapacity,      \* D4NP_VECTOR_MIN_CAPACITY
    VectorLimit             \* the largest block, in bytes

\* The bytes of an element, and those nobody has written.
ElemBytes == (Elems \X (0..(Word - 1))) \cup {Junk}

\* No object is larger than PTRDIFF_MAX bytes, and NULL is none.
ASSUME VectorAssumption ==
    /\ ElemSizes \subseteq 1..(Word - 1) /\ Wanted \subseteq 0..(Word - 1)
    /\ VectorMinCapacity \in 1..(Word - 1)
    /\ VectorLimit \in Nat /\ 2 * VectorLimit < Word
    /\ \A n \in 1..VectorLimit : Null \notin [0..(n - 1) -> ElemBytes]

VARIABLES
    vec,                    \* the d4np_vector_t: [data, elem_size, len, capacity]
    pushed,                 \* the elements a caller has reason to find in it
    vecStatus               \* of the last call

vectorVars == <<vec, pushed, vecStatus>>

Zeroed == [data |-> Null, elem_size |-> 0, len |-> 0, capacity |-> 0]

VectorStart == vec = Zeroed /\ pushed = <<>> /\ vecStatus = "none"

\* Seeded fault: the byte count is not checked for overflow.
ReserveUnchecked(v, min) ==
    IF min <= v.capacity THEN {<<v, "ok">>}
    ELSE {IF p = Null THEN <<v, "oom">>
          ELSE <<[v EXCEPT !.data = p, !.capacity = min], "ok">> :
             p \in Realloc(v.data, (min * v.elem_size) % Word, MaxAlign, VectorLimit)}

\* The vectors and statuses with which reserve may return.
Reserve(v, min) ==
    IF min <= v.capacity THEN {<<v, "ok">>}
    ELSE IF min > (Word - 1) \div v.elem_size THEN {<<v, "overflow">>}
    ELSE {IF p = Null THEN <<v, "oom">>
          ELSE <<[v EXCEPT !.data = p, !.capacity = min], "ok">> :
             p \in Realloc(v.data, (min * v.elem_size) % Word, MaxAlign, VectorLimit)}

\* A failed init leaves an empty vector without storage.  A vector that has
\* storage is not initialised again: its owner would lose the block.
VectorInit(size, initial) ==
    /\ vec.data = Null
    /\ \E r \in Reserve([Zeroed EXCEPT !.elem_size = size], initial) :
           vec' = r[1] /\ vecStatus' = r[2]
    /\ UNCHANGED pushed

VectorReserve(min) ==
    /\ vec.elem_size # 0
    /\ \E r \in Reserve(vec, min) : vec' = r[1] /\ vecStatus' = r[2]
    /\ UNCHANGED pushed

\* memcpy of element e to index len.
CopyIn(v, e) ==
    LET at == (v.len * v.elem_size) % Word IN
    [v EXCEPT !.data = [i \in DOMAIN @ |->
                           IF i \in at..(at + v.elem_size - 1) THEN <<e, i - at>> ELSE @[i]],
              !.len = @ + 1]

Grow(v) == (IF v.capacity = 0 THEN VectorMinCapacity ELSE v.capacity * 2) % Word

VectorPush(e) ==
    /\ vec.elem_size # 0
    /\ \E r \in IF vec.len = vec.capacity THEN Reserve(vec, Grow(vec)) ELSE {<<vec, "ok">>} :
           /\ vecStatus' = r[2]
           /\ IF r[2] = "ok"
              THEN vec' = CopyIn(r[1], e) /\ pushed' = Append(pushed, e)
              ELSE vec' = r[1] /\ UNCHANGED pushed

\* The element pop copies out is the one at the new len.
VectorPop ==
    /\ vec.elem_size # 0
    /\ IF vec.len = 0
       THEN vecStatus' = "not found" /\ UNCHANGED <<vec, pushed>>
       ELSE /\ vecStatus' = "ok"
            /\ vec' = [vec EXCEPT !.len = @ - 1]
            /\ pushed' = SubSeq(pushed, 1, Len(pushed) - 1)

VectorClear ==
    /\ vec.elem_size # 0
    /\ vec' = [vec EXCEPT !.len = 0] /\ pushed' = <<>>
    /\ UNCHANGED vecStatus

\* elem_size stays: the vector may be used again without an init.
VectorDestroy ==
    /\ vec.data # Null
    /\ vec' = [Zeroed EXCEPT !.elem_size = vec.elem_size] /\ pushed' = <<>>
    /\ UNCHANGED vecStatus

VectorNext ==
    \/ \E s \in ElemSizes, n \in Wanted : VectorInit(s, n)
    \/ \E n \in Wanted : VectorReserve(n)
    \/ \E e \in Elems : VectorPush(e)
    \/ VectorPop \/ VectorClear \/ VectorDestroy

VectorSpec == VectorStart /\ [][VectorNext]_vectorVars

\* The bytes d4np_vector_at(i) points to.
ElementAt(i) == [k \in 0..(vec.elem_size - 1) |-> vec.data[((i * vec.elem_size) % Word) + k]]

-----------------------------------------------------------------------------
\* Whatever calls failed, and wherever the byte counts wrap, the vector holds
\* the elements pushed and not popped, in order and whole, in a block of exactly
\* the capacity * elem_size bytes that reserve and destroy hand back to the
\* allocator.
VectorIsSequence ==
    /\ vec.len = Len(pushed) /\ vec.len <= vec.capacity
    /\ (vec.data = Null) <=> (vec.capacity = 0)
    /\ vec.data # Null => DOMAIN vec.data = 0..(vec.capacity * vec.elem_size - 1)
    /\ \A i \in 0..(vec.len - 1) :
           ElementAt(i) = [k \in 0..(vec.elem_size - 1) |-> <<pushed[i + 1], k>>]
=============================================================================
