-------------------------- MODULE SequentialProofs --------------------------
(***************************************************************************)
(* Proofs about the arena, the vector and the string builder, for every    *)
(* width of a size_t, whose arithmetic wraps, and every limit of the       *)
(* allocator, which may refuse any request.                                *)
(***************************************************************************)
EXTENDS Arena, Vector, StringBuilder, SharedProofs

-----------------------------------------------------------------------------
(* The arena *)

\* The allocations end before offset, and the block lies in the address space.
ArenaInv ==
    /\ base \in Nat /\ base % MaxAlign = 0
    /\ capacity \in 0..(Word - 1) /\ offset \in 0..capacity
    /\ given \subseteq [at : Nat, size : Nat, align : Aligns]
    /\ \A g \in given : g.at + g.size <= offset
    /\ base = 0 => given = {}
    /\ WellPlaced

\* A multiple of MaxAlign is one of every fundamental alignment.
LEMMA FundamentalAlignment ==
    ASSUME NEW x \in Nat, x % MaxAlign = 0, NEW a \in Aligns, a # 0, a <= MaxAlign
    PROVE  x % a = 0
<1>1. a \in Nat \ {0} /\ MaxAlign \in Nat \ {0} /\ MaxAlign % a = 0
  BY ArenaAssumption, WordsAssumption
<1>2. PICK p \in Nat : x = p * MaxAlign
  BY <1>1, Multiple, Zenon
<1>3. PICK q \in Nat : MaxAlign = q * a
  BY <1>1, Multiple, Zenon
<1>4. p * q \in Nat /\ x = (p * q) * a
  BY <1>1, <1>2, <1>3
<1> QED
  BY <1>1, <1>4, Multiple

\* AlignUp rounds up to a multiple, or notices that the sum has wrapped.
LEMMA AlignUpRounds ==
    ASSUME NEW value \in 0..(Word - 1), NEW align \in Aligns
    PROVE  LET up == AlignUp(value, align) IN
           ~up.overflow => /\ up.value \in Nat /\ up.value >= value
                           /\ align # 0 => up.value % align = 0
<1> DEFINE up == AlignUp(value, align)
<1>1. PICK a \in Nat \ {0} : a = (IF align = 0 THEN 1 ELSE align) /\ a <= Word
  BY ArenaAssumption, WordsAssumption
<1>2. PICK sum \in Nat : sum = (value + (a - 1)) % Word
  BY WordsAssumption, Division
<1>3. up = [overflow |-> sum < value, value |-> sum - (sum % a)]
  BY <1>1, <1>2 DEF AlignUp
<1>4. up.overflow = (sum < value) /\ up.value = sum - (sum % a)
  BY <1>3
<1> HIDE DEF up
<1> SUFFICES ASSUME ~up.overflow
             PROVE  up.value \in Nat /\ up.value >= value /\ (align # 0 => up.value % align = 0)
  BY DEF up
<1>5. sum >= value
  <2>1. ~(sum < value)
    BY <1>4, Zenon
  <2> QED
    BY <2>1
<1>6. sum = value + (a - 1)
  <2>1. PICK x \in Nat : x = value + (a - 1)
    BY <1>1
  <2>2. PICK q \in Nat : x = q * Word + sum /\ sum \in 0..(Word - 1)
    <3>1. Word \in Nat \ {0} /\ sum = x % Word
      BY <1>2, <2>1, WordsAssumption
    <3>2. \E q \in Nat : x = q * Word + (x % Word) /\ x % Word \in 0..(Word - 1)
      BY <3>1, Division, Zenon
    <3> QED
      BY <3>1, <3>2, Zenon
  <2>3. x < value + Word
    BY <1>1, <2>1, WordsAssumption
  <2>4. q * Word < Word
    BY <1>5, <2>2, <2>3, WordsAssumption
  <2>5. q >= 1 => q * Word >= Word
    BY WordsAssumption
  <2>6. q = 0
    BY <2>2, <2>4, <2>5, WordsAssumption
  <2> QED
    BY <2>1, <2>2, <2>6, WordsAssumption
<1>7. PICK v \in Nat : v = sum - (sum % a) /\ v > sum - a /\ v % a = 0
  BY RoundedDown
<1>8. up.value = v
  BY <1>4, <1>7
<1>9. v >= value
  BY <1>1, <1>6, <1>7
<1> QED
  BY <1>1, <1>7, <1>8, <1>9

\* An allocation takes bytes after those given before, at an aligned address.
LEMMA AllocIsPlaced ==
    ASSUME ArenaInv, NEW size \in Sizes, NEW align \in Aligns, ArenaAlloc(size, align)
    PROVE  ArenaInv'
<1> DEFINE up == AlignUp(offset, align)
<1>0. base' = base /\ capacity' = capacity /\ base # 0
  BY DEF ArenaAlloc
<1>1. CASE ~ArenaFits(size, up)
  BY <1>0, <1>1 DEF ArenaAlloc, ArenaInv, WellPlaced
<1>2. CASE ArenaFits(size, up)
  <2>0. size \in Nat /\ capacity \in 0..(Word - 1) /\ offset \in 0..(Word - 1)
        /\ offset <= capacity /\ Word \in Nat
    BY ArenaAssumption, WordsAssumption DEF ArenaInv
  <2>1. ~up.overflow => up.value \in Nat /\ up.value >= offset /\ (align # 0 => up.value % align = 0)
    BY <2>0, AlignUpRounds
  <2>2. PICK at \in Nat : at = up.value /\ at >= offset /\ (align # 0 => at % align = 0)
    BY <1>2, <2>1 DEF ArenaFits
  <2>3. at <= capacity /\ size <= capacity - at
    BY <1>2, <2>2 DEF ArenaFits
  <2>4. offset' = (at + size) % Word /\ given' = given \cup {[at |-> at, size |-> size, align |-> align]}
    BY <1>2, <2>2 DEF ArenaAlloc
  <2> HIDE DEF up
  <2>5. offset' = at + size
    <3>1. PICK e \in Nat : e = at + size /\ e <= capacity
      BY <2>0, <2>3
    <3>2. PICK b \in Nat \ {0} : b = Word /\ e < b
      BY <2>0, <3>1
    <3>3. e % b = e
      BY <3>2, SmallRemainder
    <3> QED
      BY <2>4, <3>1, <3>2, <3>3
  <2>6. PICK n : n = [at |-> at, size |-> size, align |-> align]
    BY Zenon
  <2>7. n \in [at : Nat, size : Nat, align : Aligns] /\ n.at = at /\ n.size = size /\ n.align = align
    BY <2>0, <2>6
  <2>8. given' = given \cup {n}
    BY <2>4, <2>6
  <2>9. \A g \in given : g.at \in Nat /\ g.size \in Nat /\ g.at + g.size <= at
    BY <2>0, <2>2 DEF ArenaInv
  <2>10. \A g \in given' : g.at + g.size <= offset'
    BY <2>0, <2>2, <2>5, <2>7, <2>8, <2>9
  <2>11. \A g \in given' : g.at + g.size <= capacity'
    BY <1>0, <2>0, <2>3, <2>7, <2>8, <2>9
  <2>12. \A g, h \in given' : g # h => g.at + g.size <= h.at \/ h.at + h.size <= g.at
    <3>1. \A g, h \in given : g # h => g.at + g.size <= h.at \/ h.at + h.size <= g.at
      BY DEF ArenaInv, WellPlaced
    <3> QED
      BY <2>7, <2>8, <2>9, <3>1
  <2>13. 0 < align /\ align <= MaxAlign => (base + at) % align = 0
    <3> SUFFICES ASSUME 0 < align, align <= MaxAlign PROVE (base + at) % align = 0
      OBVIOUS
    <3>1. align \in Nat \ {0}
      BY ArenaAssumption
    <3>2. base \in Nat /\ base % align = 0
      BY <3>1, FundamentalAlignment DEF ArenaInv
    <3> QED
      BY <2>2, <3>1, <3>2, MultiplesAdd
  <2>14. \A g \in given' : 0 < g.align /\ g.align <= MaxAlign => (base' + g.at) % g.align = 0
    BY <1>0, <2>7, <2>8, <2>13 DEF ArenaInv, WellPlaced
  <2>15. given' \subseteq [at : Nat, size : Nat, align : Aligns] /\ offset' \in 0..capacity
    BY <2>0, <2>2, <2>3, <2>5, <2>7, <2>8 DEF ArenaInv
  <2> QED
    BY <1>0, <2>10, <2>11, <2>12, <2>14, <2>15 DEF ArenaInv, WellPlaced
<1> QED
  BY <1>1, <1>2

\* Every allocation of the arena lies in the block, apart from the others and
\* aligned as asked up to the fundamental alignment, for every width of size_t.
THEOREM ArenaPlacesWell == ArenaSpec => []WellPlaced
<1>0. 0 % MaxAlign = 0 /\ 0 \in 0..(Word - 1)
  <2>1. MaxAlign \in Nat \ {0} /\ 0 = 0 * MaxAlign /\ Word \in Nat \ {0}
    BY WordsAssumption
  <2> QED
    BY <2>1, Multiple
<1>1. ArenaStart => ArenaInv
  BY <1>0 DEF ArenaStart, ArenaInv, WellPlaced
<1>2. ArenaInv /\ [ArenaNext]_arenaVars => ArenaInv'
  <2> SUFFICES ASSUME ArenaInv, [ArenaNext]_arenaVars PROVE ArenaInv'
    OBVIOUS
  <2>1. ASSUME NEW c \in Capacities, ArenaInit(c) PROVE ArenaInv'
    <3>1. base' \in Nat /\ base' % MaxAlign = 0
      <4>1. PICK k \in Nat : base' = MaxAlign * k
        BY <2>1, ArenaAssumption, WordsAssumption DEF ArenaInit
      <4>2. base' \in Nat /\ base' = k * MaxAlign /\ MaxAlign \in Nat \ {0}
        BY <4>1, WordsAssumption
      <4> QED
        BY <4>2, Multiple
    <3>2. given' = {}
      BY <2>1 DEF ArenaInit, ArenaInv
    <3> QED
      BY <2>1, <3>1, <3>2, ArenaAssumption DEF ArenaInit, ArenaInv, WellPlaced
  <2>2. ASSUME NEW s \in Sizes, NEW a \in Aligns, ArenaAlloc(s, a) PROVE ArenaInv'
    BY <2>2, AllocIsPlaced
  <2>3. CASE ArenaReset
    BY <2>3 DEF ArenaReset, ArenaInv, WellPlaced
  <2>4. CASE ArenaDestroy
    BY <1>0, <2>4 DEF ArenaDestroy, ArenaInv, WellPlaced
  <2>5. CASE UNCHANGED arenaVars
    BY <2>5 DEF arenaVars, ArenaInv, WellPlaced
  <2> QED
    BY <2>1, <2>2, <2>3, <2>4, <2>5 DEF ArenaNext
<1>3. ArenaInv => WellPlaced
  BY DEF ArenaInv
<1> QED
  BY <1>1, <1>2, <1>3, PTL DEF ArenaSpec

-----------------------------------------------------------------------------
(* The vector *)

\* v holds the elements p, in rows of elem_size bytes of a block of exactly
\* capacity rows that the address space can hold.
Holds(v, p) ==
    /\ v \in [data : {v.data}, elem_size : 0..(Word - 1), len : Nat, capacity : Nat]
    /\ p \in Seq(Elems) /\ v.len = Len(p) /\ v.len <= v.capacity
    /\ v.elem_size = 0 => v.capacity = 0
    /\ v.capacity * v.elem_size <= VectorLimit
    /\ IF v.capacity = 0 THEN v.data = Null
       ELSE v.data \in [0..(v.capacity * v.elem_size - 1) -> ElemBytes]
    /\ \A i \in 0..(v.len - 1), k \in 0..(v.elem_size - 1) :
           v.data[i * v.elem_size + k] = <<p[i + 1], k>>

\* Every byte of an element lies in the block, and no index wraps.
LEMMA ElementFits ==
    ASSUME NEW v, NEW p, Holds(v, p), NEW i \in Nat, i < v.capacity
    PROVE  /\ i * v.elem_size \in 0..(Word - 1) /\ (i * v.elem_size) % Word = i * v.elem_size
           /\ v.capacity * v.elem_size \in 1..VectorLimit /\ v.elem_size \in Nat \ {0}
           /\ i * v.elem_size + v.elem_size <= v.capacity * v.elem_size
<1>1. PICK es \in Nat \ {0} : es = v.elem_size
  BY DEF Holds
<1>2. PICK c \in Nat \ {0} : c = v.capacity /\ i < c
  BY DEF Holds
<1>3. Word \in Nat \ {0} /\ VectorLimit \in Nat /\ VectorLimit < Word
  BY VectorAssumption, WordsAssumption
<1>4. i * es \in Nat /\ c * es \in Nat /\ (i * es) + es <= c * es
  BY <1>1, <1>2, RowsApart
<1>5. c * es <= VectorLimit
  BY <1>1, <1>2 DEF Holds
<1>6. i * es \in 0..(Word - 1) /\ c * es \in 1..VectorLimit
  BY <1>1, <1>3, <1>4, <1>5
<1>7. (i * es) % Word = i * es
  BY <1>3, <1>6, SmallRemainder
<1> QED
  BY <1>1, <1>2, <1>4, <1>6, <1>7

\* reserve loses nothing, whether it succeeds or fails, and makes room when it
\* answers ok.
LEMMA ReserveHolds ==
    ASSUME NEW v, NEW p, Holds(v, p), v.elem_size # 0, NEW min \in Nat, NEW r \in Reserve(v, min)
    PROVE  /\ Holds(r[1], p) /\ r[1].elem_size = v.elem_size /\ r[1].len = v.len
           /\ r[2] = "ok" => r[1].capacity >= min
<1>0. PICK es \in 1..(Word - 1) : es = v.elem_size
  BY DEF Holds
<1>1. Word \in Nat \ {0} /\ VectorLimit \in Nat /\ v.capacity \in Nat /\ v.len \in Nat
  BY VectorAssumption, WordsAssumption DEF Holds
<1>2. CASE min <= v.capacity
  <2>1. r = <<v, "ok">>
    BY <1>2 DEF Reserve
  <2> QED
    BY <1>1, <1>2, <2>1
<1>3. CASE min > v.capacity /\ min > (Word - 1) \div es
  <2>1. ~(min <= v.capacity)
    BY <1>1, <1>3
  <2>2. r = <<v, "overflow">>
    BY <1>0, <1>3, <2>1 DEF Reserve
  <2> QED
    BY <2>2
<1>4. CASE min > v.capacity /\ ~(min > (Word - 1) \div es)
  <2>1. ~(min <= v.capacity)
    BY <1>1, <1>4
  <2>2. PICK b \in Realloc(v.data, (min * es) % Word, MaxAlign, VectorLimit) :
            r = IF b = Null THEN <<v, "oom">>
                ELSE <<[v EXCEPT !.data = b, !.capacity = min], "ok">>
    BY <1>0, <1>4, <2>1 DEF Reserve
  <2>3. CASE b = Null
    BY <2>2, <2>3
  <2>4. CASE b # Null
    <3>1. PICK n \in Nat : n = min * es
      BY <1>0
    <3>2. n % Word = n
      <4>1. PICK w \in Nat : w = Word - 1
        BY <1>1
      <4>2. w \div es \in Int /\ es \in Nat \ {0}
        BY <1>0
      <4>3. min <= w \div es
        BY <1>4, <4>1, <4>2
      <4>4. n <= w
        BY <3>1, <4>2, <4>3, ProductFits
      <4>5. n \in 0..(Word - 1)
        BY <1>1, <4>1, <4>4
      <4> QED
        BY <1>1, <4>5, SmallRemainder
    <3>3. n \in 1..VectorLimit /\ b = Resized(v.data, n)
      BY <2>2, <2>4, <3>1, <3>2 DEF Realloc
    <3>4. PICK c \in Nat : c = v.capacity /\ c < min /\ (c * es) + es <= n /\ c * es \in Nat
      <4>1. PICK c \in Nat : c = v.capacity /\ c < min
        BY <1>1, <1>4
      <4>2. c * es \in Nat /\ (c * es) + es <= min * es
        BY <1>0, <1>1, <4>1, RowsApart
      <4> QED
        BY <3>1, <4>1, <4>2, Zenon
    <3>5. b = [i \in 0..(n - 1) |-> IF v.data # Null /\ i \in DOMAIN v.data THEN v.data[i] ELSE Junk]
      BY <3>3 DEF Resized
    <3>6. b \in [0..(n - 1) -> ElemBytes]
      <4>1. v.data # Null => v.data \in [0..(c * es - 1) -> ElemBytes]
        BY <1>0, <3>4 DEF Holds
      <4>2. Junk \in ElemBytes
        BY DEF ElemBytes
      <4>3. ASSUME NEW i \in 0..(n - 1)
            PROVE  (IF v.data # Null /\ i \in DOMAIN v.data THEN v.data[i] ELSE Junk) \in ElemBytes
        BY <4>1, <4>2
      <4> QED
        BY <3>5, <4>3, Zenon
    <3>7. PICK u : u = [v EXCEPT !.data = b, !.capacity = min]
      OBVIOUS
    <3>8. /\ u \in [data : {b}, elem_size : 0..(Word - 1), len : Nat, capacity : Nat]
          /\ u.data = b /\ u.elem_size = es /\ u.len = v.len /\ u.capacity = min
      BY <1>0, <3>7, Zenon DEF Holds
    <3>9. ASSUME NEW i \in 0..(v.len - 1), NEW k \in 0..(es - 1)
          PROVE  b[i * es + k] = <<p[i + 1], k>>
      <4>1. i \in Nat /\ i < c /\ v.capacity # 0
        <5>1. v.len <= c
          BY <3>4 DEF Holds
        <5> QED
          BY <1>1, <3>4, <3>9, <5>1
      <4>2. i * es \in Nat /\ (i * es) + es <= c * es
        BY <1>0, <3>4, <4>1, RowsApart
      <4>3. i * es + k \in 0..(c * es - 1) /\ i * es + k \in 0..(n - 1)
        BY <1>0, <3>1, <3>4, <4>2
      <4>4. v.data # Null /\ DOMAIN v.data = 0..(c * es - 1)
        <5>1. v.data \in [0..(c * es - 1) -> ElemBytes] /\ c * es \in 1..VectorLimit
          BY <1>0, <3>4, <4>1, ElementFits, Zenon DEF Holds
        <5> QED
          BY <5>1, VectorAssumption
      <4>5. b[i * es + k] = v.data[i * es + k]
        BY <3>5, <4>3, <4>4, Zenon
      <4> QED
        BY <1>0, <4>5, Zenon DEF Holds
    <3>10. min # 0
      BY <1>0, <3>1, <3>3
    <3>11. Holds(u, p)
      <4>1. u.elem_size # 0 /\ u.capacity # 0 /\ u.capacity * u.elem_size = n
        BY <1>0, <3>1, <3>8, <3>10, Zenon
      <4>2. u.len = Len(p) /\ u.len <= u.capacity /\ p \in Seq(Elems)
        BY <1>1, <3>4, <3>8 DEF Holds
      <4>3. n <= VectorLimit
        BY <3>3
      <4> QED
        BY <3>6, <3>8, <3>9, <4>1, <4>2, <4>3 DEF Holds
    <3>12. r[1] = u
      BY <2>2, <2>4, <3>7
    <3> QED
      BY <1>0, <3>8, <3>11, <3>12
  <2> QED
    BY <2>3, <2>4
<1>5. (Word - 1) \div es \in Int
  BY <1>0, <1>1
<1> QED
  BY <1>1, <1>2, <1>3, <1>4, <1>5

\* push copies the element into the row after the last one.
LEMMA CopyHolds ==
    ASSUME NEW v, NEW p, Holds(v, p), v.len < v.capacity, NEW e \in Elems
    PROVE  Holds(CopyIn(v, e), Append(p, e))
<1>1. PICK l \in Nat : l = v.len /\ l = Len(p) /\ l < v.capacity
  BY Zenon DEF Holds
<1>2. PICK es \in Nat \ {0} : es = v.elem_size /\ es < Word
  BY <1>1, ElementFits, WordsAssumption DEF Holds
<1>3. PICK c \in Nat \ {0} : c = v.capacity
  BY <1>1 DEF Holds
<1>4. /\ l * v.elem_size \in 0..(Word - 1)
      /\ (l * v.elem_size) % Word = l * v.elem_size
      /\ v.capacity * v.elem_size \in 1..VectorLimit
      /\ l * v.elem_size + v.elem_size <= v.capacity * v.elem_size
  BY <1>1, ElementFits
<1>5. PICK N \in 1..VectorLimit : N = v.capacity * v.elem_size
  BY <1>4
<1>6. PICK at \in Nat : at = l * es /\ at = (v.len * v.elem_size) % Word /\ at + es <= N
  BY <1>1, <1>2, <1>4, <1>5
<1>7. N \in Nat /\ N <= VectorLimit /\ v.data \in [0..(N - 1) -> ElemBytes]
  <2>1. v.data \in [0..(v.capacity * v.elem_size - 1) -> ElemBytes]
    BY <1>3 DEF Holds
  <2>2. N \in Nat /\ N <= VectorLimit
    BY VectorAssumption
  <2> QED
    BY <1>5, <2>1, <2>2
<1>8. PICK b : b = [i \in DOMAIN v.data |->
                       IF i \in at..(at + es - 1) THEN <<e, i - at>> ELSE v.data[i]]
  BY Zenon
<1>9. b \in [0..(N - 1) -> ElemBytes]
  <2>1. ASSUME NEW i \in at..(at + es - 1) PROVE <<e, i - at>> \in ElemBytes
    <3>1. i - at \in 0..(Word - 1)
      BY <1>2, WordsAssumption
    <3> QED
      BY <3>1 DEF ElemBytes
  <2> QED
    BY <1>7, <1>8, <2>1, Zenon
<1>10. PICK u : u = CopyIn(v, e)
  OBVIOUS
<1>11. u = [v EXCEPT !.data = b, !.len = v.len + 1]
  BY <1>2, <1>6, <1>8, <1>10 DEF CopyIn
<1>12. v \in [data : {v.data}, elem_size : 0..(Word - 1), len : Nat, capacity : Nat]
  BY DEF Holds
<1>13. /\ u \in [data : {b}, elem_size : 0..(Word - 1), len : Nat, capacity : Nat]
       /\ u.data = b /\ u.elem_size = es /\ u.len = l + 1 /\ u.capacity = c
  <2>1. PICK w : w = [v EXCEPT !.data = b]
    BY Zenon
  <2>2. /\ w \in [data : {b}, elem_size : 0..(Word - 1), len : Nat, capacity : Nat]
        /\ w.data = b /\ w.elem_size = es /\ w.capacity = c /\ w.len = l
    BY <1>12, <1>1, <1>2, <1>3, <2>1, Zenon
  <2>3. u = [w EXCEPT !.len = l + 1]
    BY <1>1, <1>11, <2>1, Zenon
  <2> QED
    BY <2>2, <2>3
<1>14. PICK q \in Seq(Elems) : /\ q = Append(p, e) /\ Len(q) = l + 1 /\ q[l + 1] = e
                               /\ \A i \in 1..l : q[i] = p[i]
  <2>1. p \in Seq(Elems) /\ Len(p) = l
    BY <1>1, Zenon DEF Holds
  <2>2. /\ Append(p, e) \in Seq(Elems) /\ Len(Append(p, e)) = Len(p) + 1
        /\ \A i \in 1..Len(p) : Append(p, e)[i] = p[i]
        /\ Append(p, e)[Len(p) + 1] = e
    BY <2>1, AppendProperties
  <2> QED
    BY <2>1, <2>2
<1>15. at + es <= N
  BY <1>6
<1>16. ASSUME NEW i \in 0..l, NEW k \in 0..(es - 1) PROVE b[i * es + k] = <<q[i + 1], k>>
  <2>1. CASE i = l
    <3>1. at + k \in 0..(N - 1) /\ at + k \in at..(at + es - 1) /\ (at + k) - at = k
      BY <1>15
    <3>2. b[at + k] = <<e, k>>
      BY <1>7, <1>8, <3>1
    <3> QED
      BY <1>6, <1>14, <2>1, <3>2, Zenon
  <2>2. CASE i # l
    <3>1. i \in Nat /\ i < l /\ i + 1 \in 1..l /\ i \in 0..(l - 1)
      BY <2>2
    <3>2. i * es \in Nat /\ (i * es) + es <= l * es
      BY <1>2, <3>1, RowsApart
    <3>3. PICK x \in Nat : x = i * es /\ x + es <= at
      BY <1>6, <3>2
    <3>4. x + k \in 0..(N - 1) /\ x + k \notin at..(at + es - 1)
      <4>1. x + es <= at
        BY <3>3
      <4> QED
        BY <1>15, <4>1
    <3>5. b[x + k] = v.data[x + k]
      BY <1>7, <1>8, <3>4, Zenon
    <3>6. v.data[i * v.elem_size + k] = <<p[i + 1], k>>
      BY <1>1, <1>2, <3>1, Zenon DEF Holds
    <3> QED
      BY <1>2, <1>14, <3>1, <3>3, <3>5, <3>6, Zenon
  <2> QED
    BY <2>1, <2>2
<1>17. (l + 1) - 1 = l /\ l + 1 <= c /\ c # 0 /\ c * es = N /\ es # 0
  BY <1>1, <1>2, <1>3, <1>5
<1>18. Holds(u, q)
  BY <1>7, <1>9, <1>13, <1>14, <1>16, <1>17 DEF Holds
<1> QED
  BY <1>10, <1>14, <1>18

\* Fewer elements of a vector that holds them are still held.
LEMMA FewerHeld ==
    ASSUME NEW v, NEW p, Holds(v, p), NEW n \in 0..v.len
    PROVE  Holds([v EXCEPT !.len = n], SubSeq(p, 1, n))
<1>1. PICK l \in Nat : l = v.len /\ l = Len(p) /\ n \in 0..l
  BY DEF Holds
<1>2. PICK q \in Seq(Elems) : /\ q = SubSeq(p, 1, n) /\ Len(q) = n
                              /\ \A i \in 1..n : q[i] = p[i]
  <2>1. \A i \in 1..n : p[i] \in Elems
    BY <1>1, ElementOfSeq DEF Holds
  <2>2. p \in Seq(Elems) /\ 1 <= n + 1 /\ n <= Len(p)
    BY <1>1 DEF Holds
  <2>3. n \in Int /\ \A i \in 1..n : p[i] \in Elems
    BY <1>1, <2>1
  <2>4. PICK q : q = SubSeq(p, 1, n)
    OBVIOUS
  <2>5. q \in Seq(Elems) /\ Len(q) = n
    BY <1>1, <2>2, <2>3, <2>4, SubSeqProperties
  <2>6. \A i \in 1..n : q[i] = p[i]
    BY <1>1, <2>2, <2>3, <2>4, SubSeqProperties
  <2> QED
    BY <2>4, <2>5, <2>6, Zenon
<1>3. PICK u : u = [v EXCEPT !.len = n]
  OBVIOUS
<1>4. /\ u \in [data : {v.data}, elem_size : 0..(Word - 1), len : Nat, capacity : Nat]
      /\ u.data = v.data /\ u.elem_size = v.elem_size /\ u.len = n /\ u.capacity = v.capacity
  BY <1>1, <1>3 DEF Holds
<1>5. ASSUME NEW i \in 0..(n - 1), NEW k \in 0..(v.elem_size - 1)
      PROVE  v.data[i * v.elem_size + k] = <<q[i + 1], k>>
  <2>1. i \in 0..(v.len - 1) /\ i + 1 \in 1..n
    BY <1>1
  <2> QED
    BY <1>2, <2>1, Zenon DEF Holds
<1>6. n <= v.capacity
  BY <1>1 DEF Holds
<1>7. Holds(u, q)
  BY <1>2, <1>4, <1>5, <1>6 DEF Holds
<1> QED
  BY <1>2, <1>3, <1>7

\* A vector without storage holds nothing, whatever its element size.
LEMMA NothingHeld ==
    ASSUME NEW s \in 0..(Word - 1)
    PROVE  Holds([Zeroed EXCEPT !.elem_size = s], <<>>)
<1>1. PICK u : u = [Zeroed EXCEPT !.elem_size = s]
  BY Zenon
<1>2. /\ u \in [data : {Null}, elem_size : 0..(Word - 1), len : Nat, capacity : Nat]
      /\ u.data = Null /\ u.elem_size = s /\ u.len = 0 /\ u.capacity = 0
  BY <1>1 DEF Zeroed
<1>3. 0 * s = 0 /\ 0 <= VectorLimit
  BY VectorAssumption
<1>4. Holds(u, <<>>)
  BY <1>2, <1>3 DEF Holds
<1> QED
  BY <1>1, <1>4, Zenon

\* A vector whose block is full grows to a capacity that is larger and that has
\* not wrapped.
LEMMA GrowGrows ==
    ASSUME NEW v, NEW p, Holds(v, p)
    PROVE  Grow(v) \in Nat /\ Grow(v) > v.capacity
<1>1. Word \in Nat \ {0} /\ VectorLimit \in Nat /\ 2 * VectorLimit < Word
  BY VectorAssumption, WordsAssumption
<1>2. CASE v.capacity = 0
  <2>1. Grow(v) = VectorMinCapacity % Word
    BY <1>2 DEF Grow
  <2>2. VectorMinCapacity \in 0..(Word - 1) /\ VectorMinCapacity > 0
    BY <1>1, VectorAssumption
  <2> QED
    BY <1>1, <1>2, <2>1, <2>2, SmallRemainder
<1>3. CASE v.capacity # 0
  <2>1. PICK c \in Nat \ {0} : c = v.capacity
    BY <1>3 DEF Holds
  <2>2. PICK es \in Nat \ {0} : es = v.elem_size
    BY <1>3 DEF Holds
  <2>3. c <= c * es
    BY <2>1, <2>2
  <2>4. c <= VectorLimit
    BY <1>1, <2>1, <2>2, <2>3 DEF Holds
  <2>5. c * 2 \in 0..(Word - 1)
    BY <1>1, <2>1, <2>4
  <2>6. (c * 2) % Word = c * 2
    BY <1>1, <2>5, SmallRemainder
  <2> QED
    BY <1>3, <2>1, <2>6 DEF Grow
<1> QED
  BY <1>2, <1>3

\* The vector holds exactly the elements pushed and not popped, whole and in order,
\* for every element size and width of size_t, whichever calls failed.
THEOREM VectorKeepsItsElements == VectorSpec => []VectorIsSequence
<1>0. 0 \in 0..(Word - 1) /\ Word \in Nat \ {0}
  BY WordsAssumption
<1>1. VectorStart => Holds(vec, pushed)
  <2> SUFFICES ASSUME VectorStart PROVE Holds(vec, pushed)
    OBVIOUS
  <2>1. Zeroed = [Zeroed EXCEPT !.elem_size = 0]
    BY DEF Zeroed
  <2> QED
    BY <1>0, <2>1, NothingHeld, Zenon DEF VectorStart
<1>2. Holds(vec, pushed) /\ [VectorNext]_vectorVars => Holds(vec, pushed)'
  <2> SUFFICES ASSUME Holds(vec, pushed), [VectorNext]_vectorVars PROVE Holds(vec', pushed')
    BY Zenon DEF Holds
  <2>1. ASSUME NEW s \in ElemSizes, NEW n \in Wanted, VectorInit(s, n) PROVE Holds(vec', pushed')
    <3>1. PICK u : u = [Zeroed EXCEPT !.elem_size = s]
      BY Zenon
    <3>2. PICK r \in Reserve(u, n) : vec' = r[1] /\ pushed' = pushed
      BY <2>1, <3>1 DEF VectorInit
    <3>3. vec.capacity = 0 /\ vec.len = 0
      <4>1. vec.capacity \in Nat /\ vec.len \in Nat
        BY DEF Holds
      <4>2. vec.capacity = 0
        <5> SUFFICES ASSUME vec.capacity # 0 PROVE FALSE
          BY Zenon
        <5>1. 0 \in Nat /\ 0 < vec.capacity
          BY <4>1
        <5>2. vec.capacity * vec.elem_size \in 1..VectorLimit
          BY <5>1, ElementFits
        <5>3. Null \in [0..(vec.capacity * vec.elem_size - 1) -> ElemBytes]
          BY <2>1 DEF VectorInit, Holds
        <5> QED
          BY <5>2, <5>3, VectorAssumption
      <4> QED
        BY <4>1, <4>2 DEF Holds
    <3>4. pushed = <<>>
      BY <3>3, EmptySeq, Zenon DEF Holds
    <3>5. s \in 0..(Word - 1) /\ s # 0 /\ u.elem_size = s /\ n \in Nat
      BY <3>1, VectorAssumption DEF Zeroed
    <3>6. Holds(u, pushed)
      BY <3>1, <3>4, <3>5, NothingHeld
    <3> QED
      BY <3>2, <3>5, <3>6, ReserveHolds, Zenon
  <2>2. ASSUME NEW n \in Wanted, VectorReserve(n) PROVE Holds(vec', pushed')
    <3>1. PICK r \in Reserve(vec, n) : vec' = r[1] /\ pushed' = pushed
      BY <2>2 DEF VectorReserve
    <3>2. vec.elem_size # 0 /\ n \in Nat
      BY <2>2, VectorAssumption DEF VectorReserve
    <3> QED
      BY <3>1, <3>2, ReserveHolds
  <2>3. ASSUME NEW e \in Elems, VectorPush(e) PROVE Holds(vec', pushed')
    <3>1. PICK r \in IF vec.len = vec.capacity THEN Reserve(vec, Grow(vec)) ELSE {<<vec, "ok">>} :
              IF r[2] = "ok" THEN vec' = CopyIn(r[1], e) /\ pushed' = Append(pushed, e)
              ELSE vec' = r[1] /\ UNCHANGED pushed
      BY <2>3, Zenon DEF VectorPush
    <3>2. vec.len \in Nat /\ vec.capacity \in Nat /\ vec.len <= vec.capacity /\ vec.elem_size # 0
      BY <2>3, Zenon DEF Holds, VectorPush
    <3>3. Holds(r[1], pushed) /\ (r[2] = "ok" => r[1].len < r[1].capacity)
      <4>1. CASE vec.len = vec.capacity
        <5>1. r \in Reserve(vec, Grow(vec)) /\ Grow(vec) \in Nat /\ Grow(vec) > vec.capacity
          BY <3>1, <4>1, GrowGrows, Zenon
        <5>2. /\ Holds(r[1], pushed) /\ r[1].len = vec.len
              /\ r[2] = "ok" => r[1].capacity >= Grow(vec)
          BY <3>2, <5>1, ReserveHolds, Zenon
        <5>3. r[1].capacity \in Nat
          BY <5>2, Zenon DEF Holds
        <5> QED
          BY <3>2, <4>1, <5>1, <5>2, <5>3
      <4>2. CASE vec.len # vec.capacity
        BY <3>1, <3>2, <4>2
      <4> QED
        BY <4>1, <4>2, Zenon
    <3> QED
      BY <3>1, <3>3, CopyHolds, Zenon
  <2>4. CASE VectorPop
    <3>1. PICK l \in Nat : l = vec.len /\ l = Len(pushed)
      BY Zenon DEF Holds
    <3>2. CASE l = 0
      BY <2>4, <3>1, <3>2 DEF VectorPop
    <3>3. CASE l # 0
      <4>1. vec' = [vec EXCEPT !.len = l - 1] /\ pushed' = SubSeq(pushed, 1, l - 1)
        BY <2>4, <3>1, <3>3 DEF VectorPop
      <4>2. l - 1 \in 0..vec.len
        BY <3>1, <3>3
      <4> QED
        BY <4>1, <4>2, FewerHeld
    <3> QED
      BY <3>2, <3>3
  <2>5. CASE VectorClear
    <3>1. 0 \in 0..vec.len /\ pushed \in Seq(Elems)
      BY DEF Holds
    <3>2. Holds([vec EXCEPT !.len = 0], SubSeq(pushed, 1, 0))
      BY <3>1, FewerHeld
    <3>3. SubSeq(pushed, 1, 0) = <<>>
      BY <3>1
    <3> QED
      BY <2>5, <3>2, <3>3 DEF VectorClear
  <2>6. CASE VectorDestroy
    BY <2>6, NothingHeld DEF VectorDestroy, Holds
  <2>7. CASE UNCHANGED vectorVars
    BY <2>7 DEF vectorVars
  <2> QED
    BY <2>1, <2>2, <2>3, <2>4, <2>5, <2>6, <2>7 DEF VectorNext
<1>3. Holds(vec, pushed) => VectorIsSequence
  <2> SUFFICES ASSUME Holds(vec, pushed) PROVE VectorIsSequence
    OBVIOUS
  <2>1. vec.capacity \in Nat /\ vec.len \in Nat /\ vec.len = Len(pushed) /\ vec.len <= vec.capacity
    BY DEF Holds
  <2>2. CASE vec.capacity = 0
    <3>1. 0..(vec.len - 1) = {} /\ vec.data = Null
      BY <2>1, <2>2 DEF Holds
    <3> QED
      BY <2>1, <2>2, <3>1 DEF VectorIsSequence
  <2>3. CASE vec.capacity # 0
    <3>1. 0 \in Nat /\ 0 < vec.capacity
      BY <2>1, <2>3
    <3>2. vec.capacity * vec.elem_size \in 1..VectorLimit
      BY <3>1, ElementFits
    <3>3. vec.data \in [0..(vec.capacity * vec.elem_size - 1) -> ElemBytes]
      BY <2>3 DEF Holds
    <3>4. vec.data # Null
      BY <3>2, <3>3, VectorAssumption
    <3>5. ASSUME NEW i \in 0..(vec.len - 1)
          PROVE  ElementAt(i) = [k \in 0..(vec.elem_size - 1) |-> <<pushed[i + 1], k>>]
      <4>1. i \in Nat /\ i < vec.capacity
        BY <2>1
      <4>2. (i * vec.elem_size) % Word = i * vec.elem_size
        BY <4>1, ElementFits
      <4>3. \A k \in 0..(vec.elem_size - 1) : vec.data[i * vec.elem_size + k] = <<pushed[i + 1], k>>
        BY DEF Holds
      <4> QED
        BY <4>2, <4>3 DEF ElementAt
    <3> QED
      BY <2>1, <2>3, <3>3, <3>4, <3>5, Zenon DEF VectorIsSequence
  <2> QED
    BY <2>2, <2>3
<1> QED
  BY <1>1, <1>2, <1>3, PTL DEF VectorSpec

-----------------------------------------------------------------------------
(* The string builder *)

\* The block of b begins with the characters t, with room for a NUL after them.
Kept(b, t) ==
    /\ b \in [data : {b.data}, len : Nat, capacity : 0..SbLimit]
    /\ t \in Seq(Chars) /\ b.len = Len(t)
    /\ IF b.data = Null THEN b.len = 0 /\ b.capacity = 0
       ELSE b.len < b.capacity /\ b.data \in [0..(b.capacity - 1) -> SbBytes]
    /\ \A i \in 0..(b.len - 1) : b.data[i] = t[i + 1]

\* The NUL is there.
Terminated(b, t) == Kept(b, t) /\ (b.data # Null => b.data[b.len] = Nul)

\* The doublings reach the size needed, whatever the capacity they start from.
LEMMA DoublingsSuffice ==
    ASSUME NEW from \in 0..SbLimit, NEW needed \in 0..(Word - 1)
    PROVE  NewCap(from, needed) \in Nat /\ NewCap(from, needed) >= needed
<1>1. Word \in Nat /\ SbMinCapacity \in Nat \ {0} /\ needed < Word /\ needed \in Nat
  BY WordsAssumption, StringBuilderAssumption
<1>2. PICK first \in Nat \ {0} : first = IF from = 0 THEN SbMinCapacity ELSE from
  BY <1>1, StringBuilderAssumption
<1>3. PICK half \in Int : half = (Word - 1) \div 2
  BY <1>1
<1> DEFINE Larger(c) == IF c >= needed THEN c ELSE IF c > (Word - 1) \div 2 THEN needed ELSE c * 2
           Doubles(f) == [k \in 0..Word |-> IF k = 0 THEN first ELSE Larger(f[k - 1])]
           g == CHOOSE f : f = Doubles(f)
           Grows(f, n) == f[0] = first /\ \A k \in 1..n : f[k] = Larger(f[k - 1])
<1>4. NewCap(from, needed) = g[Word]
  BY <1>2 DEF NewCap
<1>5. ASSUME NEW c \in Nat \ {0}
      PROVE  /\ Larger(c) \in Nat \ {0} /\ (Larger(c) >= needed \/ Larger(c) >= c + 1)
             /\ c >= needed => Larger(c) >= needed
  <2>1. Larger(c) = IF c >= needed THEN c ELSE IF c > half THEN needed ELSE c * 2
    BY <1>3
  <2> HIDE DEF Larger
  <2> QED
    BY <1>1, <2>1
<1>6. \A n \in Nat : \E f \in [0..n -> Nat \ {0}] : Grows(f, n)
  <2> DEFINE Grown(n) == \E f \in [0..n -> Nat \ {0}] : Grows(f, n)
             D == {n \in Nat : ~Grown(n)}
  <2>1. SUFFICES ASSUME D # {} PROVE FALSE
    BY Zenon
  <2>2. PICK n \in D : \A j \in D : n <= j
    <3>1. D \in SUBSET Nat
      OBVIOUS
    <3> HIDE DEF D
    <3> QED
      BY <2>1, <3>1, Least
  <2>3. CASE n = 0
    <3>1. PICK f : f = [k \in 0..0 |-> first]
      BY Zenon
    <3>2. f \in [0..0 -> Nat \ {0}] /\ f[0] = first /\ 1..0 = {}
      BY <3>1
    <3>3. Grows(f, 0)
      <4> HIDE DEF Larger
      <4> QED
        BY <3>2
    <3> HIDE DEF Grows
    <3>4. Grown(0)
      BY <3>2, <3>3
    <3> HIDE DEF Grown
    <3> QED
      BY <2>2, <2>3, <3>4
  <2>4. CASE n # 0
    <3>1. n - 1 \in Nat /\ Grown(n - 1)
      <4> HIDE DEF Grown
      <4> QED
        BY <2>2, <2>4
    <3>2. PICK f \in [0..(n - 1) -> Nat \ {0}] : Grows(f, n - 1)
      BY <3>1, Zenon
    <3>3. PICK h : h = [k \in 0..n |-> IF k = n THEN Larger(f[n - 1]) ELSE f[k]]
      BY Zenon
    <3>4. f[n - 1] \in Nat \ {0} /\ Larger(f[n - 1]) \in Nat \ {0}
      BY <1>5, <3>1
    <3>5. h \in [0..n -> Nat \ {0}]
      <4> HIDE DEF Larger
      <4> QED
        BY <3>3, <3>4
    <3>6. Grows(h, n)
      <4> HIDE DEF Larger
      <4>1. h[0] = first
        BY <2>4, <3>2, <3>3
      <4>2. ASSUME NEW k \in 1..n PROVE h[k] = Larger(h[k - 1])
        <5>1. CASE k = n
          BY <3>3, <5>1
        <5>2. CASE k # n
          <6>1. k \in 1..(n - 1) /\ k - 1 \in 0..n /\ k - 1 # n
            BY <5>2
          <6> QED
            BY <3>2, <3>3, <5>2, <6>1
        <5> QED
          BY <5>1, <5>2
      <4> QED
        BY <4>1, <4>2
    <3> HIDE DEF Grows
    <3>7. Grown(n)
      BY <3>5, <3>6, Zenon
    <3> HIDE DEF Grown
    <3> QED
      BY <2>2, <3>7
  <2> QED
    BY <2>3, <2>4
<1>7. g = Doubles(g)
  <2>1. PICK f \in [0..Word -> Nat \ {0}] : Grows(f, Word)
    BY <1>1, <1>6, Zenon
  <2>2. f = Doubles(f)
    <3> HIDE DEF Larger
    <3>1. ASSUME NEW k \in 0..Word PROVE f[k] = Doubles(f)[k]
      <4>1. CASE k = 0
        BY <2>1, <4>1
      <4>2. CASE k # 0
        <5>1. k \in 1..Word
          BY <4>2
        <5> QED
          BY <2>1, <4>2, <5>1
      <4> QED
        BY <4>1, <4>2
    <3> QED
      BY <3>1
  <2> QED
    BY <2>2, Zenon
<1> HIDE DEF g, Larger
<1>8. \A k \in 0..Word : g[k] \in Nat \ {0} /\ (g[k] >= needed \/ g[k] >= first + k)
  <2> DEFINE Big(k) == g[k] \in Nat \ {0} /\ (g[k] >= needed \/ g[k] >= first + k)
             D == {k \in 0..Word : ~Big(k)}
  <2>1. SUFFICES ASSUME D # {} PROVE FALSE
    OBVIOUS
  <2>2. PICK k \in D : \A j \in D : k <= j
    <3>1. D \in SUBSET Nat
      OBVIOUS
    <3> HIDE DEF D
    <3> QED
      BY <2>1, <3>1, Least
  <2>3. CASE k = 0
    <3>1. g[0] = first
      BY <1>1, <1>7
    <3> QED
      BY <1>1, <1>2, <2>3, <3>1
  <2>4. CASE k # 0
    <3>1. k \in 1..Word /\ k - 1 \in 0..Word /\ k - 1 \notin D
      BY <1>1, <2>2, <2>4
    <3>2. PICK c \in Nat \ {0} : c = g[k - 1] /\ (c >= needed \/ c >= first + (k - 1))
      BY <3>1
    <3>3. g[k] = Larger(c)
      BY <1>7, <3>1, <3>2
    <3>4. PICK d \in Nat \ {0} : d = g[k] /\ (c >= needed => d >= needed) /\ (d >= needed \/ d >= c + 1)
      BY <1>5, <3>3
    <3>5. d >= needed \/ d >= first + k
      BY <1>1, <1>2, <3>1, <3>2, <3>4
    <3> QED
      BY <3>4, <3>5
  <2> QED
    BY <2>3, <2>4
<1> QED
  <2>1. PICK n \in Nat : n = g[Word] /\ (n >= needed \/ n >= first + Word)
    BY <1>1, <1>8
  <2> QED
    BY <1>1, <1>4, <2>1

\* sb_ensure loses nothing, whether it succeeds or fails, and makes room when it
\* answers ok.
LEMMA EnsureKeeps ==
    ASSUME NEW b, NEW t, Kept(b, t), NEW needed \in 0..(Word - 1), NEW r \in Ensure(b, needed)
    PROVE  /\ Kept(r[1], t) /\ r[1].len = b.len
           /\ r[2] # "ok" => r[1] = b
           /\ r[2] = "ok" => needed <= r[1].capacity
           /\ b.data # Null => r[1].data # Null /\ r[1].data[b.len] = b.data[b.len]
<1>1. PICK l \in Nat, c \in 0..SbLimit : l = b.len /\ c = b.capacity
  BY Zenon DEF Kept
<1>2. CASE needed <= c
  <2>1. r = <<b, "ok">>
    BY <1>1, <1>2, Zenon DEF Ensure
  <2> QED
    BY <1>1, <1>2, <2>1
<1>3. CASE ~(needed <= c)
  <2>1. PICK n \in Nat : n = NewCap(c, needed) /\ n >= needed
    BY DoublingsSuffice, Zenon
  <2>2. PICK p \in Realloc(b.data, n, 1, SbLimit) :
            r = IF p = Null THEN <<b, "oom">>
                ELSE <<[b EXCEPT !.data = p, !.capacity = n], "ok">>
    BY <1>1, <1>3, <2>1, Zenon DEF Ensure
  <2>3. CASE p = Null
    BY <2>2, <2>3
  <2>4. CASE p # Null
    <3>1. n \in 1..SbLimit /\ p = Resized(b.data, n)
      BY <2>2, <2>4 DEF Realloc
    <3>2. p = [i \in 0..(n - 1) |-> IF b.data # Null /\ i \in DOMAIN b.data THEN b.data[i] ELSE Junk]
      BY <3>1, Zenon DEF Resized
    <3>3. b.data # Null => l < c /\ b.data \in [0..(c - 1) -> SbBytes]
      BY <1>1, Zenon DEF Kept
    <3>4. c < n /\ needed <= n /\ l < n
      <4>1. c < n /\ needed <= n
        BY <1>3, <2>1
      <4>2. b.data = Null => l = 0
        BY <1>1 DEF Kept
      <4> QED
        BY <3>3, <4>1, <4>2
    <3>5. p \in [0..(n - 1) -> SbBytes]
      BY <3>2, <3>3, Zenon DEF SbBytes
    <3>6. ASSUME NEW i \in 0..(c - 1), b.data # Null PROVE p[i] = b.data[i]
      BY <3>2, <3>3, <3>4, <3>6
    <3>7. PICK u : u = [b EXCEPT !.data = p, !.capacity = n]
      OBVIOUS
    <3>8. /\ u \in [data : {p}, len : Nat, capacity : 0..SbLimit]
          /\ u.data = p /\ u.len = l /\ u.capacity = n
      <4>1. b \in [data : {b.data}, len : Nat, capacity : 0..SbLimit]
        BY DEF Kept
      <4>2. PICK w : w = [b EXCEPT !.data = p]
        BY Zenon
      <4>3. /\ w \in [data : {p}, len : Nat, capacity : 0..SbLimit]
            /\ w.data = p /\ w.len = l
        BY <1>1, <4>1, <4>2
      <4>4. u = [w EXCEPT !.capacity = n] /\ n \in 0..SbLimit
        BY <3>1, <3>7, <4>2
      <4> QED
        BY <4>3, <4>4
    <3>9. ASSUME NEW i \in 0..(l - 1) PROVE p[i] = t[i + 1]
      <4>1. b.data # Null /\ b.data[i] = t[i + 1]
        BY <1>1 DEF Kept
      <4>2. i \in 0..(c - 1)
        BY <3>3, <4>1
      <4> QED
        BY <3>6, <4>1, <4>2
    <3>10. Kept(u, t)
      <4>1. t \in Seq(Chars) /\ l = Len(t)
        BY <1>1 DEF Kept
      <4> QED
        BY <2>4, <3>4, <3>5, <3>8, <3>9, <4>1, Zenon DEF Kept
    <3>11. b.data # Null => p[l] = b.data[l]
      BY <3>3, <3>6
    <3>12. r[1] = u /\ r[2] = "ok"
      BY <2>2, <2>4, <3>7
    <3> QED
      BY <1>1, <2>4, <3>4, <3>8, <3>10, <3>11, <3>12, Zenon
  <2> QED
    BY <2>3, <2>4
<1> QED
  BY <1>2, <1>3

\* Where there is room for them, characters written after the text extend it, and
\* a NUL follows.
LEMMA WrittenTerminates ==
    ASSUME NEW b, NEW t, Kept(b, t), NEW s \in Seq(Chars), b.len + Len(s) < b.capacity
    PROVE  Terminated(Written(b, s), t \o s)
<1>1. PICK l \in Nat, c \in 0..SbLimit : l = b.len /\ c = b.capacity /\ l = Len(t)
  BY DEF Kept
<1>2. PICK m \in Nat : m = Len(s) /\ l + m < c
  BY <1>1
<1>3. b.data # Null /\ b.data \in [0..(c - 1) -> SbBytes] /\ t \in Seq(Chars)
  BY <1>1, <1>2 DEF Kept
<1>4. PICK p : p = [i \in 0..(c - 1) |-> IF i \in l..(l + m - 1) THEN s[i - l + 1]
                                         ELSE IF i = l + m THEN Nul ELSE b.data[i]]
  BY Zenon
<1>5. ASSUME NEW i \in l..(l + m - 1) PROVE s[i - l + 1] \in Chars
  <2>1. i - l + 1 \in 1..Len(s)
    BY <1>2
  <2> QED
    BY <2>1, ElementOfSeq, Zenon
<1>6. p \in [0..(c - 1) -> SbBytes]
  BY <1>3, <1>4, <1>5, Zenon DEF SbBytes
<1>7. PICK u : u = Written(b, s)
  OBVIOUS
<1>8. /\ u \in [data : {p}, len : Nat, capacity : 0..SbLimit]
      /\ u.data = p /\ u.len = l + m /\ u.capacity = c
  <2>1. b \in [data : {b.data}, len : Nat, capacity : 0..SbLimit]
    BY DEF Kept
  <2>2. PICK w : w = [b EXCEPT !.data = p]
    BY Zenon
  <2>3. /\ w \in [data : {p}, len : Nat, capacity : 0..SbLimit]
        /\ w.data = p /\ w.len = l /\ w.capacity = c
    BY <1>1, <2>1, <2>2
  <2>4. u = [b EXCEPT !.data = p, !.len = l + m]
    <3>1. p = [i \in DOMAIN b.data |->
                  IF i \in b.len..((b.len + Len(s)) - 1) THEN s[i - b.len + 1]
                  ELSE IF i = b.len + Len(s) THEN Nul ELSE b.data[i]]
      BY <1>1, <1>2, <1>3, <1>4
    <3> QED
      BY <1>1, <1>2, <1>7, <3>1, Zenon DEF Written
  <2>5. u = [w EXCEPT !.len = l + m]
    BY <2>2, <2>4, Zenon
  <2> QED
    BY <2>3, <2>5
<1>9. PICK q \in Seq(Chars) :
          /\ q = t \o s /\ Len(q) = l + m
          /\ \A i \in 1..(l + m) : q[i] = IF i <= l THEN t[i] ELSE s[i - l]
  <2>1. /\ t \o s \in Seq(Chars) /\ Len(t \o s) = Len(t) + Len(s)
        /\ \A i \in 1..(Len(t) + Len(s)) :
               (t \o s)[i] = IF i <= Len(t) THEN t[i] ELSE s[i - Len(t)]
    BY <1>3, ConcatProperties, Zenon
  <2> QED
    BY <1>1, <1>2, <2>1, Zenon
<1>10. ASSUME NEW i \in 0..(l + m - 1) PROVE p[i] = q[i + 1]
  <2>1. i \in 0..(c - 1) /\ i # l + m /\ i + 1 \in 1..(l + m)
    BY <1>2
  <2>2. CASE i < l
    <3>1. p[i] = b.data[i] /\ q[i + 1] = t[i + 1]
      BY <1>4, <1>9, <2>1, <2>2
    <3>2. b.data[i] = t[i + 1]
      BY <1>1, <2>2 DEF Kept
    <3> QED
      BY <3>1, <3>2
  <2>3. CASE ~(i < l)
    <3>1. i \in l..(l + m - 1) /\ ~(i + 1 <= l) /\ (i + 1) - l = i - l + 1
      BY <2>3
    <3>2. p[i] = s[i - l + 1] /\ q[i + 1] = s[(i + 1) - l]
      BY <1>4, <1>9, <2>1, <3>1, Zenon
    <3> QED
      BY <3>1, <3>2, Zenon
  <2> QED
    BY <2>2, <2>3, Zenon
<1>11. p[l + m] = Nul
  BY <1>2, <1>4
<1>12. p # Null
  <2>1. c \in 1..SbLimit
    BY <1>2
  <2> QED
    BY <1>6, <2>1, StringBuilderAssumption
<1>13. Kept(u, q)
  <2>1. l + m < c
    BY <1>2, Zenon
  <2>2. Len(q) = l + m
    BY <1>9
  <2> QED
    BY <1>6, <1>8, <1>10, <1>12, <2>1, <2>2 DEF Kept
<1>14. Terminated(u, q)
  BY <1>8, <1>11, <1>13, Zenon DEF Terminated
<1> QED
  BY <1>7, <1>9, <1>14

\* sb_init and d4np_sb_reserve leave a terminated string, the same text.
LEMMA RoomKeepsText ==
    ASSUME Terminated(sb, text), NEW n \in Hints, SbInit(n) \/ SbReserve(n)
    PROVE  Terminated(sb', text')
<1>1. Kept(sb, text) /\ n \in 0..(Word - 1) /\ text \in Seq(Chars) /\ text' = text
  BY StringBuilderAssumption, Zenon DEF Terminated, Kept, SbInit, SbReserve
<1>2. <<>> \in Seq(Chars) /\ Len(<<>>) = 0 /\ text \o <<>> = text
  BY <1>1, EmptySeq, ConcatEmptySeq
<1>3. ASSUME NEW b, Kept(b, text), b.len = 0, b.capacity # 0 PROVE Terminated(Written(b, <<>>), text)
  <2>1. b.len + Len(<<>>) < b.capacity
    <3>1. b.capacity \in Nat \ {0}
      BY <1>3 DEF Kept
    <3> QED
      BY <1>2, <1>3, <3>1
  <2>2. Terminated(Written(b, <<>>), text \o <<>>)
    BY <1>2, <1>3, <2>1, WrittenTerminates, Zenon
  <2> QED
    BY <1>2, <2>2
<1>4. CASE SbInit(n)
  <2>1. sb = EmptyBuilder /\ sb.len = 0 /\ sb.data = Null
    BY <1>4 DEF SbInit, EmptyBuilder
  <2>2. PICK r \in Ensure(sb, n) :
            sb' = IF n > 0 /\ r[2] = "ok" THEN Written(r[1], <<>>) ELSE r[1]
    BY <1>4, <2>1, Zenon DEF SbInit
  <2>3. /\ Kept(r[1], text) /\ r[1].len = 0
        /\ r[2] # "ok" => r[1] = sb
        /\ r[2] = "ok" => n <= r[1].capacity
    <3>1. Kept(sb, text) /\ n \in 0..(Word - 1) /\ r \in Ensure(sb, n)
      BY <1>1
    <3>2. /\ Kept(r[1], text) /\ r[1].len = sb.len
          /\ r[2] # "ok" => r[1] = sb
          /\ r[2] = "ok" => n <= r[1].capacity
      BY <3>1, EnsureKeeps
    <3> QED
      BY <2>1, <3>2, Zenon
  <2>4. CASE r[2] # "ok"
    BY <1>1, <2>2, <2>3, <2>4, Zenon
  <2>5. CASE r[2] = "ok" /\ n > 0
    <3>1. r[1].capacity # 0
      BY <1>1, <2>3, <2>5
    <3> QED
      BY <1>1, <1>3, <2>2, <2>3, <2>5, <3>1, Zenon
  <2>6. CASE r[2] = "ok" /\ ~(n > 0)
    <3>1. n = 0 /\ sb.capacity = 0
      BY <1>1, <2>1, <2>6 DEF EmptyBuilder
    <3>2. r = <<sb, "ok">>
      BY <3>1 DEF Ensure
    <3> QED
      BY <1>1, <2>2, <2>6, <3>2
  <2> QED
    BY <2>4, <2>5, <2>6
<1>5. CASE SbReserve(n)
  <2>1. PICK r \in Ensure(sb, n) :
            sb' = IF r[2] = "ok" /\ r[1].data # Null /\ r[1].len = 0
                  THEN Written(r[1], <<>>) ELSE r[1]
    BY <1>5, Zenon DEF SbReserve
  <2>2. /\ Kept(r[1], text) /\ r[1].len = sb.len
        /\ r[2] # "ok" => r[1] = sb
        /\ sb.data # Null => r[1].data # Null /\ r[1].data[sb.len] = sb.data[sb.len]
    <3>1. Kept(sb, text) /\ n \in 0..(Word - 1) /\ r \in Ensure(sb, n)
      BY <1>1, Zenon
    <3> QED
      BY <3>1, EnsureKeeps
  <2>3. CASE r[2] # "ok"
    BY <1>1, <2>1, <2>2, <2>3, Zenon
  <2>4. CASE r[2] = "ok" /\ r[1].data # Null /\ r[1].len = 0
    <3>1. r[1].capacity # 0
      BY <2>2, <2>4 DEF Kept
    <3> QED
      BY <1>1, <1>3, <2>1, <2>2, <2>4, <3>1, Zenon
  <2>5. CASE r[2] = "ok" /\ ~(r[1].data # Null /\ r[1].len = 0)
    <3>1. sb' = r[1]
      BY <2>1, <2>5, Zenon
    <3>2. CASE r[1].data = Null
      BY <1>1, <2>2, <3>1, <3>2, Zenon DEF Terminated
    <3>3. CASE r[1].data # Null
      <4>1. sb.len # 0
        BY <2>2, <2>5, <3>3, Zenon
      <4>2. sb.data # Null /\ sb.data[sb.len] = Nul
        BY <1>1, <4>1 DEF Terminated, Kept
      <4> QED
        BY <1>1, <2>2, <3>1, <4>2, Zenon DEF Terminated
    <3> QED
      BY <3>2, <3>3, Zenon
  <2> QED
    BY <2>3, <2>4, <2>5, Zenon
<1> QED
  BY <1>4, <1>5

\* An append makes room for the text, the new characters and the NUL, though the
\* sum wraps, or changes nothing.
LEMMA AppendKeepsText ==
    ASSUME Terminated(sb, text), NEW s \in Seq(Chars), NEW needed \in 0..(Word - 1),
           needed = sb.len + Len(s) + 1, AppendWith(needed, s)
    PROVE  Terminated(sb', text')
<1>1. Kept(sb, text)
  BY DEF Terminated
<1>2. PICK r \in Ensure(sb, needed) :
          IF r[2] = "ok" THEN sb' = Written(r[1], s) /\ text' = text \o s
          ELSE sb' = r[1] /\ text' = text
  BY Zenon DEF AppendWith
<1>3. /\ Kept(r[1], text) /\ r[1].len = sb.len
      /\ r[2] # "ok" => r[1] = sb
      /\ r[2] = "ok" => needed <= r[1].capacity
  BY <1>1, EnsureKeeps
<1>4. CASE r[2] # "ok"
  BY <1>2, <1>3, <1>4, Zenon
<1>5. CASE r[2] = "ok"
  <2>1. r[1].len + Len(s) < r[1].capacity
    <3>1. sb.len \in Nat /\ Len(s) \in Nat /\ r[1].capacity \in Nat
      BY <1>1, <1>3 DEF Kept
    <3> QED
      BY <1>3, <1>5, <3>1
  <2>2. Terminated(Written(r[1], s), text \o s)
    BY <1>3, <2>1, WrittenTerminates, Zenon
  <2> QED
    BY <1>2, <1>5, <2>2, Zenon
<1> QED
  BY <1>4, <1>5, Zenon

\* Reading a terminated block up to its first NUL gives the text.
LEMMA ReadsTheText ==
    ASSUME Terminated(sb, text)
    PROVE  AlwaysTerminated
<1>1. PICK l \in Nat : l = sb.len /\ l = Len(text)
  BY Zenon DEF Terminated, Kept
<1>2. text \in Seq(Chars) /\ text \in [1..l -> Chars]
  BY <1>1, LenProperties DEF Terminated, Kept
<1>3. CASE sb.data = Null
  <2>1. text = <<>> /\ sb.capacity = 0 /\ l = 0
    BY <1>1, <1>2, <1>3, EmptySeq DEF Terminated, Kept
  <2> QED
    BY <1>1, <1>3, <2>1, Zenon DEF AlwaysTerminated, CStr
<1>4. CASE sb.data # Null
  <2>1. PICK c \in Nat : /\ c = sb.capacity /\ l < c
                         /\ sb.data \in [0..(c - 1) -> SbBytes] /\ sb.data[l] = Nul
    BY <1>1, <1>4, StringBuilderAssumption DEF Terminated, Kept
  <2>2. ASSUME NEW i \in 0..(l - 1) PROVE sb.data[i] = text[i + 1] /\ sb.data[i] # Nul
    <3>1. sb.data[i] = text[i + 1]
      BY <1>1 DEF Terminated, Kept
    <3>2. text[i + 1] \in Chars
      BY <1>2
    <3> QED
      BY <3>1, <3>2, StringBuilderAssumption, Zenon
  <2> DEFINE Ends(n) == /\ n = sb.capacity \/ sb.data[n] = Nul
                        /\ \A i \in 0..(n - 1) : sb.data[i] # Nul
             end == CHOOSE n \in 0..sb.capacity : Ends(n)
  <2>3. l \in 0..sb.capacity /\ Ends(l)
    BY <2>1, <2>2
  <2>4. ASSUME NEW n \in 0..sb.capacity, Ends(n) PROVE n = l
    <3>1. ~(l < n)
      <4>1. l < n => l \in 0..(n - 1)
        BY <2>1
      <4> QED
        BY <2>1, <2>4, <4>1, Zenon
    <3>2. ~(n < l)
      <4>1. n < l => n \in 0..(l - 1) /\ n # sb.capacity
        BY <2>1
      <4> QED
        BY <2>2, <2>4, <4>1, Zenon
    <3> QED
      BY <2>1, <3>1, <3>2
  <2>5. end = l
    <3> HIDE DEF Ends
    <3> QED
      BY <2>3, <2>4
  <2>6. CStr = [i \in 1..end |-> sb.data[i - 1]]
    BY <1>4, Zenon DEF CStr
  <2> HIDE DEF end
  <2>7. CStr = text
    <3>1. CStr = [i \in 1..l |-> sb.data[i - 1]]
      BY <2>5, <2>6
    <3>2. ASSUME NEW i \in 1..l PROVE sb.data[i - 1] = text[i]
      <4>1. i - 1 \in 0..(l - 1) /\ (i - 1) + 1 = i
        OBVIOUS
      <4> QED
        BY <2>2, <4>1, Zenon
    <3> QED
      BY <1>2, <3>1, <3>2
  <2> QED
    BY <1>1, <1>4, <2>1, <2>7, Zenon DEF AlwaysTerminated
<1> QED
  BY <1>3, <1>4

\* For all characters, views, capacities and block limits, in a size_t that
\* wraps: after every call on a d4np_string_builder_t, failed ones included,
\* d4np_sb_cstr and d4np_sb_view read the text appended since the last clear, and
\* never past the block.
THEOREM BuilderStaysTerminated == SbSpec => []AlwaysTerminated
<1>1. SbStart => Terminated(sb, text)
  <2>1. <<>> \in Seq(Chars) /\ Len(<<>>) = 0 /\ 0 \in 0..SbLimit
    BY EmptySeq, StringBuilderAssumption
  <2> QED
    BY <2>1 DEF SbStart, EmptyBuilder, Terminated, Kept
<1>2. Terminated(sb, text) /\ [SbNext]_sbVars => Terminated(sb, text)'
  <2> SUFFICES ASSUME Terminated(sb, text), [SbNext]_sbVars PROVE Terminated(sb', text')
    BY Zenon DEF Terminated, Kept
  <2>0. PICK l \in Nat : /\ l = sb.len /\ l < Word - 1 /\ (l = 0 \/ l < Word - 2)
                         /\ Word \in Nat /\ 2 < Word
    BY WordsAssumption, StringBuilderAssumption DEF Terminated, Kept
  <2>1. ASSUME NEW n \in Hints, SbInit(n) \/ SbReserve(n) PROVE Terminated(sb', text')
    BY <2>1, RoomKeepsText, Zenon
  <2>2. ASSUME NEW v \in Views, SbAppendView(v) PROVE Terminated(sb', text')
    <3>1. v \in Seq(Chars)
      BY StringBuilderAssumption
    <3>2. PICK m \in Nat : m = Len(v) /\ (v = <<>> => m = 0)
      BY <3>1, EmptySeq
    <3>3. CASE v # <<>> /\ m > (Word - 1) - l - 1
      BY <2>0, <2>2, <3>2, <3>3 DEF SbAppendView
    <3>4. CASE ~(v # <<>> /\ m > (Word - 1) - l - 1)
      <4>1. l + m + 1 \in 0..(Word - 1)
        BY <2>0, <3>2, <3>4
      <4>2. (l + m + 1) % Word = l + m + 1
        BY <2>0, <4>1, SmallRemainder
      <4>3. AppendWith((l + m + 1) % Word, v)
        BY <2>0, <2>2, <3>2, <3>4, Zenon DEF SbAppendView
      <4>4. AppendWith(l + m + 1, v)
        BY <4>2, <4>3
      <4> QED
        BY <2>0, <3>1, <3>2, <4>1, <4>4, AppendKeepsText
    <3> QED
      BY <3>3, <3>4
  <2>3. ASSUME NEW c \in Chars, SbAppendChar(c) PROVE Terminated(sb', text')
    <3>1. <<c>> \in Seq(Chars) /\ Len(<<c>>) = 1
      OBVIOUS
    <3>2. l + 2 \in 0..(Word - 1)
      BY <2>0
    <3>3. (l + 2) % Word = l + 2
      BY <2>0, <3>2, SmallRemainder
    <3>4. AppendWith((l + 2) % Word, <<c>>)
      BY <2>0, <2>3 DEF SbAppendChar
    <3>5. AppendWith(l + 2, <<c>>) /\ l + 2 = l + Len(<<c>>) + 1
      BY <3>1, <3>3, <3>4
    <3> QED
      BY <2>0, <3>1, <3>2, <3>5, AppendKeepsText
  <2>4. CASE SbClear
    <3>1. <<>> \in Seq(Chars) /\ Len(<<>>) = 0 /\ <<>> \o <<>> = <<>> /\ text' = <<>>
      BY <2>4, EmptySeq, ConcatEmptySeq DEF SbClear
    <3>2. /\ sb \in [data : {sb.data}, len : Nat, capacity : 0..SbLimit]
          /\ sb.data = Null => sb.capacity = 0
          /\ sb.data # Null => sb.capacity # 0
      BY DEF Terminated, Kept
    <3>3. CASE sb.data = Null
      <4>1. sb' = [sb EXCEPT !.len = 0]
        BY <2>4, <3>3 DEF SbClear
      <4>2. /\ sb' \in [data : {Null}, len : Nat, capacity : 0..SbLimit]
            /\ sb'.data = Null /\ sb'.len = 0 /\ sb'.capacity = 0
        BY <3>2, <3>3, <4>1
      <4> QED
        BY <3>1, <4>2 DEF Terminated, Kept
    <3>4. CASE sb.data # Null
      <4>1. PICK n \in 1..SbLimit : n = sb.capacity
        BY <3>2, <3>4, StringBuilderAssumption
      <4>2. PICK p : p = Resized(Null, n)
        OBVIOUS
      <4>3. p \in [0..(n - 1) -> SbBytes] /\ p # Null
        <5>1. p = [i \in 0..(n - 1) |-> Junk]
          BY <4>2 DEF Resized
        <5>2. p \in [0..(n - 1) -> SbBytes]
          BY <5>1 DEF SbBytes
        <5> QED
          BY <5>2, StringBuilderAssumption
      <4>4. PICK b : b = [sb EXCEPT !.len = 0, !.data = p]
        OBVIOUS
      <4>5. /\ b \in [data : {p}, len : Nat, capacity : 0..SbLimit]
            /\ b.data = p /\ b.len = 0 /\ b.capacity = n
        <5>1. PICK w : w = [sb EXCEPT !.len = 0]
          BY Zenon
        <5>2. /\ w \in [data : {sb.data}, len : Nat, capacity : 0..SbLimit]
              /\ w.len = 0 /\ w.capacity = n
          BY <3>2, <4>1, <5>1
        <5>3. b = [w EXCEPT !.data = p]
          BY <4>4, <5>1
        <5> QED
          BY <5>2, <5>3
      <4>6. Kept(b, <<>>)
        BY <3>1, <4>3, <4>5 DEF Kept
      <4>7. b.len + Len(<<>>) < b.capacity
        BY <3>1, <4>5
      <4>8. sb' = Written(b, <<>>)
        BY <2>4, <3>4, <4>1, <4>2, <4>4 DEF SbClear
      <4>9. Terminated(Written(b, <<>>), <<>> \o <<>>)
        BY <3>1, <4>6, <4>7, WrittenTerminates, Zenon
      <4> QED
        BY <3>1, <4>8, <4>9
    <3> QED
      BY <3>3, <3>4, Zenon
  <2>5. CASE SbDestroy
    <3>1. <<>> \in Seq(Chars) /\ Len(<<>>) = 0 /\ 0 \in 0..SbLimit
      BY EmptySeq, StringBuilderAssumption
    <3> QED
      BY <2>5, <3>1 DEF SbDestroy, EmptyBuilder, Terminated, Kept
  <2>6. CASE UNCHANGED sbVars
    BY <2>6 DEF sbVars
  <2> QED
    BY <2>1, <2>2, <2>3, <2>4, <2>5, <2>6, Zenon DEF SbNext
<1> QED
  BY <1>1, <1>2, ReadsTheText, PTL DEF SbSpec
=============================================================================
