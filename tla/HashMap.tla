------------------------------- MODULE HashMap ------------------------------
(***************************************************************************)
(* The open-addressing hash map of ds/hashmap.c: linear probing over a     *)
(* power-of-two table, tombstones, growth at three quarters full.  A table *)
(* holds the parallel arrays control, keys and values; the bytes of a slot *)
(* that is not OCCUPIED are never read and stand at Absent.  The caller's  *)
(* hash is the constant Hash; key_eq is equality.                          *)
(***************************************************************************)
EXTENDS Naturals, FiniteSets, FiniteSetsExt

CONSTANTS
    Keys, Values, Absent,
    Hash,           \* Keys -> Nat
    MinCapacity,    \* D4NP_HASHMAP_MIN_CAPACITY
    MaxCapacity     \* the largest table the allocator can provide

ASSUME HashMapAssumption ==
    /\ Absent \notin Keys \cup Values
    /\ Hash \in [Keys -> Nat]
    /\ MinCapacity \in Nat /\ MinCapacity > 1 /\ MaxCapacity \in Nat

VARIABLES
    table,              \* [capacity, control, keys, values]
    len, tombstones,
    result              \* of the last put or remove

mapVars == <<table, len, tombstones, result>>

EmptyTable(n) ==
    [capacity |-> n,
     control  |-> [s \in 0..(n - 1) |-> "empty"],
     keys     |-> [s \in 0..(n - 1) |-> Absent],
     values   |-> [s \in 0..(n - 1) |-> Absent]]

TableSlots(t) == 0..(t.capacity - 1)
Occupied(t) == {s \in TableSlots(t) : t.control[s] = "occupied"}

\* Writing an entry to slot s.
Store(t, s, k, v) ==
    [t EXCEPT !.control[s] = "occupied", !.keys[s] = k, !.values[s] = v]

\* next_pow2_at_least: doubling from the minimum; n turns are enough.
NextPow2(n) ==
    LET cap[i \in 0..n] == IF i = 0 THEN MinCapacity
                           ELSE IF cap[i - 1] < n THEN 2 * cap[i - 1] ELSE cap[i - 1]
    IN  cap[n]

\* The slot that the probe for k visits at its turn d.
Probe(t, k, d) == (Hash[k] + d) % t.capacity

\* The probe stops there: the key, or an EMPTY slot.
Stops(t, k, d) ==
    LET s == Probe(t, k, d) IN
    t.control[s] = "empty" \/ (t.control[s] = "occupied" /\ t.keys[s] = k)

\* The turn at which the probe stops, or the number of turns if it never does.
LastTurn(t, k) ==
    CHOOSE d \in 0..t.capacity : /\ d = t.capacity \/ Stops(t, k, d)
                                 /\ \A e \in 0..(d - 1) : ~Stops(t, k, e)

\* A miss answers with the first tombstone on the way, if there was one.
Locate(t, k) ==
    LET last  == LastTurn(t, k)
        tombs == {d \in 0..(last - 1) : t.control[Probe(t, k, d)] = "deleted"}
        found == last < t.capacity /\ t.control[Probe(t, k, last)] = "occupied"
    IN  [found |-> found,
         slot  |-> IF found THEN Probe(t, k, last)
                   ELSE IF tombs # {} THEN Probe(t, k, Min(tombs))
                   ELSE IF last < t.capacity THEN Probe(t, k, last) ELSE 0]

\* resize: an entry of the old table goes to the first EMPTY slot of its probe.
Settle(t, k, v) ==
    LET free == {d \in TableSlots(t) : t.control[Probe(t, k, d)] = "empty"}
    IN  IF free = {} THEN t ELSE Store(t, Probe(t, k, Min(free)), k, v)

\* resize: the live entries of t, in slot order, re-inserted in an empty table
\* of n slots.
Rehash(t, n) ==
    LET r[i \in 0..t.capacity] ==
            IF i = 0 THEN EmptyTable(n)
            ELSE IF t.control[i - 1] # "occupied" THEN r[i - 1]
            ELSE Settle(r[i - 1], t.keys[i - 1], t.values[i - 1])
    IN  r[t.capacity]

\* The initial table, or none when none is asked for or its allocation fails.
MapInit ==
    /\ \E n \in 0..MaxCapacity : /\ n = 0 \/ \E i \in 1..n : n = NextPow2(i)
                                /\ table = EmptyTable(n)
    /\ len = 0 /\ tombstones = 0 /\ result = "none"

-----------------------------------------------------------------------------
\* Seeded fault: tombstones do not count towards the load.
GrowIgnoresTombstones == (len + 1) * 4 >= table.capacity * 3

MustGrow == (len + tombstones + 1) * 4 >= table.capacity * 3

Grown == IF table.capacity = 0 THEN MinCapacity ELSE table.capacity * 2

\* The part of put after the growth, on table t with tomb tombstones.
MapInsert(t, tomb, k, v) ==
    LET at == Locate(t, k) IN
    /\ table' = Store(t, at.slot, k, v)
    /\ len' = IF at.found THEN len ELSE len + 1
    /\ tombstones' = IF ~at.found /\ t.control[at.slot] = "deleted" THEN tomb - 1 ELSE tomb
    /\ result' = "ok"

\* Growing may fail, whatever the key: then put has changed nothing.
MapPut(k, v) ==
    \/ ~MustGrow /\ MapInsert(table, tombstones, k, v)
    \/ MustGrow /\ Grown <= MaxCapacity /\ MapInsert(Rehash(table, Grown), 0, k, v)
    \/ MustGrow /\ result' = "failed" /\ UNCHANGED <<table, len, tombstones>>

\* Seeded fault: a removed slot becomes EMPTY.
RemoveToEmpty(k) ==
    LET at == Locate(table, k) IN
    IF table.capacity # 0 /\ at.found
    THEN /\ table' = [table EXCEPT !.control[at.slot] = "empty",
                         !.keys[at.slot] = Absent, !.values[at.slot] = Absent]
         /\ len' = len - 1 /\ result' = "true" /\ UNCHANGED tombstones
    ELSE result' = "false" /\ UNCHANGED <<table, len, tombstones>>

MapRemove(k) ==
    LET at == Locate(table, k) IN
    IF table.capacity # 0 /\ at.found
    THEN /\ table' = [table EXCEPT !.control[at.slot] = "deleted",
                         !.keys[at.slot] = Absent, !.values[at.slot] = Absent]
         /\ len' = len - 1 /\ tombstones' = tombstones + 1
         /\ result' = "true"
    ELSE result' = "false" /\ UNCHANGED <<table, len, tombstones>>

MapClear ==
    /\ table' = EmptyTable(table.capacity)
    /\ len' = 0 /\ tombstones' = 0
    /\ UNCHANGED result

MapDestroy ==
    /\ table' = EmptyTable(0)
    /\ len' = 0 /\ tombstones' = 0
    /\ UNCHANGED result

\* get and contains
Lookup(k) ==
    LET at == Locate(table, k) IN
    IF table.capacity # 0 /\ at.found THEN table.values[at.slot] ELSE Absent

MapNext == \/ \E k \in Keys, v \in Values : MapPut(k, v)
        \/ \E k \in Keys : MapRemove(k)
        \/ MapClear \/ MapDestroy

MapSpec == MapInit /\ [][MapNext]_mapVars

-----------------------------------------------------------------------------
\* A table is never full, so every probe of locate and of resize ends at an EMPTY
\* slot and the "return 0" after locate's loop, which would overwrite the entry
\* in slot 0, is never reached; and len and tombstones, on which the growth
\* decision rests, count the OCCUPIED and the DELETED slots, no key having two.
TableSound ==
    /\ table.capacity # 0 => \E s \in TableSlots(table) : table.control[s] = "empty"
    /\ len = Cardinality(Occupied(table))
    /\ tombstones = Cardinality({s \in TableSlots(table) : table.control[s] = "deleted"})
    /\ \A s, u \in Occupied(table) : table.keys[s] = table.keys[u] => s = u

\* What get finds behaves as a map: removals and growth never hide another key,
\* and a put that fails has changed nothing.
Map == INSTANCE AbstractMap WITH contents <- [k \in Keys |-> Lookup(k)]

ImplementsMap == Map!Spec
=============================================================================
