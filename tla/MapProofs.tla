----------------------------- MODULE MapProofs ------------------------------
(***************************************************************************)
(* Proofs about HashMap, for every hash function and any number of keys.   *)
(*                                                                         *)
(* The map is a table in which the probe of every entry's key reaches the  *)
(* entry with no EMPTY slot on the way.  A write of put or remove leaves no*)
(* slot EMPTY that was not, so it hides no entry; growth re-inserts them   *)
(* one by one, by induction over the slots of the old table; and the load  *)
(* limit leaves an EMPTY slot, at which every probe ends.                  *)
(***************************************************************************)
EXTENDS HashMap, SharedProofs

-----------------------------------------------------------------------------
(* The tables *)

Deleted(t) == {s \in TableSlots(t) : t.control[s] = "deleted"}

\* The arrays cover the slots, and an OCCUPIED slot holds an entry.
Shape(t) ==
    /\ \E n \in Nat :
         \E c \in [0..(n - 1) -> {"empty", "occupied", "deleted"}], ks \in [0..(n - 1) -> Keys \cup {Absent}],
            vs \in [0..(n - 1) -> Values \cup {Absent}] :
           t = [capacity |-> n, control |-> c, keys |-> ks, values |-> vs]
    /\ \A s \in Occupied(t) : t.keys[s] \in Keys /\ t.values[s] \in Values

\* The probe for k reaches slot s with no EMPTY slot on the way.
Reaches(t, k, s) ==
    \E d \in TableSlots(t) : /\ Probe(t, k, d) = s
                             /\ \A e \in 0..(d - 1) : t.control[Probe(t, k, e)] # "empty"

\* Every entry can be found, and no key has two.
WellProbed(t) ==
    /\ Shape(t)
    /\ \A s \in Occupied(t) : Reaches(t, t.keys[s], s)
    /\ \A s, u \in Occupied(t) : t.keys[s] = t.keys[u] => s = u

Write(t, s, c, k, v) == [t EXCEPT !.control[s] = c, !.keys[s] = k, !.values[s] = v]

HasRoom(t) == \E s \in TableSlots(t) : t.control[s] = "empty"

\* One of the slots S has this entry.
Among(t, S, k, v) == \E s \in S : t.keys[s] = k /\ t.values[s] = v
Holds(t, k, v) == Among(t, Occupied(t), k, v)

MapInv ==
    /\ WellProbed(table)
    /\ len = Cardinality(Occupied(table)) /\ tombstones = Cardinality(Deleted(table))
    /\ table.capacity # 0 => len + tombstones < table.capacity

-----------------------------------------------------------------------------
\* The fields of a table, and that it has no others.
LEMMA ShapeFields ==
    ASSUME NEW t, Shape(t)
    PROVE  /\ t.capacity \in Nat
           /\ t.control \in [TableSlots(t) -> {"empty", "occupied", "deleted"}]
           /\ t.keys \in [TableSlots(t) -> Keys \cup {Absent}]
           /\ t.values \in [TableSlots(t) -> Values \cup {Absent}]
           /\ t = [capacity |-> t.capacity, control |-> t.control, keys |-> t.keys, values |-> t.values]
<1>1. PICK n \in Nat : \E c \in [0..(n - 1) -> {"empty", "occupied", "deleted"}],
         ks \in [0..(n - 1) -> Keys \cup {Absent}], vs \in [0..(n - 1) -> Values \cup {Absent}] :
           t = [capacity |-> n, control |-> c, keys |-> ks, values |-> vs]
  BY Zenon DEF Shape
<1>2. PICK c \in [0..(n - 1) -> {"empty", "occupied", "deleted"}],
         ks \in [0..(n - 1) -> Keys \cup {Absent}], vs \in [0..(n - 1) -> Values \cup {Absent}] :
           t = [capacity |-> n, control |-> c, keys |-> ks, values |-> vs]
  BY <1>1, Zenon
<1>3. t.capacity = n /\ t.control = c /\ t.keys = ks /\ t.values = vs
  BY <1>2
<1>4. TableSlots(t) = 0..(n - 1)
  BY <1>3, Zenon DEF TableSlots
<1> QED
  BY <1>2, <1>3, <1>4, Zenon

\* What a write to slot s changes.
LEMMA Written ==
    ASSUME NEW t, Shape(t), NEW s \in TableSlots(t), NEW c \in {"empty", "occupied", "deleted"},
           NEW k \in Keys \cup {Absent}, NEW v \in Values \cup {Absent},
           c = "occupied" => k \in Keys /\ v \in Values,
           NEW u, u = Write(t, s, c, k, v)
    PROVE  /\ Shape(u) /\ u.capacity = t.capacity
           /\ u.control[s] = c /\ u.keys[s] = k /\ u.values[s] = v
           /\ \A r \in TableSlots(t) : r # s => /\ u.control[r] = t.control[r] /\ u.keys[r] = t.keys[r]
                                                /\ u.values[r] = t.values[r]
<1>1. /\ t.capacity \in Nat
      /\ t.control \in [TableSlots(t) -> {"empty", "occupied", "deleted"}]
      /\ t.keys \in [TableSlots(t) -> Keys \cup {Absent}]
      /\ t.values \in [TableSlots(t) -> Values \cup {Absent}]
      /\ t = [capacity |-> t.capacity, control |-> t.control, keys |-> t.keys, values |-> t.values]
  BY ShapeFields, Zenon
<1>2. PICK n, tc, tk, tv : n = t.capacity /\ tc = t.control /\ tk = t.keys /\ tv = t.values
  BY Zenon
<1>3. t = [capacity |-> n, control |-> tc, keys |-> tk, values |-> tv]
  BY <1>1, <1>2, Zenon
<1>4. u = [capacity |-> n, control |-> [tc EXCEPT ![s] = c], keys |-> [tk EXCEPT ![s] = k],
           values |-> [tv EXCEPT ![s] = v]]
  BY <1>3 DEF Write
<1>5. PICK uc, uk, uv : /\ uc = [tc EXCEPT ![s] = c] /\ uk = [tk EXCEPT ![s] = k]
                        /\ uv = [tv EXCEPT ![s] = v]
  BY Zenon
<1>6. u = [capacity |-> n, control |-> uc, keys |-> uk, values |-> uv]
  BY <1>4, <1>5, Zenon
<1>7. u.capacity = n /\ u.control = uc /\ u.keys = uk /\ u.values = uv
  BY ONLY <1>6
<1>8. TableSlots(t) = 0..(n - 1) /\ TableSlots(u) = 0..(n - 1)
  BY <1>2, <1>7, Zenon DEF TableSlots
<1>9. /\ uc \in [0..(n - 1) -> {"empty", "occupied", "deleted"}] /\ uc[s] = c
      /\ \A r \in 0..(n - 1) : r # s => uc[r] = tc[r]
  BY <1>1, <1>2, <1>5, <1>8, Zenon
<1>10. /\ uk \in [0..(n - 1) -> Keys \cup {Absent}] /\ uk[s] = k
       /\ \A r \in 0..(n - 1) : r # s => uk[r] = tk[r]
  BY <1>1, <1>2, <1>5, <1>8, Zenon
<1>11. /\ uv \in [0..(n - 1) -> Values \cup {Absent}] /\ uv[s] = v
       /\ \A r \in 0..(n - 1) : r # s => uv[r] = tv[r]
  BY <1>1, <1>2, <1>5, <1>8, Zenon
<1>12. ASSUME NEW r \in Occupied(u) PROVE u.keys[r] \in Keys /\ u.values[r] \in Values
  <2>1. r \in 0..(n - 1) /\ uc[r] = "occupied"
    BY <1>7, <1>8, Zenon DEF Occupied
  <2>2. CASE r = s
    <3>1. c = "occupied"
      BY <1>9, <2>1, <2>2, Zenon
    <3> QED
      BY <1>7, <1>10, <1>11, <2>2, <3>1, Zenon
  <2>3. CASE r # s
    <3>1. r \in Occupied(t)
      BY <1>2, <1>8, <1>9, <2>1, <2>3, Zenon DEF Occupied
    <3>2. tk[r] \in Keys /\ tv[r] \in Values
      BY <1>2, <3>1, Zenon DEF Shape
    <3> QED
      BY <1>7, <1>10, <1>11, <2>1, <2>3, <3>2, Zenon
  <2> QED
    BY <2>2, <2>3, Zenon
<1>13. Shape(u)
  <2>1. n \in Nat
    BY <1>1, <1>2, Zenon
  <2>2. \E a \in [0..(n - 1) -> {"empty", "occupied", "deleted"}], ks \in [0..(n - 1) -> Keys \cup {Absent}],
           vs \in [0..(n - 1) -> Values \cup {Absent}] :
          u = [capacity |-> n, control |-> a, keys |-> ks, values |-> vs]
    <3> USE <1>9, <1>10, <1>11
    <3> WITNESS uc \in [0..(n - 1) -> {"empty", "occupied", "deleted"}],
                uk \in [0..(n - 1) -> Keys \cup {Absent}], uv \in [0..(n - 1) -> Values \cup {Absent}]
    <3> QED
      BY <1>6, Zenon
  <2> QED
    BY <1>12, <2>1, <2>2, Zenon DEF Shape
<1> QED
  BY <1>2, <1>7, <1>8, <1>9, <1>10, <1>11, <1>13, Zenon

\* A probe visits slots of the table only, and all of them.
LEMMA ProbeInside ==
    ASSUME NEW c \in Nat \ {0}, NEW h \in Nat, NEW d \in Nat
    PROVE  (h + d) % c \in 0..(c - 1)
<1>1. PICK a \in Nat : a = h + d
  OBVIOUS
<1>2. a % c \in 0..(c - 1)
  BY Division
<1> QED
  BY <1>1, <1>2, Zenon

\* A probe visits every slot.
LEMMA ProbeCovers ==
    ASSUME NEW c \in Nat \ {0}, NEW h \in Nat, NEW s \in 0..(c - 1)
    PROVE  \E d \in 0..(c - 1) : (h + d) % c = s
<1>1. PICK q \in Nat : h = q * c + (h % c) /\ h % c \in 0..(c - 1)
  BY Division
<1>2. PICK r \in 0..(c - 1) : r = h % c
  BY <1>1
<1>3. CASE s >= r
  <2>0. PICK x \in Nat : x = q * c /\ h = x + r
    BY <1>1, <1>2
  <2>1. s - r \in 0..(c - 1) /\ h + (s - r) = q * c + s
    BY <1>2, <1>3, <2>0
  <2>2. (q * c + s) % c = s
    BY Remainder
  <2> QED
    BY <2>1, <2>2, Zenon
<1>4. CASE s < r
  <2>1. (c + s) - r \in 0..(c - 1)
    BY <1>2, <1>4
  <2>2. (q + 1) * c = q * c + c /\ q + 1 \in Nat
    OBVIOUS
  <2>3. h + ((c + s) - r) = (q + 1) * c + s
    BY <1>1, <1>2, <2>2
  <2>4. ((q + 1) * c + s) % c = s
    BY <2>2, Remainder
  <2> QED
    BY <2>1, <2>3, <2>4, Zenon
<1> QED
  BY <1>2, <1>3, <1>4

\* What Min returns.
LEMMA LeastIs ==
    ASSUME NEW S \in SUBSET Nat, S # {}
    PROVE  Min(S) \in S /\ \A y \in S : Min(S) <= y
<1>1. \E x \in S : \A y \in S : x <= y
  BY Least, Zenon
<1> QED
  BY <1>1, Zenon DEF Min

\* A probe that meets a stop ends at the first one.
LEMMA LastTurnIs ==
    ASSUME NEW t, t.capacity \in Nat, NEW k, NEW y \in 0..(t.capacity - 1), Stops(t, k, y),
           NEW m, m = LastTurn(t, k)
    PROVE  /\ m \in 0..(t.capacity - 1) /\ Stops(t, k, m)
           /\ \A e \in 0..(m - 1) : ~Stops(t, k, e)
<1>1. PICK c \in Nat : c = t.capacity
  BY Zenon
<1>2. PICK S : S = {d \in 0..(c - 1) : Stops(t, k, d)}
  BY Zenon
<1>3. y \in S
  BY <1>1, <1>2, Zenon
<1>4. S \in SUBSET Nat
  <2>1. \A d \in 0..(c - 1) : d \in Nat
    BY <1>1
  <2> QED
    BY <1>2, <2>1, Zenon
<1>5. PICK x \in S : \A d \in S : x <= d
  BY <1>3, <1>4, Least, Zenon
<1>6. x \in 0..(c - 1) /\ Stops(t, k, x)
  BY <1>2, <1>5, Zenon
<1>7. ASSUME NEW e \in 0..(x - 1) PROVE ~Stops(t, k, e)
  <2>1. e \in 0..(c - 1) /\ ~(x <= e)
    BY <1>1, <1>6
  <2> QED
    BY <1>2, <1>5, <2>1, Zenon
<1>8. x \in 0..c
  BY <1>1, <1>6
<1>9. /\ m \in 0..c /\ (m = c \/ Stops(t, k, m))
      /\ \A e \in 0..(m - 1) : ~Stops(t, k, e)
  BY <1>1, <1>6, <1>7, <1>8, Zenon DEF LastTurn
<1>10. m # c
  <2>1. m = c => x \in 0..(m - 1)
    BY <1>6
  <2> QED
    BY <1>6, <1>9, <2>1, Zenon
<1>11. m \in 0..(c - 1)
  BY <1>1, <1>9, <1>10
<1> QED
  BY <1>1, <1>9, <1>10, <1>11, Zenon

\* In a table with an EMPTY slot locate tells whether the key is stored and, on
\* a miss, answers with a slot that holds no entry and that its probe reaches.
LEMMA Located ==
    ASSUME NEW t, WellProbed(t), HasRoom(t), NEW k \in Keys, NEW at, at = Locate(t, k)
    PROVE  /\ at.slot \in TableSlots(t)
           /\ at.found => at.slot \in Occupied(t) /\ t.keys[at.slot] = k
           /\ ~at.found => /\ \A s \in Occupied(t) : t.keys[s] # k
                           /\ at.slot \notin Occupied(t) /\ Reaches(t, k, at.slot)
<1>1. /\ t.capacity \in Nat /\ t.control \in [TableSlots(t) -> {"empty", "occupied", "deleted"}]
      /\ \A s \in Occupied(t) : Reaches(t, t.keys[s], s)
  BY ShapeFields, Zenon DEF WellProbed
<1>2. PICK c, h : c = t.capacity /\ h = Hash[k]
  BY Zenon
<1>3. h \in Nat /\ c \in Nat /\ TableSlots(t) = 0..(c - 1)
  BY <1>1, <1>2, HashMapAssumption, Zenon DEF TableSlots
<1>4. PICK z \in 0..(c - 1) : t.control[z] = "empty"
  BY <1>3, Zenon DEF HasRoom
<1>5. c \in Nat \ {0} /\ z \in 0..(c - 1)
  BY <1>3, <1>4
<1>6. PICK P : P = [d \in 0..(c - 1) |-> Probe(t, k, d)]
  BY Zenon
<1>7. \A d \in 0..(c - 1) : d \in Nat /\ P[d] = (h + d) % c /\ P[d] = Probe(t, k, d)
  <2>1. \A d \in 0..(c - 1) : d \in Nat
    BY <1>3
  <2> QED
    BY <1>2, <1>6, <2>1, Zenon DEF Probe
<1>8. \A d \in 0..(c - 1) : P[d] \in 0..(c - 1)
  BY <1>3, <1>5, <1>7, ProbeInside, Zenon
<1>9. PICK y \in 0..(c - 1) : P[y] = z
  <2>1. \E d \in 0..(c - 1) : (h + d) % c = z
    BY <1>3, <1>5, ProbeCovers, Zenon
  <2> QED
    BY <1>7, <2>1, Zenon
<1>10. PICK S : S = {d \in 0..(c - 1) : \/ t.control[P[d]] = "empty"
                                        \/ t.control[P[d]] = "occupied" /\ t.keys[P[d]] = k}
  BY Zenon
<1>11. PICK m : m = LastTurn(t, k)
  BY Zenon
<1>12. m \in S /\ \A d \in S : m <= d
  <2>1. \A d \in 0..(c - 1) : d \in S <=> Stops(t, k, d)
    BY <1>7, <1>10, Zenon DEF Stops
  <2>2. y \in 0..(c - 1) /\ y \in S
    BY <1>4, <1>9, <1>10, Zenon
  <2>3. /\ m \in 0..(c - 1) /\ Stops(t, k, m)
        /\ \A e \in 0..(m - 1) : ~Stops(t, k, e)
    BY <1>1, <1>2, <1>11, <2>1, <2>2, LastTurnIs, Zenon
  <2>4. ASSUME NEW d \in S PROVE m <= d
    <3>1. d \in 0..(c - 1) /\ d \notin 0..(m - 1)
      BY <1>10, <2>1, <2>3, Zenon
    <3> QED
      BY <1>3, <2>3, <3>1
  <2> QED
    BY <2>1, <2>3, <2>4, Zenon
<1>13. m \in 0..(c - 1) /\ m < c /\ m \in Nat
  <2>1. m \in 0..(c - 1)
    BY <1>10, <1>12, Zenon
  <2> QED
    BY <1>3, <2>1
<1>14. \A d \in 0..(m - 1) : d \in 0..(c - 1) /\ d \notin S
  <2>1. \A d \in 0..(m - 1) : d \in 0..(c - 1) /\ ~(m <= d)
    BY <1>3, <1>13
  <2> QED
    BY <1>12, <2>1, Zenon
<1>15. \A d \in 0..(m - 1) : t.control[P[d]] # "empty"
  BY <1>10, <1>14, Zenon
<1>16. PICK T : T = {d \in 0..(m - 1) : t.control[P[d]] = "deleted"}
  BY Zenon
<1>17. PICK b : b = Min(T)
  BY Zenon
<1>18. T # {} => b \in T
  <2>1. \A d \in 0..(m - 1) : d \in Nat
    BY <1>13
  <2>2. T \in SUBSET Nat
    BY <1>16, <2>1, Zenon
  <2> QED
    BY <1>17, <2>2, LeastIs, Zenon
<1>19. T = {d \in 0..(m - 1) : t.control[Probe(t, k, d)] = "deleted"}
  BY <1>7, <1>14, <1>16, Zenon
<1>20. P[m] = Probe(t, k, m) /\ (T # {} => P[b] = Probe(t, k, b))
  BY <1>7, <1>13, <1>14, <1>16, <1>18, Zenon
<1>21. PICK F, G : /\ F = (m < c /\ t.control[Probe(t, k, m)] = "occupied")
                   /\ G = IF F THEN Probe(t, k, m) ELSE IF T # {} THEN Probe(t, k, b)
                          ELSE IF m < c THEN Probe(t, k, m) ELSE 0
  BY Zenon
<1>22. at = [found |-> F, slot |-> G]
  BY <1>2, <1>11, <1>17, <1>19, <1>21, Zenon DEF Locate
<1>23. at.found = F /\ at.slot = G
  BY ONLY <1>22
<1>24. CASE t.control[P[m]] = "occupied"
  <2>1. F /\ G = P[m]
    BY <1>13, <1>20, <1>21, <1>24, Zenon
  <2>2. P[m] \in Occupied(t)
    BY <1>3, <1>8, <1>13, <1>24, Zenon DEF Occupied
  <2>3. t.keys[P[m]] = k
    BY <1>10, <1>12, <1>24
  <2> QED
    BY <1>3, <1>8, <1>13, <1>23, <2>1, <2>2, <2>3, Zenon
<1>25. CASE t.control[P[m]] # "occupied"
  <2>1. ~F /\ t.control[P[m]] = "empty"
    BY <1>10, <1>12, <1>20, <1>21, <1>25, Zenon
  <2>2. \A s \in Occupied(t) : t.keys[s] # k
    <3> SUFFICES ASSUME NEW s \in Occupied(t), t.keys[s] = k PROVE FALSE
      BY Zenon
    <3>1. PICK d \in 0..(c - 1) : /\ Probe(t, k, d) = s
                                  /\ \A e \in 0..(d - 1) : t.control[Probe(t, k, e)] # "empty"
      BY <1>1, <1>3, Zenon DEF Reaches
    <3>2. d \in 0..(c - 1) /\ P[d] = s /\ t.control[s] = "occupied"
      BY <1>7, <3>1, Zenon DEF Occupied
    <3>3. d \in S
      BY <1>10, <3>2, Zenon
    <3>4. m <= d /\ m # d
      BY <1>12, <1>25, <3>2, <3>3, Zenon
    <3>5. m \in 0..(d - 1)
      BY <1>3, <1>13, <3>2, <3>4
    <3> QED
      BY <1>20, <2>1, <3>1, <3>5, Zenon
  <2>3. CASE T # {}
    <3>1. G = P[b] /\ b \in 0..(m - 1) /\ t.control[P[b]] = "deleted"
      BY <1>16, <1>18, <1>20, <1>21, <2>1, <2>3, Zenon
    <3>2. b \in 0..(c - 1) /\ \A e \in 0..(b - 1) : e \in 0..(m - 1)
      BY <1>3, <1>13, <3>1
    <3>3. G \in TableSlots(t) /\ G \notin Occupied(t)
      BY <1>3, <1>8, <3>1, <3>2, Zenon DEF Occupied
    <3>4. Reaches(t, k, G)
      <4>1. Probe(t, k, b) = G /\ b \in TableSlots(t)
        BY <1>3, <1>7, <3>1, <3>2, Zenon
      <4>2. \A e \in 0..(b - 1) : t.control[Probe(t, k, e)] # "empty"
        BY <1>7, <1>14, <1>15, <3>2, Zenon
      <4> QED
        BY <4>1, <4>2, Zenon DEF Reaches
    <3> QED
      BY <1>23, <2>1, <2>2, <3>3, <3>4, Zenon
  <2>4. CASE T = {}
    <3>1. G = P[m]
      BY <1>13, <1>20, <1>21, <2>1, <2>4, Zenon
    <3>2. G \in TableSlots(t) /\ G \notin Occupied(t)
      BY <1>3, <1>8, <1>13, <2>1, <3>1, Zenon DEF Occupied
    <3>3. Reaches(t, k, G)
      BY <1>3, <1>7, <1>13, <1>14, <1>15, <3>1, Zenon DEF Reaches
    <3> QED
      BY <1>23, <2>1, <2>2, <3>2, <3>3, Zenon
  <2> QED
    BY <2>3, <2>4, Zenon
<1> QED
  BY <1>24, <1>25, Zenon

\* A slot that is no longer EMPTY is no obstacle to a probe.
LEMMA ReachKept ==
    ASSUME NEW t, Shape(t), NEW u, TableSlots(u) = TableSlots(t),
           \A j, d : Probe(u, j, d) = Probe(t, j, d),
           \A r \in TableSlots(t) : t.control[r] # "empty" => u.control[r] # "empty"
    PROVE  \A j, r : j \in Keys /\ Reaches(t, j, r) => Reaches(u, j, r)
<1> SUFFICES ASSUME NEW j \in Keys, NEW r, Reaches(t, j, r) PROVE Reaches(u, j, r)
  BY Zenon
<1>1. PICK d \in TableSlots(t) : /\ Probe(t, j, d) = r
                                 /\ \A e \in 0..(d - 1) : t.control[Probe(t, j, e)] # "empty"
  BY Zenon DEF Reaches
<1>2. \A e \in 0..(d - 1) : Probe(t, j, e) \in TableSlots(t)
  <2>1. t.capacity \in Nat /\ d \in 0..(t.capacity - 1) /\ Hash[j] \in Nat
    BY <1>1, ShapeFields, HashMapAssumption, Zenon DEF TableSlots
  <2>2. t.capacity \in Nat \ {0} /\ \A e \in 0..(d - 1) : e \in Nat
    BY <2>1
  <2> QED
    BY <2>1, <2>2, ProbeInside, Zenon DEF Probe, TableSlots
<1>3. d \in TableSlots(u) /\ Probe(u, j, d) = r
  BY <1>1, Zenon
<1>4. \A e \in 0..(d - 1) : u.control[Probe(u, j, e)] # "empty"
  BY <1>1, <1>2, Zenon
<1> QED
  BY <1>3, <1>4, Zenon DEF Reaches

\* Writing an entry where locate or resize points: an entry of the same key, or a
\* slot that holds none and that the probe reaches.
LEMMA Stored ==
    ASSUME NEW t, WellProbed(t), NEW k \in Keys, NEW v \in Values, NEW s \in TableSlots(t),
           \/ s \in Occupied(t) /\ t.keys[s] = k
           \/ /\ \A r \in Occupied(t) : t.keys[r] # k
              /\ s \notin Occupied(t) /\ Reaches(t, k, s),
           NEW u, u = Store(t, s, k, v)
    PROVE  /\ WellProbed(u) /\ u.capacity = t.capacity
           /\ Occupied(u) = Occupied(t) \cup {s} /\ Deleted(u) = Deleted(t) \ {s}
           /\ \A x : Holds(u, k, x) <=> x = v
           /\ \A j, x : j # k => (Holds(u, j, x) <=> Holds(t, j, x))
<1>1. /\ Shape(t) /\ \A r \in Occupied(t) : Reaches(t, t.keys[r], r)
      /\ \A r, q \in Occupied(t) : t.keys[r] = t.keys[q] => r = q
  BY Zenon DEF WellProbed
<1>2. /\ Shape(u) /\ u.capacity = t.capacity
      /\ u.control[s] = "occupied" /\ u.keys[s] = k /\ u.values[s] = v
      /\ \A r \in TableSlots(t) : r # s => /\ u.control[r] = t.control[r] /\ u.keys[r] = t.keys[r]
                                           /\ u.values[r] = t.values[r]
  <2>1. u = Write(t, s, "occupied", k, v)
    BY Zenon DEF Store, Write
  <2>2. k \in Keys \cup {Absent} /\ v \in Values \cup {Absent} /\ "occupied" \in {"empty", "occupied", "deleted"}
    OBVIOUS
  <2>3. PICK o : o = "occupied"
    BY Zenon
  <2>4. /\ o \in {"empty", "occupied", "deleted"} /\ (o = "occupied" => k \in Keys /\ v \in Values)
        /\ s \in TableSlots(t)
    BY <2>2, <2>3, Zenon
  <2>5. u = Write(t, s, o, k, v)
    BY <2>1, <2>3, Zenon
  <2>6. /\ Shape(u) /\ u.capacity = t.capacity
        /\ u.control[s] = o /\ u.keys[s] = k /\ u.values[s] = v
        /\ \A r \in TableSlots(t) : r # s => /\ u.control[r] = t.control[r] /\ u.keys[r] = t.keys[r]
                                             /\ u.values[r] = t.values[r]
    BY ONLY <1>1, <2>2, <2>4, <2>5, Written
  <2> QED
    BY <2>3, <2>6, Zenon
<1>3. TableSlots(u) = TableSlots(t) /\ \A j, d : Probe(u, j, d) = Probe(t, j, d)
  BY <1>2, Zenon DEF TableSlots, Probe
<1>4. Occupied(u) = Occupied(t) \cup {s}
  BY <1>2, <1>3, Zenon DEF Occupied
<1>5. Deleted(u) = Deleted(t) \ {s}
  BY <1>2, <1>3, Zenon DEF Deleted
<1>6. \A r \in Occupied(t) : r \in TableSlots(t)
  BY Zenon DEF Occupied
<1>7. \A r \in Occupied(t) : r # s => u.keys[r] = t.keys[r] /\ u.values[r] = t.values[r] /\ t.keys[r] # k
  BY <1>1, <1>2, <1>6, Zenon
<1>8. \A r, q \in Occupied(u) : u.keys[r] = u.keys[q] => r = q
  <2> SUFFICES ASSUME NEW r \in Occupied(u), NEW q \in Occupied(u), u.keys[r] = u.keys[q] PROVE r = q
    BY Zenon
  <2>1. r = s \/ (r \in Occupied(t) /\ u.keys[r] = t.keys[r] /\ t.keys[r] # k)
    BY <1>4, <1>7, Zenon
  <2>2. q = s \/ (q \in Occupied(t) /\ u.keys[q] = t.keys[q] /\ t.keys[q] # k)
    BY <1>4, <1>7, Zenon
  <2> QED
    BY <1>1, <1>2, <2>1, <2>2, Zenon
<1>9. \A r \in TableSlots(t) : t.control[r] # "empty" => u.control[r] # "empty"
  BY <1>2, Zenon
<1>10. \A j, r : j \in Keys /\ Reaches(t, j, r) => Reaches(u, j, r)
  BY <1>1, <1>3, <1>9, ReachKept, Zenon
<1>11. ASSUME NEW r \in Occupied(u) PROVE Reaches(u, u.keys[r], r)
  <2>1. CASE r \in Occupied(t)
    <3>1. t.keys[r] \in Keys /\ Reaches(t, t.keys[r], r)
      BY <1>1, <2>1, Zenon DEF Shape
    <3>2. u.keys[r] = t.keys[r]
      BY <1>2, <1>7, <2>1, Zenon
    <3> QED
      BY <1>10, <3>1, <3>2, Zenon
  <2>2. CASE r \notin Occupied(t)
    <3>1. r = s /\ Reaches(t, k, s)
      BY <1>4, <2>2, Zenon
    <3> QED
      BY <1>2, <1>10, <3>1, Zenon
  <2> QED
    BY <2>1, <2>2, Zenon
<1>12. ASSUME NEW x PROVE Holds(u, k, x) <=> x = v
  BY <1>2, <1>4, <1>7, Zenon DEF Holds, Among
<1>13. ASSUME NEW j, NEW x, j # k PROVE Holds(u, j, x) <=> Holds(t, j, x)
  <2>1. \A r \in Occupied(t) : t.keys[r] = j => r # s
    BY <1>13, Zenon
  <2> QED
    BY <1>2, <1>4, <1>7, <1>13, <2>1, Zenon DEF Holds, Among
<1> QED
  BY <1>2, <1>4, <1>5, <1>8, <1>11, <1>12, <1>13, Zenon DEF WellProbed

\* An empty table is well probed.
LEMMA Emptied ==
    ASSUME NEW n \in Nat, NEW t, t = EmptyTable(n)
    PROVE  /\ WellProbed(t) /\ t.capacity = n
           /\ Occupied(t) = {} /\ Deleted(t) = {}
<1>1. PICK c, ks, vs : /\ c = [s \in 0..(n - 1) |-> "empty"] /\ ks = [s \in 0..(n - 1) |-> Absent]
                       /\ vs = [s \in 0..(n - 1) |-> Absent]
  BY Zenon
<1>2. t = [capacity |-> n, control |-> c, keys |-> ks, values |-> vs]
  BY <1>1, Zenon DEF EmptyTable
<1>3. t.capacity = n /\ t.control = c
  BY ONLY <1>2
<1>4. /\ c \in [0..(n - 1) -> {"empty", "occupied", "deleted"}]
      /\ ks \in [0..(n - 1) -> Keys \cup {Absent}] /\ vs \in [0..(n - 1) -> Values \cup {Absent}]
      /\ \A s \in 0..(n - 1) : c[s] = "empty"
  BY <1>1, Zenon
<1>5. Occupied(t) = {} /\ Deleted(t) = {}
  <2>1. \A s \in TableSlots(t) : t.control[s] = "empty"
    BY <1>3, <1>4, Zenon DEF TableSlots
  <2> QED
    BY <2>1, Zenon DEF Occupied, Deleted
<1>6. \E a \in [0..(n - 1) -> {"empty", "occupied", "deleted"}], b \in [0..(n - 1) -> Keys \cup {Absent}],
         d \in [0..(n - 1) -> Values \cup {Absent}] :
        t = [capacity |-> n, control |-> a, keys |-> b, values |-> d]
  <2> USE <1>4
  <2> WITNESS c \in [0..(n - 1) -> {"empty", "occupied", "deleted"}],
              ks \in [0..(n - 1) -> Keys \cup {Absent}], vs \in [0..(n - 1) -> Values \cup {Absent}]
  <2> QED
    BY <1>2, Zenon
<1>7. Shape(t)
  BY <1>5, <1>6, Zenon DEF Shape
<1> QED
  BY <1>3, <1>5, <1>7, Zenon DEF WellProbed

\* What len and tombstones count is finite.
LEMMA FiniteTable ==
    ASSUME NEW t, Shape(t)
    PROVE  /\ IsFiniteSet(TableSlots(t)) /\ Cardinality(TableSlots(t)) = t.capacity
           /\ IsFiniteSet(Occupied(t)) /\ Cardinality(Occupied(t)) \in Nat
           /\ IsFiniteSet(Deleted(t)) /\ Cardinality(Deleted(t)) \in Nat
<1>1. PICK c \in Nat : c = t.capacity
  BY ShapeFields, Zenon
<1>2. IsFiniteSet(0..(c - 1)) /\ Cardinality(0..(c - 1)) = c
  <2>1. 0 \in Int /\ c - 1 \in Int
    OBVIOUS
  <2>2. IsFiniteSet(0..(c - 1)) /\ Cardinality(0..(c - 1)) = IF 0 > c - 1 THEN 0 ELSE (c - 1) - 0 + 1
    BY <2>1, FS_Interval
  <2> QED
    BY <2>2
<1>3. TableSlots(t) = 0..(c - 1)
  BY <1>1, Zenon DEF TableSlots
<1>4. Occupied(t) \in SUBSET TableSlots(t) /\ Deleted(t) \in SUBSET TableSlots(t)
  BY Zenon DEF Occupied, Deleted
<1>5. IsFiniteSet(Occupied(t)) /\ IsFiniteSet(Deleted(t))
  BY <1>2, <1>3, <1>4, FS_Subset, Zenon
<1> QED
  BY <1>1, <1>2, <1>3, <1>5, FS_CardinalityType, Zenon

\* A table with fewer entries and tombstones than slots has an EMPTY slot.
LEMMA RoomLeft ==
    ASSUME NEW t, Shape(t), Cardinality(Occupied(t)) + Cardinality(Deleted(t)) < t.capacity
    PROVE  HasRoom(t)
<1> SUFFICES ASSUME ~HasRoom(t) PROVE FALSE
  OBVIOUS
<1>1. PICK A, B, U : A = Occupied(t) /\ B = Deleted(t) /\ U = TableSlots(t)
  BY Zenon
<1>2. /\ IsFiniteSet(U) /\ Cardinality(U) = t.capacity
      /\ IsFiniteSet(A) /\ Cardinality(A) \in Nat
      /\ IsFiniteSet(B) /\ Cardinality(B) \in Nat /\ t.capacity \in Nat
  BY <1>1, FiniteTable, ShapeFields, Zenon
<1>3. U = A \cup B
  <2>1. \A s \in U : t.control[s] \in {"empty", "occupied", "deleted"} /\ t.control[s] # "empty"
    BY <1>1, ShapeFields, Zenon DEF HasRoom
  <2>2. A = {s \in U : t.control[s] = "occupied"} /\ B = {s \in U : t.control[s] = "deleted"}
    BY <1>1, Zenon DEF Occupied, Deleted
  <2> QED
    BY <2>1, <2>2, Zenon
<1>4. Cardinality(A \cup B) = Cardinality(A) + Cardinality(B) - Cardinality(A \cap B)
  BY <1>2, FS_Union
<1>5. Cardinality(A \cap B) \in Nat
  <2>1. IsFiniteSet(A \cap B)
    BY <1>2, FS_Subset
  <2> QED
    BY <2>1, FS_CardinalityType, Zenon
<1>6. PICK x, y, z, w : /\ x = Cardinality(A) /\ y = Cardinality(B) /\ z = Cardinality(A \cap B)
                        /\ w = t.capacity
  BY Zenon
<1>7. /\ x \in Nat /\ y \in Nat /\ z \in Nat /\ w \in Nat
      /\ w = x + y - z /\ x + y < w
  BY <1>1, <1>2, <1>3, <1>4, <1>5, <1>6, Zenon
<1> QED
  BY <1>7

\* resize finds a slot for an entry whose key the new table does not have yet.
LEMMA Settled ==
    ASSUME NEW t, WellProbed(t), HasRoom(t), NEW k \in Keys, NEW v \in Values,
           \A r \in Occupied(t) : t.keys[r] # k, NEW u, u = Settle(t, k, v)
    PROVE  \E s \in TableSlots(t) : s \notin Occupied(t) /\ Reaches(t, k, s) /\ u = Store(t, s, k, v)
<1>1. /\ t.capacity \in Nat /\ Hash[k] \in Nat
  BY ShapeFields, HashMapAssumption, Zenon DEF WellProbed
<1>2. PICK c, h : c = t.capacity /\ h = Hash[k]
  BY Zenon
<1>3. h \in Nat /\ c \in Nat /\ TableSlots(t) = 0..(c - 1)
  BY <1>1, <1>2, Zenon DEF TableSlots
<1>4. PICK z \in 0..(c - 1) : t.control[z] = "empty"
  BY <1>3, Zenon DEF HasRoom
<1>5. c \in Nat \ {0} /\ z \in 0..(c - 1)
  BY <1>3, <1>4
<1>6. \A d : Probe(t, k, d) = (h + d) % c
  BY <1>2, Zenon DEF Probe
<1>7. PICK S : S = {d \in TableSlots(t) : t.control[Probe(t, k, d)] = "empty"}
  BY Zenon
<1>8. \E d \in 0..(c - 1) : (h + d) % c = z
  BY <1>3, <1>5, ProbeCovers, Zenon
<1>9. S # {}
  BY <1>3, <1>4, <1>6, <1>7, <1>8, Zenon
<1>10. S \in SUBSET Nat
  <2>1. S \subseteq 0..(c - 1)
    BY <1>3, <1>7, Zenon
  <2> QED
    BY <1>3, <2>1
<1>11. PICK m : m = Min(S)
  BY Zenon
<1>12. m \in S /\ \A d \in S : m <= d
  BY <1>9, <1>10, <1>11, LeastIs, Zenon
<1>13. u = Store(t, Probe(t, k, m), k, v)
  BY <1>7, <1>9, <1>11, Zenon DEF Settle
<1>14. m \in 0..(c - 1) /\ m \in TableSlots(t) /\ t.control[Probe(t, k, m)] = "empty"
  BY <1>3, <1>7, <1>12, Zenon
<1>15. m \in Nat
  BY <1>3, <1>14
<1>16. Probe(t, k, m) \in TableSlots(t)
  BY <1>3, <1>5, <1>6, <1>15, ProbeInside, Zenon
<1>17. Probe(t, k, m) \notin Occupied(t)
  BY <1>14, Zenon DEF Occupied
<1>18. \A e \in 0..(m - 1) : t.control[Probe(t, k, e)] # "empty"
  <2>1. \A e \in 0..(m - 1) : e \in 0..(c - 1) /\ ~(m <= e)
    BY <1>3, <1>14
  <2> QED
    BY <1>3, <1>7, <1>12, <2>1, Zenon
<1>19. Reaches(t, k, Probe(t, k, m))
  BY <1>14, <1>18, Zenon DEF Reaches
<1> QED
  BY <1>13, <1>16, <1>17, <1>19, Zenon

\* One turn of the loop of resize, and its first m turns.
Turn(t, i, p) ==
    IF t.control[i - 1] # "occupied" THEN p ELSE Settle(p, t.keys[i - 1], t.values[i - 1])

Turns(t, n, m, f) == [i \in 0..m |-> IF i = 0 THEN EmptyTable(n) ELSE Turn(t, i, f[i - 1])]

\* The recursion that defines Rehash has a solution.
LEMMA TurnsExist ==
    ASSUME NEW t, NEW n, NEW N \in Nat
    PROVE  \E f : f = Turns(t, n, N, f)
<1> DEFINE Bad == {m \in Nat : ~\E f : f = Turns(t, n, m, f)}
<1> SUFFICES ASSUME Bad # {} PROVE FALSE
  BY Zenon
<1> HIDE DEF Bad
<1>1. Bad \in SUBSET Nat
  BY Zenon DEF Bad
<1>2. PICK b \in Bad : \A k \in Bad : b <= k
  BY <1>1, Least, Zenon
<1>3. b \in Nat /\ ~\E f : f = Turns(t, n, b, f)
  BY <1>2, Zenon DEF Bad
<1>4. CASE b = 0
  <2>1. PICK f : f = [i \in 0..b |-> EmptyTable(n)]
    BY Zenon
  <2>2. \A i \in 0..b : i = 0
    BY <1>4
  <2>3. f = Turns(t, n, b, f)
    BY <2>1, <2>2, Zenon DEF Turns
  <2> QED
    BY <1>3, <2>3, Zenon
<1>5. CASE b # 0
  <2>1. b - 1 \in Nat /\ ~(b <= b - 1)
    BY <1>3, <1>5
  <2>2. PICK f : f = Turns(t, n, b - 1, f)
    BY <1>2, <2>1, Zenon DEF Bad
  <2>3. PICK g : g = [i \in 0..b |-> IF i = b THEN Turn(t, b, f[b - 1]) ELSE f[i]]
    BY Zenon
  <2>4. ASSUME NEW i \in 0..b
        PROVE  g[i] = IF i = 0 THEN EmptyTable(n) ELSE Turn(t, i, g[i - 1])
    <3>1. CASE i = b
      <4>1. i # 0 /\ i - 1 = b - 1 /\ b - 1 \in 0..b /\ b - 1 # b
        BY <1>3, <1>5, <3>1
      <4>2. g[b - 1] = f[b - 1] /\ g[i] = Turn(t, b, f[b - 1])
        BY <2>3, <3>1, <4>1, Zenon
      <4> QED
        BY <3>1, <4>1, <4>2, Zenon
    <3>2. CASE i # b
      <4>1. i \in 0..(b - 1) /\ (i # 0 => i - 1 \in 0..b /\ i - 1 # b)
        BY <1>3, <3>2
      <4>2. g[i] = f[i] /\ (i # 0 => g[i - 1] = f[i - 1])
        BY <2>3, <3>2, <4>1, Zenon
      <4>3. f[i] = IF i = 0 THEN EmptyTable(n) ELSE Turn(t, i, f[i - 1])
        BY <2>2, <4>1, Zenon DEF Turns
      <4> QED
        BY <4>2, <4>3, Zenon
    <3> QED
      BY <3>1, <3>2, Zenon
  <2>5. g = Turns(t, n, b, g)
    <3>1. g = [i \in 0..b |-> g[i]]
      BY <2>3, Zenon
    <3> QED
      BY <2>4, <3>1, Zenon DEF Turns
  <2> QED
    BY <1>3, <2>5, Zenon
<1> QED
  BY <1>4, <1>5, Zenon

\* Rehash is what its last turn makes.
LEMMA RehashTurns ==
    ASSUME NEW t, t.capacity \in Nat, NEW n
    PROVE  \E r : /\ Rehash(t, n) = r[t.capacity] /\ r[0] = EmptyTable(n)
                  /\ \A i \in 1..t.capacity : r[i] = Turn(t, i, r[i - 1])
<1>1. PICK N \in Nat : N = t.capacity
  BY Zenon
<1> DEFINE g == CHOOSE f : f = Turns(t, n, N, f)
<1>2. g = Turns(t, n, N, g)
  BY TurnsExist, Zenon
<1>3. Rehash(t, n) = g[N]
  BY <1>1 DEF Rehash, Turns, Turn
<1> HIDE DEF g
<1>4. 0 \in 0..N /\ \A i \in 1..N : i \in 0..N /\ i # 0
  OBVIOUS
<1>5. g[0] = EmptyTable(n) /\ \A i \in 1..N : g[i] = Turn(t, i, g[i - 1])
  BY <1>2, <1>4, Zenon DEF Turns
<1> QED
  BY <1>1, <1>3, <1>5, Zenon

\* The entries of t in the slots below i are those of u, which has n slots.
Before(t, i) == {s \in Occupied(t) : s < i}

Moved(t, i, n, u) ==
    /\ WellProbed(u) /\ u.capacity = n /\ Deleted(u) = {}
    /\ Cardinality(Occupied(u)) = Cardinality(Before(t, i))
    /\ \A k, x : Holds(u, k, x) <=> Among(t, Before(t, i), k, x)

\* A turn of resize's loop moves the entry of one slot, if it has one.
LEMMA MovedOne ==
    ASSUME NEW t, WellProbed(t), NEW n \in Nat, Cardinality(Occupied(t)) < n,
           NEW i \in 1..t.capacity, NEW u, Moved(t, i - 1, n, u), NEW w, w = Turn(t, i, u)
    PROVE  Moved(t, i, n, w)
<1>1. PICK c \in Nat : c = t.capacity
  BY ShapeFields, Zenon DEF WellProbed
<1>2. PICK p \in 0..(c - 1) : p = i - 1
  BY <1>1
<1>3. p \in TableSlots(t) /\ Moved(t, p, n, u) /\ p \in Nat /\ p < i
  <2>1. p \in Nat /\ p < i /\ p \in 0..(c - 1)
    BY <1>1, <1>2
  <2> QED
    BY <1>1, <1>2, <2>1, Zenon DEF TableSlots
<1>4. \A s \in Occupied(t) : s < i <=> s < p \/ s = p
  <2>1. \A s \in 0..(c - 1) : s < i <=> s < p \/ s = p
    BY <1>1, <1>2
  <2>2. \A s \in Occupied(t) : s \in 0..(c - 1)
    BY <1>1, Zenon DEF Occupied, TableSlots
  <2> QED
    BY <2>1, <2>2, Zenon
<1>5. w = IF t.control[p] # "occupied" THEN u ELSE Settle(u, t.keys[p], t.values[p])
  BY <1>2, Zenon DEF Turn
<1>6. CASE t.control[p] # "occupied"
  <2>1. p \notin Occupied(t)
    BY <1>6, Zenon DEF Occupied
  <2>2. Before(t, i) = Before(t, p)
    BY <1>4, <2>1, Zenon DEF Before
  <2>3. w = u
    BY <1>5, <1>6, Zenon
  <2> QED
    BY <1>3, <2>2, <2>3, Zenon DEF Moved
<1>7. CASE t.control[p] = "occupied"
  <2>1. p \in Occupied(t)
    BY <1>3, <1>7, Zenon DEF Occupied
  <2>2. PICK k, v : k = t.keys[p] /\ v = t.values[p]
    BY Zenon
  <2>3. k \in Keys /\ v \in Values
    BY <2>1, <2>2, Zenon DEF WellProbed, Shape
  <2>4. p \notin Before(t, p)
    <3>1. ~(p < p)
      BY <1>3
    <3> QED
      BY <3>1 DEF Before
  <2>5. \A s \in Before(t, p) : t.keys[s] # k
    BY <2>1, <2>2, <2>4, Zenon DEF Before, WellProbed
  <2>6. Before(t, i) = Before(t, p) \cup {p}
    BY <1>4, <2>1, Zenon DEF Before
  <2>7. \A r \in Occupied(u) : u.keys[r] # k
    <3> SUFFICES ASSUME NEW r \in Occupied(u), u.keys[r] = k PROVE FALSE
      BY Zenon
    <3>1. Holds(u, k, u.values[r])
      BY Zenon DEF Holds, Among
    <3> QED
      <4>1. Among(t, Before(t, p), k, u.values[r])
        BY <1>3, <3>1, Zenon DEF Moved
      <4> QED
        BY <2>5, <4>1, Zenon DEF Among
  <2>8. IsFiniteSet(Occupied(t)) /\ Cardinality(Occupied(t)) \in Nat
    BY FiniteTable, Zenon DEF WellProbed
  <2>9. /\ IsFiniteSet(Before(t, p)) /\ Cardinality(Before(t, p)) \in Nat
        /\ Cardinality(Before(t, p)) <= Cardinality(Occupied(t))
    <3>1. Before(t, p) \in SUBSET Occupied(t)
      BY Zenon DEF Before
    <3> QED
      BY <2>8, <3>1, FS_Subset, FS_CardinalityType, Zenon
  <2>10. HasRoom(u)
    <3>1. Shape(u) /\ u.capacity = n /\ Cardinality(Deleted(u)) = 0
      BY <1>3, FS_EmptySet, Zenon DEF Moved, WellProbed
    <3>2. Cardinality(Occupied(u)) = Cardinality(Before(t, p))
      BY <1>3, Zenon DEF Moved
    <3>3. Cardinality(Occupied(u)) + Cardinality(Deleted(u)) < u.capacity
      BY <2>8, <2>9, <3>1, <3>2
    <3> QED
      BY <3>1, <3>3, RoomLeft, Zenon
  <2>11. w = Settle(u, k, v)
    BY <1>5, <1>7, <2>2, Zenon
  <2>12. WellProbed(u) /\ u.capacity = n /\ Deleted(u) = {}
    BY <1>3, Zenon DEF Moved
  <2>13. PICK s \in TableSlots(u) : s \notin Occupied(u) /\ Reaches(u, k, s) /\ w = Store(u, s, k, v)
    BY ONLY <2>3, <2>7, <2>10, <2>11, <2>12, Settled
  <2>14. /\ WellProbed(w) /\ w.capacity = u.capacity
         /\ Occupied(w) = Occupied(u) \cup {s} /\ Deleted(w) = Deleted(u) \ {s}
         /\ \A x : Holds(w, k, x) <=> x = v
         /\ \A j, x : j # k => (Holds(w, j, x) <=> Holds(u, j, x))
    <3>1. /\ s \in TableSlots(u)
          /\ \/ s \in Occupied(u) /\ u.keys[s] = k
             \/ /\ \A r \in Occupied(u) : u.keys[r] # k
                /\ s \notin Occupied(u) /\ Reaches(u, k, s)
      BY <2>7, <2>13, Zenon
    <3> QED
      BY ONLY <2>3, <2>12, <2>13, <3>1, Stored
  <2>15. Cardinality(Occupied(w)) = Cardinality(Before(t, i))
    <3>1. IsFiniteSet(Occupied(u))
      BY <2>12, FiniteTable, Zenon DEF WellProbed
    <3>2. Cardinality(Occupied(w)) = Cardinality(Occupied(u)) + 1
      BY <2>13, <2>14, <3>1, FS_AddElement, Zenon
    <3>3. Cardinality(Before(t, i)) = Cardinality(Before(t, p)) + 1
      BY <2>4, <2>6, <2>9, FS_AddElement, Zenon
    <3> QED
      BY <1>3, <3>2, <3>3, Zenon DEF Moved
  <2>16. ASSUME NEW j, NEW x
         PROVE  Holds(w, j, x) <=> Among(t, Before(t, i), j, x)
    <3>1. CASE j = k
      BY <2>2, <2>5, <2>6, <2>14, <3>1, Zenon DEF Among
    <3>2. CASE j # k
      <4>1. Holds(u, j, x) <=> Among(t, Before(t, p), j, x)
        BY <1>3, Zenon DEF Moved
      <4>2. Holds(w, j, x) <=> Holds(u, j, x)
        BY <2>14, <3>2, Zenon
      <4> QED
        BY <2>2, <2>6, <3>2, <4>1, <4>2, Zenon DEF Among
    <3> QED
      BY <3>1, <3>2, Zenon
  <2>17. Deleted(w) = {}
    BY <2>12, <2>14, Zenon
  <2> QED
    BY <2>12, <2>14, <2>15, <2>16, <2>17, Zenon DEF Moved
<1> QED
  BY <1>6, <1>7, Zenon

\* Growth keeps every entry, drops the tombstones, and moves each entry to a
\* slot that its probe reaches.
LEMMA Rehashed ==
    ASSUME NEW t, WellProbed(t), NEW n \in Nat, Cardinality(Occupied(t)) < n,
           NEW u, u = Rehash(t, n)
    PROVE  /\ WellProbed(u) /\ u.capacity = n /\ Deleted(u) = {}
           /\ Cardinality(Occupied(u)) = Cardinality(Occupied(t))
           /\ \A k, x : Holds(u, k, x) <=> Holds(t, k, x)
<1>1. PICK N \in Nat : N = t.capacity
  BY ShapeFields, Zenon DEF WellProbed
<1>2. PICK r : /\ u = r[N] /\ r[0] = EmptyTable(n)
               /\ \A i \in 1..N : r[i] = Turn(t, i, r[i - 1])
  <2>1. \E r : /\ Rehash(t, n) = r[t.capacity] /\ r[0] = EmptyTable(n)
               /\ \A i \in 1..t.capacity : r[i] = Turn(t, i, r[i - 1])
    BY <1>1, RehashTurns
  <2> QED
    BY <1>1, <2>1, Zenon
<1>3. \A s \in Occupied(t) : s \in 0..(N - 1)
  BY <1>1, Zenon DEF Occupied, TableSlots
<1>4. Moved(t, 0, n, r[0])
  <2>1. Before(t, 0) = {}
    <3>1. \A s \in 0..(N - 1) : ~(s < 0)
      OBVIOUS
    <3> QED
      BY <1>3, <3>1, Zenon DEF Before
  <2>2. WellProbed(r[0]) /\ r[0].capacity = n /\ Occupied(r[0]) = {} /\ Deleted(r[0]) = {}
    BY <1>2, Emptied, Zenon
  <2> QED
    BY <2>1, <2>2, Zenon DEF Moved, Holds, Among
<1> DEFINE Bad == {i \in 0..N : ~Moved(t, i, n, r[i])}
<1>5. Bad = {}
  <2> SUFFICES ASSUME Bad # {} PROVE FALSE
    OBVIOUS
  <2> HIDE DEF Bad
  <2>1. Bad \in SUBSET Nat
    BY DEF Bad
  <2>2. PICK b \in Bad : \A k \in Bad : b <= k
    BY <2>1, Least, Zenon
  <2>3. b \in 0..N /\ ~Moved(t, b, n, r[b])
    BY <2>2, Zenon DEF Bad
  <2>4. b # 0
    BY <1>4, <2>3, Zenon
  <2>5. b \in 1..N /\ b - 1 \in 0..N /\ ~(b <= b - 1)
    BY <2>3, <2>4
  <2>6. Moved(t, b - 1, n, r[b - 1])
    BY <2>2, <2>5, Zenon DEF Bad
  <2>7. r[b] = Turn(t, b, r[b - 1])
    BY <1>2, <2>5, Zenon
  <2>8. b \in 1..t.capacity
    BY <1>1, <2>5, Zenon
  <2> QED
    BY <2>3, <2>6, <2>7, <2>8, MovedOne, Zenon
<1>6. Moved(t, N, n, u)
  <2>1. N \in 0..N
    OBVIOUS
  <2> QED
    BY <1>2, <1>5, <2>1, Zenon
<1>7. Before(t, N) = Occupied(t)
  <2>1. \A s \in 0..(N - 1) : s < N
    OBVIOUS
  <2> QED
    BY <1>3, <2>1, Zenon DEF Before
<1>8. \A k, x : Holds(t, k, x) <=> Among(t, Before(t, N), k, x)
  BY <1>7, Zenon DEF Holds
<1> QED
  BY <1>6, <1>7, <1>8, Zenon DEF Moved

-----------------------------------------------------------------------------
\* What get finds in t, which has an EMPTY slot if it has a slot.
Find(t, k) == LET at == Locate(t, k) IN
              IF t.capacity # 0 /\ at.found THEN t.values[at.slot] ELSE Absent

Searchable(t) == WellProbed(t) /\ (t.capacity # 0 => HasRoom(t))

\* get finds exactly what the table holds.
LEMMA Finds ==
    ASSUME NEW t, Searchable(t), NEW k \in Keys
    PROVE  /\ Find(t, k) \in Values \cup {Absent}
           /\ \A x \in Values : Find(t, k) = x <=> Holds(t, k, x)
           /\ t.capacity # 0 => (Find(t, k) # Absent <=> Locate(t, k).found)
           /\ t.capacity = 0 => Find(t, k) = Absent
<1>1. PICK at : at = Locate(t, k)
  BY Zenon
<1>2. WellProbed(t) /\ Absent \notin Values /\ \A s \in Occupied(t) : t.values[s] \in Values
  BY HashMapAssumption, Zenon DEF Searchable, WellProbed, Shape
<1>3. CASE t.capacity = 0
  <2>1. Find(t, k) = Absent
    BY <1>3, Zenon DEF Find
  <2>2. Occupied(t) = {}
    <3>1. 0..(0 - 1) = {}
      OBVIOUS
    <3> QED
      BY <1>3, <3>1, Zenon DEF Occupied, TableSlots
  <2> QED
    BY <1>2, <1>3, <2>1, <2>2, Zenon DEF Holds, Among
<1>4. CASE t.capacity # 0 /\ at.found
  <2>1. at.slot \in Occupied(t) /\ t.keys[at.slot] = k
    <3>1. HasRoom(t)
      BY <1>4, Zenon DEF Searchable
    <3> QED
      BY <1>1, <1>2, <1>4, <3>1, Located
  <2>2. Find(t, k) = t.values[at.slot]
    BY <1>1, <1>4, Zenon DEF Find
  <2>3. \A s \in Occupied(t) : t.keys[s] = k => s = at.slot
    BY <1>2, <2>1, Zenon DEF WellProbed
  <2>4. Find(t, k) \in Values /\ Find(t, k) # Absent
    BY <1>2, <2>1, <2>2, Zenon
  <2>5. \A x \in Values : Find(t, k) = x <=> Holds(t, k, x)
    BY <2>1, <2>2, <2>3, Zenon DEF Holds, Among
  <2> QED
    BY <1>1, <1>4, <2>4, <2>5, Zenon
<1>5. CASE t.capacity # 0 /\ ~at.found
  <2>1. \A s \in Occupied(t) : t.keys[s] # k
    BY <1>1, <1>2, <1>5, Located, Zenon DEF Searchable
  <2>2. Find(t, k) = Absent
    BY <1>1, <1>5, Zenon DEF Find
  <2>3. \A x \in Values : Find(t, k) = x <=> Holds(t, k, x)
    BY <1>2, <2>1, <2>2, Zenon DEF Holds, Among
  <2> QED
    BY <1>1, <1>5, <2>2, <2>3, Zenon
<1> QED
  BY <1>3, <1>4, <1>5, Zenon

\* Two tables with the same entries of k answer alike.
LEMMA SameFind ==
    ASSUME NEW t, Searchable(t), NEW u, Searchable(u), NEW k \in Keys,
           \A x : Holds(t, k, x) <=> Holds(u, k, x)
    PROVE  Find(t, k) = Find(u, k)
<1>1. PICK a, b : a = Find(t, k) /\ b = Find(u, k)
  BY Zenon
<1>2. a \in Values \cup {Absent} /\ \A x \in Values : a = x <=> Holds(t, k, x)
  BY <1>1, Finds, Zenon
<1>3. b \in Values \cup {Absent} /\ \A x \in Values : b = x <=> Holds(u, k, x)
  BY <1>1, Finds, Zenon
<1>4. a \in Values => a = b
  BY <1>2, <1>3, Zenon
<1>5. b \in Values => a = b
  BY <1>2, <1>3, Zenon
<1> QED
  BY <1>1, <1>2, <1>3, <1>4, <1>5, Zenon

\* u holds x for k, and for the other keys what t holds.
Entered(t, u, k, x) ==
    /\ \A y : Holds(u, k, y) <=> y = x
    /\ \A j, y : j # k => (Holds(u, j, y) <=> Holds(t, j, y))

\* put, once there is room: the entry is stored, no other is touched, and the
\* counts follow.
LEMMA PutInto ==
    ASSUME NEW t, WellProbed(t), NEW k \in Keys, NEW v \in Values,
           Cardinality(Occupied(t)) + Cardinality(Deleted(t)) + 1 < t.capacity,
           NEW at, at = Locate(t, k), NEW u, u = Store(t, at.slot, k, v)
    PROVE  /\ WellProbed(u) /\ u.capacity = t.capacity
           /\ Cardinality(Occupied(u)) = IF at.found THEN Cardinality(Occupied(t))
                                         ELSE Cardinality(Occupied(t)) + 1
           /\ Cardinality(Deleted(u)) = IF ~at.found /\ t.control[at.slot] = "deleted"
                                        THEN Cardinality(Deleted(t)) - 1 ELSE Cardinality(Deleted(t))
           /\ Cardinality(Occupied(u)) + Cardinality(Deleted(u)) < u.capacity
           /\ Entered(t, u, k, v)
<1>1. PICK A, B, s : A = Occupied(t) /\ B = Deleted(t) /\ s = at.slot
  BY Zenon
<1>2. /\ Shape(t) /\ IsFiniteSet(A) /\ Cardinality(A) \in Nat
      /\ IsFiniteSet(B) /\ Cardinality(B) \in Nat /\ t.capacity \in Nat
  BY <1>1, FiniteTable, ShapeFields, Zenon DEF WellProbed
<1>3. HasRoom(t)
  <2>1. Cardinality(Occupied(t)) + Cardinality(Deleted(t)) < t.capacity
    BY <1>1, <1>2
  <2> QED
    BY <1>2, <2>1, RoomLeft, Zenon
<1>4. /\ s \in TableSlots(t)
      /\ at.found => s \in A /\ t.keys[s] = k
      /\ ~at.found => /\ \A r \in A : t.keys[r] # k
                      /\ s \notin A /\ Reaches(t, k, s)
  <2>1. /\ at.slot \in TableSlots(t)
        /\ at.found => at.slot \in Occupied(t) /\ t.keys[at.slot] = k
        /\ ~at.found => /\ \A r \in Occupied(t) : t.keys[r] # k
                        /\ at.slot \notin Occupied(t) /\ Reaches(t, k, at.slot)
    BY <1>3, Located
  <2> QED
    BY <1>1, <2>1, Zenon
<1>5. /\ WellProbed(u) /\ u.capacity = t.capacity
      /\ Occupied(u) = A \cup {s} /\ Deleted(u) = B \ {s}
      /\ \A x : Holds(u, k, x) <=> x = v
      /\ \A j, x : j # k => (Holds(u, j, x) <=> Holds(t, j, x))
  <2>1. /\ s \in TableSlots(t) /\ u = Store(t, s, k, v) /\ WellProbed(t) /\ k \in Keys /\ v \in Values
        /\ \/ s \in Occupied(t) /\ t.keys[s] = k
           \/ /\ \A r \in Occupied(t) : t.keys[r] # k
              /\ s \notin Occupied(t) /\ Reaches(t, k, s)
    BY <1>1, <1>4, Zenon
  <2>2. /\ WellProbed(u) /\ u.capacity = t.capacity
        /\ Occupied(u) = Occupied(t) \cup {s} /\ Deleted(u) = Deleted(t) \ {s}
        /\ \A x : Holds(u, k, x) <=> x = v
        /\ \A j, x : j # k => (Holds(u, j, x) <=> Holds(t, j, x))
    BY ONLY <2>1, Stored
  <2> QED
    BY <1>1, <2>2, Zenon
<1>6. s \in B <=> t.control[s] = "deleted"
  BY <1>1, <1>4, Zenon DEF Deleted
<1>7. s \in A => s \notin B
  <2>1. s \in A => t.control[s] = "occupied"
    BY <1>1, Zenon DEF Occupied
  <2> QED
    BY <1>6, <2>1, Zenon
<1>8. Cardinality(Occupied(u)) = IF at.found THEN Cardinality(A) ELSE Cardinality(A) + 1
  <2>1. Cardinality(A \cup {s}) = IF s \in A THEN Cardinality(A) ELSE Cardinality(A) + 1
    BY <1>2, FS_AddElement
  <2> QED
    BY <1>4, <1>5, <2>1, Zenon
<1>9. Cardinality(Deleted(u)) = IF s \in B THEN Cardinality(B) - 1 ELSE Cardinality(B)
  <2>1. Cardinality(B \ {s}) = IF s \in B THEN Cardinality(B) - 1 ELSE Cardinality(B)
    BY <1>2, FS_RemoveElement
  <2> QED
    BY <1>5, <2>1, Zenon
<1>10. Cardinality(Deleted(u)) = IF ~at.found /\ t.control[s] = "deleted"
                                 THEN Cardinality(B) - 1 ELSE Cardinality(B)
  BY <1>4, <1>6, <1>7, <1>9, Zenon
<1>11. Cardinality(Occupied(u)) + Cardinality(Deleted(u)) < u.capacity
  <2>1. PICK x, y, w, z : /\ x = Cardinality(A) /\ y = Cardinality(B) /\ w = Cardinality(Occupied(u))
                          /\ z = Cardinality(Deleted(u))
    BY Zenon
  <2>2. x \in Nat /\ y \in Nat /\ x + y + 1 < t.capacity /\ t.capacity \in Nat
    BY <1>1, <1>2, <2>1, Zenon
  <2>3. w \in {x, x + 1} /\ z \in {y, y - 1}
    BY <1>8, <1>9, <2>1, Zenon
  <2>4. w + z < t.capacity
    BY <2>2, <2>3
  <2> QED
    BY <1>5, <2>1, <2>4, Zenon
<1> QED
  BY <1>1, <1>5, <1>8, <1>10, <1>11, Zenon DEF Entered

\* remove: a tombstone takes the place of the entry, no other is touched.
LEMMA TakenOut ==
    ASSUME NEW t, WellProbed(t), NEW k \in Keys, NEW s \in Occupied(t), t.keys[s] = k,
           NEW u, u = Write(t, s, "deleted", Absent, Absent)
    PROVE  /\ WellProbed(u) /\ u.capacity = t.capacity
           /\ Occupied(u) = Occupied(t) \ {s} /\ Deleted(u) = Deleted(t) \cup {s}
           /\ \A x : ~Holds(u, k, x)
           /\ \A j, x : j # k => (Holds(u, j, x) <=> Holds(t, j, x))
<1>1. /\ Shape(t) /\ \A r \in Occupied(t) : Reaches(t, t.keys[r], r)
      /\ \A r, q \in Occupied(t) : t.keys[r] = t.keys[q] => r = q
  BY Zenon DEF WellProbed
<1>2. /\ Shape(u) /\ u.capacity = t.capacity /\ u.control[s] = "deleted"
      /\ \A r \in TableSlots(t) : r # s => /\ u.control[r] = t.control[r] /\ u.keys[r] = t.keys[r]
                                           /\ u.values[r] = t.values[r]
  <2>1. PICK o, a : o = "deleted" /\ a = Absent
    BY Zenon
  <2>2. /\ o \in {"empty", "occupied", "deleted"} /\ (o = "occupied" => a \in Keys /\ a \in Values)
        /\ a \in Keys \cup {Absent} /\ a \in Values \cup {Absent} /\ s \in TableSlots(t)
    BY <2>1, Zenon DEF Occupied
  <2>3. u = Write(t, s, o, a, a)
    BY <2>1, Zenon
  <2>4. /\ Shape(u) /\ u.capacity = t.capacity /\ u.control[s] = o
        /\ \A r \in TableSlots(t) : r # s => /\ u.control[r] = t.control[r] /\ u.keys[r] = t.keys[r]
                                             /\ u.values[r] = t.values[r]
    BY ONLY <1>1, <2>2, <2>3, Written
  <2> QED
    BY <2>1, <2>4, Zenon
<1>3. TableSlots(u) = TableSlots(t) /\ \A j, d : Probe(u, j, d) = Probe(t, j, d)
  BY <1>2, Zenon DEF TableSlots, Probe
<1>4. Occupied(u) = Occupied(t) \ {s}
  BY <1>2, <1>3, Zenon DEF Occupied
<1>5. Deleted(u) = Deleted(t) \cup {s}
  <2>1. s \in TableSlots(t)
    BY Zenon DEF Occupied
  <2> QED
    BY <1>2, <1>3, <2>1, Zenon DEF Deleted
<1>6. \A r \in Occupied(u) : /\ r \in Occupied(t) /\ r # s
                             /\ u.keys[r] = t.keys[r] /\ u.values[r] = t.values[r] /\ t.keys[r] # k
  <2>1. \A r \in Occupied(t) : r \in TableSlots(t)
    BY Zenon DEF Occupied
  <2> QED
    BY <1>1, <1>2, <1>4, <2>1, Zenon
<1>7. \A r, q \in Occupied(u) : u.keys[r] = u.keys[q] => r = q
  <2> SUFFICES ASSUME NEW r \in Occupied(u), NEW q \in Occupied(u), u.keys[r] = u.keys[q] PROVE r = q
    BY Zenon
  <2>1. r \in Occupied(t) /\ q \in Occupied(t) /\ u.keys[r] = t.keys[r] /\ u.keys[q] = t.keys[q]
    BY <1>6, Zenon
  <2> QED
    BY <1>1, <2>1, Zenon
<1>8. \A r \in TableSlots(t) : t.control[r] # "empty" => u.control[r] # "empty"
  BY <1>2, Zenon
<1>9. \A j, r : j \in Keys /\ Reaches(t, j, r) => Reaches(u, j, r)
  BY ONLY <1>1, <1>3, <1>8, ReachKept
<1>10. ASSUME NEW r \in Occupied(u) PROVE Reaches(u, u.keys[r], r)
  <2>1. t.keys[r] \in Keys /\ Reaches(t, t.keys[r], r) /\ u.keys[r] = t.keys[r]
    BY <1>1, <1>6, Zenon DEF Shape
  <2> QED
    BY <1>9, <2>1, Zenon
<1>11. ASSUME NEW x PROVE ~Holds(u, k, x)
  BY <1>6, Zenon DEF Holds, Among
<1>12. ASSUME NEW j, NEW x, j # k PROVE Holds(u, j, x) <=> Holds(t, j, x)
  <2>1. \A r \in Occupied(t) : t.keys[r] = j => r \in Occupied(u)
    BY <1>4, <1>12, Zenon
  <2> QED
    BY <1>6, <2>1, Zenon DEF Holds, Among
<1> QED
  BY <1>2, <1>4, <1>5, <1>7, <1>10, <1>11, <1>12, Zenon DEF WellProbed

-----------------------------------------------------------------------------
\* A table with fewer entries and tombstones than slots can be searched.
LEMMA RoomSearchable ==
    ASSUME NEW t, WellProbed(t),
           t.capacity # 0 => Cardinality(Occupied(t)) + Cardinality(Deleted(t)) < t.capacity
    PROVE  Searchable(t)
<1>1. Shape(t)
  BY Zenon DEF WellProbed
<1> QED
  BY <1>1, RoomLeft, Zenon DEF Searchable

\* The map's own table can always be searched.
LEMMA InvSearchable == ASSUME MapInv PROVE Searchable(table)
<1>1. /\ WellProbed(table)
      /\ table.capacity # 0 => Cardinality(Occupied(table)) + Cardinality(Deleted(table)) < table.capacity
  BY Zenon DEF MapInv
<1> QED
  BY <1>1, RoomSearchable, Zenon

\* The counters are numbers, and what they say.
LEMMA InvTyped ==
    ASSUME MapInv
    PROVE  /\ WellProbed(table) /\ table.capacity \in Nat
           /\ len \in Nat /\ tombstones \in Nat /\ len = Cardinality(Occupied(table))
           /\ tombstones = Cardinality(Deleted(table))
           /\ table.capacity # 0 => len + tombstones < table.capacity
           /\ IsFiniteSet(Occupied(table)) /\ IsFiniteSet(Deleted(table))
<1>1. WellProbed(table) /\ Shape(table)
  BY Zenon DEF MapInv, WellProbed
<1> QED
  BY <1>1, FiniteTable, ShapeFields, Zenon DEF MapInv

\* init makes a table, or none, that holds nothing.
LEMMA MapStarts ==
    ASSUME MapInit
    PROVE  MapInv /\ \A k, x : ~Holds(table, k, x)
<1>1. PICK n \in 0..MaxCapacity : table = EmptyTable(n)
  BY Zenon DEF MapInit
<1>2. n \in Nat
  BY <1>1, HashMapAssumption
<1>3. WellProbed(table) /\ table.capacity = n /\ Occupied(table) = {} /\ Deleted(table) = {}
  BY <1>1, <1>2, Emptied, Zenon
<1>4. n # 0 => 0 + 0 < n
  BY <1>2
<1>5. len = 0 /\ tombstones = 0
  BY Zenon DEF MapInit
<1> QED
  BY <1>3, <1>4, <1>5, FS_EmptySet, Zenon DEF MapInv, Holds, Among

\* Clearing and destroying leave a table without entries.
LEMMA MapEmptied ==
    ASSUME NEW n \in Nat, table' = EmptyTable(n), len' = 0, tombstones' = 0
    PROVE  MapInv' /\ \A k, x : ~Holds(table', k, x)
<1>1. PICK u : u = table'
  BY Zenon
<1>2. WellProbed(u) /\ u.capacity = n /\ Occupied(u) = {} /\ Deleted(u) = {}
  BY <1>1, Emptied, Zenon
<1>3. n # 0 => 0 + 0 < n
  OBVIOUS
<1> QED
  BY <1>1, <1>2, <1>3, FS_EmptySet, Zenon DEF MapInv, Holds, Among

\* The part of put after the growth.
LEMMA Insertion ==
    ASSUME NEW t, WellProbed(t), NEW tomb, len = Cardinality(Occupied(t)), tomb = Cardinality(Deleted(t)),
           len + tomb + 1 < t.capacity, NEW k \in Keys, NEW v \in Values, MapInsert(t, tomb, k, v)
    PROVE  /\ MapInv' /\ result' = "ok"
           /\ \A x : Holds(table', k, x) <=> x = v
           /\ \A j, x : j # k => (Holds(table', j, x) <=> Holds(t, j, x))
<1>1. PICK at, u : at = Locate(t, k) /\ u = Store(t, at.slot, k, v)
  BY Zenon
<1>2. /\ table' = u /\ result' = "ok"
      /\ len' = IF at.found THEN len ELSE len + 1
      /\ tombstones' = IF ~at.found /\ t.control[at.slot] = "deleted" THEN tomb - 1 ELSE tomb
  BY <1>1, Zenon DEF MapInsert
<1>3. /\ WellProbed(t) /\ Cardinality(Occupied(t)) + Cardinality(Deleted(t)) + 1 < t.capacity
      /\ k \in Keys /\ v \in Values
  BY Zenon
<1>4. /\ WellProbed(u) /\ u.capacity = t.capacity
      /\ Cardinality(Occupied(u)) = IF at.found THEN Cardinality(Occupied(t))
                                    ELSE Cardinality(Occupied(t)) + 1
      /\ Cardinality(Deleted(u)) = IF ~at.found /\ t.control[at.slot] = "deleted"
                                   THEN Cardinality(Deleted(t)) - 1 ELSE Cardinality(Deleted(t))
      /\ Cardinality(Occupied(u)) + Cardinality(Deleted(u)) < u.capacity
      /\ \A x : Holds(u, k, x) <=> x = v
      /\ \A j, x : j # k => (Holds(u, j, x) <=> Holds(t, j, x))
  <2>1. WellProbed(u) /\ u.capacity = t.capacity
    BY ONLY <1>1, <1>3, PutInto
  <2>2. Cardinality(Occupied(u)) = IF at.found THEN Cardinality(Occupied(t))
                                   ELSE Cardinality(Occupied(t)) + 1
    BY ONLY <1>1, <1>3, PutInto
  <2>3. Cardinality(Deleted(u)) = IF ~at.found /\ t.control[at.slot] = "deleted"
                                  THEN Cardinality(Deleted(t)) - 1 ELSE Cardinality(Deleted(t))
    BY ONLY <1>1, <1>3, PutInto
  <2>4. Cardinality(Occupied(u)) + Cardinality(Deleted(u)) < u.capacity
    BY ONLY <1>1, <1>3, PutInto
  <2>5. Entered(t, u, k, v)
    BY ONLY <1>1, <1>3, PutInto
  <2> QED
    BY <2>1, <2>2, <2>3, <2>4, <2>5, Zenon DEF Entered
<1>5. len' = Cardinality(Occupied(u)) /\ tombstones' = Cardinality(Deleted(u))
  BY <1>2, <1>4, Zenon
<1>6. MapInv'
  BY <1>2, <1>4, <1>5, Zenon DEF MapInv
<1> QED
  BY <1>2, <1>4, <1>6, Zenon

\* A put that succeeds keeps the invariant and changes the entry of its key only.
LEMMA PutWorks ==
    ASSUME MapInv, NEW k \in Keys, NEW v \in Values, MapPut(k, v), result' # "failed"
    PROVE  /\ MapInv' /\ result' = "ok"
           /\ \A x : Holds(table', k, x) <=> x = v
           /\ \A j, x : j # k => (Holds(table', j, x) <=> Holds(table, j, x))
<1>1. /\ WellProbed(table) /\ table.capacity \in Nat
      /\ len \in Nat /\ tombstones \in Nat /\ len = Cardinality(Occupied(table))
      /\ tombstones = Cardinality(Deleted(table))
      /\ table.capacity # 0 => len + tombstones < table.capacity
  BY InvTyped, Zenon
<1>2. CASE ~MustGrow /\ MapInsert(table, tombstones, k, v)
  <2>1. len + tombstones + 1 < table.capacity
    <3>1. PICK x \in Nat, c \in Nat : x = len + tombstones + 1 /\ c = table.capacity
      BY <1>1
    <3>2. ~(x * 4 >= c * 3)
      BY <1>2, <3>1, Zenon DEF MustGrow
    <3>3. x < c
      BY <3>2
    <3> QED
      BY <3>1, <3>3, Zenon
  <2> QED
    BY <1>1, <1>2, <2>1, Insertion
<1>3. CASE MapInsert(Rehash(table, Grown), 0, k, v)
  <2>1. PICK n : n = Grown
    BY Zenon
  <2>2. n \in Nat /\ len < n /\ len + 0 + 1 < n
    <3>1. CASE table.capacity = 0
      <4>1. n = MinCapacity /\ n \in Nat /\ n > 1
        BY <2>1, <3>1, HashMapAssumption, Zenon DEF Grown
      <4>2. len = 0
        <5>1. 0..(0 - 1) = {}
          OBVIOUS
        <5>2. Occupied(table) = {}
          BY <3>1, <5>1, Zenon DEF Occupied, TableSlots
        <5> QED
          BY <1>1, <5>2, FS_EmptySet, Zenon
      <4> QED
        BY <4>1, <4>2
    <3>2. CASE table.capacity # 0
      <4>1. n = table.capacity * 2
        BY <2>1, <3>2, Zenon DEF Grown
      <4> QED
        BY <1>1, <3>2, <4>1
    <3> QED
      BY <3>1, <3>2, Zenon
  <2>3. PICK u : u = Rehash(table, n)
    BY Zenon
  <2>4. Cardinality(Occupied(table)) < n
    BY <1>1, <2>2, Zenon
  <2>5. /\ WellProbed(u) /\ u.capacity = n /\ Deleted(u) = {}
        /\ Cardinality(Occupied(u)) = Cardinality(Occupied(table))
        /\ \A j, x : Holds(u, j, x) <=> Holds(table, j, x)
    BY ONLY <1>1, <2>2, <2>3, <2>4, Rehashed
  <2>6. /\ len = Cardinality(Occupied(u)) /\ 0 = Cardinality(Deleted(u))
        /\ len + 0 + 1 < u.capacity /\ MapInsert(u, 0, k, v)
    BY <1>1, <1>3, <2>1, <2>2, <2>3, <2>5, FS_EmptySet, Zenon
  <2>7. /\ MapInv' /\ result' = "ok"
        /\ \A x : Holds(table', k, x) <=> x = v
        /\ \A j, x : j # k => (Holds(table', j, x) <=> Holds(u, j, x))
    BY <2>5, <2>6, Insertion
  <2> QED
    BY <2>5, <2>7, Zenon
<1> QED
  BY <1>2, <1>3, Zenon DEF MapPut

\* remove keeps the invariant and takes out the entry of its key only.
LEMMA RemoveWorks ==
    ASSUME MapInv, NEW k \in Keys, MapRemove(k)
    PROVE  /\ MapInv'
           /\ \/ result' = "true" /\ Find(table, k) # Absent
              \/ result' = "false" /\ Find(table, k) = Absent
           /\ \A x \in Values : ~Holds(table', k, x)
           /\ \A j, x : j # k => (Holds(table', j, x) <=> Holds(table, j, x))
<1>1. /\ WellProbed(table) /\ table.capacity \in Nat
      /\ len \in Nat /\ tombstones \in Nat /\ len = Cardinality(Occupied(table))
      /\ tombstones = Cardinality(Deleted(table))
      /\ table.capacity # 0 => len + tombstones < table.capacity
      /\ IsFiniteSet(Occupied(table)) /\ IsFiniteSet(Deleted(table))
  BY InvTyped, Zenon
<1>2. Searchable(table)
  BY InvSearchable, Zenon
<1>3. PICK at, s : at = Locate(table, k) /\ s = at.slot
  BY Zenon
<1>4. /\ \A x \in Values : Find(table, k) = x <=> Holds(table, k, x)
      /\ table.capacity # 0 => (Find(table, k) # Absent <=> at.found)
      /\ table.capacity = 0 => Find(table, k) = Absent
  BY <1>2, <1>3, Finds, Zenon
<1>5. CASE table.capacity # 0 /\ at.found
  <2>1. /\ table' = Write(table, s, "deleted", Absent, Absent)
        /\ len' = len - 1 /\ tombstones' = tombstones + 1 /\ result' = "true"
    BY <1>3, <1>5, Zenon DEF MapRemove, Write
  <2>2. s \in Occupied(table) /\ table.keys[s] = k
    <3>1. HasRoom(table)
      BY <1>2, <1>5, Zenon DEF Searchable
    <3>2. at.slot \in Occupied(table) /\ table.keys[at.slot] = k
      BY <1>1, <1>3, <1>5, <3>1, Located
    <3> QED
      BY <1>3, <3>2, Zenon
  <2>3. PICK u : u = table'
    BY Zenon
  <2>4. u = Write(table, s, "deleted", Absent, Absent) /\ k \in Keys
    BY <2>1, <2>3, Zenon
  <2>5. /\ WellProbed(u) /\ u.capacity = table.capacity
        /\ Occupied(u) = Occupied(table) \ {s} /\ Deleted(u) = Deleted(table) \cup {s}
        /\ \A x : ~Holds(u, k, x)
        /\ \A j, x : j # k => (Holds(u, j, x) <=> Holds(table, j, x))
    BY ONLY <1>1, <2>2, <2>4, TakenOut
  <2>6. Cardinality(Occupied(u)) = len - 1
    <3>1. Cardinality(Occupied(table) \ {s}) = IF s \in Occupied(table) THEN Cardinality(Occupied(table)) - 1
                                               ELSE Cardinality(Occupied(table))
      BY <1>1, FS_RemoveElement
    <3> QED
      BY <1>1, <2>2, <2>5, <3>1, Zenon
  <2>7. Cardinality(Deleted(u)) = tombstones + 1
    <3>1. s \notin Deleted(table)
      BY <2>2, Zenon DEF Deleted, Occupied
    <3>2. Cardinality(Deleted(table) \cup {s}) = IF s \in Deleted(table) THEN Cardinality(Deleted(table))
                                                 ELSE Cardinality(Deleted(table)) + 1
      BY <1>1, FS_AddElement
    <3> QED
      BY <1>1, <2>5, <3>1, <3>2, Zenon
  <2>8. (len - 1) + (tombstones + 1) < table.capacity
    BY <1>1, <1>5
  <2>9. MapInv'
    BY <2>1, <2>3, <2>5, <2>6, <2>7, <2>8, Zenon DEF MapInv
  <2> QED
    BY <1>4, <1>5, <2>1, <2>3, <2>5, <2>9, Zenon
<1>6. CASE ~(table.capacity # 0 /\ at.found)
  <2>1. result' = "false" /\ UNCHANGED <<table, len, tombstones>>
    BY <1>3, <1>6, Zenon DEF MapRemove
  <2>2. MapInv'
    BY <2>1, Zenon DEF MapInv
  <2>3. Find(table, k) = Absent
    BY <1>4, <1>6, Zenon
  <2>4. \A x \in Values : x # Absent
    BY HashMapAssumption, Zenon
  <2> QED
    BY <1>4, <2>1, <2>2, <2>3, <2>4, Zenon
<1> QED
  BY <1>5, <1>6, Zenon

\* Every operation of the map keeps the invariant.
LEMMA MapStep ==
    ASSUME MapInv, [MapNext]_mapVars
    PROVE  MapInv'
<1>1. ASSUME NEW k \in Keys, NEW v \in Values, MapPut(k, v) PROVE MapInv'
  <2>1. CASE result' # "failed"
    BY <1>1, <2>1, PutWorks, Zenon
  <2>2. CASE result' = "failed"
    <3>1. UNCHANGED <<table, len, tombstones>>
      BY <1>1, <2>2, Zenon DEF MapPut, MapInsert
    <3> QED
      BY <3>1, Zenon DEF MapInv
  <2> QED
    BY <2>1, <2>2, Zenon
<1>2. ASSUME NEW k \in Keys, MapRemove(k) PROVE MapInv'
  BY <1>2, RemoveWorks, Zenon
<1>3. ASSUME MapClear PROVE MapInv'
  <2>1. table.capacity \in Nat
    BY InvTyped, Zenon
  <2> QED
    BY <1>3, <2>1, MapEmptied, Zenon DEF MapClear
<1>4. ASSUME MapDestroy PROVE MapInv'
  <2>1. 0 \in Nat
    OBVIOUS
  <2> QED
    BY <1>4, <2>1, MapEmptied, Zenon DEF MapDestroy
<1>5. ASSUME UNCHANGED mapVars PROVE MapInv'
  BY <1>5, Zenon DEF mapVars, MapInv
<1> QED
  BY <1>1, <1>2, <1>3, <1>4, <1>5, Zenon DEF MapNext

\* Whatever is put, removed, cleared and grown in hashmap.c, the table keeps an
\* EMPTY slot for every probe to end at, len and tombstones count what they are
\* meant to, and no key is stored twice, for every hash function, every number of
\* keys and every capacity.
THEOREM TableStaysSound == MapSpec => []TableSound
<1>1. MapInit => MapInv
  BY MapStarts
<1>2. MapInv /\ [MapNext]_mapVars => MapInv'
  BY MapStep
<1>3. ASSUME MapInv PROVE TableSound
  <2>1. Searchable(table)
    BY <1>3, InvSearchable
  <2> QED
    BY <1>3, <2>1, Zenon DEF Searchable, HasRoom, TableSound, MapInv, WellProbed, Deleted
<1> QED
  BY <1>1, <1>2, <1>3, PTL DEF MapSpec

-----------------------------------------------------------------------------
\* What callers see of the table.
Contents == [k \in Keys |-> Lookup(k)]

\* The abstract map is what get finds, before a step and after it.
LEMMA ContentsAre ==
    /\ Contents = [k \in Keys |-> Find(table, k)]
    /\ Contents' = [k \in Keys |-> Find(table', k)]
<1>1. \A k : Lookup(k) = Find(table, k) /\ Lookup(k)' = Find(table', k)
  BY Zenon DEF Lookup, Find
<1> QED
  BY <1>1, Zenon DEF Contents

\* A table without entries answers every lookup with nothing.
LEMMA NothingFound ==
    ASSUME NEW t, Searchable(t), \A k, x : ~Holds(t, k, x)
    PROVE  [k \in Keys |-> Find(t, k)] = [k \in Keys |-> Absent]
<1>1. ASSUME NEW k \in Keys PROVE Find(t, k) = Absent
  BY Finds, Zenon
<1> QED
  BY <1>1, Zenon

\* Every operation of the table is one of the abstract map, or changes nothing.
LEMMA MapRefines ==
    ASSUME MapInv, MapInv', [MapNext]_mapVars
    PROVE  [Map!Next]_(Map!vars)
<1>1. Searchable(table) /\ Searchable(table')
  <2>1. PICK u : u = table'
    BY Zenon
  <2>2. WellProbed(u) /\ (u.capacity # 0 => Cardinality(Occupied(u)) + Cardinality(Deleted(u)) < u.capacity)
    BY <2>1, Zenon DEF MapInv
  <2> QED
    BY <2>1, <2>2, InvSearchable, RoomSearchable, Zenon
<1>2. PICK c, d : c = Contents /\ d = Contents'
  BY Zenon
<1>3. c = [k \in Keys |-> Find(table, k)] /\ d = [k \in Keys |-> Find(table', k)]
  BY <1>2, ContentsAre, Zenon
<1>4. ASSUME NEW k \in Keys, NEW v \in Values, MapPut(k, v), result' # "failed"
      PROVE  Map!Put(k, v)
  <2>1. /\ result' = "ok" /\ \A x : Holds(table', k, x) <=> x = v
        /\ \A j, x : j # k => (Holds(table', j, x) <=> Holds(table, j, x))
    BY <1>4, PutWorks, Zenon
  <2>2. Find(table', k) = v
    BY <1>1, <2>1, Finds, Zenon
  <2>3. ASSUME NEW j \in Keys, j # k PROVE Find(table', j) = Find(table, j)
    BY <1>1, <2>1, <2>3, SameFind, Zenon
  <2>4. d = [c EXCEPT ![k] = v]
    BY <1>3, <2>2, <2>3, Zenon
  <2> QED
    BY <1>2, <2>1, <2>4, Zenon DEF Map!Put, Contents
<1>5. ASSUME NEW k \in Keys, NEW v \in Values, MapPut(k, v), result' = "failed"
      PROVE  Map!PutFails
  <2>1. table' = table
    BY <1>5, Zenon DEF MapPut, MapInsert
  <2>2. d = c
    BY <1>3, <2>1, Zenon
  <2> QED
    BY <1>2, <1>5, <2>2, Zenon DEF Map!PutFails, Contents
<1>6. ASSUME NEW k \in Keys, MapRemove(k) PROVE Map!Remove(k)
  <2>1. /\ \/ result' = "true" /\ Find(table, k) # Absent
           \/ result' = "false" /\ Find(table, k) = Absent
        /\ \A x \in Values : ~Holds(table', k, x)
        /\ \A j, x : j # k => (Holds(table', j, x) <=> Holds(table, j, x))
    BY <1>6, RemoveWorks, Zenon
  <2>2. Find(table', k) = Absent
    BY <1>1, <2>1, Finds, Zenon
  <2>3. ASSUME NEW j \in Keys, j # k PROVE Find(table', j) = Find(table, j)
    BY <1>1, <2>1, <2>3, SameFind, Zenon
  <2>4. d = [c EXCEPT ![k] = Absent] /\ c[k] = Find(table, k)
    BY <1>3, <2>2, <2>3, Zenon
  <2>5. \/ result' = "true" /\ c[k] # Absent
        \/ result' = "false" /\ c[k] = Absent
    BY <2>1, <2>4, Zenon
  <2> QED
    BY <1>2, <2>4, <2>5, Zenon DEF Map!Remove, Contents
<1>7. ASSUME MapClear \/ MapDestroy PROVE Map!Clear
  <2>1. PICK n \in Nat : table' = EmptyTable(n) /\ len' = 0 /\ tombstones' = 0
    <3>1. table.capacity \in Nat /\ 0 \in Nat
      BY InvTyped
    <3> QED
      BY <1>7, <3>1, Zenon DEF MapClear, MapDestroy
  <2>2. \A k, x : ~Holds(table', k, x)
    BY <2>1, MapEmptied, Zenon
  <2>3. d = [k \in Keys |-> Absent]
    BY <1>1, <1>3, <2>2, NothingFound, Zenon
  <2>4. result' = result
    BY <1>7, Zenon DEF MapClear, MapDestroy
  <2> QED
    BY <1>2, <2>3, <2>4, Zenon DEF Map!Clear, Contents
<1>8. ASSUME UNCHANGED mapVars PROVE UNCHANGED Map!vars
  <2>1. table' = table /\ result' = result
    BY <1>8, Zenon DEF mapVars
  <2>2. d = c
    BY <1>3, <2>1, Zenon
  <2> QED
    BY <1>2, <2>1, <2>2, Zenon DEF Map!vars, Contents
<1> QED
  BY <1>4, <1>5, <1>6, <1>7, <1>8, Zenon DEF MapNext, Map!Next

\* What get and contains answer is a map: put changes its key alone, a put that
\* fails nothing, remove tells whether the key was there, and neither tombstones
\* nor growth hide an entry, for every hash function and every table size.
THEOREM MapImplements == MapSpec => ImplementsMap
<1>1. MapInit => MapInv
  BY MapStarts
<1>2. MapInv /\ [MapNext]_mapVars => MapInv'
  BY MapStep
<1>3. ASSUME MapInit PROVE Map!Init
  <2>1. MapInv /\ \A k, x : ~Holds(table, k, x)
    BY <1>3, MapStarts
  <2>2. Searchable(table)
    BY <2>1, InvSearchable
  <2>3. Contents = [k \in Keys |-> Absent]
    BY <2>1, <2>2, ContentsAre, NothingFound, Zenon
  <2>4. result = "none"
    BY <1>3, Zenon DEF MapInit
  <2> QED
    BY <2>3, <2>4, Zenon DEF Map!Init, Contents
<1>4. MapInv /\ MapInv' /\ [MapNext]_mapVars => [Map!Next]_(Map!vars)
  BY MapRefines
<1> QED
  BY <1>1, <1>2, <1>3, <1>4, PTL DEF MapSpec, ImplementsMap, Map!Spec
=============================================================================
