--------------------------- MODULE AtomicsProofs ----------------------------
(***************************************************************************)
(* Proofs about two components that threads share through C11 atomics.     *)
(*                                                                         *)
(* ds/ring_buffer.c, for every capacity that divides the number of values  *)
(* of a size_t: no two threads touch a slot at once, and the masked,       *)
(* wrapping counters implement a bounded queue.  The argument is           *)
(* arithmetic: the slots from head to tail are fewer than Capacity apart,  *)
(* so their masked indices differ, and a counter that wraps keeps its slot *)
(* because Capacity divides Word.                                          *)
(*                                                                         *)
(* sys/log.c, for every number of threads, of levels, of streams and of    *)
(* calls: the lazy initialisation happens once and before any use, it      *)
(* undoes no setting, and records do not interleave.                       *)
(***************************************************************************)
EXTENDS RingBuffer, Log, SharedProofs

-----------------------------------------------------------------------------
(* The ring buffer *)

\* The counters and the program counters have their values.
RingTypes ==
    /\ cap \in {0, Capacity}
    /\ head \in 0..(Word - 1) /\ tail \in 0..(Word - 1)
    /\ slot \in [Slots -> Values \cup {Garbage}]
    /\ ppc \in {"idle", "copy", "publish"} /\ pv \in Values \cup {Garbage}
    /\ cpc \in {"idle", "copy", "publish"}

\* A push that has begun has a free slot and a pop that has begun an element,
\* whatever the other end has done since the loads; and their copies are good.
RingInv ==
    /\ Used <= cap
    /\ ppc # "idle" => Used < cap /\ pv \in Values
    /\ cpc # "idle" => Used > 0
    /\ ppc = "publish" => slot[tail % Capacity] = pv
    /\ cpc = "publish" => cv \in {"dropped", slot[head % Capacity]}

-----------------------------------------------------------------------------
(* Arithmetic of the counters *)

\* Masking survives the wrap of a counter.
LEMMA MaskedWrap == ASSUME NEW a \in Nat PROVE (a + Word) % Capacity = a % Capacity
<1>0. Capacity \in Nat \ {0} /\ Word \in Nat /\ Word % Capacity = 0
  BY RingAssumption
<1>1. PICK q \in Nat : a = q * Capacity + (a % Capacity) /\ a % Capacity \in 0..(Capacity - 1)
  BY <1>0, Division, Zenon
<1>2. PICK m \in Nat : Word = m * Capacity
  <2>1. PICK m \in Nat : Word = m * Capacity + (Word % Capacity)
    BY <1>0, Division, Zenon
  <2> QED
    BY <1>0, <2>1
<1> DEFINE r == a % Capacity
<1>3. a = q * Capacity + r /\ r \in 0..(Capacity - 1)
  BY <1>1
<1> HIDE DEF r
<1>4. a + Word = (q + m) * Capacity + r
  <2>1. (q + m) * Capacity = q * Capacity + m * Capacity
    BY <1>0, SumTimes
  <2> QED
    BY <1>0, <1>2, <1>3, <2>1
<1>5. q + m \in Nat
  OBVIOUS
<1>6. (a + Word) % Capacity = r
  BY <1>0, <1>3, <1>4, <1>5, Remainder
<1> QED
  BY <1>6 DEF r

\* Counters fewer than Capacity apart have different slots.
LEMMA MaskedApart ==
    ASSUME NEW a \in Nat, NEW d \in 1..(Capacity - 1)
    PROVE  (a + d) % Capacity # a % Capacity
<1> SUFFICES ASSUME (a + d) % Capacity = a % Capacity PROVE FALSE
  OBVIOUS
<1>0. Capacity \in Nat \ {0}
  BY RingAssumption
<1> DEFINE r == a % Capacity
<1>1. PICK p \in Nat : a = p * Capacity + r /\ r \in 0..(Capacity - 1)
  BY <1>0, Division, Zenon
<1>2. PICK q \in Nat : a + d = q * Capacity + r
  <2>1. a + d \in Nat
    BY <1>0
  <2>2. \E q \in Nat : a + d = q * Capacity + ((a + d) % Capacity)
    BY <1>0, <2>1, Division, Zenon
  <2> QED
    BY <2>2
<1> HIDE DEF r
<1>3. d = (q - p) * Capacity
  <2>1. (q - p) * Capacity = q * Capacity - p * Capacity
    BY <1>0, SumTimes
  <2>2. q * Capacity \in Int /\ p * Capacity \in Int
    BY <1>0
  <2> QED
    BY <1>1, <1>2, <2>1, <2>2
<1>4. PICK m \in Int : m = q - p
  OBVIOUS
<1>5. m * Capacity \notin 1..(Capacity - 1)
  BY <1>0, NoMultipleBetween, Zenon
<1> QED
  BY <1>3, <1>4, <1>5

\* size_t subtraction, without the modulus.
LEMMA MinusCases ==
    ASSUME NEW a \in 0..(Word - 1), NEW b \in 0..(Word - 1)
    PROVE  Minus(a, b) = IF b <= a THEN a - b ELSE a + Word - b
BY RingAssumption DEF Minus

\* A counter's increment, without the modulus.
LEMMA Increment ==
    ASSUME NEW a \in 0..(Word - 1)
    PROVE  (a + 1) % Word = IF a + 1 = Word THEN 0 ELSE a + 1
BY RingAssumption

\* The slot of tail is the one Used places after head.
LEMMA TailSlot ==
    ASSUME RingTypes
    PROVE  /\ Used \in 0..(Word - 1)
           /\ (head + Used) % Capacity = tail % Capacity
<1>1. Used = IF head <= tail THEN tail - head ELSE tail + Word - head
  BY MinusCases DEF RingTypes, Used
<1>2. Used \in 0..(Word - 1) /\ (head + Used = tail \/ head + Used = tail + Word)
  BY <1>1, RingAssumption DEF RingTypes
<1>3. (tail + Word) % Capacity = tail % Capacity
  BY MaskedWrap DEF RingTypes
<1> QED
  BY <1>2, <1>3

\* An index in use is not the slot that a push is writing.
LEMMA UsedSlotsApart ==
    ASSUME RingTypes, Used < Capacity, NEW k \in 1..Used
    PROVE  (head + k - 1) % Capacity # tail % Capacity
<1>1. Used \in Nat /\ head \in Nat /\ Capacity \in Nat \ {0}
  BY TailSlot, RingAssumption DEF RingTypes
<1>2. head + k - 1 \in Nat /\ Used - (k - 1) \in 1..(Capacity - 1)
  BY <1>1
<1>3. (head + k - 1) + (Used - (k - 1)) = head + Used
  BY <1>1
<1> QED
  BY <1>2, <1>3, MaskedApart, TailSlot

\* Advancing tail uses one more place, advancing head one fewer.
LEMMA UsedSteps ==
    ASSUME RingTypes
    PROVE  /\ Used + 1 < Word => Minus((tail + 1) % Word, head) = Used + 1
           /\ Used > 0 => Minus(tail, (head + 1) % Word) = Used - 1
<1>1. /\ (tail + 1) % Word = IF tail + 1 = Word THEN 0 ELSE tail + 1
      /\ (head + 1) % Word = IF head + 1 = Word THEN 0 ELSE head + 1
  BY Increment DEF RingTypes
<1>2. Used = IF head <= tail THEN tail - head ELSE tail + Word - head
  BY MinusCases DEF RingTypes, Used
<1> DEFINE t == (tail + 1) % Word
           h == (head + 1) % Word
<1>3. t \in 0..(Word - 1) /\ h \in 0..(Word - 1)
  BY <1>1, RingAssumption DEF RingTypes
<1>4. Minus(t, head) = IF head <= t THEN t - head ELSE t + Word - head
  BY <1>3, MinusCases DEF RingTypes
<1>5. Minus(tail, h) = IF h <= tail THEN tail - h ELSE tail + Word - h
  BY <1>3, MinusCases DEF RingTypes
<1>6. Used + 1 < Word => Minus(t, head) = Used + 1
  BY <1>1, <1>2, <1>4, RingAssumption DEF RingTypes
<1>7. Used > 0 => Minus(tail, h) = Used - 1
  BY <1>1, <1>2, <1>5, RingAssumption DEF RingTypes
<1> QED
  BY <1>6, <1>7

-----------------------------------------------------------------------------
(* The invariant *)

\* Every step keeps the types.
LEMMA TypesStep == RingTypes /\ RingInv /\ [Next]_vars => RingTypes'
<1> SUFFICES ASSUME RingTypes, [Next]_vars PROVE RingTypes'
  OBVIOUS
<1> USE RingAssumption DEF RingTypes
<1>1. head % Capacity \in Slots /\ tail % Capacity \in Slots
  BY Division DEF Slots
<1>2. ASSUME NEW v \in Values, PushLoad(v) PROVE RingTypes'
  BY <1>1, <1>2 DEF PushLoad, popVars, countVars
<1>3. CASE PushCopied
  BY <1>1, <1>3 DEF PushCopied, popVars, countVars
<1>4. CASE PushPublish
  BY <1>4, Increment DEF PushPublish, popVars, countVars
<1>5. CASE PopLoad \/ PopCopied
  BY <1>5 DEF PopLoad, PopCopied, ringVars, pushVars, countVars
<1>6. CASE PopPublish
  BY <1>6, Increment DEF PopPublish, pushVars, countVars
<1>7. ASSUME NEW o \in Observers, CountTail(o) \/ CountHead(o) PROVE RingTypes'
  BY <1>7 DEF CountTail, CountHead, ringVars, pushVars, popVars
<1>8. CASE Destroy \/ RingInit
  BY <1>8 DEF Destroy, RingInit, pushVars, popVars, countVars
<1>9. CASE UNCHANGED vars
  BY <1>9 DEF vars, ringVars, pushVars, popVars
<1> QED
  BY <1>2, <1>3, <1>4, <1>5, <1>6, <1>7, <1>8, <1>9 DEF Next

\* What a producer and a consumer rely on survives the other's steps.
LEMMA RingStep == RingTypes /\ RingInv /\ [Next]_vars => RingInv'
<1> SUFFICES ASSUME RingTypes, RingInv, [Next]_vars PROVE RingInv'
  OBVIOUS
<1>0. /\ Capacity \in Nat \ {0} /\ Word \in Nat /\ Word > Capacity
      /\ head % Capacity \in Slots /\ tail % Capacity \in Slots
      /\ Used \in Nat /\ cap \in {0, Capacity}
      /\ slot \in [Slots -> Values \cup {Garbage}]
  <2>1. head % Capacity \in Slots /\ tail % Capacity \in Slots
    BY RingAssumption, Division DEF RingTypes, Slots
  <2>2. Used \in Nat
    BY TailSlot
  <2> QED
    BY <2>1, <2>2, RingAssumption DEF RingTypes
\* The slots under the two counters differ while the ring is neither empty nor full.
<1>1. Used > 0 /\ Used < cap => head % Capacity # tail % Capacity
  <2> SUFFICES ASSUME Used > 0, Used < Capacity PROVE head % Capacity # tail % Capacity
    BY <1>0
  <2>1. 1 \in 1..Used /\ head + 1 - 1 = head
    BY <1>0 DEF RingTypes
  <2> QED
    BY <2>1, UsedSlotsApart
<1>2. ASSUME NEW v \in Values, PushLoad(v) PROVE RingInv'
  <2>1. CASE Used = cap
    BY <1>2, <2>1 DEF PushLoad, popVars, RingInv, Used
  <2>2. CASE Used # cap
    <3>1. Used' = Used /\ Used < cap /\ UNCHANGED <<cap, head, tail, cpc, cv>>
      BY <1>0, <1>2, <2>2 DEF PushLoad, popVars, RingInv, Used
    <3>2. ppc' = "copy" /\ pv' = v /\ slot' = [slot EXCEPT ![tail % Capacity] = Garbage]
      BY <1>2, <2>2 DEF PushLoad, Used
    <3>3. Used > 0 => slot'[head % Capacity] = slot[head % Capacity]
      BY <1>0, <1>1, <3>1, <3>2
    <3> QED
      BY <3>1, <3>2, <3>3 DEF RingInv
  <2> QED
    BY <2>1, <2>2
<1>3. CASE PushCopied
  <2>1. Used' = Used /\ UNCHANGED <<cap, head, tail, cpc, cv, pv>> /\ ppc' = "publish"
    BY <1>3 DEF PushCopied, popVars, Used
  <2>2. slot' = [slot EXCEPT ![tail % Capacity] = pv] /\ ppc # "idle"
    BY <1>3 DEF PushCopied
  <2>3. Used > 0 => slot'[head % Capacity] = slot[head % Capacity]
    BY <1>0, <1>1, <2>2 DEF RingInv
  <2>4. slot'[tail % Capacity] = pv
    BY <1>0, <2>2
  <2> QED
    BY <2>1, <2>2, <2>3, <2>4 DEF RingInv
<1>4. CASE PushPublish
  <2>1. Used < cap /\ Used' = Used + 1
    BY <1>0, <1>4, UsedSteps DEF PushPublish, RingInv, Used
  <2> QED
    BY <1>0, <1>4, <2>1 DEF PushPublish, popVars, RingInv
<1>5. CASE PopLoad
  <2>1. head # tail => Used > 0
    BY MinusCases, RingAssumption DEF RingTypes, Used
  <2> QED
    BY <1>5, <2>1 DEF PopLoad, ringVars, pushVars, RingInv, Used
<1>6. CASE PopCopied
  BY <1>6 DEF PopCopied, ringVars, pushVars, RingInv, Used
<1>7. CASE PopPublish
  <2>1. Used > 0 /\ Used' = Used - 1
    BY <1>7, UsedSteps DEF PopPublish, RingInv, Used
  <2> QED
    BY <1>0, <1>7, <2>1 DEF PopPublish, pushVars, RingInv
<1>8. ASSUME NEW o \in Observers, CountTail(o) \/ CountHead(o) PROVE RingInv'
  BY <1>8 DEF CountTail, CountHead, ringVars, pushVars, popVars, RingInv, Used
<1>9. CASE Destroy \/ RingInit
  <2>1. head' = 0 /\ tail' = 0 /\ cap' \in Nat /\ UNCHANGED <<ppc, cpc>> /\ ppc = "idle" /\ cpc = "idle"
    BY <1>0, <1>9 DEF Destroy, RingInit, Quiescent, pushVars, popVars
  <2>2. Minus(0, 0) = 0
    BY <1>0, MinusCases
  <2>3. Used' = 0
    BY <2>1, <2>2 DEF Used
  <2> QED
    BY <2>1, <2>3 DEF RingInv
<1>10. CASE UNCHANGED vars
  BY <1>10, Zenon DEF vars, ringVars, pushVars, popVars, RingInv, Used
<1> QED
  BY <1>2, <1>3, <1>4, <1>5, <1>6, <1>7, <1>8, <1>9, <1>10 DEF Next

\* The invariant holds in every reachable state of the ring buffer.
THEOREM RingInvariance == Spec => [](RingTypes /\ RingInv)
<1>1. Init => RingTypes /\ RingInv
  <2> SUFFICES ASSUME Init PROVE RingTypes /\ RingInv
    OBVIOUS
  <2>1. RingTypes
    BY RingAssumption DEF Init, RingTypes
  <2>2. Used = 0
    BY <2>1, MinusCases DEF Init, RingTypes, Used
  <2> QED
    BY <2>1, <2>2, RingAssumption DEF Init, RingInv
<1>2. RingTypes /\ RingInv /\ [Next]_vars => (RingTypes /\ RingInv)'
  BY TypesStep, RingStep
<1> QED
  BY <1>1, <1>2, PTL DEF Spec

\* The producer's copy and the consumer's copy never touch the same slot, also
\* after the counters have wrapped.
THEOREM CopiesNeverRace == Spec => []NoSlotRace
<1>1. RingTypes /\ RingInv => NoSlotRace
  <2> SUFFICES ASSUME RingTypes, RingInv, ppc # "idle", cpc # "idle"
               PROVE  head % Capacity # tail % Capacity
    BY DEF NoSlotRace, RingTypes
  <2>1. Used < Capacity /\ 1 \in 1..Used /\ head + 1 - 1 = head
    BY TailSlot, RingAssumption DEF RingInv, RingTypes
  <2> QED
    BY <2>1, UsedSlotsApart
<1> QED
  BY RingInvariance, <1>1, PTL

-----------------------------------------------------------------------------
(* d4np_ring_buffer_count *)

\* While the producer counts, tail stands still; while the consumer counts,
\* head does, and the tail it loaded was at most Capacity ahead.
CountInv ==
    /\ opc \in [Observers -> {"idle", "head"}]
    /\ ot \in [Observers -> 0..(Word - 1)]
    /\ counted \in [Observers -> Nat]
    /\ \A o \in Observers : opc[o] = "head" =>
         /\ o = "producer" => ppc = "idle" /\ ot[o] = tail
         /\ o = "consumer" => cpc = "idle" /\ Minus(ot[o], head) <= Capacity
    /\ CountInRange

\* Each step of a push, a pop or a count keeps it, if only the producer and the
\* consumer count.
LEMMA CountStep ==
    ASSUME Observers \subseteq {"producer", "consumer"},
           RingTypes, RingInv, CountInv, [Next]_vars
    PROVE  CountInv'
<1>0. Capacity \in Nat \ {0} /\ Word \in Nat /\ tail \in 0..(Word - 1) /\ Used <= Capacity
      /\ head \in 0..(Word - 1)
  BY RingAssumption, TailSlot DEF RingTypes, RingInv
<1>1. ASSUME NEW v \in Values, PushLoad(v) PROVE CountInv'
  BY <1>1 DEF PushLoad, NotCounting, popVars, countVars, CountInv, CountInRange
<1>2. CASE PushCopied \/ PushPublish \/ PopCopied \/ PopPublish
  BY <1>2, Zenon DEF PushCopied, PushPublish, PopCopied, PopPublish, ringVars, pushVars, popVars,
       countVars, CountInv, CountInRange
<1>3. CASE PopLoad
  BY <1>3 DEF PopLoad, NotCounting, ringVars, pushVars, countVars, CountInv, CountInRange
<1>4. ASSUME NEW o \in Observers, CountTail(o) PROVE CountInv'
  BY <1>0, <1>4 DEF CountTail, ringVars, pushVars, popVars, CountInv, CountInRange, Used
<1>5. ASSUME NEW o \in Observers, CountHead(o) PROVE CountInv'
  <2>1. Minus(ot[o], head) \in Nat /\ Minus(ot[o], head) <= Capacity
    <3>1. ot[o] \in 0..(Word - 1) /\ o \in {"producer", "consumer"} /\ opc[o] = "head"
      BY <1>5 DEF CountHead, CountInv
    <3>2. Minus(ot[o], head) \in Nat
      BY <1>0, <3>1, MinusCases
    <3> QED
      BY <1>0, <3>1, <3>2 DEF CountInv, Used
  <2>2. counted' = [counted EXCEPT ![o] = Minus(ot[o], head)]
        /\ opc' = [opc EXCEPT ![o] = "idle"] /\ ot' = [ot EXCEPT ![o] = 0]
    BY <1>5 DEF CountHead
  <2>3. UNCHANGED <<head, tail, ppc, cpc>>
    BY <1>5 DEF CountHead, ringVars, pushVars, popVars
  <2> HIDE DEF CountInv
  <2> QED
    BY <1>0, <2>1, <2>2, <2>3 DEF CountInv, CountInRange
<1>6. CASE Destroy \/ RingInit
  BY <1>6 DEF Destroy, RingInit, Quiescent, countVars, CountInv, CountInRange
<1>7. CASE UNCHANGED vars
  BY <1>7 DEF vars, ringVars, pushVars, popVars, countVars, CountInv, CountInRange
<1> QED
  BY <1>1, <1>2, <1>3, <1>4, <1>5, <1>6, <1>7 DEF Next

\* count never tells the producer or the consumer of more elements than fit,
\* though the other end moves between its two loads.
THEOREM CountsInRange ==
    ASSUME Observers \subseteq {"producer", "consumer"}
    PROVE  Spec => []CountInRange
<1>1. Init => CountInv
  BY RingAssumption DEF Init, CountInv, CountInRange
<1>2. RingTypes /\ RingInv /\ CountInv /\ [Next]_vars => CountInv'
  BY CountStep
<1>3. CountInv => CountInRange
  BY DEF CountInv
<1> QED
  BY <1>1, <1>2, <1>3, RingInvariance, PTL DEF Spec

-----------------------------------------------------------------------------
(* The refinement of Fifo *)

\* The u elements from counter h on, oldest first.
ElementsFrom(u, h, s) == [k \in 1..u |-> s[(h + k - 1) % Capacity]]

\* They are a sequence.
LEMMA ElementsSeq ==
    ASSUME NEW u \in Nat, NEW h \in Nat, NEW s \in [Slots -> Values \cup {Garbage}]
    PROVE  LET c == ElementsFrom(u, h, s) IN
           /\ c \in Seq(Values \cup {Garbage}) /\ Len(c) = u
           /\ \A k \in 1..u : c[k] = s[(h + k - 1) % Capacity]
           /\ c = <<>> <=> u = 0
<1> DEFINE c == ElementsFrom(u, h, s)
<1>1. \A k \in 1..u : (h + k - 1) % Capacity \in Slots
  BY Division, RingAssumption DEF Slots
<1>2. c \in [1..u -> Values \cup {Garbage}]
  BY <1>1 DEF ElementsFrom
<1>3. c \in Seq(Values \cup {Garbage}) /\ Len(c) = u
  BY <1>2, SeqDef
<1>4. c = <<>> <=> u = 0
  BY <1>3, EmptySeq
<1> QED
  BY <1>3, <1>4 DEF ElementsFrom

\* Publishing the tail appends the copied element.
LEMMA PublishAppends ==
    ASSUME RingTypes, RingInv, RingTypes', PushPublish
    PROVE  /\ Used < cap /\ pv \in Values
           /\ ElementsFrom(Used, head, slot)' = Append(ElementsFrom(Used, head, slot), pv)
<1> DEFINE c == ElementsFrom(Used, head, slot)
           d == ElementsFrom(Used + 1, head, slot)
<1>1. /\ Used \in Nat /\ head \in Nat /\ slot \in [Slots -> Values \cup {Garbage}]
      /\ Used < cap /\ pv \in Values /\ pv = slot[tail % Capacity]
      /\ Used' = Used + 1 /\ UNCHANGED <<head, slot>>
  <2>1. Used \in Nat /\ Used < cap /\ pv \in Values /\ pv = slot[tail % Capacity]
    BY TailSlot DEF RingInv, PushPublish
  <2>2. Used' = Used + 1
    BY <2>1, UsedSteps, RingAssumption DEF PushPublish, RingTypes, Used
  <2> QED
    BY <2>1, <2>2 DEF PushPublish, RingTypes
<1>2. ElementsFrom(Used, head, slot)' = d
  BY <1>1 DEF ElementsFrom
<1>3. /\ c \in Seq(Values \cup {Garbage}) /\ Len(c) = Used
      /\ \A k \in 1..Used : c[k] = slot[(head + k - 1) % Capacity]
  BY <1>1, ElementsSeq
<1>4. /\ d \in Seq(Values \cup {Garbage}) /\ Len(d) = Used + 1
      /\ \A k \in 1..(Used + 1) : d[k] = slot[(head + k - 1) % Capacity]
  BY <1>1, ElementsSeq
<1> HIDE DEF c, d
<1>5. /\ Append(c, pv) \in Seq(Values \cup {Garbage}) /\ Len(Append(c, pv)) = Used + 1
      /\ \A k \in 1..Used : Append(c, pv)[k] = c[k]
      /\ Append(c, pv)[Used + 1] = pv
  BY <1>1, <1>3, AppendProperties
<1>6. d[Used + 1] = pv
  <2>1. head + (Used + 1) - 1 = head + Used /\ Used + 1 \in 1..(Used + 1)
    BY <1>1
  <2>2. d[Used + 1] = slot[(head + (Used + 1) - 1) % Capacity]
    BY <1>4, <2>1
  <2>3. d[Used + 1] = slot[(head + Used) % Capacity]
    BY <2>1, <2>2
  <2> QED
    BY <1>1, <2>3, TailSlot
<1>7. ASSUME NEW k \in 1..(Used + 1) PROVE d[k] = Append(c, pv)[k]
  <2>1. CASE k = Used + 1
    BY <1>5, <1>6, <2>1, Zenon
  <2>2. CASE k # Used + 1
    <3>1. k \in 1..Used
      BY <1>1, <2>2
    <3> QED
      BY <1>3, <1>4, <1>5, <3>1, Zenon
  <2> QED
    BY <2>1, <2>2, Zenon
<1>8. d = Append(c, pv)
  BY <1>4, <1>5, <1>7, SeqEqual
<1> QED
  BY <1>1, <1>2, <1>8 DEF c

\* Publishing the head takes the oldest element away.
LEMMA PublishTakes ==
    ASSUME RingTypes, RingInv, RingTypes', PopPublish
    PROVE  /\ ElementsFrom(Used, head, slot) # <<>>
           /\ Head(ElementsFrom(Used, head, slot)) = slot[head % Capacity]
           /\ ElementsFrom(Used, head, slot)' = Tail(ElementsFrom(Used, head, slot))
<1> DEFINE c == ElementsFrom(Used, head, slot)
           h == (head + 1) % Word
           d == ElementsFrom(Used - 1, h, slot)
<1>1. /\ Used \in Nat /\ head \in Nat /\ slot \in [Slots -> Values \cup {Garbage}]
      /\ Used > 0 /\ Used' = Used - 1 /\ head' = h /\ slot' = slot
  <2>1. Used \in Nat /\ Used > 0
    BY TailSlot DEF RingInv, PopPublish
  <2>2. Used' = Used - 1
    BY <2>1, UsedSteps DEF PopPublish, Used
  <2> QED
    BY <2>1, <2>2 DEF PopPublish, RingTypes
<1>2. h \in Nat /\ Used - 1 \in Nat /\ \A k \in Nat : (h + k) % Capacity = (head + 1 + k) % Capacity
  <2>1. h = IF head + 1 = Word THEN 0 ELSE head + 1
    BY Increment DEF RingTypes
  <2>2. \A k \in Nat : (k + Word) % Capacity = k % Capacity
    BY MaskedWrap
  <2>3. CASE head + 1 = Word
    <3>1. h = 0
      BY <2>1, <2>3
    <3>2. ASSUME NEW k \in Nat PROVE (h + k) % Capacity = (head + 1 + k) % Capacity
      <4>1. h + k = k /\ head + 1 + k = k + Word
        BY <1>1, <2>3, <3>1, RingAssumption
      <4> QED
        BY <2>2, <4>1
    <3> QED
      BY <1>1, <3>1, <3>2
  <2>4. CASE head + 1 # Word
    BY <1>1, <2>1, <2>4
  <2> QED
    BY <2>3, <2>4
<1>3. ElementsFrom(Used, head, slot)' = d
  BY <1>1 DEF ElementsFrom
<1> HIDE DEF h
<1>4. /\ c \in Seq(Values \cup {Garbage}) /\ Len(c) = Used
      /\ \A k \in 1..Used : c[k] = slot[(head + k - 1) % Capacity]
      /\ c # <<>>
  <2>1. /\ c \in Seq(Values \cup {Garbage}) /\ Len(c) = Used
        /\ \A k \in 1..Used : c[k] = slot[(head + k - 1) % Capacity]
    BY <1>1, ElementsSeq
  <2>2. c # <<>>
    BY <1>1, <2>1, EmptySeq
  <2> QED
    BY <2>1, <2>2
<1>5. /\ d \in Seq(Values \cup {Garbage}) /\ Len(d) = Used - 1
      /\ \A k \in 1..(Used - 1) : d[k] = slot[(h + k - 1) % Capacity]
  BY <1>1, <1>2, ElementsSeq, Zenon
<1> HIDE DEF c, d
<1>6. /\ Tail(c) \in Seq(Values \cup {Garbage}) /\ Len(Tail(c)) = Used - 1
      /\ \A k \in 1..(Used - 1) : Tail(c)[k] = c[k + 1]
  BY <1>1, <1>4, HeadTailProperties
<1>7. ASSUME NEW k \in 1..(Used - 1) PROVE d[k] = Tail(c)[k]
  <2>1. k - 1 \in Nat /\ k + 1 \in 1..Used
    BY <1>1
  <2>2. /\ h + k - 1 = h + (k - 1)
        /\ head + 1 + (k - 1) = head + k /\ head + (k + 1) - 1 = head + k
    BY <1>1, <1>2
  <2>3. (h + (k - 1)) % Capacity = (head + 1 + (k - 1)) % Capacity
    BY <1>2, <2>1
  <2>4. c[k + 1] = slot[(head + k) % Capacity]
    BY <1>4, <2>1, <2>2
  <2> QED
    BY <1>5, <1>6, <2>2, <2>3, <2>4, Zenon
<1>8. d = Tail(c)
  BY <1>5, <1>6, <1>7, SeqEqual
<1>9. Head(c) = slot[head % Capacity]
  <2>1. head + 1 - 1 = head /\ 1 \in 1..Used
    BY <1>1
  <2> QED
    BY <1>4, <2>1
<1> QED
  BY <1>3, <1>4, <1>8, <1>9 DEF c

\* Every step is a step of the queue or leaves it alone: an element enters when
\* tail is published and leaves when head is.
LEMMA FifoStep ==
    RingTypes /\ RingInv /\ RingTypes' /\ [Next]_vars => [Queue!Next]_Queue!vars
<1> SUFFICES ASSUME RingTypes, RingInv, RingTypes', [Next]_vars
             PROVE  Queue!Next \/ UNCHANGED Queue!vars
  OBVIOUS
<1> DEFINE c == ElementsFrom(Used, head, slot)
<1>0. /\ Used \in Nat /\ head \in Nat /\ cap \in {0, Capacity} /\ Capacity \in Nat \ {0}
      /\ slot \in [Slots -> Values \cup {Garbage}]
      /\ tail % Capacity \in Slots
  <2>1. Used \in Nat
    BY TailSlot
  <2>2. tail % Capacity \in Slots
    BY RingAssumption, Division DEF RingTypes, Slots
  <2> QED
    BY <2>1, <2>2, RingAssumption DEF RingTypes
<1>1. Len(c) = Used /\ (c = <<>> <=> Used = 0)
  BY <1>0, ElementsSeq
<1>2. ASSUME UNCHANGED <<head, tail, cap, put, got>>,
             \/ Used < cap /\ \E v : slot' = [slot EXCEPT ![tail % Capacity] = v]
             \/ slot' = slot
      PROVE  UNCHANGED Queue!vars
  <2>1. Used' = Used
    BY <1>2 DEF Used
  <2>2. \A k \in 1..Used : slot'[(head + k - 1) % Capacity] = slot[(head + k - 1) % Capacity]
    <3>1. CASE slot' = slot
      BY <3>1
    <3>2. CASE slot' # slot
      <4>1. Used < Capacity /\ \E v : slot' = [slot EXCEPT ![tail % Capacity] = v]
        BY <1>0, <1>2, <3>2
      <4>2. \A k \in 1..Used : (head + k - 1) % Capacity # tail % Capacity
        BY <4>1, UsedSlotsApart, Zenon
      <4>3. ASSUME NEW k \in 1..Used PROVE (head + k - 1) % Capacity \in Slots
        <5>1. head + k - 1 \in Nat
          BY <1>0
        <5> QED
          BY <1>0, <5>1, Division, Zenon DEF Slots
      <4> QED
        BY <1>0, <4>1, <4>2, <4>3
    <3> QED
      BY <3>1, <3>2
  <2>3. ElementsFrom(Used, head, slot') = c
    BY <2>2, Zenon DEF ElementsFrom
  <2>4. c' = c
    BY <1>2, <2>1, <2>3 DEF ElementsFrom
  <2> QED
    BY <1>2, <2>4 DEF Queue!vars, ElementsFrom
<1>3. ASSUME NEW v \in Values, PushLoad(v) PROVE Queue!Next \/ UNCHANGED Queue!vars
  <2>1. CASE Used = cap
    <3>1. UNCHANGED <<head, tail, slot, cap, got>> /\ put' = "refused"
      BY <1>3, <2>1 DEF PushLoad, popVars, Used
    <3>2. c' = c
      BY <3>1 DEF ElementsFrom, Used
    <3>3. Queue!Refuse
      BY <1>1, <2>1, <3>1, <3>2, Zenon DEF Queue!Refuse, ElementsFrom
    <3> QED
      BY <3>3 DEF Queue!Next
  <2>2. CASE Used # cap
    <3>1. UNCHANGED <<head, tail, cap, put, got>> /\ Used < cap
      BY <1>0, <1>3, <2>2 DEF PushLoad, popVars, Used, RingInv
    <3>2. slot' = [slot EXCEPT ![tail % Capacity] = Garbage]
      BY <1>3, <2>2 DEF PushLoad, Used
    <3> QED
      BY <1>2, <3>1, <3>2, Zenon
  <2> QED
    BY <2>1, <2>2
<1>4. CASE PushCopied
  <2>1. UNCHANGED <<head, tail, cap, put, got>> /\ Used < cap
    BY <1>4 DEF PushCopied, popVars, RingInv
  <2>2. slot' = [slot EXCEPT ![tail % Capacity] = pv]
    BY <1>4 DEF PushCopied
  <2> QED
    BY <1>2, <2>1, <2>2
<1>5. CASE PushPublish
  <2>1. Used < cap /\ pv \in Values /\ c' = Append(c, pv)
    BY <1>5, PublishAppends
  <2>2. put' = "ok" /\ UNCHANGED <<cap, got>>
    BY <1>5 DEF PushPublish, popVars
  <2>3. Len(c) < cap
    BY <1>1, <2>1
  <2>4. PICK v \in Values : v = pv
    BY <2>1, Zenon
  <2>5. Queue!Put(v)
    BY <2>1, <2>2, <2>3, <2>4, Zenon DEF Queue!Put, ElementsFrom
  <2> QED
    BY <2>5 DEF Queue!Next
<1>6. CASE PopLoad
  <2>1. CASE head = tail
    <3>1. Used = 0
      BY <2>1, MinusCases DEF RingTypes, Used
    <3>2. UNCHANGED <<head, tail, slot, cap, put>> /\ got' = "empty"
      BY <1>6, <2>1 DEF PopLoad, ringVars, pushVars
    <3>3. c' = c
      BY <3>2 DEF ElementsFrom, Used
    <3>4. Queue!GetNothing
      BY <1>1, <3>1, <3>2, <3>3, Zenon DEF Queue!GetNothing, ElementsFrom
    <3> QED
      BY <3>4 DEF Queue!Next
  <2>2. CASE head # tail
    BY <1>2, <1>6, <2>2 DEF PopLoad, ringVars, pushVars
  <2> QED
    BY <2>1, <2>2
<1>7. CASE PopCopied
  BY <1>2, <1>7 DEF PopCopied, ringVars, pushVars
<1>8. CASE PopPublish
  <2>1. c # <<>> /\ Head(c) = slot[head % Capacity] /\ c' = Tail(c)
    BY <1>8, PublishTakes
  <2>2. got' = cv /\ cv \in {"dropped", slot[head % Capacity]} /\ UNCHANGED <<cap, put>>
    BY <1>8 DEF PopPublish, pushVars, RingInv
  <2>3. Queue!Get
    BY <2>1, <2>2 DEF Queue!Get, ElementsFrom
  <2> QED
    BY <2>3 DEF Queue!Next
<1>9. ASSUME NEW o \in Observers, CountTail(o) \/ CountHead(o) PROVE UNCHANGED Queue!vars
  BY <1>2, <1>9, Zenon DEF CountTail, CountHead, ringVars, pushVars, popVars
<1>10. CASE Destroy \/ RingInit
  <2>1. head' = 0 /\ tail' = 0 /\ UNCHANGED <<put, got>>
    BY <1>10 DEF Destroy, RingInit, pushVars, popVars
  <2>2. Used' = 0
    BY <2>1, MinusCases, RingAssumption DEF Used
  <2>3. c' = <<>>
    <3>1. ElementsFrom(0, 0, slot') = <<>>
      BY ElementsSeq DEF RingTypes
    <3> QED
      BY <2>1, <2>2, <3>1, Zenon DEF ElementsFrom
  <2>4. CASE Destroy
    <3>1. Queue!Close
      BY <2>1, <2>3, <2>4 DEF Destroy, Queue!Close, ElementsFrom
    <3> QED
      BY <3>1 DEF Queue!Next
  <2>5. CASE RingInit
    <3>1. c = <<>>
      BY <1>0, <1>1, <2>5 DEF RingInit, RingInv
    <3>2. Queue!Open
      BY <2>1, <2>3, <2>5, <3>1 DEF RingInit, Queue!Open, ElementsFrom
    <3> QED
      BY <3>2 DEF Queue!Next
  <2> QED
    BY <1>10, <2>4, <2>5, Zenon
<1>11. CASE UNCHANGED vars
  BY <1>2, <1>11 DEF vars, ringVars, pushVars, popVars
<1> QED
  BY <1>3, <1>4, <1>5, <1>6, <1>7, <1>8, <1>9, <1>10, <1>11 DEF Next

\* ring_buffer.c implements the bounded queue: nothing lost, duplicated or
\* reordered, full only when full and empty only when empty, across the wrap
\* of the counters and across destroy and init.
THEOREM RingBufferImplementsFifo == Spec => ImplementsFifo
<1>1. Init => Queue!Init
  <2> SUFFICES ASSUME Init PROVE Queue!Init
    OBVIOUS
  <2>1. Used = 0 /\ slot \in [Slots -> Values \cup {Garbage}]
    BY MinusCases, RingAssumption DEF Init, Used
  <2>2. ElementsFrom(0, 0, slot) = <<>>
    BY <2>1, ElementsSeq, Zenon
  <2>3. [k \in 1..Used |-> slot[(head + k - 1) % Capacity]] = <<>>
    BY <2>1, <2>2 DEF Init, ElementsFrom
  <2> QED
    BY <2>3 DEF Init, Queue!Init
<1>2. (RingTypes /\ RingInv) /\ (RingTypes /\ RingInv)' /\ [Next]_vars => [Queue!Next]_Queue!vars
  BY FifoStep
<1> QED
  BY <1>1, <1>2, RingInvariance, PTL DEF Spec, ImplementsFifo, Queue!Spec

-----------------------------------------------------------------------------
(* The log *)

Winning  == {"init", "stream", "level", "ready"}
Inside   == {"set_output", "set", "set_min_level", "write", "lock", "prefix", "body",
             "newline", "unlock"}
Holding  == {"set", "prefix", "body", "newline", "unlock"}
Pieces   == {"prefix", "body", "newline"}

LogTypes ==
    /\ g_once \in 0..2
    /\ g_min_level \in Levels
    /\ g_stream \in Streams \cup {"null"}
    /\ mutex \in Threads \cup {Free, "raw"}
    /\ pc \in [Threads -> {"idle", "load", "cas", "spin"} \cup Winning \cup Inside]
    /\ call \in [Threads -> Calls \cup {Idle}]
    /\ calls \in Nat
    /\ out \in [Streams -> Seq(Threads \X Pieces)]
    /\ sink \in Streams /\ floor \in Levels

\* A thread in a call knows which, and past log_ensure_init it is in the code of
\* that call.
CallInv ==
    \A t \in Threads :
        /\ pc[t] # "idle" => call[t] \in Calls
        /\ pc[t] \in {"set_output", "set"} => call[t].op = "set_output"
        /\ pc[t] = "set_min_level" => call[t].op = "set_min_level"
        /\ pc[t] \in {"write", "lock", "prefix", "body", "newline", "unlock"}
               => call[t].op = "write"

\* One thread initialises, between the two stores to g_once, and what it has set
\* up so far nobody has touched.
OnceInv ==
    /\ g_once = 0 => \A t \in Threads : pc[t] \in {"idle", "load", "cas"}
    /\ g_once = 1 => \A t \in Threads : pc[t] \notin Inside
    /\ g_once = 2 => /\ \A t \in Threads : pc[t] \notin Winning
                     /\ mutex # "raw" /\ g_stream # "null"
    /\ g_once # 2 => sink = Stderr /\ floor = 0
    /\ \A t, u \in Threads : pc[t] \in Winning /\ pc[u] \in Winning => t = u
    /\ \A t \in Threads :
        /\ pc[t] \in {"stream", "level", "ready"} => mutex = Free
        /\ pc[t] \in {"level", "ready"} => g_stream = Stderr
        /\ pc[t] = "ready" => g_min_level = 0

\* The mutex is held by the thread that is between lock and unlock.
MutexInv == \A t \in Threads : pc[t] \in Holding => mutex = t

\* Only the stream in force has a record in progress, of the thread that writes.
RecordInv ==
    /\ \A s \in Streams :
        \/ Len(out[s]) % 3 = 0
        \/ s = g_stream /\ \E t \in Threads : pc[t] \in {"body", "newline"}
    /\ \A t \in Threads : pc[t] \in {"body", "newline"} =>
        LET record == out[g_stream] IN
        /\ Len(record) % 3 = IF pc[t] = "body" THEN 1 ELSE 2
        /\ record[Len(record)][1] = t

\* The inductive invariant.
LogInv ==
    /\ LogTypes /\ CallInv /\ OnceInv /\ MutexInv /\ RecordInv
    /\ SettingsStick /\ NoInterleaving

-----------------------------------------------------------------------------
\* What the three kinds of calls carry.
LEMMA CallKinds ==
    ASSUME NEW c \in Calls
    PROVE  /\ c.op \in {"write", "set_output", "set_min_level"}
           /\ c.op = "set_output" => c.stream \in Streams \cup {"null"}
           /\ c.op # "set_output" => c.level \in Levels
BY DEF Calls

\* Every step keeps the types.
LEMMA LogTypesStep == LogTypes /\ CallInv /\ [LogNext]_logVars => LogTypes'
<1> SUFFICES ASSUME LogTypes, CallInv, [LogNext]_logVars PROVE LogTypes'
  BY Zenon
<1> USE LogAssumption DEF LogTypes, Winning, Inside, globals, ghosts, Goto, Step
<1>1. ASSUME NEW t \in Threads, NEW c \in Calls, Begin(t, c) PROVE LogTypes'
  BY <1>1 DEF Begin
<1>2. ASSUME NEW t \in Threads, EnsureInit(t) PROVE LogTypes'
  <2>1. pc[t] # "idle" => call[t].op \in {"write", "set_output", "set_min_level"}
    BY CallKinds, Zenon DEF CallInv
  <2>2. CASE LoadOnce(t) \/ Spin(t)
    BY <2>1, <2>2 DEF LoadOnce, Spin
  <2>3. CASE CompareExchange(t)
    <3>1. pc' = [pc EXCEPT ![t] = "init"] \/ pc' = [pc EXCEPT ![t] = "spin"]
      BY <2>3, Zenon DEF CompareExchange
    <3>2. g_once' \in 0..2
      BY <2>3 DEF CompareExchange
    <3>3. UNCHANGED <<g_min_level, g_stream, mutex, call, calls, out, sink, floor>>
      BY <2>3 DEF CompareExchange
    <3> QED
      BY <3>1, <3>2, <3>3, Zenon
  <2>4. CASE InitMutex(t) \/ InitStream(t) \/ InitLevel(t)
    BY <2>4, Zenon DEF InitMutex, InitStream, InitLevel
  <2>5. CASE InitReady(t)
    BY <2>1, <2>5 DEF InitReady
  <2> QED
    BY <1>2, <2>2, <2>3, <2>4, <2>5, Zenon DEF EnsureInit
<1>3. ASSUME NEW t \in Threads, Operate(t) PROVE LogTypes'
  <2>1. CASE SetOutputLock(t) \/ WriteLock(t) \/ WriteUnlock(t)
    BY <2>1, Zenon DEF SetOutputLock, WriteLock, Lock, WriteUnlock
  <2>2. CASE SetOutput(t)
    <3>1. call[t].stream \in Streams \cup {"null"}
      BY <2>2, CallKinds, Zenon DEF SetOutput, CallInv
    <3> QED
      BY <2>2, <3>1, Zenon DEF SetOutput
  <2>3. CASE SetMinLevel(t)
    <3>1. call[t].level \in Levels
      BY <2>3, CallKinds, Zenon DEF SetMinLevel, CallInv
    <3> QED
      BY <2>3, <3>1, Zenon DEF SetMinLevel
  <2>4. CASE WriteCheck(t)
    BY <2>4, Zenon DEF WriteCheck
  <2>5. ASSUME NEW from \in Pieces, NEW to \in {"body", "newline", "unlock"}, Emit(t, from, to)
        PROVE  LogTypes'
    <3>1. <<t, from>> \in Threads \X Pieces
      BY Zenon
    <3>2. out' \in [Streams -> Seq(Threads \X Pieces)]
      BY <2>5, <3>1, AppendProperties, Zenon DEF Emit
    <3> QED
      BY <2>5, <3>2, Zenon DEF Emit
  <2> QED
    BY <1>3, <2>1, <2>2, <2>3, <2>4, <2>5, Zenon DEF Operate, WriteRecord, Pieces
<1>4. CASE Done \/ UNCHANGED logVars
  BY <1>4, Zenon DEF Done, logVars
<1> QED
  BY <1>1, <1>2, <1>3, <1>4 DEF LogNext

\* Every step leaves a thread in the code of its call.
LEMMA CallStep == LogTypes /\ CallInv /\ [LogNext]_logVars => CallInv'
<1> SUFFICES ASSUME LogTypes, CallInv, [LogNext]_logVars PROVE CallInv'
  BY Zenon
<1> USE DEF LogTypes, CallInv, globals, ghosts, Goto, Step
<1>1. ASSUME NEW t \in Threads, NEW c \in Calls, Begin(t, c) PROVE CallInv'
  BY <1>1, Zenon DEF Begin
<1>2. ASSUME NEW t \in Threads, EnsureInit(t) PROVE CallInv'
  <2>1. pc[t] # "idle" => call[t].op \in {"write", "set_output", "set_min_level"}
    BY CallKinds, Zenon
  <2>2. CASE LoadOnce(t) \/ Spin(t) \/ InitReady(t)
    BY <2>1, <2>2 DEF LoadOnce, Spin, InitReady
  <2>3. CASE CompareExchange(t)
    BY <2>3, Zenon DEF CompareExchange
  <2>4. CASE InitMutex(t) \/ InitStream(t) \/ InitLevel(t)
    BY <2>4 DEF InitMutex, InitStream, InitLevel
  <2> QED
    BY <1>2, <2>2, <2>3, <2>4, Zenon DEF EnsureInit
<1>3. ASSUME NEW t \in Threads, Operate(t) PROVE CallInv'
  <2>1. CASE SetOutputLock(t) \/ WriteLock(t)
    BY <2>1, Zenon DEF SetOutputLock, WriteLock, Lock
  <2>2. CASE SetOutput(t) \/ SetMinLevel(t) \/ WriteUnlock(t)
    BY <2>2 DEF SetOutput, SetMinLevel, WriteUnlock
  <2>3. CASE WriteCheck(t)
    BY <2>3 DEF WriteCheck
  <2>4. CASE WriteRecord(t)
    BY <2>4 DEF WriteRecord, Emit
  <2> QED
    BY <1>3, <2>1, <2>2, <2>3, <2>4, Zenon DEF Operate
<1>4. CASE Done \/ UNCHANGED logVars
  BY <1>4, Zenon DEF Done, logVars
<1> QED
  BY <1>1, <1>2, <1>3, <1>4, Zenon DEF LogNext

\* Every step keeps the mutex with the thread that locked it.
LEMMA MutexStep == LogTypes /\ CallInv /\ OnceInv /\ MutexInv /\ [LogNext]_logVars => MutexInv'
<1> SUFFICES ASSUME LogTypes, CallInv, OnceInv, MutexInv, [LogNext]_logVars PROVE MutexInv'
  OBVIOUS
<1> USE DEF LogTypes, MutexInv, Holding, globals, ghosts, Goto, Step
<1>1. ASSUME NEW t \in Threads, NEW c \in Calls, Begin(t, c) PROVE MutexInv'
  BY <1>1, Zenon DEF Begin
<1>2. ASSUME NEW t \in Threads, EnsureInit(t) PROVE MutexInv'
  <2>1. pc[t] # "idle" => call[t].op \in {"write", "set_output", "set_min_level"}
    BY CallKinds, Zenon DEF CallInv
  <2>2. CASE LoadOnce(t) \/ Spin(t) \/ InitReady(t)
    BY <2>1, <2>2, Zenon DEF LoadOnce, Spin, InitReady
  <2>3. CASE CompareExchange(t)
    BY <2>3, Zenon DEF CompareExchange
  <2>4. CASE InitMutex(t)
    <3>1. \A u \in Threads : pc[u] \notin Inside
      <4>1. pc[t] = "init"
        BY <2>4, Zenon DEF InitMutex
      <4>2. g_once = 1
        BY <4>1 DEF OnceInv, Winning
      <4> QED
        BY <4>2, Zenon DEF OnceInv
    <3> QED
      BY <2>4, <3>1, Zenon DEF InitMutex, Inside
  <2>5. CASE InitStream(t) \/ InitLevel(t)
    BY <2>5, Zenon DEF InitStream, InitLevel
  <2> QED
    BY <1>2, <2>2, <2>3, <2>4, <2>5, Zenon DEF EnsureInit
<1>3. ASSUME NEW t \in Threads, Operate(t) PROVE MutexInv'
  <2>1. CASE SetOutputLock(t) \/ WriteLock(t)
    BY <2>1, LogAssumption DEF SetOutputLock, WriteLock, Lock
  <2>2. CASE SetOutput(t) \/ SetMinLevel(t) \/ WriteUnlock(t)
    BY <2>2, Zenon DEF SetOutput, SetMinLevel, WriteUnlock
  <2>3. CASE WriteCheck(t)
    BY <2>3, Zenon DEF WriteCheck
  <2>4. CASE WriteRecord(t)
    BY <2>4, Zenon DEF WriteRecord, Emit
  <2> QED
    BY <1>3, <2>1, <2>2, <2>3, <2>4, Zenon DEF Operate
<1>4. CASE Done \/ UNCHANGED logVars
  BY <1>4, Zenon DEF Done, logVars
<1> QED
  BY <1>1, <1>2, <1>3, <1>4, Zenon DEF LogNext

-----------------------------------------------------------------------------
(* The lazy initialisation *)

\* Where g_once stands tells who may be where.
LEMMA OnceSays ==
    ASSUME LogTypes, OnceInv, NEW t \in Threads
    PROVE  /\ pc[t] \in Winning => g_once = 1
           /\ pc[t] \in Inside => g_once = 2
<1>1. g_once \in {0, 1, 2}
  BY DEF LogTypes
<1> QED
  BY <1>1, Zenon DEF OnceInv, Winning, Inside

\* A step of a thread that is past log_ensure_init keeps what the initialisation
\* established.
LEMMA OperateOnce ==
    ASSUME LogTypes, CallInv, OnceInv, MutexInv, NEW t \in Threads, Operate(t)
    PROVE  OnceInv'
<1> USE DEF LogTypes, globals, ghosts, Goto, Step
<1>1. g_once = 2 /\ g_once' = 2
  <2>1. pc[t] \in Inside /\ g_once' = g_once
    BY Zenon DEF Operate, SetOutputLock, WriteLock, Lock, SetOutput, SetMinLevel, WriteCheck,
           WriteRecord, Emit, WriteUnlock, Inside
  <2> QED
    BY <2>1, OnceSays, Zenon
<1>2. \A u \in Threads : pc[u] \notin Winning
  BY <1>1, Zenon DEF OnceInv
<1>3. pc' = [pc EXCEPT ![t] = pc'[t]] /\ pc'[t] \in Inside \cup {"idle"}
  BY Zenon DEF Operate, SetOutputLock, WriteLock, Lock, SetOutput, SetMinLevel, WriteCheck,
         WriteRecord, Emit, WriteUnlock, Inside
<1>4. \A u \in Threads : pc'[u] \notin Winning
  BY <1>2, <1>3, Zenon DEF Winning, Inside
<1>5. mutex' # "raw"
  BY <1>1, LogAssumption, Zenon DEF OnceInv, Operate, SetOutputLock, WriteLock, Lock, SetOutput,
         SetMinLevel, WriteCheck, WriteRecord, Emit, WriteUnlock
<1>6. g_stream' # "null"
  <2>1. CASE SetOutput(t)
    <3>1. call[t].stream \in Streams \cup {"null"}
      BY <2>1, CallKinds, Zenon DEF SetOutput, CallInv
    <3> QED
      BY <2>1, <3>1, LogAssumption, Zenon DEF SetOutput
  <2>2. CASE ~SetOutput(t)
    BY <1>1, <2>2, Zenon DEF OnceInv, Operate, SetOutputLock, WriteLock, Lock, SetMinLevel,
                      WriteCheck, WriteRecord, Emit, WriteUnlock
  <2> QED
    BY <2>1, <2>2, Zenon
<1> QED
  BY <1>1, <1>4, <1>5, <1>6 DEF OnceInv, Winning

\* Every step keeps the initialisation to one thread, and its work untouched.
LEMMA OnceStep == LogTypes /\ CallInv /\ OnceInv /\ MutexInv /\ [LogNext]_logVars => OnceInv'
<1> SUFFICES ASSUME LogTypes, CallInv, OnceInv, MutexInv, [LogNext]_logVars PROVE OnceInv'
  OBVIOUS
<1> USE DEF LogTypes, globals, ghosts, Goto, Step
<1>1. ASSUME NEW t \in Threads, NEW c \in Calls, Begin(t, c) PROVE OnceInv'
  BY <1>1 DEF Begin, OnceInv, Winning, Inside
<1>2. ASSUME NEW t \in Threads, EnsureInit(t) PROVE OnceInv'
  <2>0. g_once \in {0, 1, 2}
    BY DEF LogTypes
  <2>1. pc[t] # "idle" => call[t].op \in {"write", "set_output", "set_min_level"}
    BY CallKinds, Zenon DEF CallInv
  <2>2. CASE LoadOnce(t) \/ Spin(t)
    <3>1. UNCHANGED <<g_once, mutex, g_stream, g_min_level, sink, floor>>
      BY <2>2, Zenon DEF LoadOnce, Spin
    <3>2. pc[t] \in {"load", "spin"} /\ pc' = [pc EXCEPT ![t] = pc'[t]]
      BY <2>2, Zenon DEF LoadOnce, Spin
    <3>3. pc'[t] \in IF g_once = 2 THEN {"write", "set_output", "set_min_level"}
                     ELSE IF pc[t] = "load" THEN {"cas"} ELSE {"spin"}
      BY <2>1, <2>2, Zenon DEF LoadOnce, Spin
    <3>4. \A u \in Threads : pc'[u] \in Winning => pc[u] \in Winning /\ pc'[u] = pc[u]
      BY <3>2, <3>3, Zenon DEF Winning
    <3>5. g_once = 0 => \A u \in Threads : pc'[u] \in {"idle", "load", "cas"}
      BY <3>2, <3>3 DEF OnceInv
    <3>6. g_once = 1 => \A u \in Threads : pc'[u] \notin Inside
      BY <3>2, <3>3 DEF OnceInv, Inside
    <3> QED
      BY <2>0, <3>1, <3>4, <3>5, <3>6, Zenon DEF OnceInv, Winning
  <2>3. CASE CompareExchange(t)
    <3>1. UNCHANGED <<mutex, g_stream, g_min_level, sink, floor>> /\ pc[t] = "cas"
      BY <2>3, Zenon DEF CompareExchange
    <3>2. CASE g_once = 0
      <4>1. g_once' = 1 /\ pc' = [pc EXCEPT ![t] = "init"]
        BY <2>3, <3>2, Zenon DEF CompareExchange
      <4>2. \A u \in Threads : pc[u] \in {"idle", "load", "cas"}
        BY <3>2, Zenon DEF OnceInv
      <4>3. \A u \in Threads : /\ pc'[u] \in {"idle", "load", "cas", "init"}
                               /\ pc'[u] = "init" => u = t
        BY <4>1, <4>2, Zenon
      <4>4. \A u \in Threads : /\ pc'[u] \notin Inside
                               /\ pc'[u] \notin {"stream", "level", "ready"}
                               /\ pc'[u] \in Winning => u = t
        BY <4>3, Zenon DEF Winning, Inside
      <4>5. sink' = Stderr /\ floor' = 0
        BY <3>1, <3>2 DEF OnceInv
      <4> QED
        BY <4>1, <4>4, <4>5 DEF OnceInv
    <3>3. CASE g_once # 0
      <4>1. g_once' = g_once /\ pc' = [pc EXCEPT ![t] = "spin"]
        BY <2>3, <3>3, Zenon DEF CompareExchange
      <4> QED
        BY <2>0, <3>1, <3>3, <4>1, Zenon DEF OnceInv, Winning, Inside
    <3> QED
      BY <3>2, <3>3, Zenon
  <2>4. CASE InitMutex(t) \/ InitStream(t) \/ InitLevel(t)
    <3>1. pc[t] \in Winning /\ g_once' = g_once /\ UNCHANGED <<sink, floor>>
      BY <2>4, Zenon DEF InitMutex, InitStream, InitLevel, Winning
    <3>2. g_once = 1
      BY <3>1, OnceSays, Zenon
    <3>3. \A u \in Threads : u # t => pc[u] \notin Winning
      BY <3>1, Zenon DEF OnceInv
    <3>4. \/ pc' = [pc EXCEPT ![t] = "stream"] /\ mutex' = Free
          \/ pc' = [pc EXCEPT ![t] = "level"] /\ mutex' = Free /\ g_stream' = Stderr
          \/ pc' = [pc EXCEPT ![t] = "ready"] /\ mutex' = Free /\ g_stream' = Stderr
             /\ g_min_level' = 0
      BY <2>4, Zenon DEF InitMutex, InitStream, InitLevel, OnceInv
    <3> QED
      BY <3>1, <3>2, <3>3, <3>4 DEF OnceInv, Winning, Inside
  <2>5. CASE InitReady(t)
    <3>1. /\ pc[t] = "ready" /\ g_once' = 2 /\ pc' = [pc EXCEPT ![t] = call[t].op]
          /\ UNCHANGED <<mutex, g_stream, sink, floor>>
      BY <2>5, Zenon DEF InitReady
    <3>2. mutex = Free /\ g_stream = Stderr
      BY <3>1, Zenon DEF OnceInv
    <3>3. \A u \in Threads : u # t => pc[u] \notin Winning
      BY <3>1, Zenon DEF OnceInv, Winning
    <3>4. \A u \in Threads : pc'[u] \notin Winning
      BY <2>1, <3>1, <3>3, Zenon DEF Winning
    <3> QED
      BY <3>1, <3>2, <3>4, LogAssumption DEF OnceInv, Winning
  <2> QED
    BY <1>2, <2>2, <2>3, <2>4, <2>5, Zenon DEF EnsureInit
<1>3. ASSUME NEW t \in Threads, Operate(t) PROVE OnceInv'
  BY <1>3, OperateOnce, Zenon
<1>4. CASE Done \/ UNCHANGED logVars
  BY <1>4, Zenon DEF Done, logVars, OnceInv
<1> QED
  BY <1>1, <1>2, <1>3, <1>4, Zenon DEF LogNext

\* Every step keeps the settings that the last calls chose.
LEMMA SettingsStep ==
    LogTypes /\ CallInv /\ OnceInv /\ SettingsStick /\ [LogNext]_logVars => SettingsStick'
<1> SUFFICES ASSUME LogTypes, CallInv, OnceInv, SettingsStick, [LogNext]_logVars PROVE SettingsStick'
  OBVIOUS
<1> USE DEF SettingsStick, globals, ghosts, Goto, Step
<1>1. ASSUME NEW t \in Threads, NEW c \in Calls, Begin(t, c) PROVE SettingsStick'
  BY <1>1, Zenon DEF Begin
<1>2. ASSUME NEW t \in Threads, EnsureInit(t) PROVE SettingsStick'
  <2>1. CASE LoadOnce(t) \/ Spin(t)
    BY <2>1, Zenon DEF LoadOnce, Spin
  <2>2. CASE CompareExchange(t)
    BY <2>2 DEF CompareExchange
  <2>3. CASE InitMutex(t) \/ InitStream(t) \/ InitLevel(t)
    <3>1. pc[t] \in Winning /\ g_once' = g_once
      BY <2>3, Zenon DEF InitMutex, InitStream, InitLevel, Winning
    <3> QED
      BY <3>1, OnceSays
  <2>4. CASE InitReady(t)
    <3>1. pc[t] = "ready" /\ UNCHANGED <<g_stream, g_min_level, sink, floor>>
      BY <2>4, Zenon DEF InitReady
    <3>2. g_once = 1
      BY <3>1, OnceSays, Zenon DEF Winning
    <3> QED
      BY <3>1, <3>2, Zenon DEF OnceInv
  <2> QED
    BY <1>2, <2>1, <2>2, <2>3, <2>4, Zenon DEF EnsureInit
<1>3. ASSUME NEW t \in Threads, Operate(t) PROVE SettingsStick'
  <2>1. CASE SetOutput(t)
    BY <2>1, Zenon DEF SetOutput
  <2>2. CASE SetMinLevel(t)
    BY <2>2, Zenon DEF SetMinLevel
  <2>3. CASE ~SetOutput(t) /\ ~SetMinLevel(t)
    <3>1. UNCHANGED <<g_once, g_stream, g_min_level, sink, floor>>
      BY <1>3, <2>3, Zenon DEF Operate, SetOutputLock, WriteLock, Lock, WriteCheck, WriteRecord,
                               Emit, WriteUnlock
    <3> QED
      BY <3>1, Zenon
  <2> QED
    BY <2>1, <2>2, <2>3, Zenon
<1>4. CASE Done \/ UNCHANGED logVars
  BY <1>4, Zenon DEF Done, logVars
<1> QED
  BY <1>1, <1>2, <1>3, <1>4, Zenon DEF LogNext

-----------------------------------------------------------------------------
(* Records *)

Writing == {"body", "newline"}

\* A step that leaves the output and the threads that are within a record alone
\* keeps RecordInv.
LEMMA RecordFrame ==
    ASSUME RecordInv, UNCHANGED <<out, g_stream>>,
           \A u \in Threads : pc[u] \in Writing \/ pc'[u] \in Writing => pc'[u] = pc[u]
    PROVE  RecordInv'
BY Zenon DEF RecordInv, Writing

\* Between records every stream consists of whole ones.
LEMMA BetweenRecords ==
    ASSUME RecordInv, \A u \in Threads : pc[u] \notin Writing
    PROVE  \A s \in Streams : Len(out[s]) % 3 = 0
BY Zenon DEF RecordInv, Writing

\* While a thread holds the mutex no other is within a record.
LEMMA WritesAlone ==
    ASSUME MutexInv, NEW t \in Threads, pc[t] \in Holding
    PROVE  \A u \in Threads : u # t => pc[u] \notin Writing
BY Zenon DEF MutexInv, Holding, Writing

\* How the place in a record counts up.
LEMMA NextPlace ==
    ASSUME NEW n \in Nat
    PROVE  /\ n % 3 = 0 => (n + 1) % 3 = 1
           /\ n % 3 = 1 => (n + 1) % 3 = 2
           /\ n % 3 = 2 => (n + 1) % 3 = 0
OBVIOUS

\* A thread that emits a piece does so on a stream, at the place of that piece.
LEMMA EmitPlace ==
    ASSUME LogTypes, OnceInv, MutexInv, RecordInv,
           NEW t \in Threads, NEW from \in Pieces, pc[t] = from
    PROVE  /\ g_stream \in Streams
           /\ out[g_stream] \in Seq(Threads \X Pieces)
           /\ Len(out[g_stream]) % 3 =
                  IF from = "prefix" THEN 0 ELSE IF from = "body" THEN 1 ELSE 2
           /\ from # "prefix" => out[g_stream][Len(out[g_stream])][1] = t
           /\ \A s \in Streams \ {g_stream} : Len(out[s]) % 3 = 0
<1>1. pc[t] \in Inside /\ pc[t] \in Holding
  BY DEF Pieces, Inside, Holding
<1>2. g_stream \in Streams
  BY <1>1, OnceSays, Zenon DEF OnceInv, LogTypes
<1>3. out[g_stream] \in Seq(Threads \X Pieces)
  BY <1>2, Zenon DEF LogTypes
<1>4. \A s \in Streams \ {g_stream} : Len(out[s]) % 3 = 0
  BY Zenon DEF RecordInv
<1>5. CASE from = "prefix"
  <2>1. \A u \in Threads : pc[u] \notin Writing
    BY <1>1, <1>5, WritesAlone, Zenon DEF Writing
  <2> QED
    BY <1>2, <1>3, <1>4, <1>5, <2>1, BetweenRecords, Zenon
<1>6. CASE from # "prefix"
  <2>1. pc[t] \in {"body", "newline"}
    BY <1>6, Zenon DEF Pieces
  <2> QED
    BY <1>2, <1>3, <1>4, <1>6, <2>1, Zenon DEF RecordInv
<1> QED
  BY <1>5, <1>6, Zenon

\* Every step leaves at most one record in progress, on the stream in force.
LEMMA RecordStep ==
    LogTypes /\ CallInv /\ OnceInv /\ MutexInv /\ RecordInv /\ [LogNext]_logVars => RecordInv'
<1> SUFFICES ASSUME LogTypes, CallInv, OnceInv, MutexInv, RecordInv, [LogNext]_logVars
             PROVE  RecordInv'
  OBVIOUS
<1> USE DEF globals, ghosts, Goto, Step
<1>0. pc \in [Threads -> {"idle", "load", "cas", "spin"} \cup Winning \cup Inside]
  BY Zenon DEF LogTypes
<1>1. ASSUME NEW t \in Threads, NEW c \in Calls, Begin(t, c) PROVE RecordInv'
  BY <1>0, <1>1, RecordFrame, Zenon DEF Begin, Writing
<1>2. ASSUME NEW t \in Threads, EnsureInit(t) PROVE RecordInv'
  <2>1. pc[t] # "idle" => call[t].op \in {"write", "set_output", "set_min_level"}
    BY CallKinds, Zenon DEF CallInv
  <2>2. CASE LoadOnce(t) \/ Spin(t) \/ InitReady(t)
    BY <1>0, <2>1, <2>2, RecordFrame, Zenon DEF LoadOnce, Spin, InitReady, Writing
  <2>3. CASE CompareExchange(t) \/ InitMutex(t) \/ InitLevel(t)
    BY <1>0, <2>3, RecordFrame, Zenon DEF CompareExchange, InitMutex, InitLevel, Writing
  <2>4. CASE InitStream(t)
    <3>1. \A u \in Threads : pc[u] \notin Inside
      BY <2>4, OnceSays, Zenon DEF InitStream, OnceInv, Winning
    <3>2. \A u \in Threads : pc[u] \notin Writing /\ pc'[u] \notin Writing
      BY <1>0, <2>4, <3>1, Zenon DEF InitStream, Inside, Writing
    <3> QED
      BY <2>4, <3>2, BetweenRecords, Zenon DEF InitStream, RecordInv, Writing
  <2> QED
    BY <1>2, <2>2, <2>3, <2>4, Zenon DEF EnsureInit
<1>3. ASSUME NEW t \in Threads, Operate(t) PROVE RecordInv'
  <2>1. CASE SetOutputLock(t) \/ WriteLock(t)
    BY <1>0, <2>1, RecordFrame, Zenon DEF SetOutputLock, WriteLock, Lock, Writing
  <2>2. CASE SetOutput(t)
    <3>1. \A u \in Threads : pc[u] \notin Writing /\ pc'[u] \notin Writing
      BY <1>0, <2>2, WritesAlone, Zenon DEF SetOutput, Holding, Writing
    <3> QED
      BY <2>2, <3>1, BetweenRecords, Zenon DEF SetOutput, RecordInv, Writing
  <2>3. CASE SetMinLevel(t) \/ WriteUnlock(t)
    BY <1>0, <2>3, RecordFrame, Zenon DEF SetMinLevel, WriteUnlock, Writing
  <2>4. CASE WriteCheck(t)
    BY <1>0, <2>4, RecordFrame, Zenon DEF WriteCheck, Writing
  <2>5. ASSUME NEW from \in Pieces, NEW to, Emit(t, from, to),
               <<from, to>> \in {<<"prefix", "body">>, <<"body", "newline">>,
                                 <<"newline", "unlock">>}
        PROVE  RecordInv'
    <3> DEFINE r == out[g_stream]
    <3>1. pc[t] = from /\ pc' = [pc EXCEPT ![t] = to] /\ g_stream' = g_stream
      BY <2>5, Zenon DEF Emit
    <3>2. /\ g_stream \in Streams /\ r \in Seq(Threads \X Pieces)
          /\ Len(r) % 3 = IF from = "prefix" THEN 0 ELSE IF from = "body" THEN 1 ELSE 2
          /\ \A s \in Streams \ {g_stream} : Len(out[s]) % 3 = 0
      BY <3>1, EmitPlace, Zenon
    <3>3. /\ out'[g_stream] = Append(r, <<t, from>>)
          /\ \A s \in Streams \ {g_stream} : out'[s] = out[s]
      BY <2>5, <3>2, Zenon DEF Emit, LogTypes
    <3> HIDE DEF r
    <3>4. <<t, from>> \in Threads \X Pieces
      OBVIOUS
    <3>5. /\ Len(r) \in Nat /\ Len(Append(r, <<t, from>>)) = Len(r) + 1
          /\ Append(r, <<t, from>>)[Len(r) + 1] = <<t, from>>
      <4>1. PICK S, e : S = Threads \X Pieces /\ e = <<t, from>>
        BY Zenon
      <4>2. r \in Seq(S) /\ e \in S
        BY <3>2, <3>4, <4>1, Zenon
      <4>3. Len(r) \in Nat /\ Len(Append(r, e)) = Len(r) + 1 /\ Append(r, e)[Len(r) + 1] = e
        BY <4>2, AppendProperties
      <4> QED
        BY <4>1, <4>3, Zenon
    <3>6. /\ Len(out'[g_stream]) % 3 = IF from = "prefix" THEN 1 ELSE IF from = "body" THEN 2 ELSE 0
          /\ out'[g_stream][Len(out'[g_stream])][1] = t
      <4>1. Len(out'[g_stream]) = Len(r) + 1
        BY <3>3, <3>5, Zenon
      <4>2. out'[g_stream][Len(r) + 1] = <<t, from>>
        BY <3>3, <3>5, Zenon
      <4>3. (Len(r) + 1) % 3 = IF from = "prefix" THEN 1 ELSE IF from = "body" THEN 2 ELSE 0
        BY <3>2, <3>5, NextPlace, Zenon
      <4> QED
        BY <4>1, <4>2, <4>3
    <3>7. \A u \in Threads : pc'[u] \in Writing => u = t
      BY <1>0, <3>1, WritesAlone, Zenon DEF Writing, Pieces, Holding
    <3>8. pc'[t] = to
      BY <1>0, <3>1, Zenon
    <3>9. \A s \in Streams : Len(out'[s]) % 3 = 0 \/ (s = g_stream' /\ pc'[t] \in Writing)
      <4>1. from = "newline" \/ pc'[t] \in Writing
        BY <2>5, <3>8, Zenon DEF Writing
      <4>2. from = "newline" => Len(out'[g_stream]) % 3 = 0
        BY <3>6, Zenon
      <4>3. \A s \in Streams \ {g_stream} : Len(out'[s]) % 3 = 0
        BY <3>2, <3>3, Zenon
      <4>4. g_stream' = g_stream
        BY <3>1, Zenon
      <4> QED
        BY <4>1, <4>2, <4>3, <4>4, Zenon
    <3>10. \A u \in Threads : pc'[u] \in Writing =>
              /\ Len(out'[g_stream']) % 3 = IF pc'[u] = "body" THEN 1 ELSE 2
              /\ out'[g_stream'][Len(out'[g_stream'])][1] = u
      BY <2>5, <3>1, <3>6, <3>7, <3>8, Zenon DEF Writing
    <3> QED
      BY <3>9, <3>10, Zenon DEF RecordInv, Writing
  <2> QED
    BY <1>3, <2>1, <2>2, <2>3, <2>4, <2>5, Zenon DEF Operate, WriteRecord, Pieces
<1>4. CASE Done \/ UNCHANGED logVars
  BY <1>4, RecordFrame, Zenon DEF Done, logVars
<1> QED
  BY <1>1, <1>2, <1>3, <1>4, Zenon DEF LogNext

\* The k-th piece of stream r is the one that belongs there, of the same thread
\* as the one before it in its record.
InPlace(r, k) ==
    /\ r[k][2] = <<"prefix", "body", "newline">>[((k - 1) % 3) + 1]
    /\ k % 3 # 1 => r[k][1] = r[k - 1][1]

\* The last of n + 1 places, or one before it.
LEMMA LastOrBefore ==
    ASSUME NEW n \in Nat
    PROVE  \A k \in 1..(n + 1) : k \in 1..n \/ k = n + 1
OBVIOUS

\* What Append returns.
LEMMA OnePieceMore ==
    ASSUME NEW S, NEW r \in Seq(S), NEW e \in S, NEW s, s = Append(r, e)
    PROVE  /\ Len(r) \in Nat /\ DOMAIN r = 1..Len(r) /\ DOMAIN s = 1..(Len(r) + 1)
           /\ s[Len(r) + 1] = e /\ \A i \in 1..Len(r) : s[i] = r[i]
<1>1. /\ s \in Seq(S) /\ Len(s) = Len(r) + 1 /\ s[Len(r) + 1] = e
      /\ \A i \in 1..Len(r) : s[i] = r[i]
  BY ONLY r \in Seq(S), e \in S, s = Append(r, e), AppendProperties
<1>2. Len(r) \in Nat /\ DOMAIN r = 1..Len(r) /\ DOMAIN s = 1..Len(s)
  BY <1>1, LenProperties, Zenon
<1> QED
  BY <1>1, <1>2

\* A piece that is appended at its place keeps a stream a sequence of records.
LEMMA PieceFits ==
    ASSUME NEW r \in Seq(Threads \X Pieces), NEW t \in Threads, NEW from \in Pieces,
           Len(r) % 3 = IF from = "prefix" THEN 0 ELSE IF from = "body" THEN 1 ELSE 2,
           from # "prefix" => r[Len(r)][1] = t,
           \A k \in DOMAIN r : InPlace(r, k)
    PROVE  \A k \in DOMAIN Append(r, <<t, from>>) : InPlace(Append(r, <<t, from>>), k)
<1>1. <<t, from>> \in Threads \X Pieces
  BY Zenon
<1>2. PICK s : s = Append(r, <<t, from>>)
  BY Zenon
<1>3. /\ Len(r) \in Nat /\ DOMAIN r = 1..Len(r) /\ DOMAIN s = 1..(Len(r) + 1)
      /\ s[Len(r) + 1] = <<t, from>> /\ \A i \in 1..Len(r) : s[i] = r[i]
  BY ONLY <1>1, <1>2, r \in Seq(Threads \X Pieces), OnePieceMore
<1>4. ASSUME NEW k \in 1..Len(r) PROVE InPlace(s, k)
  <2>1. k \in Nat /\ s[k] = r[k] /\ (k # 1 => s[k - 1] = r[k - 1])
    BY <1>3
  <2>2. k % 3 # 1 => k # 1
    BY <2>1
  <2>3. InPlace(r, k)
    BY <1>3, Zenon
  <2> QED
    BY <2>1, <2>2, <2>3, Zenon DEF InPlace
<1>5. InPlace(s, Len(r) + 1)
  <2>1. (Len(r) + 1) - 1 = Len(r)
    BY <1>3
  <2>2. <<"prefix", "body", "newline">>[(Len(r) % 3) + 1] = from
    BY DEF Pieces
  <2>3. (Len(r) + 1) % 3 # 1 => from # "prefix"
    BY <1>3, NextPlace, Zenon
  <2>4. from # "prefix" => s[Len(r)] = r[Len(r)]
    <3>1. from # "prefix" => Len(r) # 0
      BY DEF Pieces
    <3> QED
      BY <1>3, <3>1
  <2> QED
    BY <1>3, <2>1, <2>2, <2>3, <2>4 DEF InPlace
<1>6. \A k \in 1..(Len(r) + 1) : k \in 1..Len(r) \/ k = Len(r) + 1
  BY <1>3, LastOrBefore, Zenon
<1> QED
  BY <1>2, <1>3, <1>4, <1>5, <1>6, Zenon

\* Every step keeps the records whole.
LEMMA InterleavingStep ==
    /\ LogTypes /\ OnceInv /\ MutexInv /\ RecordInv /\ NoInterleaving /\ [LogNext]_logVars
    => NoInterleaving'
<1> SUFFICES ASSUME LogTypes, OnceInv, MutexInv, RecordInv, NoInterleaving, [LogNext]_logVars
             PROVE  NoInterleaving'
  BY Zenon
<1> USE DEF globals, ghosts
<1>1. ASSUME NEW t \in Threads, WriteRecord(t) PROVE NoInterleaving'
  <2>1. PICK from \in Pieces, to \in {"body", "newline", "unlock"} : Emit(t, from, to)
    BY <1>1, Zenon DEF WriteRecord, Pieces
  <2>2. pc[t] = from
    BY <2>1, Zenon DEF Emit, Step
  <2> DEFINE r == out[g_stream]
  <2>3. /\ g_stream \in Streams /\ r \in Seq(Threads \X Pieces)
        /\ Len(r) % 3 = IF from = "prefix" THEN 0 ELSE IF from = "body" THEN 1 ELSE 2
        /\ from # "prefix" => r[Len(r)][1] = t
    BY <2>2, EmitPlace, Zenon
  <2>4. /\ out'[g_stream] = Append(r, <<t, from>>)
        /\ \A s \in Streams \ {g_stream} : out'[s] = out[s]
    BY <2>1, <2>3, Zenon DEF Emit, LogTypes
  <2>5. \A k \in DOMAIN r : InPlace(r, k)
    BY <2>3, Zenon DEF NoInterleaving, InPlace
  <2> HIDE DEF r
  <2>6. \A k \in DOMAIN out'[g_stream] : InPlace(out'[g_stream], k)
    BY <2>3, <2>4, <2>5, PieceFits
  <2>7. \A s \in Streams : \A k \in DOMAIN out'[s] : InPlace(out'[s], k)
    <3>1. \A s \in Streams : \A k \in DOMAIN out[s] : InPlace(out[s], k)
      BY Zenon DEF NoInterleaving, InPlace
    <3> QED
      BY <2>4, <2>6, <3>1, Zenon
  <2> QED
    BY <2>7, Zenon DEF NoInterleaving, InPlace
<1>2. ASSUME NEW t \in Threads, EnsureInit(t) PROVE out' = out
  BY <1>2, Zenon DEF EnsureInit, LoadOnce, CompareExchange, Spin, InitMutex, InitStream, InitLevel,
              InitReady
<1>3. ASSUME NEW t \in Threads, Operate(t), ~WriteRecord(t) PROVE out' = out
  BY <1>3, Zenon DEF Operate, SetOutputLock, WriteLock, Lock, SetOutput, SetMinLevel, WriteCheck,
              WriteUnlock
<1>4. ASSUME NEW t \in Threads, NEW c \in Calls, Begin(t, c) PROVE out' = out
  BY <1>4, Zenon DEF Begin
<1>5. Done \/ UNCHANGED logVars => out' = out
  BY Zenon DEF Done, logVars
<1>6. out' = out => NoInterleaving'
  BY DEF NoInterleaving
<1> QED
  BY <1>1, <1>2, <1>3, <1>4, <1>5, <1>6 DEF LogNext

-----------------------------------------------------------------------------
(* Theorems *)

\* The inductive invariant holds.
THEOREM LogInvariance == LogSpec => []LogInv
<1>1. LogInit => LogInv
  <2> SUFFICES ASSUME LogInit PROVE LogInv
    OBVIOUS
  <2>1. LogTypes
    BY LogAssumption DEF LogInit, LogTypes
  <2>2. CallInv /\ MutexInv
    BY Zenon DEF LogInit, CallInv, MutexInv, Holding
  <2>3. OnceInv /\ SettingsStick
    BY DEF LogInit, OnceInv, SettingsStick, Winning, Inside
  <2>4. \A s \in Streams : out[s] = <<>>
    BY Zenon DEF LogInit
  <2>5. RecordInv
    BY <2>4 DEF LogInit, RecordInv
  <2>6. NoInterleaving
    BY <2>4 DEF NoInterleaving
  <2> QED
    BY <2>1, <2>2, <2>3, <2>5, <2>6, Zenon DEF LogInv
<1>2. LogInv /\ [LogNext]_logVars => LogInv'
  BY LogTypesStep, CallStep, OnceStep, MutexStep, RecordStep, SettingsStep, InterleavingStep, Zenon
     DEF LogInv
<1> QED
  BY <1>1, <1>2, PTL DEF LogSpec

\* No thread gets past log_ensure_init before the winner of the race has set up
\* the mutex and the stream, so nobody locks a raw mutex or writes to no stream.
THEOREM InitialisedBeforeUse == LogSpec => []ReadyBeforeUse
<1>1. LogInv => ReadyBeforeUse
  <2> SUFFICES ASSUME LogInv, NEW t \in Threads
               PROVE  /\ pc[t] \in Inside => g_once = 2 /\ mutex # "raw" /\ g_stream # "null"
                      /\ pc[t] \in Holding => mutex = t
    BY DEF ReadyBeforeUse, Inside, Holding
  <2>1. pc[t] \in Inside => g_once = 2
    BY OnceSays DEF LogInv
  <2> QED
    BY <2>1, Zenon DEF LogInv, OnceInv, MutexInv
<1> QED
  BY <1>1, LogInvariance, PTL

\* A setting that a call has made is never undone by the lazy initialisation of
\* another thread.
THEOREM SettingsAreKept == LogSpec => []SettingsStick
<1>1. LogInv => SettingsStick
  BY DEF LogInv
<1> QED
  BY <1>1, LogInvariance, PTL

\* The records of concurrent threads never interleave on a stream, though callers
\* change the stream meanwhile.
THEOREM RecordsNeverInterleave == LogSpec => []NoInterleaving
<1>1. LogInv => NoInterleaving
  BY DEF LogInv
<1> QED
  BY <1>1, LogInvariance, PTL
=============================================================================
