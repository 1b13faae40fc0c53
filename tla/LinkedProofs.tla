---------------------------- MODULE LinkedProofs ----------------------------
(***************************************************************************)
(* Proofs about two structures linked by pointers.                         *)
(*                                                                         *)
(* concurrency/atomic_queue.c, for every number of nodes: at every moment  *)
(* there is a list that starts at head and accounts, with the node being   *)
(* made and the one being freed, for every allocated node.                 *)
(*                                                                         *)
(* mem/pool.c, for every width of a size_t: the free list runs through the *)
(* slots nobody holds, each of which lies in the block.                    *)
(***************************************************************************)
EXTENDS AtomicQueue, Pool, SharedProofs

-----------------------------------------------------------------------------
(* The queue *)

\* s is the list from h along the links nx, to Null.
IsList(s, h, nx) == Path(s, h, nx, Nodes) /\ nx[s[Len(s)]] = Null
Links == [Nodes -> Nodes \cup {Null}]

Making == IF ppc \in {"copy", "publish"} THEN {pn} ELSE {}
Freeing == IF cpc = "free" THEN {old} ELSE {}

QueueTypes ==
    /\ head \in Nodes \cup {Null}
    /\ next \in [Nodes -> Nodes \cup {Null}] /\ data \in [Nodes -> Values \cup {Garbage}]
    /\ heap \in SUBSET Nodes
    /\ ppc \in {"idle", "copy", "publish", "advance"}
    /\ cpc \in {"idle", "copy", "advance", "free"}

\* What enqueue knows of its node.
EnqueueInv ==
    /\ ppc # "idle" => pn \in Nodes /\ pv \in Values
    /\ ppc \in {"copy", "publish"} => next[pn] = Null
    /\ ppc = "publish" => data[pn] = pv

\* The nodes in use are the list's, the one being made and the one being freed,
\* each in one role; tail is the last of the list, or its node is linked and tail
\* is about to be; dequeue is at the second of the list.
Shape(s) ==
    /\ IsList(s, head, next)
    /\ heap = OnPath(s) \cup Making \cup Freeing
    /\ Making \cap OnPath(s) = {} /\ Freeing \cap OnPath(s) = {} /\ Making \cap Freeing = {}
    /\ s[Len(s)] = IF ppc = "advance" THEN pn ELSE tail
    /\ cpc \in {"copy", "advance"} => Len(s) > 1 /\ cn = s[2]
    /\ cpc = "advance" => cv \in {data[cn], "dropped"}
    /\ cpc = "free" => old \in Nodes

ListInv ==
    /\ head = Null => tail = Null /\ heap = {} /\ ppc = "idle" /\ cpc = "idle"
    /\ head # Null => \E s \in Seq(Nodes) : Shape(s)

\* The inductive invariant.
QueueInv == QueueTypes /\ EnqueueInv /\ ListInv

-----------------------------------------------------------------------------
(* Lists of this queue *)

\* A list is what the walk from its first node collects.
LEMMA ChainIs ==
    ASSUME NEW s, NEW h, NEW nx, IsList(s, h, nx)
    PROVE  Along(h, nx, Nodes) = s
BY AlongPath, QueueAssumption DEF IsList

\* The places of a list, and when its head is its last node.
LEMMA ListEnds ==
    ASSUME NEW s, NEW h, NEW nx, IsList(s, h, nx)
    PROVE  /\ s \in Seq(Nodes) /\ Len(s) \in Nat \ {0} /\ h \in Nodes /\ OnPath(s) \subseteq Nodes
           /\ h \in OnPath(s) /\ s[Len(s)] \in OnPath(s)
           /\ nx[h] = Null <=> Len(s) = 1
           /\ Len(s) > 1 => nx[h] = s[2] /\ s[2] \in OnPath(s)
<1>1. Path(s, h, nx, Nodes) /\ nx[s[Len(s)]] = Null /\ s[1] = h /\ s \in Seq(Nodes)
  BY DEF IsList, Path
<1>2. /\ Len(s) \in Nat \ {0} /\ h \in Nodes /\ OnPath(s) \subseteq Nodes
      /\ h \in OnPath(s) /\ s[Len(s)] \in OnPath(s)
      /\ nx[h] \notin Nodes <=> Len(s) = 1
      /\ Len(s) > 1 => nx[h] = s[2] /\ s[2] \in OnPath(s)
  BY <1>1, PathEnds
<1> QED
  BY <1>1, <1>2, QueueAssumption

\* A list fits in the memory.
LEMMA ListFits ==
    ASSUME NEW s, NEW h, NEW nx, IsList(s, h, nx)
    PROVE  Len(s) \in 1..Cardinality(Nodes)
BY PathFits, QueueAssumption DEF IsList

\* Links of other nodes do not matter.
LEMMA ListKept ==
    ASSUME NEW s, NEW h, NEW nx, IsList(s, h, nx), NEW nx2,
           \A n \in OnPath(s) : nx2[n] = nx[n]
    PROVE  IsList(s, h, nx2)
BY PathKept, ListEnds DEF IsList

\* A node alone is a list.
LEMMA ListOfOne ==
    ASSUME NEW n \in Nodes, NEW nx, nx[n] = Null
    PROVE  IsList(<<n>>, n, nx) /\ OnPath(<<n>>) = {n} /\ <<n>> \in Seq(Nodes)
<1>1. Path(<<n>>, n, nx, Nodes) /\ OnPath(<<n>>) = {n} /\ <<n>> \in Seq(Nodes)
  BY PathOfOne, QueueAssumption
<1>2. <<n>>[Len(<<n>>)] = n
  OBVIOUS
<1> QED
  BY <1>1, <1>2 DEF IsList

\* Linking a fresh node to the last one appends it.
LEMMA ListGrows ==
    ASSUME NEW s, NEW h, NEW nx \in Links, IsList(s, h, nx),
           NEW n \in Nodes, n \notin OnPath(s), nx[n] = Null
    PROVE  /\ IsList(Append(s, n), h, [nx EXCEPT ![s[Len(s)]] = n])
           /\ Append(s, n) \in Seq(Nodes)
           /\ Len(Append(s, n)) = Len(s) + 1 /\ Append(s, n)[Len(s) + 1] = n
           /\ \A k \in 1..Len(s) : Append(s, n)[k] = s[k]
           /\ OnPath(Append(s, n)) = OnPath(s) \cup {n}
<1>1. PICK nx2 : nx2 = [nx EXCEPT ![s[Len(s)]] = n]
  BY Zenon
<1>2. OnPath(s) \subseteq Nodes /\ s[Len(s)] \in OnPath(s)
  BY ListEnds
<1>3. nx2[s[Len(s)]] = n /\ nx2[n] = Null /\ nx2[n] \notin Nodes
  BY <1>1, <1>2, QueueAssumption DEF Links
<1>4. \A m \in OnPath(s) : m # s[Len(s)] => nx2[m] = nx[m]
  BY <1>1, <1>2 DEF Links
<1>5. Path(s, h, nx, Nodes)
  BY DEF IsList
<1>6. /\ Path(Append(s, n), h, nx2, Nodes) /\ Append(s, n) \in Seq(Nodes)
      /\ Len(Append(s, n)) = Len(s) + 1 /\ Append(s, n)[Len(s) + 1] = n
      /\ \A k \in 1..Len(s) : Append(s, n)[k] = s[k]
      /\ OnPath(Append(s, n)) = OnPath(s) \cup {n}
  BY <1>3, <1>4, <1>5, PathGrows
<1> QED
  BY <1>1, <1>3, <1>6 DEF IsList

\* Moving head to the second node leaves the rest of the list.
LEMMA ListShrinks ==
    ASSUME NEW s, NEW h, NEW nx, IsList(s, h, nx), Len(s) > 1
    PROVE  /\ IsList(Tail(s), s[2], nx) /\ Tail(s) \in Seq(Nodes)
           /\ Len(Tail(s)) = Len(s) - 1 /\ \A k \in 1..(Len(s) - 1) : Tail(s)[k] = s[k + 1]
           /\ OnPath(s) = OnPath(Tail(s)) \cup {h} /\ h \notin OnPath(Tail(s))
<1>1. Path(s, h, nx, Nodes) /\ nx[s[Len(s)]] = Null
  BY DEF IsList
<1>2. /\ Path(Tail(s), s[2], nx, Nodes) /\ Tail(s) \in Seq(Nodes)
      /\ Len(Tail(s)) = Len(s) - 1 /\ \A k \in 1..(Len(s) - 1) : Tail(s)[k] = s[k + 1]
      /\ OnPath(s) = OnPath(Tail(s)) \cup {h} /\ h \notin OnPath(Tail(s))
  BY <1>1, PathShrinks
<1>3. PICK L \in Nat \ {0, 1} : L = Len(s)
  BY ListEnds
<1>4. L - 1 \in 1..(L - 1) /\ (L - 1) + 1 = L
  BY <1>3
<1>5. Tail(s)[Len(Tail(s))] = s[Len(s)]
  BY <1>2, <1>3, <1>4
<1> QED
  BY <1>1, <1>2, <1>5 DEF IsList

-----------------------------------------------------------------------------
(* The inductive invariant *)

\* A list that nobody has destroyed.
LEMMA ShapeOf ==
    ASSUME QueueInv, head # Null
    PROVE  \E s \in Seq(Nodes) : Shape(s)
BY DEF QueueInv, ListInv

\* A thread that is in the middle of a call has the queue.
LEMMA Alive ==
    ASSUME QueueInv, ppc # "idle" \/ cpc # "idle"
    PROVE  head # Null
BY DEF QueueInv, ListInv

\* Every step keeps the types and what enqueue knows of its node.
LEMMA TypesStep ==
    ASSUME QueueInv, Next
    PROVE  QueueTypes' /\ EnqueueInv'
<1> USE DEF QueueInv, QueueTypes, EnqueueInv
<1>1. ASSUME NEW v \in Values, EnqueueAlloc(v) PROVE QueueTypes' /\ EnqueueInv'
  BY <1>1 DEF EnqueueAlloc, NodeAlloc, deqVars
<1>2. CASE EnqueueCopied
  BY <1>2 DEF EnqueueCopied, deqVars
<1>3. CASE EnqueuePublish
  BY <1>3, Zenon DEF EnqueuePublish, deqVars
<1>4. CASE EnqueueAdvance
  BY <1>4 DEF EnqueueAdvance, deqVars
<1>5. CASE DequeueLoad
  BY <1>5 DEF DequeueLoad, listVars, enqVars
<1>6. CASE DequeueCopied
  BY <1>6 DEF DequeueCopied, listVars, enqVars
<1>7. CASE DequeueAdvance
  <2>1. cn \in Nodes
    <3>1. PICK s \in Seq(Nodes) : Shape(s)
      BY <1>7, Alive, ShapeOf DEF DequeueAdvance
    <3> QED
      BY <1>7, <3>1, ListEnds DEF Shape, DequeueAdvance
  <2> QED
    BY <1>7, <2>1 DEF DequeueAdvance, enqVars
<1>8. CASE DequeueFree
  <2>1. old \in Nodes /\ (ppc = "publish" => pn # old)
    <3>1. PICK s \in Seq(Nodes) : Shape(s)
      BY <1>8, Alive, ShapeOf DEF DequeueFree
    <3> QED
      BY <1>8, <3>1 DEF Shape, DequeueFree, Making, Freeing
  <2> QED
    BY <1>8, <2>1 DEF DequeueFree, enqVars
<1>9. CASE Destroy
  BY <1>9 DEF Destroy, enqVars, deqVars
<1>10. CASE QueueInit
  BY <1>10 DEF QueueInit, NodeAlloc, enqVars, deqVars
<1> QED
  BY <1>1, <1>2, <1>3, <1>4, <1>5, <1>6, <1>7, <1>8, <1>9, <1>10, Zenon DEF Next

\* The steps of a call that neither link a node nor move head.
Quiet ==
    \/ \E v \in Values : EnqueueAlloc(v)
    \/ EnqueueCopied \/ EnqueueAdvance \/ DequeueLoad \/ DequeueCopied \/ DequeueFree

\* They keep the list.
LEMMA QuietStep ==
    ASSUME QueueInv, NEW s \in Seq(Nodes), Shape(s), Quiet
    PROVE  Shape(s)'
<1>0. /\ next \in Links /\ data \in [Nodes -> Values \cup {Garbage}] /\ heap \in SUBSET Nodes
      /\ OnPath(s) \subseteq heap /\ Making \subseteq heap /\ Freeing \subseteq heap
      /\ cpc \in {"copy", "advance"} => cn \in OnPath(s)
  BY ListEnds DEF QueueInv, QueueTypes, Links, Shape
<1>1. ASSUME NEW v \in Values, EnqueueAlloc(v) PROVE Shape(s)'
  <2>1. CASE UNCHANGED <<heap, next, data, pn, pv, ppc>>
    BY <1>1, <2>1, Zenon DEF EnqueueAlloc, deqVars, Shape, Making, Freeing
  <2>2. ASSUME NEW n \in Nodes, NodeAlloc(n), pn' = n, ppc' = "copy" PROVE Shape(s)'
    <3>1. n \notin OnPath(s) /\ n \notin Freeing /\ heap' = heap \cup {n}
          /\ next' = [next EXCEPT ![n] = Null] /\ data' = [data EXCEPT ![n] = Garbage]
      BY <1>0, <2>2 DEF NodeAlloc
    <3>2. ppc = "idle" /\ UNCHANGED <<head, tail, cpc, cn, cv, old>> /\ Making = {} /\ Making' = {n}
          /\ Freeing' = Freeing
      BY <1>1, <2>2 DEF EnqueueAlloc, deqVars, Making, Freeing
    <3>3. IsList(s, head', next')
      <4>1. \A m \in OnPath(s) : next'[m] = next[m]
        BY <1>0, <3>1 DEF Links
      <4> QED
        BY <3>2, <4>1, ListKept DEF Shape
    <3>4. cpc = "advance" => data'[cn] = data[cn]
      BY <1>0, <3>1
    <3> QED
      BY <2>2, <3>1, <3>2, <3>3, <3>4, Zenon DEF Shape
  <2> QED
    BY <1>1, <2>1, <2>2 DEF EnqueueAlloc
<1>2. CASE EnqueueCopied
  <2>1. pn \notin OnPath(s) /\ Making' = Making /\ Freeing' = Freeing
    BY <1>2 DEF EnqueueCopied, deqVars, Making, Freeing, Shape
  <2>2. cpc = "advance" => data'[cn] = data[cn]
    BY <1>0, <1>2, <2>1 DEF EnqueueCopied
  <2> QED
    BY <1>2, <2>1, <2>2, Zenon DEF EnqueueCopied, deqVars, Shape
<1>3. CASE EnqueueAdvance
  BY <1>3, Zenon DEF EnqueueAdvance, deqVars, Making, Freeing, Shape
<1>4. CASE DequeueLoad
  <2>1. cpc = "idle" /\ cpc' # "free" /\ Making' = Making /\ Freeing = {} /\ Freeing' = {}
    BY <1>4 DEF DequeueLoad, enqVars, Making, Freeing
  <2>2. cpc' \in {"copy", "advance"} => Len(s) > 1 /\ cn' = s[2]
    <3>1. cpc' \in {"copy", "advance"} => next[head] # Null /\ cn' = next[head]
      BY <1>4, <2>1 DEF DequeueLoad
    <3>2. IsList(s, head, next)
      BY DEF Shape
    <3>3. PICK L \in Nat \ {0} : L = Len(s) /\ (next[head] = Null <=> L = 1)
                                /\ (L > 1 => next[head] = s[2])
      BY <3>2, ListEnds, Zenon
    <3>4. next[head] # Null => Len(s) > 1 /\ next[head] = s[2]
      BY <3>3
    <3> QED
      BY <3>1, <3>4
  <2>3. cpc' = "advance" => cv' = "dropped"
    BY <1>4, <2>1 DEF DequeueLoad
  <2> QED
    BY <1>4, <2>1, <2>2, <2>3, Zenon DEF DequeueLoad, listVars, enqVars, Shape
<1>5. CASE DequeueCopied
  BY <1>5, Zenon DEF DequeueCopied, listVars, enqVars, Making, Freeing, Shape
<1>6. CASE DequeueFree
  <2>1. Freeing = {old} /\ Freeing' = {} /\ Making' = Making /\ cpc' = "idle"
    BY <1>6 DEF DequeueFree, enqVars, Making, Freeing
  <2>2. heap' = OnPath(s) \cup Making
    BY <1>6, <2>1 DEF DequeueFree, Shape
  <2> QED
    BY <1>6, <2>1, <2>2, Zenon DEF DequeueFree, enqVars, Shape
<1> QED
  BY <1>1, <1>2, <1>3, <1>4, <1>5, <1>6 DEF Quiet

\* Publishing a node appends it to the list.
LEMMA PublishStep ==
    ASSUME QueueInv, NEW s \in Seq(Nodes), Shape(s), EnqueuePublish
    PROVE  Shape(Append(s, pn))' /\ IsList(Append(s, pn), head', next')
<1>0. ppc = "publish" /\ pn \in Nodes /\ next[pn] = Null /\ next \in Links
  BY DEF EnqueuePublish, QueueInv, QueueTypes, EnqueueInv, Links
<1>1. Making = {pn} /\ Making' = {} /\ Freeing' = Freeing /\ pn \notin OnPath(s)
  BY <1>0, Zenon DEF EnqueuePublish, deqVars, Making, Freeing, Shape
<1>2. PICK t \in Seq(Nodes) : t = Append(s, pn)
  BY <1>0, AppendProperties, Zenon
<1>3. /\ IsList(t, head, [next EXCEPT ![s[Len(s)]] = pn])
      /\ Len(t) = Len(s) + 1 /\ t[Len(s) + 1] = pn
      /\ \A k \in 1..Len(s) : t[k] = s[k]
      /\ OnPath(t) = OnPath(s) \cup {pn}
  BY <1>0, <1>1, <1>2, ListGrows DEF Shape
<1>4. s[Len(s)] = tail
  BY <1>0 DEF Shape
<1>5. IsList(t, head', next')
  BY <1>3, <1>4, Zenon DEF EnqueuePublish
<1>6. Len(s) \in Nat /\ (Len(s) > 1 => Len(t) > 1 /\ t[2] = s[2])
  BY <1>3, ListEnds DEF Shape
<1>7. pn' = pn
  BY DEF EnqueuePublish
<1>8. Shape(t)'
  BY <1>1, <1>3, <1>5, <1>6, Zenon DEF EnqueuePublish, deqVars, Shape
<1> QED
  BY <1>2, <1>5, <1>7, <1>8

\* Moving head takes the first node off the list, to be freed.
LEMMA AdvanceStep ==
    ASSUME QueueInv, NEW s \in Seq(Nodes), Shape(s), DequeueAdvance
    PROVE  Shape(Tail(s))'
<1>0. cpc = "advance" /\ Len(s) > 1 /\ cn = s[2] /\ IsList(s, head, next)
  BY Zenon DEF DequeueAdvance, Shape
<1>1. /\ IsList(Tail(s), head', next') /\ Len(Tail(s)) = Len(s) - 1
      /\ \A k \in 1..(Len(s) - 1) : Tail(s)[k] = s[k + 1]
      /\ OnPath(s) = OnPath(Tail(s)) \cup {head} /\ head \notin OnPath(Tail(s))
  BY <1>0, ListShrinks, Zenon DEF DequeueAdvance
<1>2. Freeing = {} /\ Freeing' = {head} /\ Making' = Making /\ cpc' = "free" /\ old' = head
  BY <1>0 DEF DequeueAdvance, enqVars, Freeing, Making
<1>3. Tail(s)[Len(Tail(s))] = s[Len(s)]
  <2>1. PICK L \in Nat \ {0, 1} : L = Len(s)
    BY <1>0, ListEnds
  <2>2. L - 1 \in 1..(L - 1) /\ (L - 1) + 1 = L
    BY <2>1
  <2> QED
    BY <1>1, <2>1, <2>2, Zenon
<1>4. head \in Nodes
  BY <1>0, ListEnds
<1>5. heap' = OnPath(Tail(s)) \cup Making' \cup Freeing'
  BY <1>1, <1>2, Zenon DEF DequeueAdvance, Shape
<1>6. /\ Making' \cap OnPath(Tail(s)) = {} /\ Freeing' \cap OnPath(Tail(s)) = {}
      /\ Making' \cap Freeing' = {}
  BY <1>1, <1>2, Zenon DEF Shape
<1>7. Tail(s)[Len(Tail(s))] = IF ppc' = "advance" THEN pn' ELSE tail'
  BY <1>3, Zenon DEF DequeueAdvance, enqVars, Shape
<1> QED
  BY <1>1, <1>2, <1>4, <1>5, <1>6, <1>7, Zenon DEF Shape

\* A list is what the walk from head collects.
LEMMA ChainOfShape ==
    ASSUME NEW s \in Seq(Nodes), Shape(s)
    PROVE  Chain = s /\ Linked = OnPath(s)
<1>1. Chain = s
  BY ListEnds, ChainIs, Zenon DEF Shape, Chain
<1>2. DOMAIN s = 1..Len(s)
  BY LenProperties
<1> QED
  BY <1>1, <1>2 DEF Linked, OnPath

\* A list of one node, for a queue that nobody uses.
LEMMA FreshShape ==
    ASSUME NEW n \in Nodes, head = n, tail = n, heap = {n}, next[n] = Null,
           ppc = "idle", cpc = "idle"
    PROVE  Shape(<<n>>) /\ <<n>> \in Seq(Nodes)
<1>1. IsList(<<n>>, n, next) /\ OnPath(<<n>>) = {n} /\ <<n>> \in Seq(Nodes)
  BY ListOfOne, Zenon
<1>2. Making = {} /\ Freeing = {}
  BY DEF Making, Freeing
<1>3. <<n>>[Len(<<n>>)] = n
  OBVIOUS
<1> QED
  BY <1>1, <1>2, <1>3, Zenon DEF Shape

\* A queue that is initialised again starts with a list of one node.
LEMMA QueueInitStep ==
    ASSUME QueueInv, QueueInit
    PROVE  \E n \in Nodes : Shape(<<n>>)' /\ <<n>> \in Seq(Nodes) /\ head' = n
<1>1. PICK n \in Nodes : NodeAlloc(n) /\ head' = n /\ tail' = n
  BY DEF QueueInit
<1>2. heap = {} /\ heap' = {n} /\ next'[n] = Null /\ ppc' = "idle" /\ cpc' = "idle"
  BY <1>1, Zenon DEF QueueInv, QueueTypes, ListInv, QueueInit, NodeAlloc, enqVars, deqVars
<1>3. IsList(<<n>>, n, next') /\ OnPath(<<n>>) = {n} /\ <<n>> \in Seq(Nodes)
  BY <1>2, ListOfOne
<1>4. Making' = {} /\ Freeing' = {}
  BY <1>2 DEF Making, Freeing
<1>5. <<n>>[Len(<<n>>)] = n
  OBVIOUS
<1>6. Shape(<<n>>)'
  BY <1>1, <1>2, <1>3, <1>4, <1>5, Zenon DEF Shape
<1> QED
  BY <1>1, <1>3, <1>6

\* Destroy frees every node.
LEMMA DestroyStep ==
    ASSUME QueueInv, Destroy
    PROVE  head' = Null /\ tail' = Null /\ heap' = {} /\ ppc' = "idle" /\ cpc' = "idle"
<1>1. PICK s \in Seq(Nodes) : Shape(s)
  BY ShapeOf DEF Destroy
<1>2. heap = OnPath(s)
  BY <1>1, Zenon DEF Destroy, Shape, Making, Freeing
<1> QED
  BY <1>1, <1>2, ChainOfShape DEF Destroy, enqVars, deqVars

\* Every step keeps the list.
LEMMA ListStep ==
    ASSUME QueueInv, Next
    PROVE  ListInv'
<1> DEFINE Listed == \E s \in Seq(Nodes) : Shape(s)
<1>1. ASSUME head' # Null, Listed' PROVE ListInv'
  BY <1>1 DEF ListInv
<1>2. Quiet \/ EnqueuePublish \/ DequeueAdvance => head # Null
  <2>1. EnqueuePublish \/ DequeueAdvance \/ EnqueueCopied \/ EnqueueAdvance \/ DequeueCopied
        \/ DequeueFree => head # Null
    BY Alive, Zenon DEF EnqueuePublish, DequeueAdvance, EnqueueCopied, EnqueueAdvance, DequeueCopied,
                 DequeueFree
  <2>2. ASSUME NEW v \in Values, EnqueueAlloc(v) PROVE head # Null
    BY <2>2 DEF EnqueueAlloc, QueueInv, ListInv
  <2> QED
    BY <2>1, <2>2, Zenon DEF Quiet, DequeueLoad
<1>3. ASSUME NEW s \in Seq(Nodes), Shape(s)' PROVE head' # Null
  BY <1>3, QueueAssumption, ListEnds, Zenon DEF Shape
<1>4. CASE Quiet
  BY <1>1, <1>2, <1>3, <1>4, ShapeOf, QuietStep
<1>5. CASE EnqueuePublish
  <2>1. PICK s \in Seq(Nodes) : Shape(s)
    BY <1>2, <1>5, ShapeOf
  <2>2. PICK t \in Seq(Nodes) : t = Append(s, pn)
    BY <1>5, AppendProperties, Zenon DEF EnqueuePublish, QueueInv, EnqueueInv
  <2>3. pn' = pn
    BY <1>5 DEF EnqueuePublish
  <2>4. Shape(t)'
    BY <1>5, <2>1, <2>2, <2>3, PublishStep
  <2> QED
    BY <1>1, <1>3, <2>4
<1>6. CASE DequeueAdvance
  <2>1. PICK s \in Seq(Nodes) : Shape(s)
    BY <1>2, <1>6, ShapeOf
  <2>2. PICK t \in Seq(Nodes) : t = Tail(s)
    BY <1>6, <2>1, ListShrinks, Zenon DEF DequeueAdvance, Shape
  <2>3. Shape(t)'
    BY <1>6, <2>1, <2>2, AdvanceStep, Zenon
  <2> QED
    BY <1>1, <1>3, <2>3, Zenon
<1>7. CASE Destroy
  BY <1>7, DestroyStep DEF ListInv
<1>8. CASE QueueInit
  <2>1. PICK n \in Nodes : Shape(<<n>>)' /\ <<n>> \in Seq(Nodes) /\ head' = n
    BY <1>8, QueueInitStep
  <2> QED
    BY <1>1, <2>1, QueueAssumption
<1> QED
  BY <1>4, <1>5, <1>6, <1>7, <1>8 DEF Next, Quiet

-----------------------------------------------------------------------------
(* Theorems *)

\* The inductive invariant holds.
THEOREM QueueInvariance == Spec => []QueueInv
<1>1. Init => QueueInv
  <2> SUFFICES ASSUME Init PROVE QueueInv
    OBVIOUS
  <2>1. PICK n \in Nodes : head = n /\ tail = n /\ heap = {n}
    BY DEF Init
  <2>2. QueueTypes /\ EnqueueInv
    BY <2>1 DEF Init, QueueTypes, EnqueueInv
  <2>3. Shape(<<n>>) /\ <<n>> \in Seq(Nodes)
    BY <2>1, FreshShape DEF Init
  <2>4. ListInv
    BY <2>1, <2>3, QueueAssumption, Zenon DEF ListInv
  <2> QED
    BY <2>2, <2>4, Zenon DEF QueueInv
<1>2. QueueInv /\ [Next]_vars => QueueInv'
  <2>1. CASE Next
    BY <2>1, TypesStep, ListStep DEF QueueInv
  <2>2. CASE UNCHANGED vars
    BY <2>2 DEF vars, listVars, enqVars, deqVars, QueueInv, QueueTypes, EnqueueInv, ListInv,
                Shape, Making, Freeing
  <2> QED
    BY <2>1, <2>2
<1> QED
  BY <1>1, <1>2, PTL DEF Spec

\* No step of either thread touches a node that has been freed.
THEOREM NodesOutliveTheirUsers == Spec => []NoUseAfterFree
<1>1. QueueInv => NoUseAfterFree
  <2> SUFFICES ASSUME QueueInv PROVE NoUseAfterFree
    OBVIOUS
  <2>1. CASE head = Null
    BY <2>1 DEF QueueInv, ListInv, NoUseAfterFree
  <2>2. CASE head # Null
    <3>1. PICK s \in Seq(Nodes) : Shape(s)
      BY <2>2, ShapeOf
    <3>2. head \in OnPath(s) /\ s[Len(s)] \in OnPath(s) /\ (Len(s) > 1 => s[2] \in OnPath(s))
      BY <3>1, ListEnds DEF Shape
    <3> QED
      BY <3>1, <3>2, Zenon DEF Shape, Making, Freeing, NoUseAfterFree
  <2> QED
    BY <2>1, <2>2
<1> QED
  BY <1>1, QueueInvariance, PTL

\* Every allocated node is in the list, being made or being freed.
THEOREM NodesNeverLeak == Spec => []NoLeak
<1>1. QueueInv => NoLeak
  <2> SUFFICES ASSUME QueueInv PROVE NoLeak
    BY Zenon
  <2>1. CASE head = Null
    <3>1. ppc = "idle" /\ cpc = "idle" /\ heap = {}
      BY <2>1 DEF QueueInv, ListInv
    <3>2. Linked = {}
      BY <2>1, QueueAssumption, AlongNothing DEF Linked, Chain
    <3> QED
      BY <3>1, <3>2 DEF NoLeak
  <2>2. CASE head # Null
    <3>1. PICK s \in Seq(Nodes) : Shape(s)
      BY <2>2, ShapeOf, Zenon
    <3> QED
      BY <3>1, ChainOfShape DEF Shape, Making, Freeing, NoLeak
  <2> QED
    BY <2>1, <2>2, Zenon
<1> QED
  BY <1>1, QueueInvariance, PTL

-----------------------------------------------------------------------------
(* The list as a FIFO *)

Contents(s, d) == [k \in 1..(Len(s) - 1) |-> d[s[k + 1]]]
Cells == Values \cup {Garbage}

\* The elements of a list are one fewer than its nodes.
LEMMA ContentsSeq ==
    ASSUME NEW s, NEW h, NEW nx, IsList(s, h, nx), NEW d \in [Nodes -> Cells]
    PROVE  /\ Contents(s, d) \in Seq(Cells) /\ Len(Contents(s, d)) = Len(s) - 1
           /\ \A k \in 1..(Len(s) - 1) : Contents(s, d)[k] = d[s[k + 1]]
<1>1. PICK L \in Nat : L = Len(s) - 1
  BY ListEnds
<1>2. \A k \in 1..L : k + 1 \in 1..Len(s)
  BY <1>1, ListEnds
<1>3. \A k \in 1..L : d[s[k + 1]] \in Cells
  <2>1. \A k \in 1..Len(s) : s[k] \in Nodes
    BY ListEnds, ElementOfSeq
  <2> QED
    BY <1>2, <2>1, Zenon
<1>4. PICK c : c = [k \in 1..L |-> d[s[k + 1]]]
  BY Zenon
<1>5. c \in [1..L -> Cells]
  BY <1>3, <1>4
<1>6. c \in Seq(Cells) /\ Len(c) = L
  BY <1>5, SeqDef, LenProperties
<1> QED
  BY <1>1, <1>4, <1>6, Zenon DEF Contents

\* A node appended to the list appends its element.
LEMMA ContentsGrow ==
    ASSUME NEW s, NEW h, NEW nx \in Links, IsList(s, h, nx), NEW d \in [Nodes -> Cells],
           NEW n \in Nodes, n \notin OnPath(s), nx[n] = Null
    PROVE  Contents(Append(s, n), d) = Append(Contents(s, d), d[n])
<1>1. PICK t : t = Append(s, n)
  BY Zenon
<1>2. /\ IsList(t, h, [nx EXCEPT ![s[Len(s)]] = n])
      /\ Len(t) = Len(s) + 1 /\ t[Len(s) + 1] = n /\ \A k \in 1..Len(s) : t[k] = s[k]
  BY <1>1, ListGrows
<1>3. PICK L \in Nat : L = Len(s) - 1 /\ Len(s) = L + 1
  BY ListEnds
<1>4. PICK a \in Seq(Cells) : /\ a = Contents(s, d) /\ Len(a) = L
                              /\ \A k \in 1..L : a[k] = d[s[k + 1]]
  BY <1>3, ContentsSeq, Zenon
<1>5. PICK b \in Seq(Cells) : /\ b = Contents(t, d) /\ Len(b) = L + 1
                              /\ \A k \in 1..(L + 1) : b[k] = d[t[k + 1]]
  <2>1. Len(t) - 1 = L + 1
    BY <1>2, <1>3
  <2>2. PICK nx2 : IsList(t, h, nx2)
    BY <1>2, Zenon
  <2>3. /\ Contents(t, d) \in Seq(Cells) /\ Len(Contents(t, d)) = Len(t) - 1
        /\ \A k \in 1..(Len(t) - 1) : Contents(t, d)[k] = d[t[k + 1]]
    BY <2>2, ContentsSeq, Zenon
  <2> QED
    BY <2>1, <2>3, Zenon
<1>6. PICK x \in Cells : x = d[n]
  OBVIOUS
<1>7. PICK e \in Seq(Cells) : /\ e = Append(a, x) /\ Len(e) = L + 1
                              /\ e[L + 1] = x /\ \A k \in 1..L : e[k] = a[k]
  <2>1. Append(a, x) \in Seq(Cells) /\ Len(Append(a, x)) = L + 1
    BY <1>4, AppendProperties, Zenon
  <2>2. Append(a, x)[L + 1] = x /\ \A k \in 1..L : Append(a, x)[k] = a[k]
    BY <1>3, <1>4, AppendProperties
  <2> QED
    BY <2>1, <2>2, Zenon
<1>8. ASSUME NEW k \in 1..(L + 1) PROVE b[k] = e[k]
  <2>1. CASE k = L + 1
    BY <1>2, <1>3, <1>5, <1>6, <1>7, <2>1, Zenon
  <2>2. CASE k # L + 1
    <3>1. k \in 1..L /\ k + 1 \in 1..(L + 1)
      BY <1>3, <2>2
    <3>2. b[k] = d[s[k + 1]]
      BY <1>2, <1>3, <1>5, <3>1, Zenon
    <3> QED
      BY <1>4, <1>7, <3>1, <3>2
  <2> QED
    BY <2>1, <2>2, Zenon
<1>9. b = e
  BY <1>5, <1>7, <1>8, SeqEqual, Zenon
<1> QED
  BY <1>1, <1>4, <1>5, <1>6, <1>7, <1>9, Zenon

\* Taking the first node off takes the first element.
LEMMA ContentsShrink ==
    ASSUME NEW s, NEW h, NEW nx, IsList(s, h, nx), NEW d \in [Nodes -> Cells], Len(s) > 1
    PROVE  /\ Contents(s, d) # <<>> /\ Head(Contents(s, d)) = d[s[2]]
           /\ Contents(Tail(s), d) = Tail(Contents(s, d))
<1>1. PICK t : t = Tail(s)
  BY Zenon
<1>2. PICK L \in Nat \ {0} : L = Len(s) - 1
  BY ListEnds
<1>3. IsList(t, s[2], nx) /\ Len(t) = L /\ \A k \in 1..L : t[k] = s[k + 1]
  BY <1>1, <1>2, ListShrinks, Zenon
<1>4. PICK a \in Seq(Cells) : /\ a = Contents(s, d) /\ Len(a) = L
                              /\ \A k \in 1..L : a[k] = d[s[k + 1]]
  BY <1>2, ContentsSeq, Zenon
<1>5. PICK b \in Seq(Cells) : /\ b = Contents(t, d) /\ Len(b) = L - 1
                              /\ \A k \in 1..(L - 1) : b[k] = d[t[k + 1]]
  BY <1>3, ContentsSeq, Zenon
<1>6. a # <<>>
  BY <1>4, EmptySeq, Zenon
<1>7. PICK e \in Seq(Cells) : /\ e = Tail(a) /\ Len(e) = L - 1
                              /\ \A k \in 1..(L - 1) : e[k] = a[k + 1]
  <2>1. /\ Tail(a) \in Seq(Cells) /\ Len(Tail(a)) = Len(a) - 1
        /\ \A k \in 1..Len(Tail(a)) : Tail(a)[k] = a[k + 1]
    BY <1>6, HeadTailProperties
  <2> QED
    <3>1. PICK e \in Seq(Cells) : e = Tail(a)
      BY <2>1, Zenon
    <3>2. Len(e) = L - 1
      BY <1>4, <2>1, <3>1, Zenon
    <3>3. \A k \in 1..(L - 1) : e[k] = a[k + 1]
      BY <2>1, <3>1, <3>2
    <3> QED
      BY <3>1, <3>2, <3>3, Zenon
<1>8. ASSUME NEW k \in 1..(L - 1) PROVE b[k] = e[k]
  <2>1. k + 1 \in 1..L
    BY <1>2
  <2>2. a[k + 1] = d[s[(k + 1) + 1]] /\ t[k + 1] = s[(k + 1) + 1]
    BY <1>3, <1>4, <2>1, Zenon
  <2> QED
    BY <1>5, <1>7, <2>2, Zenon
<1>9. b = e
  BY <1>5, <1>7, <1>8, SeqEqual, Zenon
<1>10. Head(a) = d[s[2]]
  <2>1. 1 \in 1..L
    BY <1>2
  <2>2. a[1] = d[s[1 + 1]]
    BY <1>4, <2>1
  <2> QED
    BY <2>2
<1> QED
  BY <1>1, <1>4, <1>5, <1>6, <1>7, <1>9, <1>10, Zenon

\* The elements are those of the list, and the list fits in the memory there is.
LEMMA ElementsNow ==
    ASSUME NEW s, IsList(s, head, next)
    PROVE  Elements = Contents(s, data) /\ Room = Cardinality(Nodes) /\ Len(s) <= Room
<1>1. head \in Nodes /\ head # Null
  BY ListEnds, QueueAssumption, Zenon
<1>2. Elements = Contents(s, data)
  <2>1. Chain = s
    BY <1>1, ChainIs DEF Chain
  <2> QED
    BY <1>1, <2>1, Zenon DEF Elements, Contents
<1>3. Len(s) \in 1..Cardinality(Nodes) /\ Cardinality(Nodes) \in Nat
  BY ListFits, QueueAssumption, FS_CardinalityType
<1> QED
  BY <1>1, <1>2, <1>3 DEF Room

\* The same in the next state.
LEMMA ElementsNext ==
    ASSUME NEW s, IsList(s, head', next')
    PROVE  Elements' = Contents(s, data') /\ Room' = Cardinality(Nodes)
<1>1. head' \in Nodes /\ head' # Null
  BY ListEnds, QueueAssumption, Zenon
<1>2. Chain' = s
  BY <1>1, ChainIs DEF Chain
<1>3. Elements' = Contents(s, data')
  BY <1>1, <1>2, Zenon DEF Elements, Contents
<1> QED
  BY <1>1, <1>3 DEF Room

\* The quiet steps leave the elements as they are.
LEMMA QuietElements ==
    ASSUME QueueInv, Quiet, head # Null
    PROVE  Elements' = Elements /\ Room' = Room
<1>1. PICK s \in Seq(Nodes) : Shape(s)
  BY ShapeOf
<1>2. IsList(s, head, next) /\ IsList(s, head', next')
  <2>1. Shape(s)'
    BY <1>1, QuietStep
  <2> QED
    BY <1>1, <2>1, Zenon DEF Shape
<1>3. data \in [Nodes -> Cells] /\ OnPath(s) \subseteq Nodes /\ OnPath(s) \subseteq heap
  BY <1>1, <1>2, ListEnds, Zenon DEF QueueInv, QueueTypes, Cells, Shape
<1>4. \A m \in OnPath(s) : data'[m] = data[m]
  <2>1. ASSUME NEW v \in Values, EnqueueAlloc(v) PROVE \A m \in OnPath(s) : data'[m] = data[m]
    BY <1>3, <2>1, Zenon DEF EnqueueAlloc, NodeAlloc
  <2>2. CASE EnqueueCopied
    <3>1. pn \notin OnPath(s)
      BY <1>1, <2>2, Zenon DEF EnqueueCopied, Shape, Making
    <3> QED
      BY <1>3, <2>2, <3>1 DEF EnqueueCopied
  <2>3. CASE DequeueFree
    <3>1. old \notin OnPath(s)
      BY <1>1, <2>3, Zenon DEF DequeueFree, Shape, Freeing
    <3> QED
      BY <1>3, <2>3, <3>1 DEF DequeueFree
  <2>4. CASE EnqueueAdvance \/ DequeueLoad \/ DequeueCopied
    BY <2>4, Zenon DEF EnqueueAdvance, DequeueLoad, DequeueCopied, listVars
  <2> QED
    BY <2>1, <2>2, <2>3, <2>4, Zenon DEF Quiet
<1>5. Contents(s, data') = Contents(s, data)
  <2>1. ASSUME NEW k \in 1..(Len(s) - 1) PROVE s[k + 1] \in OnPath(s)
    <3>1. k + 1 \in 1..Len(s)
      BY <1>2, ListEnds
    <3> QED
      BY <3>1 DEF OnPath
  <2> QED
    BY <1>4, <2>1, Zenon DEF Contents
<1> QED
  BY <1>2, <1>5, ElementsNow, ElementsNext

\* Every step of the list is a step of the FIFO, or none.
LEMMA FifoStep ==
    ASSUME QueueInv, [Next]_vars
    PROVE  [Queue!Next]_Queue!vars
<1> SUFFICES Queue!Next \/ UNCHANGED Queue!vars
  OBVIOUS
<1>0. QueueTypes /\ EnqueueInv /\ next \in Links /\ data \in [Nodes -> Cells]
  BY Zenon DEF QueueInv, QueueTypes, Links, Cells
<1>1. ASSUME UNCHANGED <<Elements, Room, put, got>> PROVE UNCHANGED Queue!vars
  BY <1>1 DEF Queue!vars
<1>2. ASSUME NEW v \in Values, EnqueueAlloc(v) PROVE Queue!Next \/ UNCHANGED Queue!vars
  <2>1. UNCHANGED <<Elements, Room, got>>
    <3>1. head # Null
      BY <1>2 DEF EnqueueAlloc, QueueInv, ListInv
    <3> QED
      BY <1>2, <3>1, QuietElements, Zenon DEF Quiet, EnqueueAlloc, deqVars
  <2>2. CASE put' = put
    BY <1>1, <2>1, <2>2
  <2>3. CASE put' = "refused"
    <3>1. Queue!Refuse
      BY <2>1, <2>3 DEF Queue!Refuse
    <3> QED
      BY <3>1 DEF Queue!Next
  <2> QED
    BY <1>2, <2>2, <2>3 DEF EnqueueAlloc
<1>3. CASE EnqueueCopied \/ EnqueueAdvance \/ DequeueCopied \/ DequeueFree
  <2>1. head # Null
    BY <1>3, Alive, Zenon DEF EnqueueCopied, EnqueueAdvance, DequeueCopied, DequeueFree
  <2>2. UNCHANGED <<put, got>>
    BY <1>3, Zenon DEF EnqueueCopied, EnqueueAdvance, DequeueCopied, DequeueFree, enqVars, deqVars
  <2> QED
    BY <1>1, <1>3, <2>1, <2>2, QuietElements DEF Quiet
<1>4. CASE DequeueLoad
  <2>1. head # Null /\ UNCHANGED <<Elements, Room, put>>
    BY <1>4, QuietElements, Zenon DEF DequeueLoad, Quiet, enqVars
  <2>2. CASE got' = got
    BY <1>1, <2>1, <2>2
  <2>3. CASE next[head] = Null /\ got' = "empty"
    <3>1. PICK s \in Seq(Nodes) : Shape(s)
      BY <2>1, ShapeOf
    <3>2. IsList(s, head, next) /\ Len(s) = 1
      BY <2>3, <3>1, ListEnds, Zenon DEF Shape
    <3>3. Elements \in Seq(Cells) /\ Len(Elements) = 0
      BY <1>0, <3>2, ElementsNow, ContentsSeq
    <3>4. Elements = <<>>
      BY <3>3, EmptySeq
    <3>5. Queue!GetNothing
      BY <2>1, <2>3, <3>4 DEF Queue!GetNothing
    <3> QED
      BY <3>5 DEF Queue!Next
  <2> QED
    BY <1>4, <2>2, <2>3, Zenon DEF DequeueLoad
<1>5. CASE EnqueuePublish
  <2>1. PICK s \in Seq(Nodes) : Shape(s)
    BY <1>5, Alive, ShapeOf DEF EnqueuePublish
  <2>2. /\ ppc = "publish" /\ pn \in Nodes /\ pn \notin OnPath(s) /\ next[pn] = Null
        /\ data[pn] = pv /\ pv \in Values /\ IsList(s, head, next)
    BY <1>0, <1>5, <2>1, Zenon DEF EnqueuePublish, EnqueueInv, Shape, Making
  <2>3. IsList(Append(s, pn), head', next')
    BY <1>5, <2>1, PublishStep
  <2>4. data' = data /\ put' = "ok" /\ got' = got
    BY <1>5 DEF EnqueuePublish, deqVars
  <2>5. PICK t : t = Append(s, pn)
    BY Zenon
  <2>6. Elements' = Contents(t, data) /\ Room' = Cardinality(Nodes)
    BY <2>3, <2>4, <2>5, ElementsNext
  <2>7. Contents(t, data) = Append(Contents(s, data), pv)
    BY <1>0, <2>2, <2>5, ContentsGrow, Zenon
  <2>8. Elements = Contents(s, data) /\ Room = Cardinality(Nodes) /\ Len(s) <= Room
    BY <2>2, ElementsNow, Zenon
  <2>9. Len(Elements) < Room
    <3>1. PICK m \in Nat : m = Len(s) /\ Len(Elements) = m - 1
      BY <1>0, <2>2, <2>8, ContentsSeq, ListEnds, Zenon
    <3>2. Room \in Nat
      BY <2>8, QueueAssumption, FS_CardinalityType
    <3> QED
      BY <2>8, <3>1, <3>2
  <2>10. PICK v \in Values : v = pv
    BY <2>2, Zenon
  <2>11. Queue!Put(v)
    BY <2>4, <2>6, <2>7, <2>8, <2>9, <2>10 DEF Queue!Put
  <2> QED
    BY <2>11 DEF Queue!Next
<1>6. CASE DequeueAdvance
  <2>1. PICK s \in Seq(Nodes) : Shape(s)
    BY <1>6, Alive, ShapeOf DEF DequeueAdvance
  <2>2. IsList(s, head, next) /\ Len(s) > 1 /\ cn = s[2] /\ cv \in {data[cn], "dropped"}
    BY <1>6, <2>1, Zenon DEF DequeueAdvance, Shape
  <2>3. IsList(Tail(s), head', next')
    BY <1>6, <2>2, ListShrinks, Zenon DEF DequeueAdvance
  <2>4. data' = data /\ put' = put /\ got' = cv
    BY <1>6 DEF DequeueAdvance, enqVars
  <2>5. PICK t : t = Tail(s)
    BY Zenon
  <2>6. Elements' = Contents(t, data) /\ Room' = Cardinality(Nodes)
    BY <2>3, <2>4, <2>5, ElementsNext
  <2>7. Elements = Contents(s, data) /\ Room = Cardinality(Nodes)
    BY <2>2, ElementsNow, Zenon
  <2>8. Elements # <<>> /\ Head(Elements) = data[cn] /\ Elements' = Tail(Elements)
    BY <1>0, <2>2, <2>5, <2>6, <2>7, ContentsShrink, Zenon
  <2>9. Queue!Get
    BY <2>2, <2>4, <2>6, <2>7, <2>8, Zenon DEF Queue!Get
  <2> QED
    BY <2>9 DEF Queue!Next
<1>7. CASE Destroy
  <2>1. head # Null /\ head' = Null /\ UNCHANGED <<put, got>>
    BY <1>7 DEF Destroy, enqVars, deqVars
  <2>2. Room # 0 /\ Room' = 0
    <3>1. Nodes # {}
      BY <1>0, <2>1 DEF QueueTypes
    <3>2. Cardinality(Nodes) # 0
      BY <3>1, QueueAssumption, FS_EmptySet
    <3> QED
      BY <2>1, <3>2 DEF Room
  <2>3. Elements' = <<>>
    BY <2>1 DEF Elements
  <2>4. Queue!Close
    BY <2>1, <2>2, <2>3 DEF Queue!Close
  <2> QED
    BY <2>4 DEF Queue!Next
<1>8. CASE QueueInit
  <2>1. PICK n \in Nodes : Shape(<<n>>)' /\ <<n>> \in Seq(Nodes) /\ head' = n
    BY <1>8, QueueInitStep
  <2>2. PICK t \in Seq(Nodes) : t = <<n>> /\ Len(t) = 1 /\ IsList(t, head', next')
    BY <2>1, Zenon DEF Shape
  <2>3. data' \in [Nodes -> Cells]
    BY <1>0, <1>8, Zenon DEF QueueInit, NodeAlloc, Cells
  <2>4. Elements' = Contents(t, data') /\ Room' = Cardinality(Nodes)
    BY <2>2, ElementsNext, Zenon
  <2>5. Elements' = <<>>
    <3>1. PICK d \in [Nodes -> Cells] : d = data'
      BY <2>3
    <3>2. PICK h, nx : IsList(t, h, nx)
      BY <2>2
    <3>3. Contents(t, d) \in Seq(Cells) /\ Len(Contents(t, d)) = 0
      BY <2>2, <3>2, ContentsSeq
    <3>4. Contents(t, d) = <<>>
      BY <3>3, EmptySeq
    <3> QED
      BY <2>4, <3>1, <3>4, Zenon
  <2>6. head = Null /\ UNCHANGED <<put, got>>
    BY <1>8, Zenon DEF QueueInit, enqVars, deqVars
  <2>7. Elements = <<>> /\ Room = 0
    BY <2>6 DEF Elements, Room
  <2>8. Queue!Open
    BY <2>4, <2>5, <2>6, <2>7, Zenon DEF Queue!Open
  <2> QED
    BY <2>8 DEF Queue!Next
<1>9. CASE UNCHANGED vars
  <2>1. UNCHANGED <<Elements, Room, put, got>>
    BY <1>9, Zenon DEF vars, listVars, enqVars, deqVars, Elements, Room, Chain
  <2> QED
    BY <1>1, <2>1
<1> QED
  BY <1>2, <1>3, <1>4, <1>5, <1>6, <1>7, <1>8, <1>9 DEF Next

\* The linked list implements a FIFO: publishing a node is the put and moving head
\* is the get, whatever the other thread has done in between.
THEOREM AtomicQueueImplementsFifo == Spec => ImplementsFifo
<1>1. Init => Queue!Init
  <2> SUFFICES ASSUME Init PROVE Queue!Init
    BY Zenon
  <2>1. PICK n \in Nodes : head = n /\ tail = n /\ heap = {n}
    BY Zenon DEF Init
  <2>2. PICK t \in Seq(Nodes) : t = <<n>> /\ Len(t) = 1 /\ IsList(t, head, next)
    <3>1. next[n] = Null
      BY DEF Init
    <3>2. IsList(<<n>>, n, next) /\ <<n>> \in Seq(Nodes) /\ Len(<<n>>) = 1
      BY <3>1, ListOfOne, Zenon
    <3> QED
      BY <2>1, <3>2, Zenon
  <2>3. Elements = Contents(t, data) /\ Room = Cardinality(Nodes)
    BY <2>2, ElementsNow
  <2>4. Contents(t, data) \in Seq(Cells) /\ Len(Contents(t, data)) = 0
    BY <2>2, ContentsSeq DEF Init, Cells
  <2>5. Elements = <<>>
    BY <2>3, <2>4, EmptySeq
  <2> QED
    BY <2>3, <2>5 DEF Init, Queue!Init
<1>2. QueueInv /\ [Next]_vars => [Queue!Next]_Queue!vars
  BY FifoStep
<1> QED
  BY <1>1, <1>2, QueueInvariance, PTL DEF Spec, ImplementsFifo, Queue!Spec

-----------------------------------------------------------------------------
(* The pool *)

\* f is the free list.
FreeList(f) ==
    /\ Path(f, free_list, bytes, PoolSlots)
    /\ OnPath(f) = PoolSlots \ held
    /\ free_count = Len(f) /\ bytes[f[Len(f)]] = Null

\* The slots fit the block, and the free list runs through those nobody holds.
PoolInv ==
    /\ IF live THEN /\ stride \in Nat \ {0} /\ block_count \in Nat \ {0}
                    /\ total_size = stride * block_count
                    /\ stride >= want /\ stride >= PtrSize /\ stride % MaxAlign = 0
               ELSE block_count = 0
    /\ DOMAIN bytes = PoolSlots /\ held \subseteq PoolSlots
    /\ \/ free_list = Null /\ free_count = 0 /\ held = PoolSlots
       \/ \E f : FreeList(f)

\* A list of k nodes has k nodes.
LEMMA PathCounts ==
    ASSUME NEW S, NEW s, NEW h, NEW nx, Path(s, h, nx, S)
    PROVE  Cardinality(OnPath(s)) = Len(s)
<1>1. PICK L \in Nat \ {0} : L = Len(s)
  BY PathEnds, Zenon
<1>2. s \in [1..L -> S] /\ \A j, k \in 1..L : s[j] = s[k] => j = k
  BY <1>1, LenProperties, Zenon DEF Path
<1>3. s \in Bijection(1..L, OnPath(s))
  BY <1>1, <1>2, Zenon DEF OnPath, Bijection, Injection, Surjection, IsInjective
<1>4. IsFiniteSet(1..L) /\ Cardinality(1..L) = L
  BY FS_Interval
<1>5. ExistsBijection(1..L, OnPath(s))
  BY <1>3 DEF ExistsBijection
<1> QED
  BY <1>1, <1>4, <1>5, FS_Bijection, Zenon

\* The slots are finitely many addresses, each with its stride inside the block.
LEMMA SlotsFit ==
    ASSUME NEW st \in Nat \ {0}, NEW count \in Nat \ {0}
    PROVE  LET S == {i * st : i \in 0..(count - 1)} IN
           /\ S \subseteq Nat /\ IsFiniteSet(S)
           /\ \A s \in S : s + st <= st * count
           /\ \A j, k \in Nat : j < k => j * st < k * st
<1> DEFINE S == {i * st : i \in 0..(count - 1)}
<1>2. S \subseteq Nat
  OBVIOUS
<1>3. ASSUME NEW s \in S PROVE s + st <= st * count
  <2>1. PICK i \in 0..(count - 1) : s = i * st
    OBVIOUS
  <2>2. i \in Nat /\ i < count /\ st * count = count * st
    OBVIOUS
  <2> QED
    BY <2>1, <2>2, RowsApart, Zenon
<1>4. IsFiniteSet(S)
  <2>1. IsFiniteSet(0..(count - 1))
    BY FS_Interval
  <2>2. PICK g : g = [i \in 0..(count - 1) |-> i * st]
    BY Zenon
  <2>3. g \in Surjection(0..(count - 1), S)
    BY <2>2, Zenon DEF Surjection
  <2> QED
    BY <2>1, <2>3, FS_Surjection, Zenon
<1>5. \A j, k \in Nat : j < k => j * st < k * st
  BY RowsApart
<1> QED
  BY <1>2, <1>3, <1>4, <1>5, Zenon

\* Slots are addresses, and there are finitely many of them.
LEMMA SlotsFinite ==
    ASSUME PoolInv
    PROVE  IsFiniteSet(PoolSlots) /\ PoolSlots \subseteq Nat /\ Null \notin PoolSlots
<1>1. CASE live
  <2>1. stride \in Nat \ {0} /\ block_count \in Nat \ {0}
    BY <1>1, Zenon DEF PoolInv
  <2> QED
    BY <2>1, SlotsFit, PoolAssumption, Zenon DEF PoolSlots
<1>2. CASE ~live
  <2>1. PoolSlots = {}
    <3>1. block_count = 0
      BY <1>2, Zenon DEF PoolInv
    <3>2. 0..(block_count - 1) = {}
      BY <3>1
    <3> QED
      BY <3>2, Zenon DEF PoolSlots
  <2> QED
    BY <2>1, FS_EmptySet
<1> QED
  BY <1>1, <1>2

\* The guards of init catch every wrap: the stride has room for a block and for a
\* link, is aligned, and the strides of all slots fit in a size_t.
LEMMA GuardCatches ==
    ASSUME NEW size \in BlockSizes, NEW count \in BlockCounts, Guard(size, count) = "ok"
    PROVE  /\ Stride(size) \in Nat \ {0} /\ count \in Nat \ {0}
           /\ Stride(size) >= size /\ Stride(size) >= PtrSize /\ Stride(size) % MaxAlign = 0
           /\ (Stride(size) * count) % Word = Stride(size) * count
<1>1. size \in Nat \ {0} /\ count \in Nat \ {0} /\ Word \in Nat \ {0}
      /\ MaxAlign \in Nat \ {0} /\ PtrSize \in Nat \ {0}
  BY PoolAssumption, WordsAssumption DEF Guard
<1>2. PICK slot \in Nat \ {0} : slot = (IF size < PtrSize THEN PtrSize ELSE size)
                                /\ slot >= size /\ slot >= PtrSize
  BY <1>1
<1>3. PICK sum \in Nat : sum = (slot + (MaxAlign - 1)) % Word
  <2>1. PICK x \in Nat : x = slot + (MaxAlign - 1)
    BY <1>1, <1>2
  <2>2. x % Word \in 0..(Word - 1)
    BY <1>1, <2>1, Division, Zenon
  <2> QED
    BY <1>1, <2>1, <2>2
<1>4. Stride(size) = sum - (sum % MaxAlign)
  BY <1>2, <1>3 DEF Stride, RoundUp
<1>5. PICK st \in Nat : st = Stride(size) /\ st % MaxAlign = 0
  BY <1>1, <1>4, RoundedDown, Zenon
<1>6. st >= slot /\ count <= (Word - 1) \div st
  BY <1>1, <1>2, <1>5 DEF Guard
<1>7. st * count \in 0..(Word - 1)
  <2>1. PICK w \in Nat : w = Word - 1
    BY <1>1
  <2>2. st \in Nat \ {0} /\ count <= w \div st
    BY <1>2, <1>6, <2>1
  <2>3. count * st \in Nat /\ count * st <= w
    BY <1>1, <2>2, ProductFits, Zenon
  <2> QED
    BY <1>1, <2>1, <2>3
<1>8. (st * count) % Word = st * count
  BY <1>1, <1>7, SmallRemainder, Zenon
<1> QED
  BY <1>1, <1>2, <1>5, <1>6, <1>8

\* init threads the free list through all slots in order.
LEMMA InitThreads ==
    ASSUME PoolInv, NEW size \in BlockSizes, NEW count \in BlockCounts, PoolInit(size, count)
    PROVE  PoolInv'
<1>1. CASE UNCHANGED <<sizes, free_list, free_count, bytes, held>>
  BY <1>1, Zenon DEF sizes, PoolInv, FreeList, PoolSlots
<1>2. CASE ~UNCHANGED <<sizes, free_list, free_count, bytes, held>>
  <2>0. ~live /\ Guard(size, count) = "ok"
    BY <1>2, Zenon DEF PoolInit
  <2>1. PICK st \in Nat \ {0} : st = Stride(size)
    BY <2>0, GuardCatches, Zenon
  <2>2. /\ count \in Nat \ {0}
        /\ st >= size /\ st >= PtrSize /\ st % MaxAlign = 0
        /\ (st * count) % Word = st * count
    BY <2>0, <2>1, GuardCatches, Zenon
  <2>3. PICK S : S = {i * st : i \in 0..(count - 1)}
    BY Zenon
  <2>4. /\ live' = TRUE /\ want' = size /\ stride' = st
        /\ block_count' = count /\ total_size' = st * count
        /\ free_list' = 0 /\ free_count' = count
        /\ bytes' = [s \in S |-> IF s = (count - 1) * st THEN Null ELSE s + st]
        /\ held' = held
    BY <1>2, <2>1, <2>2, <2>3 DEF PoolInit
  <2>5. PoolSlots' = S /\ held' = {}
    BY <2>0, <2>3, <2>4 DEF PoolInv, PoolSlots
  <2>6. \A j, k \in Nat : j < k => j * st < k * st
    BY <2>1, <2>2, SlotsFit, Zenon
  <2>7. PICK f \in Seq(S) : Len(f) = count /\ \A k \in 1..count : f[k] = (k - 1) * st
    <3> DEFINE g == [k \in 1..count |-> (k - 1) * st]
    <3>1. \A k \in 1..count : k - 1 \in 0..(count - 1)
      BY <2>2
    <3>2. g \in Seq(S) /\ Len(g) = count
      BY <2>2, <2>3, <3>1, IsASeq
    <3> QED
      BY <3>2, Zenon
  <2>8. \A j, k \in 1..count : f[j] = f[k] => j = k
    <3> SUFFICES ASSUME NEW j \in 1..count, NEW k \in 1..count, f[j] = f[k] PROVE j = k
      OBVIOUS
    <3>1. PICK x \in Nat, y \in Nat : x = j - 1 /\ y = k - 1
      BY <2>2
    <3>2. x * st = y * st
      BY <2>7, <3>1, Zenon
    <3>3. ~(x < y) /\ ~(y < x)
      <4>1. x * st \in Nat /\ y * st \in Nat
        OBVIOUS
      <4> QED
        BY <2>6, <3>2, <4>1
    <3> QED
      BY <3>1, <3>3
  <2>9. ASSUME NEW k \in 1..(count - 1) PROVE bytes'[f[k]] = f[k + 1]
    <3>1. k \in 1..count /\ k + 1 \in 1..count /\ (k + 1) - 1 = k /\ k # count /\ count \in 1..count
      BY <2>2
    <3>2. f[k] \in S /\ f[k] # f[count] /\ f[count] = (count - 1) * st
      BY <2>7, <2>8, <3>1, ElementOfSeq, Zenon
    <3>3. bytes'[f[k]] = f[k] + st
      BY <2>4, <3>2, Zenon
    <3>4. (k - 1) * st + st = k * st
      BY <3>1
    <3> QED
      BY <2>7, <3>1, <3>3, <3>4, Zenon
  <2>10. bytes'[f[count]] = Null
    <3>1. count \in 1..count
      BY <2>2
    <3>2. f[count] \in S /\ f[count] = (count - 1) * st
      BY <2>7, <3>1, ElementOfSeq
    <3> QED
      BY <2>4, <3>2, Zenon
  <2>11. f # <<>> /\ f[1] = 0 /\ Null \notin S
    <3>1. 1 \in 1..count /\ (1 - 1) * st = 0
      BY <2>2
    <3>2. S \subseteq Nat
      BY <2>2, <2>3, SlotsFit, Zenon
    <3> QED
      BY <2>2, <2>7, <3>1, <3>2, PoolAssumption, Zenon
  <2>12. Path(f, free_list', bytes', S)
    BY <2>4, <2>7, <2>8, <2>9, <2>10, <2>11, Zenon DEF Path
  <2>13. OnPath(f) = S
    <3>1. \A i \in 0..(count - 1) : i + 1 \in 1..count /\ (i + 1) - 1 = i
      BY <2>2
    <3>2. ASSUME NEW s \in S PROVE s \in OnPath(f)
      <4>1. PICK i \in 0..(count - 1) : s = i * st
        BY <2>3, Zenon
      <4> QED
        BY <2>7, <3>1, <4>1, Zenon DEF OnPath
    <3>3. OnPath(f) \subseteq S
      BY <2>7, ElementOfSeq, Zenon DEF OnPath
    <3> QED
      BY <3>2, <3>3, Zenon
  <2>14. FreeList(f)'
    BY <2>4, <2>5, <2>7, <2>10, <2>12, <2>13, Zenon DEF FreeList
  <2> QED
    BY <2>1, <2>2, <2>4, <2>5, <2>14, Zenon DEF PoolInv
<1> QED
  BY <1>1, <1>2

\* alloc takes the first slot of the free list.
LEMMA AllocTakes ==
    ASSUME PoolInv, PoolAlloc
    PROVE  PoolInv'
<1>1. PICK f : FreeList(f)
  BY Zenon DEF PoolInv, PoolAlloc
<1>2. /\ UNCHANGED sizes /\ bytes' = bytes /\ PoolSlots' = PoolSlots
      /\ free_list' = bytes[free_list] /\ free_count' = free_count - 1
      /\ held' = held \cup {free_list}
  BY Zenon DEF PoolAlloc, PoolSlots, sizes
<1>3. Path(f, free_list, bytes, PoolSlots) /\ OnPath(f) = PoolSlots \ held
      /\ free_count = Len(f) /\ bytes[f[Len(f)]] = Null
  BY <1>1, Zenon DEF FreeList
<1>4. PICK L \in Nat \ {0} : L = Len(f)
  BY <1>3, PathEnds, Zenon
<1>5. free_list \in PoolSlots /\ free_list \in OnPath(f) /\ f[1] = free_list
  <2>1. free_list \in PoolSlots /\ free_list \in OnPath(f)
    BY <1>3, PathEnds, Zenon
  <2>2. f[1] = free_list
    BY <1>3 DEF Path
  <2> QED
    BY <2>1, <2>2
<1>6. held' \subseteq PoolSlots'
  BY <1>2, <1>5, Zenon DEF PoolInv
<1>7. CASE L = 1
  <2>1. free_list' = Null /\ free_count' = 0
    BY <1>2, <1>3, <1>4, <1>5, <1>7
  <2>2. OnPath(f) = {free_list}
    BY <1>4, <1>5, <1>7 DEF OnPath
  <2>3. held' = PoolSlots
    BY <1>2, <1>3, <2>2, Zenon DEF PoolInv
  <2> QED
    BY <1>2, <1>6, <2>1, <2>3, Zenon DEF PoolInv, sizes
<1>8. CASE L > 1
  <2>1. PICK t : t = Tail(f)
    BY Zenon
  <2>2. /\ Path(t, f[2], bytes, PoolSlots)
        /\ Len(t) = L - 1 /\ \A k \in 1..(L - 1) : t[k] = f[k + 1]
        /\ OnPath(f) = OnPath(t) \cup {free_list} /\ free_list \notin OnPath(t)
    BY <1>3, <1>4, <1>8, <2>1, PathShrinks
  <2>3. bytes[free_list] = f[2]
    BY <1>3, <1>4, <1>8, PathEnds, Zenon
  <2>4. t[Len(t)] = f[L]
    <3>1. L - 1 \in 1..(L - 1) /\ (L - 1) + 1 = L
      BY <1>8
    <3> QED
      BY <2>2, <3>1, Zenon
  <2>5. OnPath(t) = PoolSlots \ held'
    BY <1>2, <1>3, <2>2, Zenon
  <2>6. FreeList(t)'
    BY <1>2, <1>3, <1>4, <2>2, <2>3, <2>4, <2>5, Zenon DEF FreeList
  <2> QED
    BY <1>2, <1>6, <2>6, Zenon DEF PoolInv, sizes
<1> QED
  BY <1>4, <1>7, <1>8

\* What the holder of a slot writes does not touch the free list.
LEMMA UseSpares ==
    ASSUME PoolInv, NEW s \in PoolSlots, Use(s)
    PROVE  PoolInv'
<1>1. /\ UNCHANGED <<sizes, free_list, free_count, held>> /\ PoolSlots' = PoolSlots
      /\ s \in held /\ bytes' = [bytes EXCEPT ![s] = Junk]
  BY Zenon DEF Use, PoolSlots, sizes
<1>2. DOMAIN bytes' = PoolSlots /\ \A n \in PoolSlots : n # s => bytes'[n] = bytes[n]
  BY <1>1, Zenon DEF PoolInv
<1>3. ASSUME NEW f, FreeList(f) PROVE FreeList(f)'
  <2>1. Path(f, free_list, bytes, PoolSlots) /\ OnPath(f) = PoolSlots \ held
    BY <1>3, Zenon DEF FreeList
  <2>2. \A n \in OnPath(f) : bytes'[n] = bytes[n]
    BY <1>1, <1>2, <2>1, Zenon
  <2>3. Path(f, free_list, bytes', PoolSlots)
    BY <2>1, <2>2, PathKept, Zenon
  <2>4. f[Len(f)] \in OnPath(f)
    BY <2>1, PathEnds, Zenon
  <2> QED
    BY <1>1, <1>3, <2>2, <2>3, <2>4, Zenon DEF FreeList
<1> QED
  BY <1>1, <1>2, <1>3, Zenon DEF PoolInv, sizes

\* free puts the slot before the free list, its link overwriting what the holder
\* left there.
LEMMA FreeReturns ==
    ASSUME PoolInv, NEW s \in PoolSlots, PoolFree(s)
    PROVE  PoolInv'
<1>1. /\ UNCHANGED sizes /\ PoolSlots' = PoolSlots /\ s \in held
      /\ bytes' = [bytes EXCEPT ![s] = free_list]
      /\ free_list' = s /\ free_count' = free_count + 1 /\ held' = held \ {s}
  BY Zenon DEF PoolFree, PoolSlots, sizes
<1>2. /\ DOMAIN bytes' = PoolSlots /\ bytes'[s] = free_list
      /\ \A n \in PoolSlots : n # s => bytes'[n] = bytes[n]
  BY <1>1, Zenon DEF PoolInv
<1>3. held' \subseteq PoolSlots'
  BY <1>1, Zenon DEF PoolInv
<1>4. CASE free_list = Null /\ free_count = 0 /\ held = PoolSlots
  <2>1. Path(<<s>>, s, bytes', PoolSlots) /\ OnPath(<<s>>) = {s}
    BY <1>2, <1>4, PathOfOne, SlotsFinite, Zenon
  <2>2. OnPath(<<s>>) = PoolSlots \ held'
    BY <1>1, <1>4, <2>1, Zenon
  <2>3. Len(<<s>>) = 1 /\ <<s>>[1] = s
    OBVIOUS
  <2>4. FreeList(<<s>>)'
    BY <1>1, <1>2, <1>4, <2>1, <2>2, <2>3 DEF FreeList
  <2> QED
    BY <1>1, <1>2, <1>3, <2>4, Zenon DEF PoolInv, sizes
<1>5. ASSUME NEW f, FreeList(f) PROVE PoolInv'
  <2>1. /\ Path(f, free_list, bytes, PoolSlots) /\ OnPath(f) = PoolSlots \ held
        /\ free_count = Len(f) /\ bytes[f[Len(f)]] = Null
    BY <1>5, Zenon DEF FreeList
  <2>2. s \notin OnPath(f) /\ \A n \in OnPath(f) : bytes'[n] = bytes[n]
    BY <1>1, <1>2, <2>1, Zenon
  <2>3. PICK t : t = <<s>> \o f
    BY Zenon
  <2>4. /\ Path(t, s, bytes', PoolSlots) /\ Len(t) = Len(f) + 1
        /\ \A k \in 1..Len(f) : t[k + 1] = f[k]
        /\ OnPath(t) = {s} \cup OnPath(f)
    <3>1. /\ Path(<<s>> \o f, s, bytes', PoolSlots) /\ Len(<<s>> \o f) = Len(f) + 1
          /\ \A k \in 1..Len(f) : (<<s>> \o f)[k + 1] = f[k]
          /\ OnPath(<<s>> \o f) = {s} \cup OnPath(f)
      <4>1. PICK S, nx2 : S = PoolSlots /\ nx2 = bytes'
        BY Zenon
      <4>2. /\ Path(f, free_list, bytes, S) /\ s \in S /\ s \notin OnPath(f)
            /\ nx2[s] = free_list /\ \A n \in OnPath(f) : nx2[n] = bytes[n]
        BY <1>1, <1>2, <2>1, <2>2, <4>1, Zenon
      <4>3. /\ Path(<<s>> \o f, s, nx2, S) /\ Len(<<s>> \o f) = Len(f) + 1
            /\ \A k \in 1..Len(f) : (<<s>> \o f)[k + 1] = f[k]
            /\ OnPath(<<s>> \o f) = {s} \cup OnPath(f)
        BY <4>2, PathPrepends
      <4> QED
        BY <4>1, <4>3, Zenon
    <3> QED
      BY <2>3, <3>1, Zenon
  <2>5. Len(f) \in Nat \ {0} /\ f[Len(f)] \in OnPath(f)
    BY <2>1, PathEnds, Zenon
  <2>6. t[Len(t)] = f[Len(f)]
    <3>1. Len(f) \in 1..Len(f)
      BY <2>5
    <3> QED
      BY <2>4, <3>1
  <2>7. OnPath(t) = PoolSlots \ held'
    BY <1>1, <2>1, <2>4, Zenon
  <2>8. FreeList(t)'
    BY <1>1, <2>1, <2>2, <2>4, <2>5, <2>6, <2>7, Zenon DEF FreeList
  <2> QED
    BY <1>1, <1>2, <1>3, <2>8, Zenon DEF PoolInv, sizes
<1> QED
  BY <1>4, <1>5, Zenon DEF PoolInv

\* The pool is sound for every block size, block count and width of size_t: its
\* free list is exactly the slots nobody holds, and every slot lies in the block,
\* aligned and large enough.
THEOREM PoolIsSound == PoolSpec => []PoolSound
<1>1. PoolStart => PoolInv
  <2> SUFFICES ASSUME PoolStart PROVE PoolInv
    BY Zenon
  <2>1. 0..(block_count - 1) = {}
    BY DEF PoolStart
  <2>2. PoolSlots = {} /\ DOMAIN bytes = {}
    BY <2>1 DEF PoolSlots, PoolStart
  <2> QED
    BY <2>2, Zenon DEF PoolStart, PoolInv
<1>2. PoolInv /\ [PoolNext]_poolVars => PoolInv'
  <2> SUFFICES ASSUME PoolInv, [PoolNext]_poolVars PROVE PoolInv'
    OBVIOUS
  <2>1. ASSUME NEW size \in BlockSizes, NEW count \in BlockCounts, PoolInit(size, count)
        PROVE  PoolInv'
    BY <2>1, InitThreads
  <2>2. CASE PoolAlloc
    BY <2>2, AllocTakes
  <2>3. CASE PoolDestroy
    BY <2>3 DEF PoolDestroy, PoolInv, PoolSlots
  <2>4. ASSUME NEW s \in PoolSlots, Use(s) \/ PoolFree(s) PROVE PoolInv'
    BY <2>4, UseSpares, FreeReturns, Zenon
  <2>5. CASE UNCHANGED poolVars
    BY <2>5 DEF poolVars, PoolInv, FreeList, PoolSlots
  <2> QED
    BY <2>1, <2>2, <2>3, <2>4, <2>5, Zenon DEF PoolNext
<1>3. PoolInv => PoolSound
  <2> SUFFICES ASSUME PoolInv PROVE PoolSound
    BY Zenon
  <2>1. /\ {FreeChain[k] : k \in DOMAIN FreeChain} = PoolSlots \ held
        /\ Len(FreeChain) = Cardinality(PoolSlots \ held)
        /\ free_count = Len(FreeChain)
        /\ FreeChain # <<>> => bytes[FreeChain[Len(FreeChain)]] = Null
    <3>1. CASE free_list = Null /\ free_count = 0 /\ held = PoolSlots
      <4>1. FreeChain = <<>>
        BY <3>1, SlotsFinite, AlongNothing DEF FreeChain
      <4> QED
        BY <3>1, <4>1, FS_EmptySet
    <3>2. ASSUME NEW f, FreeList(f)
          PROVE  /\ {FreeChain[k] : k \in DOMAIN FreeChain} = PoolSlots \ held
                 /\ Len(FreeChain) = Cardinality(PoolSlots \ held)
                 /\ free_count = Len(FreeChain)
                 /\ FreeChain # <<>> => bytes[FreeChain[Len(FreeChain)]] = Null
      <4>1. FreeChain = f
        BY <3>2, SlotsFinite, AlongPath, Zenon DEF FreeChain, FreeList
      <4>2. DOMAIN f = 1..Len(f)
        BY <3>2, LenProperties, Zenon DEF FreeList, Path
      <4>3. Cardinality(OnPath(f)) = Len(f)
        BY <3>2, PathCounts, Zenon DEF FreeList
      <4> QED
        BY <3>2, <4>1, <4>2, <4>3, Zenon DEF FreeList, OnPath
    <3> QED
      BY <3>1, <3>2, Zenon DEF PoolInv
  <2>2. ASSUME live, NEW s \in PoolSlots PROVE s + stride <= total_size
    BY <2>2, SlotsFit, Zenon DEF PoolInv, PoolSlots
  <2> QED
    BY <2>1, <2>2, Zenon DEF PoolSound, PoolInv
<1> QED
  BY <1>1, <1>2, <1>3, PTL DEF PoolSpec
=============================================================================
