----------------------------- MODULE LinkedList -----------------------------
(* The intrusive doubly-linked list of ds/linked_list.c: a circle through  *)
(* the sentinel that is part of the list.                                  *)
EXTENDS Chains, Functions

CONSTANTS
    Nodes,          \* the nodes callers own
    Sentinel, NoNode

ASSUME LinkedListAssumption ==
    /\ IsFiniteSet(Nodes)
    /\ Sentinel \notin Nodes /\ NoNode \notin Nodes /\ Sentinel # NoNode

VARIABLES
    prev, next,     \* the links of the nodes and of the sentinel
    listLen,
    order           \* the nodes in the list, as its callers see it

listVars == <<prev, next, listLen, order>>

\* A sequence without its element at i, and a sequence backwards.
Without(s, i) == SubSeq(s, 1, i - 1) \o SubSeq(s, i + 1, Len(s))

Backwards(s) == [i \in 1..Len(s) |-> s[(Len(s) - i) + 1]]

\* linked_list_init, with nodes whose owner has zeroed them.
ListStart ==
    /\ prev = [n \in Nodes \cup {Sentinel} |-> IF n = Sentinel THEN Sentinel ELSE NoNode]
    /\ next = prev
    /\ listLen = 0 /\ order = <<>>

LinkBetween(node, p, n) ==
    /\ prev' = [prev EXCEPT ![node] = p, ![n] = node]
    /\ next' = [next EXCEPT ![node] = n, ![p] = node]
    /\ listLen' = listLen + 1

\* Seeded fault: the successor keeps its link to the node.
UnlinkForwardOnly(node) ==
    /\ next' = [next EXCEPT ![prev[node]] = next[node], ![node] = NoNode]
    /\ prev' = [prev EXCEPT ![node] = NoNode]
    /\ listLen' = listLen - 1

Unlink(node) ==
    /\ next' = [next EXCEPT ![prev[node]] = next[node], ![node] = NoNode]
    /\ prev' = [prev EXCEPT ![next[node]] = prev[node], ![node] = NoNode]
    /\ listLen' = listLen - 1

PushFront(node) ==
    /\ node \notin Range(order)
    /\ LinkBetween(node, Sentinel, next[Sentinel])
    /\ order' = <<node>> \o order

PushBack(node) ==
    /\ node \notin Range(order)
    /\ LinkBetween(node, prev[Sentinel], Sentinel)
    /\ order' = Append(order, node)

PopFront ==
    /\ listLen # 0
    /\ Unlink(next[Sentinel])
    /\ order' = Tail(order)

PopBack ==
    /\ listLen # 0
    /\ Unlink(prev[Sentinel])
    /\ order' = Without(order, Len(order))

\* Of a node known to be in the list.
ListRemove(node) ==
    /\ listLen # 0
    /\ \E i \in DOMAIN order : order[i] = node /\ order' = Without(order, i)
    /\ Unlink(node)

ListNext ==
    \/ \E n \in Nodes : PushFront(n) \/ PushBack(n) \/ ListRemove(n)
    \/ PopFront \/ PopBack

ListSpec == ListStart /\ [][ListNext]_listVars

\* D4NP_LIST_FOR_EACH along the given links.
ForEach(links) == Along(links[Sentinel], links, Nodes)

-----------------------------------------------------------------------------
\* The forward links spell the nodes in order, the backward links the same
\* nodes in reverse, len counts them, and a node outside the list has no link
\* left into it, whichever end or middle it was taken from.
ListIsDeque ==
    /\ ForEach(next) = order /\ ForEach(prev) = Backwards(order)
    /\ listLen = Len(order)
    /\ \A n \in Nodes \ Range(order) : prev[n] = NoNode /\ next[n] = NoNode
=============================================================================
