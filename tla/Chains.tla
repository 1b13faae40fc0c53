------------------------------- MODULE Chains -------------------------------
(* Walking along links, as the loops over the linked lists of the library  *)
(* do: atomic_queue.c, thread_pool.c, pool.c and linked_list.c.            *)
EXTENDS Naturals, Sequences, FiniteSets

\* The nodes of S from h along the links nx, in order, until a link leaves S; a
\* walk that runs in a circle is cut off.
Along(h, nx, S) ==
    LET c[k \in 0..Cardinality(S)] ==
            IF k = 0 THEN IF h \in S THEN <<h>> ELSE <<>>
            ELSE LET s == c[k - 1] IN
                 IF s = <<>> \/ nx[s[Len(s)]] \notin S THEN s
                 ELSE Append(s, nx[s[Len(s)]])
    IN  c[Cardinality(S)]
=============================================================================
