---------------------------- MODULE AbstractMap -----------------------------
(* What a map promises: HashMap is shown to implement it.                  *)

CONSTANTS Keys, Values, Absent

VARIABLES
    contents,   \* what a lookup of each key finds
    result      \* of the last put or remove

vars == <<contents, result>>

Init == contents = [k \in Keys |-> Absent] /\ result = "none"

Put(k, v) == result' = "ok" /\ contents' = [contents EXCEPT ![k] = v]

\* A put that cannot allocate changes nothing.
PutFails == result' = "failed" /\ UNCHANGED contents

Remove(k) ==
    /\ \/ result' = "true" /\ contents[k] # Absent
       \/ result' = "false" /\ contents[k] = Absent
    /\ contents' = [contents EXCEPT ![k] = Absent]

Clear == contents' = [k \in Keys |-> Absent] /\ UNCHANGED result

Next == (\E k \in Keys, v \in Values : Put(k, v)) \/ PutFails
        \/ (\E k \in Keys : Remove(k)) \/ Clear

Spec == Init /\ [][Next]_vars
=============================================================================
