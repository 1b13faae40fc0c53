---------------------------- MODULE MCSequential ----------------------------
(***************************************************************************)
(* The components that one thread uses, for TLC.  They share no state, so  *)
(* a behaviour exercises one of them, the focus, and the others stay as    *)
(* they began.                                                             *)
(***************************************************************************)
EXTENDS HashMap, Arena, Pool, Vector, StringBuilder, LinkedList, ErrorContext, MCStrings

VARIABLE focus

Components ==
    {"hashmap", "arena", "pool", "vector", "builder", "list", "errors", "strings"}

stringVars == <<viewVars, parseVars, pathVars>>
seqVars ==
    <<focus, mapVars, arenaVars, poolVars, vectorVars, sbVars, listVars, errorVars, stringVars>>

SeqInit ==
    /\ focus \in Components
    /\ MapInit /\ (focus # "hashmap" => table.capacity = 0)
    /\ ArenaStart /\ PoolStart /\ VectorStart /\ SbStart /\ ListStart /\ ErrorStart
    /\ StringsStart

\* Every component but the focus stays as it is.
Rest ==
    /\ UNCHANGED focus
    /\ IF focus = "hashmap" THEN TRUE ELSE UNCHANGED mapVars
    /\ IF focus = "arena"   THEN TRUE ELSE UNCHANGED arenaVars
    /\ IF focus = "pool"    THEN TRUE ELSE UNCHANGED poolVars
    /\ IF focus = "vector"  THEN TRUE ELSE UNCHANGED vectorVars
    /\ IF focus = "builder" THEN TRUE ELSE UNCHANGED sbVars
    /\ IF focus = "list"    THEN TRUE ELSE UNCHANGED listVars
    /\ IF focus = "errors"  THEN TRUE ELSE UNCHANGED errorVars
    /\ IF focus = "strings" THEN TRUE ELSE UNCHANGED stringVars

SeqNext ==
    \/ focus = "hashmap" /\ MapNext     /\ Rest
    \/ focus = "arena"   /\ ArenaNext   /\ Rest
    \/ focus = "pool"    /\ PoolNext    /\ Rest
    \/ focus = "vector"  /\ VectorNext  /\ Rest
    \/ focus = "builder" /\ SbNext      /\ Rest
    \/ focus = "list"    /\ ListNext    /\ Rest
    \/ focus = "errors"  /\ ErrorNext   /\ Rest
    \/ focus = "strings" /\ StringsNext /\ Rest

SeqSpec == SeqInit /\ [][SeqNext]_seqVars

\* Two keys collide, in small and in grown tables, on the last slot, from which
\* the probe wraps into the others' slots.
CONSTANTS k1, k2, k3, k4
HashOf == k1 :> 7 @@ k2 :> 15 @@ k3 :> 0 @@ k4 :> 1

\* A short view, one that fills a grown buffer, and one whose length wraps len.
MCViews == {<<>>, <<"a", "b", "b">>, [i \in 1..9 |-> "b"], [i \in 1..15 |-> "b"]}

\* Shorter than, as long as, and longer than the message buffer.
MCMessages == {<<>>, <<"a">>, <<"b", "a">>, <<"b", "b", "a">>, <<"a", "b", "b", "a">>}
=============================================================================
