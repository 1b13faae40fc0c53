----------------------------- MODULE MCStrings ------------------------------
(* The str module and io/path for TLC: views split, numbers parsed and     *)
(* paths joined over all short texts.                                      *)
EXTENDS StrView, Parse, Path, TLC

StringsStart == ViewStart /\ ParseStart /\ PathStart

StringsNext ==
    \/ ParseStart /\ PathStart /\ ViewNext /\ UNCHANGED <<parseVars, pathVars>>
    \/ ViewStart /\ PathStart /\ ParseNext /\ UNCHANGED <<viewVars, pathVars>>
    \/ ViewStart /\ ParseStart /\ PathNext /\ UNCHANGED <<viewVars, parseVars>>

StringsSpec == StringsStart /\ [][StringsNext]_<<viewVars, parseVars, pathVars>>

Strings(chars, n) == UNION {[1..k -> chars] : k \in 0..n}

MCSplitTexts == Strings({";", "a", "b"}, 4)
MCParseTexts == Strings({" ", "+", "-", "0", "x", "1", "9", "f"}, 4)
MCSegments == Strings({"/", "\\", "a"}, 2)
=============================================================================
