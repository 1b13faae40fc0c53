---------------------------- MODULE MCSemaphore -----------------------------
(* The POSIX semaphore of one process and the named semaphores of several, *)
(* for TLC.  They share no state; a behaviour exercises one of the two.    *)
EXTENDS Semaphore, NamedSemaphore, TLC

VARIABLE focus

SemaphoresInit ==
    /\ focus \in {"threads", "processes"}
    /\ Init /\ NamedStart /\ (focus = "threads" => platform = "posix")

SemaphoresNext ==
    \/ focus = "threads" /\ Next /\ UNCHANGED <<focus, namedVars>>
    \/ focus = "processes" /\ NamedNext /\ UNCHANGED <<focus, vars>>

SemaphoresSpec ==
    /\ SemaphoresInit
    /\ [][SemaphoresNext]_<<focus, vars, namedVars>>
    /\ Fairness

\* Two keys that fit the POSIX name, and two that differ only where they are cut.
MCKeys == {<<"a">>, <<"b">>, <<"a", "b">>, <<"a", "c">>}
=============================================================================
