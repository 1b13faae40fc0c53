------------------------------- MODULE MCLog --------------------------------
(* The logger for TLC.                                                     *)
EXTENDS Log, TLC
=============================================================================
