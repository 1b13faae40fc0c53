------------------------------- MODULE MCArena -------------------------------
(* The arena alone, for TLC.                                               *)
EXTENDS Arena, TLC
=============================================================================
