------------------------------ MODULE Pointers ------------------------------
(* The pointer to nothing.                                                 *)

CONSTANT Null       \* NULL
=============================================================================
