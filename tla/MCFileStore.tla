---------------------------- MODULE MCFileStore -----------------------------
(* The file helpers for TLC: inodes are interchangeable.                   *)
EXTENDS FileStore, TLC

Symmetry == Permutations(Inodes)
=============================================================================
