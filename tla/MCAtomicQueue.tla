---------------------------- MODULE MCAtomicQueue ---------------------------
(* The atomic queue for TLC: nodes are interchangeable addresses.          *)
EXTENDS AtomicQueue, TLC
=============================================================================
