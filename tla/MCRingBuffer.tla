---------------------------- MODULE MCRingBuffer ----------------------------
(* The ring buffer for TLC.                                                *)
EXTENDS RingBuffer, TLC
=============================================================================
