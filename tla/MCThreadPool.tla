---------------------------- MODULE MCThreadPool ----------------------------
(* The thread pool, with the pointers of its task list, for TLC.           *)
EXTENDS TaskList, TLC
=============================================================================
