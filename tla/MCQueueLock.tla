---------------------------- MODULE MCQueueLock -----------------------------
(***************************************************************************)
(* Small instances of QueueLock.                                           *)
(***************************************************************************)
EXTENDS QueueLock

=============================================================================
