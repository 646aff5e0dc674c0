---------------------------- MODULE MCMessageStore ----------------------------
(***************************************************************************)
(* Small instances of MessageStore.                                        *)
(***************************************************************************)
EXTENDS MessageStore, TLC

Symmetry == Permutations(Queues)

=============================================================================
