----------------------------- MODULE MCCommitLog -----------------------------
(***************************************************************************)
(* Small instances of CommitLog.                                           *)
(***************************************************************************)
EXTENDS CommitLog, TLC

Symmetry == Permutations(Producers)

=============================================================================
