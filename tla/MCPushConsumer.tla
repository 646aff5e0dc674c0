--------------------------- MODULE MCPushConsumer ---------------------------
(***************************************************************************)
(* Small instances of PushConsumer.                                        *)
(***************************************************************************)
EXTENDS PushConsumer, TLC

Symmetry == Permutations(Clients)

=============================================================================
