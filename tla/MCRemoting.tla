----------------------------- MODULE MCRemoting -----------------------------
(***************************************************************************)
(* A small instance of Remoting.                                           *)
(***************************************************************************)
EXTENDS Remoting

=============================================================================
