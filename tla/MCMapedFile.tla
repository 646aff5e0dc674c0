---------------------------- MODULE MCMapedFile ----------------------------
(***************************************************************************)
(* Small instance of MapedFile: a few readers racing one cleaner.  The run *)
(* checks liveness, so the readers are not treated as symmetric.           *)
(***************************************************************************)
EXTENDS MapedFile

=============================================================================
