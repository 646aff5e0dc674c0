---------------------------- MODULE MCHAService ----------------------------
(***************************************************************************)
(* Small instances of HAService.                                           *)
(***************************************************************************)
EXTENDS HAService

=============================================================================
