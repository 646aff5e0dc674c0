---------------------------- MODULE MCRouteInfo -----------------------------
(***************************************************************************)
(* Small instances of RouteInfo: a master and its slave.                   *)
(***************************************************************************)
EXTENDS RouteInfo

CONSTANTS master, slave, group

MCName == [b \in Brokers |-> group]

=============================================================================
