-------------------------- MODULE MCPullRequestHold -------------------------
(***************************************************************************)
(* A small instance of PullRequestHold.                                    *)
(***************************************************************************)
EXTENDS PullRequestHold

=============================================================================
