------------------------ MODULE MCFullyAsyncCheckpoint ------------------------
(***************************************************************************)
(* FullyAsyncCheckpoint for TLC: training without a critic.                *)
(***************************************************************************)
EXTENDS FullyAsyncCheckpoint

MCRoleOrder == << "actor" >>

=============================================================================
