--------------------------- MODULE MCMessageQueue ---------------------------
(***************************************************************************)
(* An instance of MessageQueueClients for TLC: two consumers that compete  *)
(* for a queue of two.                                                     *)
(***************************************************************************)
EXTENDS MessageQueueClients

CONSTANTS trainer, validator

MCConsumers == {trainer, validator}

=============================================================================
