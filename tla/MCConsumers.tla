---------------------------- MODULE MCConsumers ----------------------------
(* The pipelines of SmallPipelines for Consumers. *)
EXTENDS Consumers, SmallPipelines
=============================================================================
