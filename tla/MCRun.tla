------------------------------- MODULE MCRun -------------------------------
(* The pipelines of SmallPipelines, run. *)
EXTENDS Run, SmallPipelines
=============================================================================
