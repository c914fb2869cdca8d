------------------------------- MODULE MCFork ------------------------------
(* The layouts of three sources for the joins that take them at once.       *)
EXTENDS Fork
CONSTANTS a, b, c
MCSource == {a, b, c}
MCLayouts == {<<a, b>>, <<a, a>>, <<a, b, a>>}
=============================================================================
