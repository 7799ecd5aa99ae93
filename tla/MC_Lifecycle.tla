---------------------------- MODULE MC_Lifecycle ----------------------------
(* Model-checking instance of Lifecycle, with its session refinement.     *)
EXTENDS LifecycleRefinement, TLC
=============================================================================
