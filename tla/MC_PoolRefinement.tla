------------------------- MODULE MC_PoolRefinement -------------------------
(* Model-checking instance of the pool refinement: two threads, two       *)
(* connections, one of the threads issuing flushes.                       *)
EXTENDS PoolRefinement, TLC

CONSTANTS t1, t2, c1, c2

MCThreads == {t1, t2}
MCConns == {c1, c2}
MCOneFlusher == {t1}
=============================================================================
