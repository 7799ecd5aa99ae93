---------------------------- MODULE MC_HttpPool ----------------------------
(* Model-checking instance of HttpPool: two worker threads share two    *)
(* pooled connections, each serving a bounded number of requests.                 *)
EXTENDS HttpPool, TLC

CONSTANTS t1, t2, c1, c2

MCThreads == {t1, t2}
MCConns == {c1, c2}

\* One thread may flush: the NBD client does not overlap its flushes.
MCOneFlusher == {t1}
\* Two threads may flush at once, as the NBD protocol allows.
MCTwoFlushers == {t1, t2}

\* Connections are interchangeable model values.
MCSymmetry == Permutations(MCConns)
=============================================================================
