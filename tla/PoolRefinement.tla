--------------------------- MODULE PoolRefinement ---------------------------
(***************************************************************************)
(* HttpPool implements PoolSpec.  A connection in the queue is free, one  *)
(* in close_http_pool's list belongs to the closer, and any other belongs *)
(* to the thread that has it in http_context or in iter_http_pool's       *)
(* locked list.  Under this mapping pool.get() in http_context,           *)
(* iter_http_pool and close_http_pool are acquisitions, the finally of    *)
(* http_context and of iter_http_pool are releases, and every other step  *)
(* (the HTTP exchanges, the flush loop) leaves the owners unchanged.      *)
(***************************************************************************)
EXTENDS HttpPool

CONSTANTS Free, Closer

ASSUME OwnerAssumption ==
    /\ Free # Closer
    /\ Free \notin Threads /\ Closer \notin Threads

\* The owner of each connection, read off the pool, the closer's list and
\* the threads' handles; a parameter per variable so that it can be
\* applied to a state and to its successor alike.
OwnerMap(idl, clo, cn, lk) ==
    [c \in Conns |->
        IF c \in idl THEN Free
        ELSE IF c \in clo THEN Closer
        ELSE CHOOSE t \in Threads : cn[t] = c \/ c \in lk[t]]

poolOwner == OwnerMap(idle, closer, conn, locked)

Pool == INSTANCE PoolSpec WITH owner <- poolOwner

(* The pool of rhv-upload-plugin.py keeps the promise of PoolSpec:        *)
(* connections are taken one pool.get() at a time, given back by the      *)
(* finally clauses of http_context and iter_http_pool, and once nbdkit    *)
(* has called close no request gets one: only close_http_pool takes       *)
(* them, and none comes back.                                             *)
PoolRefines == Pool!Spec

=============================================================================
