------------------------------ MODULE PoolSpec ------------------------------
(***************************************************************************)
(* What the imageio connection pool promises the rest of the plugin,      *)
(* stated without queues, drains or HTTP (spec 3, "Connection Pool"):     *)
(* each connection is free or owned by exactly one owner; a worker thread *)
(* takes free connections one at a time and gives back all it holds at    *)
(* once; close starts only when every connection is free, and from then   *)
(* on only the closer takes connections, so no request is served after    *)
(* close_http_pool.                                                       *)
(***************************************************************************)
CONSTANTS
    Conns,      \* the pooled connections
    Threads,    \* the worker threads that borrow them
    Free,       \* owner of a connection that is in the pool
    Closer      \* owner of the connections close has taken out

VARIABLES
    owner,      \* who has each connection
    closing     \* close has started

Owners == Threads \cup {Closer}

TypeOK ==
    /\ owner \in [Conns -> Owners \cup {Free}]
    /\ closing \in BOOLEAN

Init ==
    /\ owner = [c \in Conns |-> Free]
    /\ closing = FALSE

\* A worker thread takes one free connection while the pool is open.
Acquire(t) ==
    /\ ~closing
    /\ \E c \in Conns :
         /\ owner[c] = Free
         /\ owner' = [owner EXCEPT ![c] = t]
    /\ UNCHANGED closing

\* A worker thread puts back every connection it holds.
Release(t) ==
    /\ owner' = [c \in Conns |-> IF owner[c] = t THEN Free ELSE owner[c]]
    /\ UNCHANGED closing

\* Close begins once nothing is borrowed.
BeginClose ==
    /\ ~closing
    /\ \A c \in Conns : owner[c] = Free
    /\ closing' = TRUE
    /\ UNCHANGED owner

\* The closer takes free connections, never to give them back.
CloseAcquire ==
    /\ closing
    /\ \E c \in Conns :
         /\ owner[c] = Free
         /\ owner' = [owner EXCEPT ![c] = Closer]
    /\ UNCHANGED closing

Next ==
    \/ \E t \in Threads : Acquire(t) \/ Release(t)
    \/ BeginClose
    \/ CloseAcquire

Spec == Init /\ [][Next]_<<owner, closing>>

=============================================================================
