------------------------------ MODULE HttpPool ------------------------------
(***************************************************************************)
(* The imageio connection pool of rhv-upload-plugin.py and the block I/O   *)
(* handlers that borrow from it (pread, pwrite, zero, emulate_zero, flush) *)
(* and close_http_pool, run by nbdkit worker threads in parallel           *)
(* (thread_model() returns THREAD_MODEL_PARALLEL).                         *)
(*                                                                         *)
(* The pool is a queue.Queue of HTTP connections.  Its FIFO order is       *)
(* abstracted: a pool.get() may return any idle connection, which          *)
(* over-approximates the queue.  A blocking pool.get() is an action        *)
(* enabled only when the pool is non-empty.                                *)
(*                                                                         *)
(* The imageio server is part of the environment.  Following the wire      *)
(* contract, it keeps, per connection, the writes it has not yet flushed   *)
(* (cache[c]); a PUT or PATCH with flush set, or a PATCH {"op": "flush"},  *)
(* flushes what that connection has written.  Any request may fail (a      *)
(* status other than the expected one, a short read, a reset socket).      *)
(***************************************************************************)
EXTENDS Naturals, FiniteSets

CONSTANTS
    Threads,    \* nbdkit worker threads serving requests of one handle
    Conns,      \* the HTTP connections created by create_http_pool
    Flushers,   \* the threads on which the NBD client may issue a flush
    MaxOps,     \* bound on the requests one thread serves
    NoConn      \* a thread holding no connection

ASSUME ConstantsAssumption ==
    /\ Threads # {} /\ IsFiniteSet(Threads)
    /\ Conns # {} /\ IsFiniteSet(Conns)
    /\ Flushers \subseteq Threads
    /\ MaxOps \in Nat
    /\ NoConn \notin Conns

VARIABLES
    idle,       \* connections in the pool queue
    closer,     \* connections taken out by close_http_pool
    closing,    \* nbdkit has called close(h)
    pc,         \* where each thread is in its handler
    op,         \* the handler each thread is running
    conn,       \* the connection a thread got from http_context
    locked,     \* the connections a flush took out in iter_http_pool
    todo,       \* the locked connections a flush has not yet sent to
    err,        \* the current handler has raised
    failed,     \* h['failed']
    fua,        \* the request carries NBDKIT_FLAG_FUA
    ops,        \* requests served so far by each thread
    owed,       \* writes unflushed when the current flush was called
    cache,      \* per connection, writes the server has not flushed
    canFlush,   \* h['can_flush'], from the OPTIONS reply
    canZero     \* h['can_zero'], from the OPTIONS reply

vars == <<idle, closer, closing, pc, op, conn, locked, todo, err, failed,
          fua, ops, owed, cache, canFlush, canZero>>

\* Mutant of connections: the drain loop stops one connection short.
connectionsOffByOne == Cardinality(Conns) - 1

\* h['connections'] = pool.qsize() right after create_http_pool.
connections == Cardinality(Conns)

\* A write is named by its thread and the number of the request.
WriteIds == Threads \X (0..MaxOps)

PC == {"ready", "checkout", "exchange", "checkin", "drain", "flush", "undrain"}

Ops == {"pread", "pwrite", "zero", "flush"}

TypeOK ==
    /\ idle \subseteq Conns
    /\ closer \subseteq Conns
    /\ closing \in BOOLEAN
    /\ pc \in [Threads -> PC]
    /\ op \in [Threads -> Ops]
    /\ conn \in [Threads -> Conns \cup {NoConn}]
    /\ locked \in [Threads -> SUBSET Conns]
    /\ todo \in [Threads -> SUBSET Conns]
    /\ err \in [Threads -> BOOLEAN]
    /\ failed \in BOOLEAN
    /\ fua \in [Threads -> BOOLEAN]
    /\ ops \in [Threads -> 0..MaxOps]
    /\ owed \in [Threads -> SUBSET WriteIds]
    /\ cache \in [Conns -> SUBSET WriteIds]
    /\ canFlush \in BOOLEAN
    /\ canZero \in BOOLEAN

\* Every write the server holds unflushed, on any connection.
Unflushed == UNION {cache[c] : c \in Conns}

-----------------------------------------------------------------------------
(* The server side of one PUT or zero PATCH carrying write w on c.  With  *)
(* flush set the connection's writes become durable.  A failed request    *)
(* may or may not have reached the disk.                                  *)
ServerWrite(c, w, flush, ok) ==
    IF ok
    THEN cache' = [cache EXCEPT ![c] = IF flush THEN {} ELSE @ \cup {w}]
    ELSE cache' \in {cache, [cache EXCEPT ![c] = @ \cup {w}]}

\* The flush query flag / JSON field of pwrite, zero and emulate_zero.
flushFlag(t) == canFlush /\ fua[t]

\* The failing decorator: an exception out of a handler sets h['failed'].
RecordFailure(t) == failed' = (failed \/ err[t])

\* The write id of thread t's current request.
writeId(t) == <<t, ops[t]>>

-----------------------------------------------------------------------------
Init ==
    /\ idle = Conns
    /\ closer = {}
    /\ closing = FALSE
    /\ pc = [t \in Threads |-> "ready"]
    /\ op = [t \in Threads |-> "pread"]
    /\ conn = [t \in Threads |-> NoConn]
    /\ locked = [t \in Threads |-> {}]
    /\ todo = [t \in Threads |-> {}]
    /\ err = [t \in Threads |-> FALSE]
    /\ failed = FALSE
    /\ fua = [t \in Threads |-> FALSE]
    /\ ops = [t \in Threads |-> 0]
    /\ owed = [t \in Threads |-> {}]
    /\ cache = [c \in Conns |-> {}]
    /\ canFlush \in BOOLEAN
    /\ canZero \in BOOLEAN

(* nbdkit dispatches a request to an idle worker thread.  It calls flush  *)
(* only when can_flush(h) is true, and sets FUA only when can_fua(h),     *)
(* which returns h['can_flush'].                                          *)
Invoke(t) ==
    /\ pc[t] = "ready"
    /\ ~closing
    /\ ops[t] < MaxOps
    /\ \E o \in Ops, f \in BOOLEAN :
         /\ o = "flush" => t \in Flushers /\ canFlush
         /\ f => canFlush
         /\ op' = [op EXCEPT ![t] = o]
         /\ fua' = [fua EXCEPT ![t] = f]
         /\ pc' = [pc EXCEPT ![t] = IF o = "flush" THEN "drain" ELSE "checkout"]
         /\ owed' = [owed EXCEPT ![t] = IF o = "flush" THEN Unflushed ELSE {}]
    /\ ops' = [ops EXCEPT ![t] = @ + 1]
    /\ UNCHANGED <<idle, closer, closing, conn, locked, todo, err, failed,
                   cache, canFlush, canZero>>

(* http_context: http = pool.get() blocks until a connection is idle.     *)
Checkout(t) ==
    /\ pc[t] = "checkout"
    /\ \E c \in idle :
         /\ idle' = idle \ {c}
         /\ conn' = [conn EXCEPT ![t] = c]
    /\ pc' = [pc EXCEPT ![t] = "exchange"]
    /\ UNCHANGED <<closer, closing, op, locked, todo, err, failed, fua, ops,
                   owed, cache, canFlush, canZero>>

(* pread: GET with a Range header; anything but 206 with the requested    *)
(* Content-Length and a full body raises through request_failed.          *)
Pread(t) ==
    /\ pc[t] = "exchange"
    /\ op[t] = "pread"
    /\ \E ok \in BOOLEAN : err' = [err EXCEPT ![t] = ~ok]
    /\ pc' = [pc EXCEPT ![t] = "checkin"]
    /\ UNCHANGED <<idle, closer, closing, op, conn, locked, todo, failed, fua,
                   ops, owed, cache, canFlush, canZero>>

(* pwrite: PUT ?flush=y|n with Content-Range; a BrokenPipeError while     *)
(* sending is swallowed and the status decides; anything but 200 raises.  *)
Pwrite(t) ==
    /\ pc[t] = "exchange"
    /\ op[t] = "pwrite"
    /\ \E ok \in BOOLEAN :
         /\ ServerWrite(conn[t], writeId(t), flushFlag(t), ok)
         /\ err' = [err EXCEPT ![t] = ~ok]
    /\ pc' = [pc EXCEPT ![t] = "checkin"]
    /\ UNCHANGED <<idle, closer, closing, op, conn, locked, todo, failed, fua,
                   ops, owed, canFlush, canZero>>

(* zero with h['can_zero']: PATCH {"op": "zero", ..., "flush": flush}.    *)
Zero(t) ==
    /\ pc[t] = "exchange"
    /\ op[t] = "zero"
    /\ canZero
    /\ \E ok \in BOOLEAN :
         /\ ServerWrite(conn[t], writeId(t), flushFlag(t), ok)
         /\ err' = [err EXCEPT ![t] = ~ok]
    /\ pc' = [pc EXCEPT ![t] = "checkin"]
    /\ UNCHANGED <<idle, closer, closing, op, conn, locked, todo, failed, fua,
                   ops, owed, canFlush, canZero>>

(* zero without h['can_zero'] calls emulate_zero: one PUT ?flush=y|n whose *)
(* body is streamed in 128 KiB chunks of zeroes (see EmulateZero).        *)
EmulateZero(t) ==
    /\ pc[t] = "exchange"
    /\ op[t] = "zero"
    /\ ~canZero
    /\ \E ok \in BOOLEAN :
         /\ ServerWrite(conn[t], writeId(t), flushFlag(t), ok)
         /\ err' = [err EXCEPT ![t] = ~ok]
    /\ pc' = [pc EXCEPT ![t] = "checkin"]
    /\ UNCHANGED <<idle, closer, closing, op, conn, locked, todo, failed, fua,
                   ops, owed, canFlush, canZero>>

\* Mutant of Checkin: the handle's connection is cleared before pool.put.
CheckinSwapped(t) ==
    /\ pc[t] = "checkin"
    /\ conn' = [conn EXCEPT ![t] = NoConn]
    /\ idle' = idle \cup {conn'[t]}
    /\ RecordFailure(t)
    /\ err' = [err EXCEPT ![t] = FALSE]
    /\ pc' = [pc EXCEPT ![t] = "ready"]
    /\ UNCHANGED <<closer, closing, op, locked, todo, fua, ops, owed, cache,
                   canFlush, canZero>>

\* Mutant of Checkin: pool.put outside a finally, skipped when raising.
CheckinOnSuccess(t) ==
    /\ pc[t] = "checkin"
    /\ idle' = IF err[t] THEN idle ELSE idle \cup {conn[t]}
    /\ conn' = [conn EXCEPT ![t] = NoConn]
    /\ RecordFailure(t)
    /\ err' = [err EXCEPT ![t] = FALSE]
    /\ pc' = [pc EXCEPT ![t] = "ready"]
    /\ UNCHANGED <<closer, closing, op, locked, todo, fua, ops, owed, cache,
                   canFlush, canZero>>

(* The finally of http_context puts the connection back; then the         *)
(* failing decorator sets h['failed'] if the handler raised.              *)
Checkin(t) ==
    /\ pc[t] = "checkin"
    /\ idle' = idle \cup {conn[t]}
    /\ conn' = [conn EXCEPT ![t] = NoConn]
    /\ RecordFailure(t)
    /\ err' = [err EXCEPT ![t] = FALSE]
    /\ pc' = [pc EXCEPT ![t] = "ready"]
    /\ UNCHANGED <<closer, closing, op, locked, todo, fua, ops, owed, cache,
                   canFlush, canZero>>

(* iter_http_pool: while len(locked) < h["connections"]:                  *)
(*                     locked.append(pool.get())                          *)
DrainTake(t) ==
    /\ pc[t] = "drain"
    /\ Cardinality(locked[t]) < connections
    /\ \E c \in idle :
         /\ idle' = idle \ {c}
         /\ locked' = [locked EXCEPT ![t] = @ \cup {c}]
    /\ UNCHANGED <<closer, closing, pc, op, conn, todo, err, failed, fua, ops,
                   owed, cache, canFlush, canZero>>

\* The loop ends; the generator starts yielding the locked connections.
DrainFull(t) ==
    /\ pc[t] = "drain"
    /\ ~(Cardinality(locked[t]) < connections)
    /\ todo' = [todo EXCEPT ![t] = locked[t]]
    /\ pc' = [pc EXCEPT ![t] = "flush"]
    /\ UNCHANGED <<idle, closer, closing, op, conn, locked, err, failed, fua,
                   ops, owed, cache, canFlush, canZero>>

(* flush: PATCH {"op": "flush"} on one yielded connection.  A status      *)
(* other than 200 raises out of the loop and closes the generator.        *)
FlushConn(t) ==
    /\ pc[t] = "flush"
    /\ \E c \in todo[t], ok \in BOOLEAN :
         IF ok
         THEN /\ cache' = [cache EXCEPT ![c] = {}]
              /\ todo' = [todo EXCEPT ![t] = @ \ {c}]
              /\ UNCHANGED <<pc, err>>
         ELSE /\ err' = [err EXCEPT ![t] = TRUE]
              /\ pc' = [pc EXCEPT ![t] = "undrain"]
              /\ UNCHANGED <<cache, todo>>
    /\ UNCHANGED <<idle, closer, closing, op, conn, locked, failed, fua, ops,
                   owed, canFlush, canZero>>

\* Every locked connection has been flushed: the for loop ends.
FlushDone(t) ==
    /\ pc[t] = "flush"
    /\ todo[t] = {}
    /\ pc' = [pc EXCEPT ![t] = "undrain"]
    /\ UNCHANGED <<idle, closer, closing, op, conn, locked, todo, err, failed,
                   fua, ops, owed, cache, canFlush, canZero>>

\* Mutant of Undrain: the put-back loop is not in a finally.
UndrainOnSuccess(t) ==
    /\ pc[t] = "undrain"
    /\ idle' = IF err[t] THEN idle ELSE idle \cup locked[t]
    /\ locked' = [locked EXCEPT ![t] = {}]
    /\ todo' = [todo EXCEPT ![t] = {}]
    /\ RecordFailure(t)
    /\ err' = [err EXCEPT ![t] = FALSE]
    /\ owed' = [owed EXCEPT ![t] = {}]
    /\ pc' = [pc EXCEPT ![t] = "ready"]
    /\ UNCHANGED <<closer, closing, op, conn, fua, ops, cache,
                   canFlush, canZero>>

(* Mutant of Undrain: the finally iterates the generator's half-consumed  *)
(* iterator instead of locked, so only the connections not yet yielded go *)
(* back; the others stay in locked.                                       *)
UndrainPending(t) ==
    /\ pc[t] = "undrain"
    /\ idle' = idle \cup todo[t]
    /\ locked' = [locked EXCEPT ![t] = @ \ todo[t]]
    /\ todo' = [todo EXCEPT ![t] = {}]
    /\ RecordFailure(t)
    /\ err' = [err EXCEPT ![t] = FALSE]
    /\ owed' = [owed EXCEPT ![t] = {}]
    /\ pc' = [pc EXCEPT ![t] = "ready"]
    /\ UNCHANGED <<closer, closing, op, conn, fua, ops, cache,
                   canFlush, canZero>>

(* The finally of iter_http_pool puts every locked connection back, then  *)
(* the failing decorator records an error.                                *)
Undrain(t) ==
    /\ pc[t] = "undrain"
    /\ idle' = idle \cup locked[t]
    /\ locked' = [locked EXCEPT ![t] = {}]
    /\ todo' = [todo EXCEPT ![t] = {}]
    /\ RecordFailure(t)
    /\ err' = [err EXCEPT ![t] = FALSE]
    /\ owed' = [owed EXCEPT ![t] = {}]
    /\ pc' = [pc EXCEPT ![t] = "ready"]
    /\ UNCHANGED <<closer, closing, op, conn, fua, ops, cache,
                   canFlush, canZero>>

(* nbdkit calls close(h) once no request of the handle is in flight;      *)
(* close starts with close_http_pool.                                     *)
BeginClose ==
    /\ ~closing
    /\ \A t \in Threads : pc[t] = "ready"
    /\ closing' = TRUE
    /\ UNCHANGED <<idle, closer, pc, op, conn, locked, todo, err, failed, fua,
                   ops, owed, cache, canFlush, canZero>>

(* close_http_pool: take h["connections"] connections out of the pool,    *)
(* each pool.get() blocking, then close them all.                         *)
CloseTake ==
    /\ closing
    /\ Cardinality(closer) < connections
    /\ \E c \in idle :
         /\ idle' = idle \ {c}
         /\ closer' = closer \cup {c}
    /\ UNCHANGED <<closing, pc, op, conn, locked, todo, err, failed, fua, ops,
                   owed, cache, canFlush, canZero>>

\* The pool is closed; nothing is left to do.
Closed ==
    /\ closing
    /\ ~(Cardinality(closer) < connections)
    /\ UNCHANGED vars

ThreadStep(t) ==
    \/ Checkout(t) \/ Pread(t) \/ Pwrite(t) \/ Zero(t) \/ EmulateZero(t)
    \/ Checkin(t) \/ DrainTake(t) \/ DrainFull(t) \/ FlushConn(t)
    \/ FlushDone(t) \/ Undrain(t)

Next ==
    \/ \E t \in Threads : Invoke(t) \/ ThreadStep(t)
    \/ BeginClose \/ CloseTake \/ Closed

(* Worker threads are OS threads: one whose next step stays possible     *)
(* takes it.  The client is under no obligation to send requests or to   *)
(* disconnect, so Invoke and BeginClose are not fair.                     *)
Fairness ==
    /\ \A t \in Threads : WF_vars(ThreadStep(t))
    /\ WF_vars(CloseTake)

Spec == Init /\ [][Next]_vars /\ Fairness

-----------------------------------------------------------------------------
(* Properties.                                                            *)

\* Thread t has connection c out of the pool (http_context or a drain).
Holds(t, c) == conn[t] = c \/ c \in locked[t]

(* Pool conservation (spec 8): every connection is in exactly one place:  *)
(* the queue, one handler's http_context, one flush's locked list, or     *)
(* close_http_pool's list.  None is lost by an error path of pread,       *)
(* pwrite, zero or flush, and none is used by two requests at once.       *)
PoolPartition ==
    \A c \in Conns :
        /\ c \in idle \/ c \in closer \/ \E t \in Threads : Holds(t, c)
        /\ ~(c \in idle /\ c \in closer)
        /\ \A t \in Threads : Holds(t, c) => c \notin idle /\ c \notin closer
        /\ \A t, u \in Threads : Holds(t, c) /\ Holds(u, c) => t = u
        /\ \A t \in Threads : ~(conn[t] = c /\ c \in locked[t])

(* Flush is a barrier (spec 4.2, 8): when flush is about to return        *)
(* success, every write the server held unflushed when nbdkit called      *)
(* flush has been flushed, whichever connection carried it.  This is why  *)
(* iter_http_pool takes every connection before sending.                  *)
FlushBarrier ==
    \A t \in Threads :
        pc[t] = "undrain" /\ ~err[t] => owed[t] \cap Unflushed = {}

(* Every request nbdkit hands to the plugin returns: no thread blocks     *)
(* forever in pool.get() (spec 4.2: callers rely on eventual return).     *)
OpsComplete ==
    \A t \in Threads : pc[t] # "ready" ~> pc[t] = "ready"

=============================================================================
