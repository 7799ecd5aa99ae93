--------------------------- MODULE HttpPoolProofs ---------------------------
(***************************************************************************)
(* Proofs, for every number of threads and connections, that the pool of  *)
(* HttpPool never loses or shares a connection and that its variables     *)
(* keep their types.                                                       *)
(***************************************************************************)
EXTENDS HttpPool, FiniteSetTheorems, TLAPS

(* A thread holds a connection from http_context exactly while it is      *)
(* between pool.get() and pool.put(), so Checkin never puts back NoConn   *)
(* and Checkout never overwrites a held connection.                       *)
ConnMatchesPc ==
    \A t \in Threads : conn[t] # NoConn <=> pc[t] \in {"exchange", "checkin"}

\* The inductive invariant.
IInv == TypeOK /\ ConnMatchesPc /\ PoolPartition

-----------------------------------------------------------------------------
LEMMA InitIInv == Init => IInv
<1> SUFFICES ASSUME Init PROVE IInv
  OBVIOUS
<1>0. MaxOps \in Nat /\ NoConn \notin Conns
  BY ConstantsAssumption
<1>1. TypeOK
  <2>1. idle \subseteq Conns /\ closer \subseteq Conns /\ closing \in BOOLEAN
        /\ failed \in BOOLEAN /\ canFlush \in BOOLEAN /\ canZero \in BOOLEAN
    BY DEF Init
  <2>2. pc \in [Threads -> PC] /\ op \in [Threads -> Ops]
    BY DEF Init, PC, Ops
  <2>3. conn \in [Threads -> Conns \cup {NoConn}]
        /\ locked \in [Threads -> SUBSET Conns]
        /\ todo \in [Threads -> SUBSET Conns]
    BY DEF Init
  <2>4. err \in [Threads -> BOOLEAN] /\ fua \in [Threads -> BOOLEAN]
    BY DEF Init
  <2>5. ops \in [Threads -> 0..MaxOps]
    BY <1>0 DEF Init
  <2>6. owed \in [Threads -> SUBSET WriteIds]
        /\ cache \in [Conns -> SUBSET WriteIds]
    BY DEF Init
  <2>7. QED
    BY <2>1, <2>2, <2>3, <2>4, <2>5, <2>6 DEF TypeOK
<1>2. ConnMatchesPc
  BY ConstantsAssumption DEF Init, ConnMatchesPc
<1>3. PoolPartition
  BY ConstantsAssumption DEF Init, PoolPartition, Holds
<1>4. QED
  BY <1>1, <1>2, <1>3 DEF IInv

\* Every step of the pool, of a handler and of close preserves IInv.
LEMMA NextIInv == IInv /\ [Next]_vars => IInv'
<1> SUFFICES ASSUME IInv, [Next]_vars PROVE IInv'
  OBVIOUS
<1> USE ConstantsAssumption DEF IInv, TypeOK, ConnMatchesPc, PoolPartition, PC, Ops,
        Holds
<1>1. ASSUME NEW t \in Threads, Invoke(t) PROVE IInv'
  BY <1>1 DEF Invoke, Unflushed, WriteIds
<1>2. ASSUME NEW t \in Threads, Checkout(t) PROVE IInv'
  BY <1>2 DEF Checkout
<1>3. ASSUME NEW t \in Threads, Pread(t) PROVE IInv'
  BY <1>3 DEF Pread
<1>4. ASSUME NEW t \in Threads, Pwrite(t) PROVE IInv'
  BY <1>4 DEF Pwrite, ServerWrite, writeId, WriteIds
<1>5. ASSUME NEW t \in Threads, Zero(t) PROVE IInv'
  BY <1>5 DEF Zero, ServerWrite, writeId, WriteIds
<1>6. ASSUME NEW t \in Threads, EmulateZero(t) PROVE IInv'
  BY <1>6 DEF EmulateZero, ServerWrite, writeId, WriteIds
<1>7. ASSUME NEW t \in Threads, Checkin(t) PROVE IInv'
  BY <1>7 DEF Checkin, RecordFailure
<1>8. ASSUME NEW t \in Threads, DrainTake(t) PROVE IInv'
  BY <1>8 DEF DrainTake
<1>9. ASSUME NEW t \in Threads, DrainFull(t) PROVE IInv'
  BY <1>9 DEF DrainFull
<1>10. ASSUME NEW t \in Threads, FlushConn(t) PROVE IInv'
  <2>1. PICK c \in todo[t], ok \in BOOLEAN :
          IF ok
          THEN /\ cache' = [cache EXCEPT ![c] = {}]
               /\ todo' = [todo EXCEPT ![t] = @ \ {c}]
               /\ UNCHANGED <<pc, err>>
          ELSE /\ err' = [err EXCEPT ![t] = TRUE]
               /\ pc' = [pc EXCEPT ![t] = "undrain"]
               /\ UNCHANGED <<cache, todo>>
    BY <1>10 DEF FlushConn
  <2>2. /\ pc[t] = "flush"
        /\ UNCHANGED <<idle, closer, closing, op, conn, locked, failed, fua,
                      ops, owed, canFlush, canZero>>
    BY <1>10 DEF FlushConn
  <2>3. CASE ok
    <3>1. /\ cache' = [cache EXCEPT ![c] = {}]
          /\ todo' = [todo EXCEPT ![t] = @ \ {c}]
          /\ UNCHANGED <<pc, err>>
      BY <2>1, <2>3
    <3>2. TypeOK'
      BY <3>1, <2>2
    <3>3. ConnMatchesPc' /\ PoolPartition'
      BY <3>1, <2>2
    <3>4. QED
      BY <3>2, <3>3
  <2>4. CASE ~ok
    <3>1. /\ err' = [err EXCEPT ![t] = TRUE]
          /\ pc' = [pc EXCEPT ![t] = "undrain"]
          /\ UNCHANGED <<cache, todo>>
      BY <2>1, <2>4
    <3>2. TypeOK'
      BY <3>1, <2>2
    <3>3. ConnMatchesPc' /\ PoolPartition'
      BY <3>1, <2>2
    <3>4. QED
      BY <3>2, <3>3
  <2>5. QED
    BY <2>3, <2>4
<1>11. ASSUME NEW t \in Threads, FlushDone(t) PROVE IInv'
  BY <1>11 DEF FlushDone
<1>12. ASSUME NEW t \in Threads, Undrain(t) PROVE IInv'
  BY <1>12 DEF Undrain, RecordFailure
<1>13. CASE BeginClose
  BY <1>13 DEF BeginClose
<1>14. CASE CloseTake
  BY <1>14 DEF CloseTake
<1>15. CASE Closed \/ UNCHANGED vars
  BY <1>15 DEF Closed, vars
<1>16. QED
  BY <1>1, <1>2, <1>3, <1>4, <1>5, <1>6, <1>7, <1>8, <1>9, <1>10, <1>11,
     <1>12, <1>13, <1>14, <1>15 DEF Next, ThreadStep

\* IInv holds in every reachable state.
LEMMA AlwaysIInv == Spec => []IInv
BY InitIInv, NextIInv, PTL DEF Spec

(* Every variable of HttpPool keeps its type: in particular Checkin and   *)
(* Undrain never put anything but a connection back into the queue.       *)
THEOREM TypeCorrect == Spec => []TypeOK
<1>1. IInv => TypeOK
  BY DEF IInv
<1>2. QED
  BY AlwaysIInv, <1>1, PTL

(* Pool conservation for any number of threads and connections: no path  *)
(* of http_context, iter_http_pool or close_http_pool loses a connection  *)
(* or hands one to two requests.                                          *)
THEOREM PoolConservation == Spec => []PoolPartition
<1>1. IInv => PoolPartition
  BY DEF IInv
<1>2. QED
  BY AlwaysIInv, <1>1, PTL

-----------------------------------------------------------------------------
(* The flush barrier.  FlushBarrier is not inductive: it needs what a     *)
(* flush holds and has sent while it runs.                                *)

\* iter_http_pool took every connection before it yields any.
FullDrain ==
    \A t \in Threads : pc[t] \in {"flush", "undrain"} => locked[t] = Conns

(* No connection a successful flush has already sent to holds a write     *)
(* that was unflushed when flush was called.                              *)
FlushedSoFar ==
    \A t \in Threads : pc[t] \in {"flush", "undrain"} /\ ~err[t] =>
        \A c \in Conns \ todo[t] : cache[c] \cap owed[t] = {}

\* A flush leaves its for loop without error only once all are sent.
SentAll ==
    \A t \in Threads : pc[t] = "undrain" /\ ~err[t] => todo[t] = {}

\* The inductive invariant behind FlushBarrier.
BInv == IInv /\ FullDrain /\ FlushedSoFar /\ SentAll


\* The three conjuncts BInv adds to IInv.
Barrier == FullDrain /\ FlushedSoFar /\ SentAll

(* A loop that stops taking when len(locked) reaches the size of a finite *)
(* pool holds all of it.                                                  *)
LEMMA DrainedAll ==
  ASSUME NEW S, IsFiniteSet(S), NEW T \in SUBSET S,
         ~(Cardinality(T) < Cardinality(S))
  PROVE  T = S
<1>1. Cardinality(T) <= Cardinality(S)
      /\ (Cardinality(S) = Cardinality(T) => S = T)
  BY FS_Subset
<1>2. Cardinality(T) \in Nat /\ Cardinality(S) \in Nat
  BY FS_Subset, FS_CardinalityType
<1>3. QED
  BY <1>1, <1>2

(* While a flush holds the drained pool, no other handler can be sending  *)
(* a request: every connection is in the flush's locked list.             *)
LEMMA NoRequestDuringFlush ==
  ASSUME IInv, FullDrain, NEW t \in Threads, pc[t] = "exchange"
  PROVE  \A s \in Threads : pc[s] \notin {"flush", "undrain"}
<1> SUFFICES ASSUME NEW s \in Threads, pc[s] \in {"flush", "undrain"}
             PROVE  FALSE
  OBVIOUS
<1>1. conn[t] \in Conns
  BY ConstantsAssumption DEF IInv, TypeOK, ConnMatchesPc
<1>2. conn[t] \in locked[s]
  BY <1>1 DEF FullDrain
<1>3. s = t
  BY <1>1, <1>2 DEF IInv, PoolPartition, Holds
<1>4. QED
  BY <1>3

LEMMA InitBInv == Init => BInv
<1> SUFFICES ASSUME Init PROVE BInv
  OBVIOUS
<1>1. IInv
  BY InitIInv
<1>2. \A t \in Threads : pc[t] = "ready"
  BY DEF Init
<1>3. QED
  BY <1>1, <1>2 DEF BInv, FullDrain, FlushedSoFar, SentAll

(* A step that leaves a thread that is not flushing, or leaves pc,        *)
(* locked, todo, err, owed and cache alone for every flushing thread,     *)
(* keeps Barrier.                                                          *)
LEMMA NextBInv == BInv /\ [Next]_vars => BInv'
<1> SUFFICES ASSUME BInv, [Next]_vars PROVE BInv'
  OBVIOUS
<1>0. IInv'
  BY NextIInv DEF BInv
<1> SUFFICES Barrier'
  BY <1>0 DEF BInv, Barrier
<1>B. IInv /\ Barrier
  BY DEF BInv, Barrier
<1> USE <1>B DEF Barrier, FullDrain, FlushedSoFar, SentAll
<1>T. TypeOK
  BY DEF IInv
<1>1. ASSUME NEW t \in Threads, Invoke(t) PROVE Barrier'
  BY <1>1, <1>T DEF Invoke, TypeOK
<1>2. ASSUME NEW t \in Threads, Checkout(t) PROVE Barrier'
  BY <1>2, <1>T DEF Checkout, TypeOK
<1>3. ASSUME NEW t \in Threads, Pread(t) PROVE Barrier'
  BY <1>3, <1>T DEF Pread, TypeOK
<1>W. ASSUME NEW t \in Threads, pc[t] = "exchange",
             pc' = [pc EXCEPT ![t] = "checkin"]
      PROVE  Barrier'
  <2>1. \A s \in Threads : pc[s] \notin {"flush", "undrain"}
    BY <1>W, <1>B, NoRequestDuringFlush
  <2>2. \A s \in Threads : pc'[s] \notin {"flush", "undrain"}
    BY <2>1, <1>W, <1>T DEF TypeOK
  <2>3. QED
    BY <2>2
<1>4. ASSUME NEW t \in Threads, Pwrite(t) PROVE Barrier'
  BY <1>4, <1>W DEF Pwrite
<1>5. ASSUME NEW t \in Threads, Zero(t) PROVE Barrier'
  BY <1>5, <1>W DEF Zero
<1>6. ASSUME NEW t \in Threads, EmulateZero(t) PROVE Barrier'
  BY <1>6, <1>W DEF EmulateZero
<1>7. ASSUME NEW t \in Threads, Checkin(t) PROVE Barrier'
  BY <1>7, <1>T DEF Checkin, RecordFailure, TypeOK
<1>8. ASSUME NEW t \in Threads, DrainTake(t) PROVE Barrier'
  BY <1>8, <1>T DEF DrainTake, TypeOK
<1>9. ASSUME NEW t \in Threads, DrainFull(t) PROVE Barrier'
  <2>1. locked[t] = Conns
    <3>1. IsFiniteSet(Conns) /\ locked[t] \in SUBSET Conns
      BY ConstantsAssumption, <1>T DEF TypeOK
    <3>2. ~(Cardinality(locked[t]) < Cardinality(Conns))
      BY <1>9 DEF DrainFull, connections
    <3>3. QED
      BY <3>1, <3>2, DrainedAll
  <2>2. todo'[t] = Conns /\ pc'[t] = "flush"
    BY <1>9, <2>1, <1>T DEF DrainFull, TypeOK
  <2>3. QED
    BY <1>9, <2>1, <2>2, <1>T DEF DrainFull, TypeOK
<1>10. ASSUME NEW t \in Threads, FlushConn(t) PROVE Barrier'
  <2>1. PICK c \in todo[t], ok \in BOOLEAN :
          IF ok
          THEN /\ cache' = [cache EXCEPT ![c] = {}]
               /\ todo' = [todo EXCEPT ![t] = @ \ {c}]
               /\ UNCHANGED <<pc, err>>
          ELSE /\ err' = [err EXCEPT ![t] = TRUE]
               /\ pc' = [pc EXCEPT ![t] = "undrain"]
               /\ UNCHANGED <<cache, todo>>
    BY <1>10 DEF FlushConn
  <2>2. /\ pc[t] = "flush"
        /\ UNCHANGED <<locked, owed>>
    BY <1>10 DEF FlushConn
  <2>3. CASE ok
    <3>1. /\ cache' = [cache EXCEPT ![c] = {}]
          /\ todo' = [todo EXCEPT ![t] = @ \ {c}]
          /\ UNCHANGED <<pc, err>>
      BY <2>1, <2>3
    <3>2. \A d \in Conns : cache'[d] \subseteq cache[d]
      BY <3>1, <1>T DEF TypeOK
    <3>3. FlushedSoFar'
      BY <3>1, <3>2, <2>2, <1>T DEF TypeOK
    <3>4. QED
      BY <3>1, <3>3, <2>2, <1>T DEF TypeOK
  <2>4. CASE ~ok
    <3>1. /\ err' = [err EXCEPT ![t] = TRUE]
          /\ pc' = [pc EXCEPT ![t] = "undrain"]
          /\ UNCHANGED <<cache, todo>>
      BY <2>1, <2>4
    <3>2. QED
      BY <3>1, <2>2, <1>T DEF TypeOK
  <2>5. QED
    BY <2>3, <2>4
<1>11. ASSUME NEW t \in Threads, FlushDone(t) PROVE Barrier'
  BY <1>11, <1>T DEF FlushDone, TypeOK
<1>12. ASSUME NEW t \in Threads, Undrain(t) PROVE Barrier'
  BY <1>12, <1>T DEF Undrain, RecordFailure, TypeOK
<1>13. CASE BeginClose
  BY <1>13 DEF BeginClose
<1>14. CASE CloseTake
  BY <1>14 DEF CloseTake
<1>15. CASE Closed \/ UNCHANGED vars
  BY <1>15 DEF Closed, vars
<1>16. QED
  BY <1>1, <1>2, <1>3, <1>4, <1>5, <1>6, <1>7, <1>8, <1>9, <1>10, <1>11,
     <1>12, <1>13, <1>14, <1>15 DEF Next, ThreadStep

(* Flush is a barrier for any number of threads, flushers and             *)
(* connections: when flush returns success, every write the server held   *)
(* unflushed when nbdkit called flush has been flushed, because           *)
(* iter_http_pool drained the whole pool before sending to any connection *)
(* and the for loop sent to each.                                         *)
THEOREM FlushIsBarrier == Spec => []FlushBarrier
<1>1. BInv => FlushBarrier
  BY DEF BInv, SentAll, FlushedSoFar, FlushBarrier, Unflushed
<1>2. QED
  BY InitBInv, NextBInv, <1>1, PTL DEF Spec

=============================================================================
