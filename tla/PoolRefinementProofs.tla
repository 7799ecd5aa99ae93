------------------------ MODULE PoolRefinementProofs ------------------------
(***************************************************************************)
(* Proof, for any number of threads and connections, that HttpPool        *)
(* implements PoolSpec under the mapping of PoolRefinement.               *)
(***************************************************************************)
EXTENDS PoolRefinement, HttpPoolProofs

(* iter_http_pool's locked list is non-empty only inside a flush.         *)
LockedMatchesPc ==
    \A t \in Threads : pc[t] \notin {"drain", "flush", "undrain"} => locked[t] = {}

(* nbdkit calls close only when no request is in flight, and dispatches   *)
(* none afterwards; close_http_pool's list is empty before close.         *)
ClosingQuiet ==
    /\ closing => \A t \in Threads : pc[t] = "ready"
    /\ ~closing => closer = {}

\* The invariant the refinement rests on.
RInv == IInv /\ LockedMatchesPc /\ ClosingQuiet

-----------------------------------------------------------------------------
LEMMA InitRInv == Init => RInv
<1> SUFFICES ASSUME Init PROVE RInv
  OBVIOUS
<1>1. IInv
  BY InitIInv
<1>2. LockedMatchesPc /\ ClosingQuiet
  BY DEF Init, LockedMatchesPc, ClosingQuiet
<1>3. QED
  BY <1>1, <1>2 DEF RInv

\* Every step preserves RInv.
LEMMA NextRInv == RInv /\ [Next]_vars => RInv'
<1> SUFFICES ASSUME RInv, [Next]_vars PROVE RInv'
  OBVIOUS
<1>1. IInv'
  BY NextIInv DEF RInv
<1> USE DEF RInv, IInv, TypeOK, ConnMatchesPc, LockedMatchesPc, ClosingQuiet, PC
<1>2. ASSUME NEW t \in Threads, Invoke(t) PROVE LockedMatchesPc' /\ ClosingQuiet'
  BY <1>2 DEF Invoke
<1>3. ASSUME NEW t \in Threads,
             Checkout(t) \/ Pread(t) \/ Pwrite(t) \/ Zero(t) \/ EmulateZero(t)
      PROVE LockedMatchesPc' /\ ClosingQuiet'
  BY <1>3 DEF Checkout, Pread, Pwrite, Zero, EmulateZero
<1>4. ASSUME NEW t \in Threads, Checkin(t) PROVE LockedMatchesPc' /\ ClosingQuiet'
  BY <1>4 DEF Checkin
<1>5. ASSUME NEW t \in Threads, DrainTake(t) \/ DrainFull(t) \/ FlushDone(t)
      PROVE LockedMatchesPc' /\ ClosingQuiet'
  BY <1>5 DEF DrainTake, DrainFull, FlushDone
<1>6. ASSUME NEW t \in Threads, FlushConn(t) PROVE LockedMatchesPc' /\ ClosingQuiet'
  <2>1. pc[t] = "flush" /\ UNCHANGED <<closing, closer, locked>>
    BY <1>6 DEF FlushConn
  <2>2. pc'[t] \in {"flush", "undrain"} /\ \A u \in Threads \ {t} : pc'[u] = pc[u]
    BY <1>6 DEF FlushConn
  <2>3. QED
    BY <2>1, <2>2
<1>7. ASSUME NEW t \in Threads, Undrain(t) PROVE LockedMatchesPc' /\ ClosingQuiet'
  BY <1>7 DEF Undrain
<1>8. CASE BeginClose \/ CloseTake \/ Closed \/ UNCHANGED vars
  BY <1>1, <1>8 DEF BeginClose, CloseTake, Closed, vars
<1>9. QED
  BY <1>1, <1>2, <1>3, <1>4, <1>5, <1>6, <1>7, <1>8 DEF Next, ThreadStep

-----------------------------------------------------------------------------
(* What the refinement mapping gives each connection.                     *)

LEMMA OwnerFcn ==
    /\ poolOwner = [c \in Conns |-> poolOwner[c]]
    /\ poolOwner' = [c \in Conns |-> poolOwner'[c]]
BY DEF poolOwner, OwnerMap

\* In a state satisfying RInv, the queue's connections are free, the
\* closer's belong to it and a held one to its holder.
LEMMA OwnerNow ==
    ASSUME RInv, NEW c \in Conns
    PROVE  /\ c \in idle => poolOwner[c] = Free
           /\ c \in closer => poolOwner[c] = Closer
           /\ \A t \in Threads : Holds(t, c) => poolOwner[c] = t
<1> USE DEF RInv, IInv, PoolPartition, Holds, poolOwner, OwnerMap
<1>1. c \in idle => poolOwner[c] = Free
  OBVIOUS
<1>2. c \in closer => poolOwner[c] = Closer
  OBVIOUS
<1>3. ASSUME NEW t \in Threads, Holds(t, c) PROVE poolOwner[c] = t
  <2>1. c \notin idle /\ c \notin closer
    BY <1>3
  <2>2. \A u \in Threads : conn[u] = c \/ c \in locked[u] => u = t
    BY <1>3
  <2>3. QED
    BY <1>3, <2>1, <2>2
<1>4. QED
  BY <1>1, <1>2, <1>3

\* The same in the successor state.
LEMMA OwnerNext ==
    ASSUME RInv', NEW c \in Conns
    PROVE  /\ c \in idle' => poolOwner'[c] = Free
           /\ c \in closer' => poolOwner'[c] = Closer
           /\ \A t \in Threads : Holds(t, c)' => poolOwner'[c] = t
<1> USE DEF RInv, IInv, PoolPartition, Holds, poolOwner, OwnerMap
<1>1. c \in idle' => poolOwner'[c] = Free
  OBVIOUS
<1>2. c \in closer' => poolOwner'[c] = Closer
  OBVIOUS
<1>3. ASSUME NEW t \in Threads, Holds(t, c)' PROVE poolOwner'[c] = t
  <2>1. c \notin idle' /\ c \notin closer'
    BY <1>3
  <2>2. \A u \in Threads : conn'[u] = c \/ c \in locked'[u] => u = t
    BY <1>3
  <2>3. QED
    BY <1>3, <2>1, <2>2
<1>4. QED
  BY <1>1, <1>2, <1>3

\* A connection whose place a step leaves alone keeps its owner.
LEMMA OwnerKept ==
    ASSUME RInv, RInv', NEW c \in Conns,
           c \in idle <=> c \in idle', c \in closer <=> c \in closer',
           \A u \in Threads : Holds(u, c) <=> Holds(u, c)'
    PROVE  poolOwner'[c] = poolOwner[c]
<1>1. CASE c \in idle
  BY <1>1, OwnerNow, OwnerNext
<1>2. CASE c \in closer
  BY <1>2, OwnerNow, OwnerNext
<1>3. CASE c \notin idle /\ c \notin closer
  <2>1. PICK u \in Threads : Holds(u, c)
    BY <1>3 DEF RInv, IInv, PoolPartition
  <2>2. poolOwner[c] = u /\ poolOwner'[c] = u
    BY <2>1, OwnerNow, OwnerNext
  <2>3. QED
    BY <2>2
<1>4. QED
  BY <1>1, <1>2, <1>3

\* Only a thread that has a connection out is its owner.
LEMMA OwnerIsHolder ==
    ASSUME RInv, NEW c \in Conns, NEW t \in Threads, poolOwner[c] = t
    PROVE  Holds(t, c)
<1>1. CASE c \in idle
  BY <1>1, OwnerNow, OwnerAssumption
<1>2. CASE c \in closer
  BY <1>2, OwnerNow, OwnerAssumption
<1>3. CASE c \notin idle /\ c \notin closer
  <2>1. PICK u \in Threads : Holds(u, c)
    BY <1>3 DEF RInv, IInv, PoolPartition
  <2>2. u = t
    BY <2>1, OwnerNow
  <2>3. QED
    BY <2>1, <2>2
<1>4. QED
  BY <1>1, <1>2, <1>3

-----------------------------------------------------------------------------
(* Each step of HttpPool is a step of PoolSpec or leaves its state alone. *)

LEMMA RefineStep ==
    RInv /\ RInv' /\ [Next]_vars => [Pool!Next]_<<poolOwner, closing>>
<1> SUFFICES ASSUME RInv, RInv', [Next]_vars
             PROVE  [Pool!Next]_<<poolOwner, closing>>
  OBVIOUS
<1> USE ConstantsAssumption
<1>0. ASSUME UNCHANGED <<idle, closer, conn, locked, closing>>
      PROVE  UNCHANGED <<poolOwner, closing>>
  BY <1>0 DEF poolOwner
<1>1. ASSUME NEW t \in Threads,
             \/ Invoke(t) \/ Pread(t) \/ Pwrite(t) \/ Zero(t) \/ EmulateZero(t)
             \/ DrainFull(t) \/ FlushConn(t) \/ FlushDone(t)
      PROVE  UNCHANGED <<poolOwner, closing>>
  <2>1. UNCHANGED <<idle, closer, conn, locked, closing>>
    BY <1>1 DEF Invoke, Pread, Pwrite, Zero, EmulateZero, DrainFull, FlushConn,
                FlushDone
  <2>2. QED
    BY <2>1, <1>0
<1>2. ASSUME NEW t \in Threads, Checkout(t) PROVE Pool!Acquire(t)
  <2>1. PICK c \in idle : idle' = idle \ {c} /\ conn' = [conn EXCEPT ![t] = c]
    BY <1>2, Zenon DEF Checkout
  <2>2. /\ pc[t] = "checkout" /\ UNCHANGED <<closer, closing, locked>>
    BY <1>2 DEF Checkout
  <2>3. /\ conn[t] = NoConn /\ ~closing /\ c \in Conns
        /\ conn \in [Threads -> Conns \cup {NoConn}]
    BY <2>1, <2>2 DEF RInv, IInv, ConnMatchesPc, ClosingQuiet, TypeOK
  <2>4. ASSUME NEW d \in Conns PROVE poolOwner'[d] = IF d = c THEN t ELSE poolOwner[d]
    <3>1. CASE d = c
      <4>1. Holds(t, c)'
        BY <2>1, <2>3 DEF Holds
      <4>2. QED
        BY <3>1, <4>1, OwnerNext
    <3>2. CASE d # c
      <4>1. \A u \in Threads : Holds(u, d) <=> Holds(u, d)'
        BY <2>1, <2>2, <2>3, <3>2 DEF Holds
      <4>2. QED
        BY <2>1, <2>2, <3>2, <4>1, OwnerKept
    <3>3. QED
      BY <3>1, <3>2
  <2>5. poolOwner[c] = Free
    BY <2>1, <2>3, OwnerNow
  <2>6. poolOwner' = [poolOwner EXCEPT ![c] = t]
    BY <2>3, <2>4, OwnerFcn
  <2>7. \E e \in Conns : poolOwner[e] = Free /\ poolOwner' = [poolOwner EXCEPT ![e] = t]
    BY <2>3, <2>5, <2>6, Zenon
  <2>8. QED
    BY <2>2, <2>3, <2>7, Zenon DEF Pool!Acquire
<1>3. ASSUME NEW t \in Threads, DrainTake(t) PROVE Pool!Acquire(t)
  <2>1. PICK c \in idle : idle' = idle \ {c} /\ locked' = [locked EXCEPT ![t] = @ \cup {c}]
    BY <1>3, Zenon DEF DrainTake
  <2>2. /\ pc[t] = "drain" /\ UNCHANGED <<closer, closing, conn>>
    BY <1>3 DEF DrainTake
  <2>3. /\ ~closing /\ c \in Conns
        /\ locked \in [Threads -> SUBSET Conns]
    BY <2>1, <2>2 DEF RInv, IInv, ClosingQuiet, TypeOK
  <2>4. ASSUME NEW d \in Conns PROVE poolOwner'[d] = IF d = c THEN t ELSE poolOwner[d]
    <3>1. CASE d = c
      <4>1. Holds(t, c)'
        BY <2>1, <2>3 DEF Holds
      <4>2. QED
        BY <3>1, <4>1, OwnerNext
    <3>2. CASE d # c
      <4>1. \A u \in Threads : Holds(u, d) <=> Holds(u, d)'
        BY <2>1, <2>2, <2>3, <3>2 DEF Holds
      <4>2. QED
        BY <2>1, <2>2, <3>2, <4>1, OwnerKept
    <3>3. QED
      BY <3>1, <3>2
  <2>5. poolOwner[c] = Free
    BY <2>1, <2>3, OwnerNow
  <2>6. poolOwner' = [poolOwner EXCEPT ![c] = t]
    BY <2>3, <2>4, OwnerFcn
  <2>7. \E e \in Conns : poolOwner[e] = Free /\ poolOwner' = [poolOwner EXCEPT ![e] = t]
    BY <2>3, <2>5, <2>6, Zenon
  <2>8. QED
    BY <2>2, <2>3, <2>7, Zenon DEF Pool!Acquire
<1>4. ASSUME NEW t \in Threads, Checkin(t) PROVE Pool!Release(t)
  <2>1. /\ pc[t] = "checkin"
        /\ idle' = idle \cup {conn[t]} /\ conn' = [conn EXCEPT ![t] = NoConn]
        /\ UNCHANGED <<closer, closing, locked>>
    BY <1>4, Zenon DEF Checkin
  <2>2. /\ conn[t] \in Conns /\ locked[t] = {}
        /\ conn \in [Threads -> Conns \cup {NoConn}]
    BY <2>1 DEF RInv, IInv, ConnMatchesPc, LockedMatchesPc, TypeOK
  <2>3. ASSUME NEW d \in Conns
        PROVE  poolOwner'[d] = IF poolOwner[d] = t THEN Free ELSE poolOwner[d]
    <3>1. CASE d = conn[t]
      <4>1. poolOwner[d] = t
        BY <3>1, OwnerNow DEF Holds
      <4>2. poolOwner'[d] = Free
        BY <2>1, <3>1, OwnerNext
      <4>3. QED
        BY <4>1, <4>2
    <3>2. CASE d # conn[t]
      <4>1. \A u \in Threads : Holds(u, d) <=> Holds(u, d)'
        BY <2>1, <2>2, <3>2 DEF Holds
      <4>2. poolOwner'[d] = poolOwner[d]
        BY <2>1, <3>2, <4>1, OwnerKept
      <4>3. poolOwner[d] # t
        BY <2>2, <3>2, OwnerIsHolder DEF Holds
      <4>4. QED
        BY <4>2, <4>3
    <3>3. QED
      BY <3>1, <3>2
  <2>4. QED
    BY <2>1, <2>3, OwnerFcn DEF Pool!Release
<1>5. ASSUME NEW t \in Threads, Undrain(t) PROVE Pool!Release(t)
  <2>1. /\ pc[t] = "undrain"
        /\ idle' = idle \cup locked[t] /\ locked' = [locked EXCEPT ![t] = {}]
        /\ UNCHANGED <<closer, closing, conn>>
    BY <1>5, Zenon DEF Undrain
  <2>2. /\ conn[t] = NoConn
        /\ locked \in [Threads -> SUBSET Conns]
    BY <2>1 DEF RInv, IInv, ConnMatchesPc, TypeOK
  <2>3. ASSUME NEW d \in Conns
        PROVE  poolOwner'[d] = IF poolOwner[d] = t THEN Free ELSE poolOwner[d]
    <3>1. CASE d \in locked[t]
      <4>1. poolOwner[d] = t
        BY <3>1, OwnerNow DEF Holds
      <4>2. poolOwner'[d] = Free
        BY <2>1, <3>1, OwnerNext
      <4>3. QED
        BY <4>1, <4>2
    <3>2. CASE d \notin locked[t]
      <4>1. \A u \in Threads : Holds(u, d) <=> Holds(u, d)'
        BY <2>1, <2>2, <3>2 DEF Holds
      <4>2. poolOwner'[d] = poolOwner[d]
        BY <2>1, <3>2, <4>1, OwnerKept
      <4>3. poolOwner[d] # t
        BY <2>2, <3>2, OwnerIsHolder, ConstantsAssumption DEF Holds
      <4>4. QED
        BY <4>2, <4>3
    <3>3. QED
      BY <3>1, <3>2
  <2>4. QED
    BY <2>1, <2>3, OwnerFcn DEF Pool!Release
<1>6. CASE BeginClose
  <2>1. /\ ~closing /\ closing' = TRUE /\ \A t \in Threads : pc[t] = "ready"
        /\ UNCHANGED <<idle, closer, conn, locked>>
    BY <1>6, Zenon DEF BeginClose
  <2>2. \A c \in Conns : c \in idle
    BY <2>1 DEF RInv, IInv, ConnMatchesPc, LockedMatchesPc, ClosingQuiet,
                PoolPartition, Holds
  <2>3. \A c \in Conns : poolOwner[c] = Free
    BY <2>2, OwnerNow
  <2>4. poolOwner' = poolOwner
    BY <2>1 DEF poolOwner
  <2>5. QED
    BY <2>1, <2>3, <2>4, Zenon DEF Pool!Next, Pool!BeginClose
<1>7. CASE CloseTake
  <2>1. PICK c \in idle : idle' = idle \ {c} /\ closer' = closer \cup {c}
    BY <1>7, Zenon DEF CloseTake
  <2>2. /\ closing /\ UNCHANGED <<closing, conn, locked>> /\ c \in Conns
    BY <1>7, <2>1 DEF CloseTake, RInv, IInv, TypeOK
  <2>3. ASSUME NEW d \in Conns PROVE poolOwner'[d] = IF d = c THEN Closer ELSE poolOwner[d]
    <3>1. CASE d = c
      BY <2>1, <3>1, OwnerNext
    <3>2. CASE d # c
      <4>1. \A u \in Threads : Holds(u, d) <=> Holds(u, d)'
        BY <2>2 DEF Holds
      <4>2. QED
        BY <2>1, <3>2, <4>1, OwnerKept
    <3>3. QED
      BY <3>1, <3>2
  <2>4. poolOwner[c] = Free
    BY <2>1, <2>2, OwnerNow
  <2>5. poolOwner' = [poolOwner EXCEPT ![c] = Closer]
    BY <2>2, <2>3, OwnerFcn
  <2>6. \E e \in Conns : poolOwner[e] = Free /\ poolOwner' = [poolOwner EXCEPT ![e] = Closer]
    BY <2>2, <2>4, <2>5, Zenon
  <2>7. QED
    BY <2>2, <2>6, Zenon DEF Pool!Next, Pool!CloseAcquire
<1>8. CASE Closed \/ UNCHANGED vars
  BY <1>8, <1>0 DEF Closed, vars
<1>9. QED
  <2>1. CASE \E t \in Threads : Invoke(t) \/ ThreadStep(t)
    <3>1. PICK t \in Threads : Invoke(t) \/ ThreadStep(t)
      BY <2>1
    <3>2. CASE Checkout(t) \/ DrainTake(t)
      BY <3>2, <1>2, <1>3 DEF Pool!Next
    <3>3. CASE Checkin(t) \/ Undrain(t)
      BY <3>3, <1>4, <1>5 DEF Pool!Next
    <3>4. CASE \/ Invoke(t) \/ Pread(t) \/ Pwrite(t) \/ Zero(t) \/ EmulateZero(t)
               \/ DrainFull(t) \/ FlushConn(t) \/ FlushDone(t)
      BY <3>4, <1>1
    <3>5. QED
      BY <3>1, <3>2, <3>3, <3>4 DEF ThreadStep
  <2>2. CASE BeginClose \/ CloseTake
    BY <2>2, <1>6, <1>7 DEF Pool!Next
  <2>3. QED
    BY <2>1, <2>2, <1>8 DEF Next

\* RInv holds in every reachable state.
LEMMA AlwaysRInv == Spec => []RInv
BY InitRInv, NextRInv, PTL DEF Spec

(* The pool of rhv-upload-plugin.py implements PoolSpec for any number of *)
(* worker threads and connections: initially every connection is in the  *)
(* queue, and every pool.get, pool.put, drain, flush and close step is an *)
(* acquisition, a release, the start of close, the closer's acquisition,  *)
(* or leaves the owners alone.                                            *)
THEOREM Refinement == Spec => PoolRefines
<1>1. Init => Pool!Init
  <2> SUFFICES ASSUME Init PROVE Pool!Init
    OBVIOUS
  <2>1. poolOwner = [c \in Conns |-> Free]
    BY DEF Init, poolOwner, OwnerMap
  <2>2. QED
    BY <2>1 DEF Init, Pool!Init
<1>2. RInv /\ RInv' /\ [Next]_vars => [Pool!Next]_<<poolOwner, closing>>
  BY RefineStep
<1>3. QED
  BY <1>1, <1>2, AlwaysRInv, PTL DEF Spec, PoolRefines, Pool!Spec

=============================================================================
