-------------------------- MODULE TransportProofs --------------------------
(***************************************************************************)
(* Proofs, for every cap and every set of limits a server may send, that  *)
(* the pool create_http_pool builds fits the transfer and the handle's    *)
(* connection count.                                                       *)
(***************************************************************************)
EXTENDS Transport, TLAPS

(* Facts fixed along open(): find_host runs only in direct mode; once     *)
(* create_http accepted the URL its scheme is http or https; get_options' *)
(* result is a dict before the pool is made; the queue is empty until    *)
(* create_http_pool.                                                      *)
Stage ==
    /\ hostFound => direct
    /\ tpc \in {"options", "pool", "opened"} => url \in {"https", "http"}
    /\ tpc \in {"pool", "opened"} => options \in Options
    /\ tpc # "opened" => pool = <<>>

\* The inductive invariant.
IInv == TypeOK /\ Stage /\ PoolFitsTransfer /\ HandleSized

-----------------------------------------------------------------------------
(* min() of the three limits is one of them and no larger than any.       *)
LEMMA LeastOfThree ==
    ASSUME NEW a \in Int, NEW b \in Int, NEW c \in Int
    PROVE  /\ Least({a, b, c}) \in {a, b, c}
           /\ Least({a, b, c}) <= a
           /\ Least({a, b, c}) <= b
           /\ Least({a, b, c}) <= c
<1> DEFINE m == IF a <= b /\ a <= c THEN a ELSE IF b <= c THEN b ELSE c
<1>1. m \in {a, b, c} /\ \A x \in {a, b, c} : m <= x
  OBVIOUS
<1>2. \E k \in {a, b, c} : \A x \in {a, b, c} : k <= x
  BY <1>1
<1>3. Least({a, b, c}) \in {a, b, c} /\ \A x \in {a, b, c} : Least({a, b, c}) <= x
  BY <1>2, Zenon DEF Least
<1>4. QED
  BY <1>3

(* A queue filled by range(n) puts: a sequence of length n.               *)
LEMMA LenOfFcn ==
    ASSUME NEW n \in Nat, NEW S, NEW f \in [1..n -> S]
    PROVE  f \in Seq(S) /\ Len(f) = n
OBVIOUS

LEMMA InitIInv == Init => IInv
<1> SUFFICES ASSUME Init PROVE IInv
  OBVIOUS
<1>1. direct \in BOOLEAN /\ hostFound \in BOOLEAN /\ (hostFound => direct)
  BY Zenon DEF Init
<1>2. pool \in Seq(Kinds) /\ DOMAIN pool = {}
  BY DEF Init
<1>3. QED
  BY <1>1, <1>2 DEF Init, IInv, TypeOK, Stage, PoolFitsTransfer, HandleSized

\* Every step of open()'s try block preserves IInv.
LEMMA NextIInv == IInv /\ [Next]_vars => IInv'
<1> SUFFICES ASSUME IInv, [Next]_vars PROVE IInv'
  OBVIOUS
<1> USE TransportAssumption
<1>0. /\ direct \in BOOLEAN /\ hostFound \in BOOLEAN /\ (hostFound => direct)
      /\ pool \in Seq(Kinds)
  BY DEF IInv, TypeOK, Stage
<1>1. CASE ParseTransferUrl
  <2>1. UNCHANGED <<direct, hostFound, transferUrl, proxyUrl, probe, options, pool,
                   connections>>
    BY <1>1 DEF ParseTransferUrl, inputs
  <2>2. tpc' \in {"failed", "probe"} /\ url' \in Schemes \cup {NoUrl}
    BY <1>1 DEF ParseTransferUrl, IInv, TypeOK
  <2>3. QED
    BY <1>0, <1>1, <2>1, <2>2
    DEF ParseTransferUrl, IInv, TypeOK, Stage, PoolFitsTransfer, HandleSized, inputs
<1>2. CASE CreateProbe
  <2>1. UNCHANGED <<direct, hostFound, transferUrl, proxyUrl, url, options, pool,
                   connections>>
    BY <1>2 DEF CreateProbe, inputs
  <2>2. PICK h \in CreateHttp(url, NoSocket) :
          IF h = "raise" THEN tpc' = "failed" /\ UNCHANGED probe
          ELSE tpc' = "options" /\ probe' = "open"
    BY <1>2, Zenon DEF CreateProbe
  <2>3. h = TcpHttp(url)
    BY <2>2 DEF CreateHttp
  <2>4. tpc' = "options" => url \in {"https", "http"}
    BY <2>2, <2>3 DEF TcpHttp
  <2>5. tpc' \in {"failed", "options"} /\ probe' \in {"none", "open", "closed"}
    BY <2>2 DEF IInv, TypeOK
  <2>6. TypeOK'
    BY <1>0, <2>1, <2>5 DEF IInv, TypeOK
  <2>7. Stage'
    <3>1. hostFound' => direct'
      BY <1>0, <2>1, Zenon
    <3>2. tpc = "probe"
      BY <1>2 DEF CreateProbe
    <3>3. QED
      BY <2>1, <2>4, <2>5, <3>1, <3>2 DEF IInv, Stage
  <2>8. QED
    BY <2>1, <2>5, <2>6, <2>7 DEF IInv, PoolFitsTransfer, HandleSized
<1>3. CASE GetOptions
  <2>1. UNCHANGED <<direct, hostFound, transferUrl, proxyUrl, url, probe, pool,
                   connections>>
    BY <1>3 DEF GetOptions, inputs
  <2>2. tpc' \in {"pool", "failed"} /\ (tpc' = "pool" => options' \in Options)
        /\ (tpc' = "failed" => options' = options)
    <3>1. ASSUME NEW f \in SUBSET {"flush", "zero"}, NEW sk \in {NoSocket, SockPath},
                 NEW r \in Advertised \cup {Absent}, NEW w \in Advertised \cup {Absent}
          PROVE  [can_flush |-> "flush" \in f, can_zero |-> "zero" \in f,
                  unix_socket |-> sk, max_readers |-> OrDefault(r),
                  max_writers |-> OrDefault(w)] \in Options
      BY DEF Options, Limits, OrDefault
    <3>2. LegacyOptions \in Options
      BY DEF LegacyOptions, Options, Limits
    <3>3. QED
      BY <1>3, <3>1, <3>2, Zenon DEF GetOptions
  <2>3. TypeOK'
    BY <1>0, <2>1, <2>2 DEF IInv, TypeOK
  <2>4. Stage'
    <3>1. hostFound' => direct'
      BY <1>0, <2>1, Zenon
    <3>2. tpc = "options"
      BY <1>3 DEF GetOptions
    <3>3. QED
      BY <2>1, <2>2, <3>1, <3>2 DEF IInv, Stage
  <2>5. pool' = <<>> /\ tpc' # "opened"
    BY <1>3, <2>1, <2>2 DEF GetOptions, IInv, Stage
  <2>6. QED
    BY <2>3, <2>4, <2>5 DEF IInv, PoolFitsTransfer, HandleSized
<1>4. CASE CreatePool
  <2>1. UNCHANGED <<direct, hostFound, transferUrl, proxyUrl, url, options>>
        /\ tpc = "pool"
        /\ tpc' = "opened" /\ probe' = "closed" /\ connections' = Len(pool')
    BY <1>4 DEF CreatePool, inputs
  <2>2. options \in Options /\ url \in {"https", "http"}
    BY <2>1 DEF IInv, Stage
  <2>3. options.max_readers \in Nat /\ options.max_writers \in Nat
    <3>1. options.max_readers \in Limits /\ options.max_writers \in Limits
      BY <2>2, Zenon DEF Options
    <3>2. Limits \subseteq Nat
      BY DEF Limits
    <3>3. QED
      BY <3>1, <3>2
  <2>4. /\ PoolCount(options) \in Nat
        /\ PoolCount(options) <= MAX_CONNECTIONS
        /\ PoolCount(options) <= options.max_readers
        /\ PoolCount(options) <= options.max_writers
    <3> DEFINE a == options.max_readers  b == options.max_writers
    <3>1. /\ Least({a, b, MAX_CONNECTIONS}) \in {a, b, MAX_CONNECTIONS}
          /\ Least({a, b, MAX_CONNECTIONS}) <= a
          /\ Least({a, b, MAX_CONNECTIONS}) <= b
          /\ Least({a, b, MAX_CONNECTIONS}) <= MAX_CONNECTIONS
      <4>1. a \in Int /\ b \in Int /\ MAX_CONNECTIONS \in Int
        BY <2>3
      <4>2. QED
        BY <4>1, LeastOfThree, Zenon
    <3>2. PoolCount(options) = Least({a, b, MAX_CONNECTIONS})
      BY DEF PoolCount
    <3>3. QED
      BY <2>3, <3>1, <3>2
  <2>5. CreateHttp(url, PoolSocket(options)) \subseteq Kinds
    BY <2>2 DEF CreateHttp, TcpHttp, Kinds
  <2>6. pool' \in [1..PoolCount(options) -> CreateHttp(url, PoolSocket(options))]
    BY <1>4 DEF CreatePool
  <2>7. pool' \in Seq(Kinds) /\ Len(pool') = PoolCount(options)
    BY <2>4, <2>5, <2>6, LenOfFcn
  <2>8. PoolFitsTransfer'
    <3>1. SUFFICES ASSUME NEW i \in DOMAIN pool'
                   PROVE  \/ pool'[i] = url
                          \/ pool'[i] = "unix" /\ direct /\ hostFound
                             /\ options.unix_socket = SockPath
      BY <2>1 DEF PoolFitsTransfer
    <3>2. pool'[i] \in CreateHttp(url, PoolSocket(options))
      BY <2>6
    <3>3. CASE PoolSocket(options) = NoSocket
      BY <2>2, <3>2, <3>3 DEF CreateHttp, TcpHttp
    <3>4. CASE PoolSocket(options) # NoSocket
      <4>1. hostFound /\ options.unix_socket = SockPath
        BY <2>2, <3>4 DEF PoolSocket, Options
      <4>2. QED
        BY <1>0, <2>2, <3>2, <4>1 DEF CreateHttp, TcpHttp
    <3>5. QED
      BY <3>3, <3>4
  <2>9. QED
    BY <1>0, <2>1, <2>2, <2>4, <2>7, <2>8
    DEF IInv, TypeOK, Stage, HandleSized
<1>5. CASE Done \/ UNCHANGED vars
  BY <1>5 DEF Done, vars, IInv, TypeOK, Stage, PoolFitsTransfer, HandleSized
<1>6. QED
  BY <1>1, <1>2, <1>3, <1>4, <1>5 DEF Next

LEMMA AlwaysIInv == Spec => []IInv
BY InitIInv, NextIInv, PTL DEF Spec

(* For every cap and every limits a server may send: a connection in the  *)
(* pool create_http_pool fills is a Unix socket connection only on the   *)
(* local host in direct mode, and otherwise speaks the transfer URL's own *)
(* scheme, never downgrading https to http.                                *)
THEOREM PoolFits == Spec => []PoolFitsTransfer
<1>1. IInv => PoolFitsTransfer
  BY DEF IInv
<1>2. QED
  BY AlwaysIInv, <1>1, PTL

(* For every cap and every limits a server may send: the handle's         *)
(* h['connections'], which flush and close drain, equals the number of    *)
(* connections in the queue and stays within MAX_CONNECTIONS and the      *)
(* server's reader and writer limits.                                      *)
THEOREM Sized == Spec => []HandleSized
<1>1. IInv => HandleSized
  BY DEF IInv
<1>2. QED
  BY AlwaysIInv, <1>1, PTL


(* Every variable of Transport keeps its type: in particular get_options' *)
(* j.get(key, 1) makes max_readers and max_writers numbers even when the  *)
(* server leaves them out, so create_http_pool's min() is well defined.   *)
THEOREM TypeCorrect == Spec => []TypeOK
<1>1. IInv => TypeOK
  BY DEF IInv
<1>2. QED
  BY AlwaysIInv, <1>1, PTL

=============================================================================
