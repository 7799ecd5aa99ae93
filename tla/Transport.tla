----------------------------- MODULE Transport -----------------------------
(***************************************************************************)
(* The imageio side of open(): the try block that runs once the transfer  *)
(* is TRANSFERRING.  parse_transfer_url picks the transfer or the proxy   *)
(* URL; create_http makes the probe connection; get_options sends OPTIONS *)
(* and reads the server's features and limits; the probe is closed; and   *)
(* create_http_pool fills the queue with min(max_readers, max_writers,    *)
(* MAX_CONNECTIONS) connections, over the server's Unix socket when the   *)
(* server runs on this host.  open() then returns the handle with         *)
(* h['connections'] = pool.qsize().  Any raise goes to open's except      *)
(* clause, which Lifecycle models (Setup, OpenCancel).                    *)
(*                                                                         *)
(* A URL is abstracted to its scheme, a connection to its kind: "unix",   *)
(* "https" or "http".                                                      *)
(***************************************************************************)
EXTENDS Integers, Sequences

CONSTANTS
    MAX_CONNECTIONS,  \* the module's cap on the pool size
    Advertised,       \* values a server may send as max_readers/max_writers
    Schemes,          \* URL schemes the engine may hand out
    NoUrl,            \* transfer.transfer_url is None
    Absent,           \* the OPTIONS JSON has no such key
    NoSocket,         \* no usable unix_socket (None or empty)
    SockPath,         \* the unix_socket path the server advertises
    NoOptions         \* get_options has not returned

ASSUME TransportAssumption ==
    /\ MAX_CONNECTIONS \in Nat
    /\ Advertised \subseteq Nat
    /\ {"https", "http"} \subseteq Schemes
    /\ NoUrl \notin Schemes
    /\ NoSocket # SockPath

VARIABLES
    tpc,          \* where open() is in its try block
    direct,       \* params['rhv_direct']
    hostFound,    \* find_host returned a host
    transferUrl,  \* scheme of transfer.transfer_url, NoUrl when None
    proxyUrl,     \* scheme of transfer.proxy_url
    url,          \* scheme of destination_url
    probe,        \* the http made for OPTIONS: "none", "open", "closed"
    options,      \* get_options' result
    pool,         \* the connections put in the queue, in order
    connections   \* h['connections']

vars == <<tpc, direct, hostFound, transferUrl, proxyUrl, url, probe, options,
          pool, connections>>

Kinds == {"unix", "https", "http"}

Limits == Advertised \cup {1}

Options == [can_flush : BOOLEAN, can_zero : BOOLEAN,
            unix_socket : {NoSocket, SockPath},
            max_readers : Limits, max_writers : Limits]

TypeOK ==
    /\ tpc \in {"parse", "probe", "options", "pool", "opened", "failed"}
    /\ direct \in BOOLEAN
    /\ hostFound \in BOOLEAN
    /\ transferUrl \in Schemes \cup {NoUrl}
    /\ proxyUrl \in Schemes
    /\ url \in Schemes \cup {NoUrl}
    /\ probe \in {"none", "open", "closed"}
    /\ options \in Options \cup {NoOptions}
    /\ pool \in Seq(Kinds)
    /\ connections \in Nat

\* The smallest element of a finite set of integers.
Least(S) == CHOOSE m \in S : \A x \in S : m <= x

\* Mutant of OrDefault: j.get(key) without the default of 1.
OrDefaultNone(v) == v

\* j.get(key, 1)
OrDefault(v) == IF v = Absent THEN 1 ELSE v

(* create_http(url, unix_socket): a UnixHTTPConnection when a socket is   *)
(* given, unless its constructor raises; then by scheme, HTTPS or HTTP;   *)
(* any other scheme raises.                                                *)
TcpHttp(u) == IF u \in {"https", "http"} THEN u ELSE "raise"
CreateHttp(u, sock) ==
    IF sock = NoSocket THEN {TcpHttp(u)} ELSE {"unix", TcpHttp(u)}

\* The options of servers that answer OPTIONS with 405 or 204.
LegacyOptions ==
    [can_flush |-> FALSE, can_zero |-> FALSE, unix_socket |-> NoSocket,
     max_readers |-> 1, max_writers |-> 1]

Init ==
    /\ tpc = "parse"
    /\ direct \in BOOLEAN
    /\ hostFound \in IF direct THEN BOOLEAN ELSE {FALSE}
    /\ transferUrl \in Schemes \cup {NoUrl}
    /\ proxyUrl \in Schemes
    /\ url = NoUrl
    /\ probe = "none"
    /\ options = NoOptions
    /\ pool = <<>>
    /\ connections = 0

inputs == <<direct, hostFound, transferUrl, proxyUrl>>

(* parse_transfer_url: in direct mode the transfer URL, which must not be *)
(* None; otherwise the proxy URL.                                          *)
ParseTransferUrl ==
    /\ tpc = "parse"
    /\ \/ /\ direct /\ transferUrl = NoUrl
          /\ tpc' = "failed"
          /\ UNCHANGED url
       \/ /\ ~(direct /\ transferUrl = NoUrl)
          /\ url' = IF direct THEN transferUrl ELSE proxyUrl
          /\ tpc' = "probe"
    /\ UNCHANGED <<inputs, probe, options, pool, connections>>

\* http = create_http(destination_url): an unknown scheme raises.
CreateProbe ==
    /\ tpc = "probe"
    /\ \E h \in CreateHttp(url, NoSocket) :
         IF h = "raise" THEN tpc' = "failed" /\ UNCHANGED probe
         ELSE tpc' = "options" /\ probe' = "open"
    /\ UNCHANGED <<inputs, url, options, pool, connections>>

(* get_options: status 200 with JSON features and optional unix_socket,   *)
(* max_readers and max_writers (default 1); 405 or 204 from old servers;  *)
(* any other status, a failed request or a body without "features"        *)
(* raises, leaving the probe open.                                         *)
GetOptions ==
    /\ tpc = "options"
    /\ \/ \E f \in SUBSET {"flush", "zero"}, s \in {NoSocket, SockPath},
             r, w \in Advertised \cup {Absent} :
            /\ options' = [can_flush |-> "flush" \in f, can_zero |-> "zero" \in f,
                           unix_socket |-> s, max_readers |-> OrDefault(r),
                           max_writers |-> OrDefault(w)]
            /\ tpc' = "pool"
       \/ options' = LegacyOptions /\ tpc' = "pool"
       \/ tpc' = "failed" /\ UNCHANGED options
    /\ UNCHANGED <<inputs, url, probe, pool, connections>>

\* Mutant of PoolCount: the MAX_CONNECTIONS cap is left out.
PoolCountUncapped(o) == Least({o.max_readers, o.max_writers})

\* The number of connections create_http_pool makes.
PoolCount(o) == Least({o.max_readers, o.max_writers, MAX_CONNECTIONS})

\* Mutant of PoolSocket: the socket is used whether or not a host was found.
PoolSocketAnyHost(o) == o.unix_socket

\* The socket create_http_pool passes: only when a local host was found.
PoolSocket(o) == IF hostFound THEN o.unix_socket ELSE NoSocket

(* open(): http.close(), then create_http_pool puts count connections     *)
(* made by create_http(url, unix_socket) in the queue (range(count) is    *)
(* empty for count <= 0), and the handle records pool.qsize().            *)
CreatePool ==
    /\ tpc = "pool"
    /\ probe' = "closed"
    /\ pool' \in [1..PoolCount(options) -> CreateHttp(url, PoolSocket(options))]
    /\ connections' = Len(pool')
    /\ tpc' = "opened"
    /\ UNCHANGED <<inputs, url, options>>

\* open() has returned or raised.
Done == tpc \in {"opened", "failed"} /\ UNCHANGED vars

Next == ParseTransferUrl \/ CreateProbe \/ GetOptions \/ CreatePool \/ Done

Spec == Init /\ [][Next]_vars

-----------------------------------------------------------------------------
(* Properties.                                                            *)

(* Every pooled connection reaches the transfer's own imageio server      *)
(* (create_http_pool, create_http): it is a TCP connection with the       *)
(* destination URL's scheme, so an https transfer never falls back to     *)
(* plain HTTP, even when the Unix socket cannot be made; and it is a Unix *)
(* socket connection only in direct mode on the host find_host found,     *)
(* where the advertised socket path is local.                             *)
PoolFitsTransfer ==
    \A i \in DOMAIN pool :
        \/ pool[i] = url
        \/ pool[i] = "unix" /\ direct /\ hostFound
           /\ options.unix_socket = SockPath

(* The handle's h['connections'], the number of connections flush and     *)
(* close drain, is the number of connections in the queue, and it never   *)
(* exceeds MAX_CONNECTIONS nor the reader and writer limits the server    *)
(* sent (spec 3, Capability Options: "bounded by a hard cap").            *)
HandleSized ==
    tpc = "opened" =>
        /\ connections = Len(pool)
        /\ connections <= MAX_CONNECTIONS
        /\ connections <= options.max_readers
        /\ connections <= options.max_writers

(* An opened handle can serve I/O: its pool holds at least one connection *)
(* (spec 4.2: a checkout blocks until a peer returns a connection).       *)
PoolNonEmpty ==
    tpc = "opened" => connections > 0

=============================================================================
