# TLA+ models of the oVirt/RHV upload plugin

This directory holds the formal models of `src/v2v/rhv-upload-plugin.py`. That file is the
nbdkit Python plugin through which virt-v2v writes a converted disk into oVirt/RHV. Each
module states what it models in its header, and each action names, in a comment, the code it
translates. `PROJECT.json` maps every modelled definition to its source lines.

## The system

The plugin is one Python file of about 880 lines. nbdkit loads it and calls its handlers from
several worker threads at once, because `thread_model()` returns `THREAD_MODEL_PARALLEL`.

| Part | Code | What it does |
|---|---|---|
| configuration | `config`, `config_complete`, `read_password`, `parse_username` | reads `params` once, before any handle exists |
| failure flag | `failing` | decorates every handler; an exception sets `h['failed']` |
| lifecycle | `open`, `create_disk`, `create_transfer`, `cancel_transfer`, `finalize_transfer`, `close` | drives the oVirt engine through the SDK (see below) |
| transport | `parse_transfer_url`, `create_http`, `UnixHTTPConnection`, `get_options` | picks the imageio URL, opens a TCP or Unix connection, asks OPTIONS for features |
| connection pool | `create_http_pool`, `http_context`, `iter_http_pool`, `close_http_pool` | a `queue.Queue` of `min(max_readers, max_writers, 4)` connections |
| block I/O | `pread`, `pwrite`, `zero`, `emulate_zero`, `flush` | one HTTP exchange on a borrowed connection each; `flush` on every connection |
| capability queries | `can_trim`, `can_flush`, `can_fua`, `get_size` | constants read from the handle |

The lifecycle works like this:

- `open` creates a disk and polls it until it is OK.
- It then creates an image transfer and polls it until the phase is TRANSFERRING.
- It then sets up imageio. If any step after the transfer exists raises, `open` cancels the
  transfer; the engine then deletes the disk.
- `close` first takes every connection out of the pool (`close_http_pool`).
- If `h['failed']` is set, it cancels the transfer.
- Otherwise it finalizes the transfer and polls until FINISHED_SUCCESS, or until the transfer is
  removed with the disk OK. Only then does it write the disk id file for virt-v2v.
- Any error while finalizing cancels the transfer.
- Every polling loop sleeps one second per round and gives up after `timeout` seconds.

Between `open` and `close`, the block I/O handlers run concurrently and share the pool:

- A read, write or zero borrows one connection through `http_context` and puts it back in a
  `finally`.
- `flush` must be a barrier. `iter_http_pool` takes all `h["connections"]` connections out of
  the pool, one blocking `get()` at a time. It then sends a flush request on each and puts them
  all back.
- `close_http_pool` drains the pool in the same way, then closes every connection.

What makes the code hard to test:

- how threads interleave on the pool: drains racing ordinary requests, two drains racing each
  other, and errors raised while connections are out;
- the flush barrier across connections;
- how the plugin's polling deadlines interleave with an engine that moves on its own schedule:
  late successes, transfers removed under the plugin, and cancels refused in final phases.

## Modules

| Module | Models | State | Actions |
|---|---|---|---|
| `HttpPool` | pool and block I/O of one handle, `close_http_pool` | `idle` (the queue), per thread `pc`, `op`, `conn`, `locked`, `todo`, `err`, `fua`; `failed`; `closer`, `closing`; the imageio server's per-connection unflushed writes `cache`; `canFlush`, `canZero` from OPTIONS | `Invoke` (nbdkit dispatches a request, gated by `can_flush`/`can_fua`), `Checkout`, `Pread`, `Pwrite`, `Zero`, `EmulateZero`, `Checkin` (finally + `failing`), `DrainTake`, `DrainFull`, `FlushConn`, `FlushDone`, `Undrain` (the generator's finally), `BeginClose`, `CloseTake`, `Closed` |
| `Lifecycle` | `open`, `close` and the SDK helpers, against the engine | the plugin's place `ppc`, `polls` of the current loop, `failed`, `cancelCalled`, `diskIdWritten`, `result`; the engine's `diskStatus`, `diskHeld` (transfer lock), `xferPhase`, `xferExists` | plugin: `CreateDisk`, `DiskPoll`, `CreateTransfer`, `TransferPoll`, `OpenCancel`, `Setup`, `IoFailure`, `Close`, `FinalizePoll`, `Publish`, `CloseCancel`; engine: `DiskReady`, `TransferInitialized`, `TransferPaused`, `FinalizeDiskOk`, `FinalizeEnds`, `TransferRemoved` |
| `Transport` | `open()`'s try block: `parse_transfer_url`, `create_http`, `get_options`, `http.close()`, `create_http_pool`, the handle's `connections` | `tpc`; the inputs `direct`, `hostFound`, `transferUrl`, `proxyUrl`; `url`, `probe`, `options`, `pool` (the kinds of the queued connections), `connections` | `ParseTransferUrl`, `CreateProbe`, `GetOptions`, `CreatePool` |
| `ZeroEmulation` | the body loop and response of `emulate_zero` | `zpc`, `size`, `length` (Content-Length), `count`, `chunks` (the lengths sent), `received` (the body bytes the server got), `broken`, `result`, `reported` | `SendFull`, `SendLast`, `BrokenPipe`, `Response` |
| `PoolSpec` | what the pool promises, without queues or drains | `owner` of each connection (`Free`, a thread, or `Closer`), `closing` | `Acquire`, `Release`, `BeginClose`, `CloseAcquire` |
| `PoolRefinement` | `HttpPool` seen through the owner mapping | (HttpPool's) | `PoolRefines == Pool!Spec` |
| `SessionSpec` | what a handle promises virt-v2v, without engine phases or polling | `stage`, `ioFailed`, `published`, `usable`, `cancelled` | `Opened`, `OpenFails`, `IoFails`, `BeginClose`, `Publish`, `CloseFails`, `DiskChanges` |
| `LifecycleRefinement` | `Lifecycle` seen through the session mapping | (Lifecycle's) | `SessionRefines == Session!Spec` |
| `MC_HttpPool`, `MC_Lifecycle`, `MC_Transport`, `MC_ZeroEmulation`, `MC_PoolRefinement` | TLC instances (`MC_Lifecycle` extends `LifecycleRefinement`) | | |
| `HttpPoolProofs`, `LifecycleProofs`, `TransportProofs`, `ZeroEmulationProofs`, `PoolRefinementProofs`, `LifecycleRefinementProofs` | TLAPS proofs | | |

### Abstractions in HttpPool

- **The queue.** The pool's FIFO order is not kept: `pool.get()` may return any idle
  connection, so the model allows more behaviours than the code. A `get()` on an empty queue
  blocks; the model shows this as the action not being enabled.
- **The server.** The imageio server is the environment. It is modelled only by what the flush
  barrier depends on: each connection holds its writes until a write with `flush=y`, or a flush
  PATCH, arrives on that connection.
- **Failures.** Every request may fail. A failed write may or may not have reached the server.
- **Data.** Byte ranges, headers and JSON bodies are left out; a write is named by
  `<<thread, request number>>`.
- **`emulate_zero`.** Here it is one request on a borrowed connection. What goes over that
  connection, the chunked body, is the `ZeroEmulation` module.

### Abstractions in Lifecycle

- **The engine.** Its transitions are the ones the code's comments and docstrings rely on:
  - a new disk is LOCKED, then becomes OK;
  - a transfer goes from INITIALIZING to TRANSFERRING, PAUSED_SYSTEM, UNKNOWN or
    FINISHED_FAILURE;
  - finalizing sets the disk OK while the transfer still holds its lock, and only then moves to
    FINISHED_SUCCESS and releases the lock; or the disk becomes ILLEGAL and the transfer fails
    or pauses;
  - a finished or cancelled transfer may be removed, and it takes its disk with it unless it
    succeeded;
  - `cancel` succeeds only in a live phase and raises otherwise.
- **Time.** `time.time() > endt` is abstracted to a nondeterministic choice:
  `Expired(n)` allows the deadline to have passed after any sleep, and forces it after
  `Timeout` sleeps.
- **Block I/O.** Between `open` and `close`, the block I/O appears only as `IoFailure`, which
  sets `h['failed']`.
- **The SDK connection.** `sdkOpen` is set by `CreateDisk`, where `open()` makes the
  `sdk.Connection` before `find_host` and `create_disk`. It is cleared only by `Publish` and
  `CloseCancel`, the `finally` clauses of `close()`. `OpenCancel` and every other failed
  `open` leave it set.
- **The imageio setup.** `Setup` abstracts `open()`'s try block to "may raise". `Transport`
  models the same block in detail.

### Abstractions in Transport

- A URL is reduced to its scheme: `https`, `http` or anything else, which `create_http` rejects.
  A connection is reduced to its kind: `unix`, `https` or `http`.
- `transfer_url`, `proxy_url`, `rhv_direct` and whether `find_host` found this host are inputs
  chosen in `Init`. `find_host` runs only in direct mode.
- The OPTIONS reply is chosen in `GetOptions`:
  - status 200 with any feature set, a socket or none, and limits from `Advertised` or absent
    (default 1);
  - 405 or 204 (legacy options);
  - anything else, a failed request or a body without `features` (raise).
- The `UnixHTTPConnection` constructor may raise for each pooled connection; the code then
  falls back to TCP. `UnixHTTPConnection.connect` is socket I/O and is not modelled.
- `Advertised` holds naturals; the theorems assume this. A negative limit would make
  `range(count)` empty, as 0 does.

### Abstractions in ZeroEmulation

- Bytes are counted, not represented. `BufLen` stands for the 128 KiB buffer.
- Offsets, the `flush` query flag and the headers other than Content-Length are left out; the
  pool side of the call is HttpPool's `EmulateZero`.
- Any `http.send` may raise `BrokenPipeError`, which ends the body early.
- The server answers 200 only to a body as long as its Content-Length, and otherwise may answer
  anything. It counts the bytes it received in `received`, which `SendFull` and `SendLast` add
  to as they send. So "the body totals the Content-Length" is a fact about a counter, not a sum
  over `chunks`, and TLAPS can prove it.

### The abstract pool and the refinement

`PoolSpec` states what the rest of the plugin relies on:

- each connection is free or has exactly one owner;
- a worker thread takes free connections one at a time and gives back all it holds at once;
- close starts only when every connection is free, and from then on only the closer takes
  connections.

`PoolRefinement` maps `HttpPool` onto it:

- `poolOwner[c]` is `Free` for a connection in the queue and `Closer` for one in
  `close_http_pool`'s list;
- otherwise it is the thread whose `http_context` or `iter_http_pool` holds `c`.

Under this mapping:

- `Checkout` and `DrainTake` are `Acquire`;
- `Checkin` and `Undrain` are `Release`;
- `BeginClose` is `BeginClose`, and `CloseTake` is `CloseAcquire`;
- every other step leaves the owners unchanged and is a stutter.

### The abstract session and the refinement

`SessionSpec` states what one handle promises virt-v2v:

- `open` either fails (with or without a cancel) or serves I/O;
- an I/O failure is final;
- `close` ends the session once: either it publishes the disk id, which it may do only with no
  failed I/O, no cancel issued and a usable disk, or it attempts a cancel;
- the engine may make the disk usable or not, but never once its id is published.

`LifecycleRefinement` maps `Lifecycle` onto it:

- `sessionStage` is "opening" up to the handle's return, "serving" in `opened`, "closing" in
  the finalize loop, the close cancel and the publish step, and "ended" at `done`;
- the disk is usable when the engine reports it OK and no transfer holds its lock;
- `ioFailed`, `published` and `cancelled` are `failed`, `diskIdWritten` and `cancelCalled`.

Under this mapping:

- an early return of `open` is `OpenFails`, `Setup` is `Opened`;
- `IoFailure` is `IoFails` and `Close` is `BeginClose`;
- `Publish` is `Publish` and `CloseCancel` is `CloseFails`;
- `create_transfer` locking a usable disk, and engine steps that change the disk, are
  `DiskChanges`;
- the polling loops and the rest of the engine's steps are stutters.

## Runs

| Run | cfg | Bounds | Checks | Result |
|---|---|---|---|---|
| httppool_safety | `MC_HttpPool_safety.cfg` | 2 threads, 2 connections, 1 flusher, 3 requests per thread; symmetry over connections | `TypeOK`, `PoolPartition`, `FlushBarrier`, deadlock | pass, ~1.9M states |
| httppool_live | `MC_HttpPool_live.cfg` | same, 2 requests per thread | `OpsComplete` | pass |
| httppool_twoflush | `MC_HttpPool_twoflush.cfg` | both threads may flush | `OpsComplete` | violation (finding 1) |
| lifecycle | `MC_Lifecycle.cfg` | `Timeout = 3` polls | `TypeOK`, `DiskIdMeansUsableDisk`, `UnwindOnFailure`, `LifecycleTerminates`, `SessionRefines`, deadlock | pass, 182 states |
| lifecycle_leftover | `MC_Lifecycle_leftover.cfg` | `Timeout = 3` | `NoLeftoverDisk` | violation (finding 2) |
| lifecycle_finalize | `MC_Lifecycle_finalize.cfg` | `Timeout = 3` | `FailedCloseDeletesDisk` | violation (finding 3) |
| lifecycle_sdkleak | `MC_Lifecycle_sdkleak.cfg` | `Timeout = 3` | `ConnectionNeverLeaked` | violation (finding 4) |
| pool_refines | `MC_PoolRefinement.cfg` | 2 threads, 2 connections, 1 flusher, 2 requests per thread | `PoolRefines`, deadlock | pass, ~330k states |
| transport | `MC_Transport.cfg` | `MAX_CONNECTIONS = 4`; limits {0, 1, 2, 5} or absent; schemes https, http, ftp | `TypeOK`, `PoolFitsTransfer`, `HandleSized`, deadlock | pass, ~6k states |
| transport_emptypool | `MC_Transport_empty.cfg` | same | `PoolNonEmpty` | violation (finding 5) |
| zero_emulation | `MC_ZeroEmulation.cfg` | `BufLen = 4`, sizes 1..13 | `TypeOK`, `BodyMatchesSpec`, deadlock | pass |
| zero_emulation_report | `MC_ZeroEmulation_report.cfg` | same | `ErrorNamesRequestSize` | violation (finding 6) |

Why the bounds are enough:

- **Pool runs.** With two threads and two connections, every race the code can have occurs:
  - a drain holds one connection while a request holds the other;
  - a flush overtakes a write sent on the other connection;
  - an error is raised on either path;
  - close runs after either.

  Three requests per thread allow write, write and flush, and flush, write and flush. A third
  thread adds no new kind of interleaving for the pool, whose size is the constant
  `connections`.
- **Lifecycle runs.** `Timeout = 3` lets a loop sleep, see the engine move, and still reach its
  deadline. Each engine transition can come before or after each deadline.
- **Transport.** The limits 0, 1, 2 and 5, together with the cap of 4, put each of the three
  arguments of `min()` in turn below the others, and also give the empty pool. With a socket and
  a failing Unix constructor, pools of up to 4 connections mix Unix and TCP connections.
- **ZeroEmulation.** With a buffer of 4 and sizes up to 13, the sizes cover less than one
  buffer, exact multiples (4, 8, 12) and remainders after one, two and three full buffers. The
  loop's arithmetic does not depend on the buffer being 128 KiB.

Passing runs check deadlock, except `httppool_live`. There a blocked thread shows up as a
violation of `OpsComplete`, and the safety run already checks deadlock on the same model.

### Properties

HttpPool:

- **`PoolPartition`.** Every connection is in exactly one place: the queue, one request's
  `http_context`, one flush's locked list, or `close_http_pool`'s list. This covers spec §3's
  pool invariant. It breaks if any error path forgets to put a connection back.
- **`FlushBarrier`.** When a flush is about to return success, every write that the server held
  unflushed when nbdkit called flush has been flushed, on whichever connection it arrived. The
  mutant in which the drain stops one connection short breaks it.
- **`OpsComplete`.** Every request returns.

Lifecycle:

- **`DiskIdMeansUsableDisk`.** The disk id file is written only for a handle with no failed
  I/O, and only when the disk is OK and no longer locked. Reading the disk status while the
  transfer still exists would break it.
- **`UnwindOnFailure`.** After the transfer exists, every failure of `open` or `close` calls
  cancel, unless the plugin saw the engine failing or removing the transfer.
- **`LifecycleTerminates`.** `open` and a started `close` always return.
- No property is kept for `close`'s `finally` closing the `sdk.Connection`. `CloseCancel` does the
  cancel and the `finally` in one step. A cancel that raises is folded into that step, so the
  property would only restate the step's `sdkOpen' = FALSE`. The leak that matters is open's,
  checked by `ConnectionNeverLeaked` (finding 4).

Transport:

- **`PoolFitsTransfer`.** Every pooled connection reaches the transfer's own server:
  - a TCP connection uses the URL's scheme, so an https transfer never falls back to http, even
    when the Unix constructor fails;
  - a Unix socket connection is made only in direct mode on the host `find_host` found.
- **`HandleSized`.** `h['connections']`, the number of `get()` calls that flush and close make,
  equals the number of queued connections. It is at most `MAX_CONNECTIONS` and at most the
  server's reader and writer limits.

ZeroEmulation:

- **`BodyMatchesSpec`.** Unless the pipe broke, the body has the chunking spec §8 states and
  totals exactly the Content-Length announced, so the connection ends at a request boundary.

The refinement:

- **`PoolRefines`.** `HttpPool` implements `PoolSpec` under `poolOwner` (model-checked, and
  proved for all constants). Beyond `PoolPartition`, it says that a thread gives back every
  connection it holds at once, which the finally of `iter_http_pool` must do. It also says that
  nothing is taken once close has started. That part rests on nbdkit's guarantee in
  `BeginClose`, together with `Invoke`'s `~closing`: it is an assumption about the
  environment, not plugin code.
- **`SessionRefines`.** `Lifecycle` implements `SessionSpec` under the session mapping
  (model-checked, and proved for every timeout).

### Fairness

- **HttpPool.** Each worker thread's steps are weakly fair, and so is `close_http_pool`. They
  are OS threads, and a thread whose next step stays enabled runs. `Invoke` and `BeginClose`
  are not fair: the NBD client owes no requests and no disconnect.
- **Lifecycle.** The plugin's steps outside the opened state are weakly fair, because the one
  thread running `open` or `close` is never starved. The engine gets no fairness; the
  deadlines exist because the engine may stall. `close` is not fair either, since the client
  may keep the device open forever.

### Mutants

Each property of a passing run is broken by a plausible bug in the definition it is about.

| Mutant | Bug | Property it breaks |
|---|---|---|
| `CheckinSwapped` | clears the handle before `pool.put` | `TypeOK` |
| `CheckinOnSuccess` | no `finally` around `pool.put` | `PoolPartition` |
| `connectionsOffByOne` | drains one connection short | `FlushBarrier` |
| `UndrainOnSuccess` | no `finally` in `iter_http_pool` | `OpsComplete` |
| `ExpiredNever` | a loop with no deadline test | `TypeOK` |
| `FinalizePollDiskStatus` | trusts the disk status | `DiskIdMeansUsableDisk` |
| `OpenCancelNoCancel` | re-raises without cancel | `UnwindOnFailure` |
| `TransferPollNoDeadline` | no deadline in `create_transfer` | `LifecycleTerminates` |
| `UndrainPending` | `iter_http_pool`'s `finally` returns only the connections not yet yielded | `PoolRefines` |
| `PublishThenCancel` | `cancel_transfer` in close's `finally`, so a published transfer is canceled too | `SessionRefines` |
| `OrDefaultNone` | `j.get("max_readers")` without the default | `TypeOK` (Transport) |
| `PoolSocketAnyHost` | the Unix socket used without a local host | `PoolFitsTransfer` |
| `PoolCountUncapped` | the pool size not capped at `MAX_CONNECTIONS` | `HandleSized` |
| `SendFullGe` | `while count >= len(buf)` | `BodyMatchesSpec` |
| `SendFullUnguarded` | a full buffer sent whatever is left | `TypeOK` (ZeroEmulation) |

## Findings

1. **Two concurrent flushes deadlock** (`iter_http_pool`, line 764). Each flush takes
   connections one `get()` at a time. Two flushes on different threads can each hold part of
   the pool and wait forever for the rest. The NBD protocol allows a client to have two flushes
   in flight. With one flusher, every request completes.
2. **A failed open can leave a disk behind** (lines 518 and 537).
   - `create_disk` can time out after the disk was created.
   - `image_transfers_service.add` can raise after the disk was created.

   In both cases `open` raises with no transfer owning the disk, and nothing deletes it. Spec
   §9 lists this as open.
3. **A finalize timeout races a late success** (lines 695 and 389).
   - The deadline passes while the transfer is FINALIZING_SUCCESS.
   - The engine then completes the transfer.
   - `close` calls `cancel`, which the engine refuses in FINISHED_SUCCESS.
   - `close` fails and writes no disk id, but the disk is kept, OK and finalized.
4. **A failed open leaks the SDK connection** (line 121). `open` makes the `sdk.Connection`
   first. When `find_host`, `create_disk` or `create_transfer` raise, or the except clause at
   line 149 re-raises, nothing closes the connection. nbdkit never calls `close` for a handle
   that `open` did not return, so the engine session is never released.
5. **A server limit of 0 gives an empty pool** (line 723). `get_options` trusts
   `max_readers` and `max_writers`. With 0, `create_http_pool` makes no connection, yet `open`
   succeeds. Every `pread`, `pwrite` and `zero` then blocks forever in `pool.get()`, and `flush`
   succeeds having flushed nothing. The spec sizes the pool from the server's limits but says
   nothing about 0.
6. **A failed emulated zero reports the wrong size** (line 336). `emulate_zero` counts `count`
   down in its send loop, then names it as the size in its error message. For a request
   longer than 128 KiB, the message gives the last chunk's length instead of the request's.

## Proofs (TLAPS)

| Module | Theorem | Statement |
|---|---|---|
| `HttpPoolProofs` | `TypeCorrect` | `Spec => []TypeOK` |
| `HttpPoolProofs` | `PoolConservation` | `Spec => []PoolPartition` |
| `LifecycleProofs` | `TypeCorrect` | `Spec => []TypeOK` |
| `LifecycleProofs` | `DiskIdUsable` | `Spec => []DiskIdMeansUsableDisk` |
| `HttpPoolProofs` | `FlushIsBarrier` | `Spec => []FlushBarrier` |
| `LifecycleProofs` | `Unwinds` | `Spec => []UnwindOnFailure` |
| `TransportProofs` | `PoolFits` | `Spec => []PoolFitsTransfer` |
| `TransportProofs` | `Sized` | `Spec => []HandleSized` |
| `PoolRefinementProofs` | `Refinement` | `Spec => PoolRefines`, i.e. `HttpPool` implements `PoolSpec` |
| `TransportProofs` | `TypeCorrect` | `Spec => []TypeOK` |
| `ZeroEmulationProofs` | `TypeCorrect` | `Spec => []TypeOK` |
| `ZeroEmulationProofs` | `BodyChunked` | `Spec => []BodyMatchesSpec` |
| `LifecycleRefinementProofs` | `Refinement` | `Spec => SessionRefines`, i.e. `Lifecycle` implements `SessionSpec` |

Each theorem holds for every value of the constants. The assumptions are those named in the
modules that declare the constants:

- `ConstantsAssumption`: finite non-empty sets of threads and connections, and `MaxOps \in Nat`;
- `TimeoutAssumption`: `Timeout` is a positive natural;
- `TransportAssumption`: `MAX_CONNECTIONS` and the advertised limits are naturals, https and
  http are among the schemes, and the sentinels are distinct;
- `OwnerAssumption`: `Free` and `Closer` are distinct and are not threads.

Each theorem rests on an inductive invariant `IInv`. That invariant was checked with TLC
before it was proved. The proofs show that `Init => IInv` and `IInv /\ [Next]_vars => IInv'`,
with one step per action, and conclude by PTL.

- **HttpPool.** `IInv` is `TypeOK /\ ConnMatchesPc /\ PoolPartition`. `ConnMatchesPc` says that
  a thread holds a connection from `http_context` exactly in the `exchange` and `checkin`
  steps. Without it, `Checkout` could overwrite a connection a thread already holds, and
  `PoolPartition` alone would not be inductive.
- **The flush barrier.** `FlushBarrier` is not inductive. `BInv` adds three conjuncts to `IInv`:
  - `FullDrain`: a flush that has left its drain loop holds every connection.
  - `FlushedSoFar`: a connection that a successful flush has already sent to holds none of the
    writes it owes.
  - `SentAll`: the for loop ends without error only once `todo` is empty.

  `FullDrain` follows from the loop's exit test `len(locked) >= h["connections"]` by
  `FS_Subset` of FiniteSetTheorems (lemma `DrainedAll`). With `PoolPartition`, it gives
  `NoRequestDuringFlush`: while a flush holds the pool, no other handler is sending, so no
  write reaches any server cache. A `FlushConn` only empties caches. `BInv` was checked with
  TLC first, with one and with two flushers.
- **Lifecycle.** `IInv` adds three conjuncts:
  - `CreationOrder`: no transfer exists before `add` returns.
  - `EngineOrder`: FINISHED_SUCCESS implies the disk is OK and unlocked, and a removed transfer
    that did not succeed took its disk with it.
  - `FinalizeContext`: the finalize loop runs only for an unfailed handle with a transfer, and
    it publishes only once the phase is FINISHED_SUCCESS.

  The invariant also includes `ResultFinal`: `result` leaves "pending" exactly at `done`. With
  it, `UnwindOnFailure` is itself inductive, since nothing
  in the plugin moves after `done` and the engine cannot bring back a removed transfer.

  The lemma `ExpiredBound` bounds the polling counter: a loop sleeps again only before
  `Timeout` sleeps.
- **Transport.** `IInv` adds `Stage`, the facts fixed along `open()`:
  - `find_host` runs only in direct mode;
  - the URL is http or https once `create_http` accepted it;
  - `options` is a dict before the pool is made;
  - the queue is empty until `create_http_pool`.

  The lemma `LeastOfThree` gives what `min()` of three numbers returns. `LenOfFcn` says that
  the function the pool loop builds is a sequence of that length.
- **Refinement.** `RInv` strengthens HttpPool's `IInv` with two conjuncts:
  - `LockedMatchesPc`: only a thread in a drain holds locked connections.
  - `ClosingQuiet`: while close runs, every thread is ready, and before it nothing is in
    `close_http_pool`'s list.

  Without them, `poolOwner` would not be a function into owners, and `BeginClose` would not
  map to the abstract `BeginClose`. The lemmas are:
  - `OwnerNow` and `OwnerNext`: the owner of a connection in each place, now and after a step;
  - `OwnerKept`: a step that leaves a connection's place alone keeps its owner;
  - `OwnerFcn`: `poolOwner` is a function on `Conns`.

  `RefineStep` shows that every HttpPool step is an abstract step or a stutter. `Refinement`
  combines it with `Init => Pool!Init` by PTL.
- **ZeroEmulation.** `IInv` is `TypeOK /\ length = size` plus three conjuncts:
  - `SendLoop`: inside the while loop, only full buffers have been sent, at least one byte is
    left, and `received + count = size`;
  - `CutShort`: after a broken pipe, `received + count = size` still holds;
  - `LastSent`: after the last send, the last chunk has 1..`BufLen` bytes, `received = size`,
    and `chunks = SpecChunks(size)`.

  The lemma `LastChunk` is the arithmetic behind spec §8. A size of `k` full buffers plus `c`
  bytes, with `1 <= c <= BufLen`, has `k + 1` chunks, and the last one is `c`. `SpecChunksLast`
  turns this into "the spec's chunking is the full buffers sent so far, with the last chunk
  appended", which is what `SendLast` does.
- **Lifecycle refinement.** `RInv` is Lifecycle's `IInv` plus `CancelAtEnd`: a cancel has been
  attempted only at `done`. With it, a running `open` or `close` has neither published nor
  cancelled (lemma `Running`), so `OpenFails` and `Publish` have their abstract guards.
  `Publish` also needs a usable disk, which comes from `FinalizeContext` (the phase is
  FINISHED_SUCCESS) and `EngineOrder` (that phase means the disk is OK and unlocked).
  `PublishedStable` shows that once the id is written, the only engine step enabled is the
  transfer's removal, which keeps the disk. That is the abstract `DiskChanges` guard.
  `RefineStep` has one case per action, and `Refinement` combines it with
  `Init => Session!Init` by PTL.

Some things stay with TLC alone:

- **Liveness.** `OpsComplete` and `LifecycleTerminates` need fairness and ENABLED, which
  TLAPS cannot handle here.
- **Properties of the violation runs.** They are false by design (findings) and have no
  theorem.
- **Every invariant of the passing runs has a theorem.** What stays TLC-only is liveness and the
  violated properties.

## Not modelled

- **Configuration, password and user parsing, logging.** They are read once, before any
  handle exists.
- **`find_host`.** A read-only query. Its only effect is that it may raise, which is a
  disjunct of `CreateDisk`.
- **Which exception reaches nbdkit.** A `cancel` that raises replaces the original error. The
  model records only whether cancel was called.
- **The contents of HTTP responses.** Status and length checks are modelled only by their
  outcome: success or a raise.

## Plan

Next steps, in this order:

1. A `Plugin` module that composes `Lifecycle` with `HttpPool`, so that `failed` comes from
   real I/O failures and `close` waits for `close_http_pool`.
2. `Transport`'s output as `HttpPool`'s input: `canFlush`, `canZero` and the pool size taken
   from the OPTIONS reply instead of chosen freely.
