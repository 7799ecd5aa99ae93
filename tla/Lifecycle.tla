----------------------------- MODULE Lifecycle -----------------------------
(***************************************************************************)
(* The control-plane side of rhv-upload-plugin.py: open() creating the     *)
(* disk (create_disk) and the image transfer (create_transfer), the        *)
(* imageio setup that follows, and close() finalizing the transfer         *)
(* (finalize_transfer) or canceling it (cancel_transfer).  The block I/O   *)
(* between open and close is abstracted to its only effect on this part:   *)
(* it may set h['failed'] (HttpPool models it in full).                    *)
(*                                                                         *)
(* The oVirt engine is the environment.  Its transitions are the ones the  *)
(* code's comments rely on: a new disk is LOCKED until ready; a transfer   *)
(* goes INITIALIZING -> TRANSFERRING, or pauses, or fails; finalizing      *)
(* sets the disk OK while still holding its lock, then FINISHED_SUCCESS    *)
(* and the lock is released; a failed or canceled transfer is removed      *)
(* with its disk; engines older than 4.4.7 also remove a successful one.   *)
(*                                                                         *)
(* Every polling loop sleeps one second per iteration and gives up when    *)
(* time.time() > endt.  polls counts the sleeps of the current loop; the   *)
(* deadline may pass after any iteration (RPCs take time) and has passed   *)
(* once Timeout sleeps are done.                                           *)
(***************************************************************************)
EXTENDS Naturals

CONSTANT Timeout    \* the module's timeout, in one-second polls

ASSUME TimeoutAssumption == Timeout \in Nat \ {0}

VARIABLES
    ppc,           \* where the plugin is in open() / close()
    polls,         \* sleeps done by the current polling loop
    failed,        \* h['failed']
    cancelCalled,  \* the plugin has called cancel on the transfer
    diskIdWritten, \* params['diskid_file'] has been written
    result,        \* how open()/close() ended
    diskStatus,    \* engine: the disk's status, "none" when absent
    diskHeld,      \* engine: the transfer holds a lock on the disk
    xferPhase,     \* engine: the transfer's phase, "none" before creation
    xferExists,    \* engine: the transfer object can be fetched
    sdkOpen        \* the sdk.Connection made by open() is not closed

vars == <<ppc, polls, failed, cancelCalled, diskIdWritten, result,
          diskStatus, diskHeld, xferPhase, xferExists, sdkOpen>>

Locations == {"start", "disk_wait", "transfer_add", "transfer_wait",
              "open_cancel", "setup", "opened", "finalize_wait",
              "close_cancel", "publish", "done"}

Phases == {"none", "INITIALIZING", "TRANSFERRING", "PAUSED_SYSTEM",
           "FINALIZING_SUCCESS", "FINISHED_SUCCESS", "FINISHED_FAILURE",
           "CANCELLED", "UNKNOWN"}

Results == {"pending", "open_failed", "closed_ok", "closed_error"}

TypeOK ==
    /\ ppc \in Locations
    /\ polls \in 0..Timeout
    /\ failed \in BOOLEAN
    /\ cancelCalled \in BOOLEAN
    /\ diskIdWritten \in BOOLEAN
    /\ result \in Results
    /\ diskStatus \in {"none", "LOCKED", "OK", "ILLEGAL"}
    /\ diskHeld \in BOOLEAN
    /\ xferPhase \in Phases
    /\ xferExists \in BOOLEAN
    /\ sdkOpen \in BOOLEAN

\* Mutant of Expired: a polling loop that never tests its deadline.
ExpiredNever(n) == {FALSE}

\* Whether time.time() > endt may hold after n one-second sleeps.
Expired(n) == IF n >= Timeout THEN {TRUE} ELSE BOOLEAN

\* Phases in which the engine accepts a cancel.
Cancellable == {"INITIALIZING", "TRANSFERRING", "PAUSED_SYSTEM",
                "FINALIZING_SUCCESS", "UNKNOWN"}

plugin == <<ppc, polls, failed, cancelCalled, diskIdWritten, result, sdkOpen>>
engine == <<diskStatus, diskHeld, xferPhase, xferExists>>

\* Leave open()/close() with outcome r.
Finish(r) == ppc' = "done" /\ result' = r

-----------------------------------------------------------------------------
(* The plugin.                                                            *)

Init ==
    /\ ppc = "start"
    /\ polls = 0
    /\ failed = FALSE
    /\ cancelCalled = FALSE
    /\ diskIdWritten = FALSE
    /\ result = "pending"
    /\ diskStatus = "none"
    /\ diskHeld = FALSE
    /\ xferPhase = "none"
    /\ xferExists = FALSE
    /\ sdkOpen = FALSE

(* The RPC transfer_service.cancel(): the engine cancels a live transfer; *)
(* otherwise the call raises and changes nothing.                         *)
CancelRpc ==
    /\ cancelCalled' = TRUE
    /\ IF xferExists /\ xferPhase \in Cancellable
       THEN xferPhase' = "CANCELLED"
       ELSE UNCHANGED xferPhase

(* open(): sdk.Connection, then find_host and create_disk's              *)
(* disks_service.add; either SDK call may raise, which fails open with    *)
(* no disk created and the connection left open.                          *)
CreateDisk ==
    /\ ppc = "start"
    /\ sdkOpen' = TRUE
    /\ \/ /\ diskStatus' = "LOCKED"
          /\ ppc' = "disk_wait"
          /\ UNCHANGED result
       \/ /\ Finish("open_failed")
          /\ UNCHANGED diskStatus
    /\ UNCHANGED <<polls, failed, cancelCalled, diskIdWritten, diskHeld,
                   xferPhase, xferExists>>

(* create_disk's loop: sleep, get the disk, stop when it is OK, raise     *)
(* when the deadline has passed.  Nothing is cleaned up on the timeout.   *)
DiskPoll ==
    /\ ppc = "disk_wait"
    /\ \/ /\ diskStatus = "OK"
          /\ ppc' = "transfer_add"
          /\ UNCHANGED <<polls, result>>
       \/ /\ diskStatus # "OK"
          /\ \E expired \in Expired(polls + 1) :
               IF expired THEN Finish("open_failed") /\ UNCHANGED polls
               ELSE polls' = polls + 1 /\ UNCHANGED <<ppc, result>>
    /\ UNCHANGED <<failed, cancelCalled, diskIdWritten, sdkOpen, engine>>

(* create_transfer: image_transfers_service.add.  From here on the        *)
(* transfer owns the disk, which the engine locks for the upload.  If add *)
(* raises, open fails.                                                    *)
CreateTransfer ==
    /\ ppc = "transfer_add"
    /\ \/ /\ xferPhase' = "INITIALIZING"
          /\ xferExists' = TRUE
          /\ diskHeld' = TRUE
          /\ diskStatus' = "LOCKED"
          /\ ppc' = "transfer_wait"
          /\ polls' = 0
          /\ UNCHANGED result
       \/ /\ Finish("open_failed")
          /\ UNCHANGED <<polls, diskStatus, diskHeld, xferPhase, xferExists>>
    /\ UNCHANGED <<failed, cancelCalled, diskIdWritten, sdkOpen>>

\* Mutant of TransferPoll: the deadline test is dropped.
TransferPollNoDeadline ==
    /\ ppc = "transfer_wait"
    /\ \/ /\ \/ ~xferExists
             \/ xferPhase = "FINISHED_FAILURE"
          /\ Finish("open_failed")
       \/ /\ xferExists
          /\ xferPhase \notin {"FINISHED_FAILURE", "INITIALIZING"}
          /\ ppc' = IF xferPhase = "TRANSFERRING" THEN "setup" ELSE "open_cancel"
          /\ UNCHANGED result
       \/ /\ xferExists
          /\ xferPhase = "INITIALIZING"
          /\ UNCHANGED <<ppc, result>>
    /\ UNCHANGED <<polls, failed, cancelCalled, diskIdWritten, sdkOpen, engine>>

(* create_transfer's loop: sleep, get the transfer, then in this order:   *)
(* NotFoundError or FINISHED_FAILURE raise; PAUSED_SYSTEM cancels and     *)
(* raises; TRANSFERRING ends the loop; any phase but INITIALIZING         *)
(* cancels and raises; a passed deadline cancels and raises.              *)
TransferPoll ==
    /\ ppc = "transfer_wait"
    /\ \/ /\ \/ ~xferExists
             \/ xferPhase = "FINISHED_FAILURE"
          /\ Finish("open_failed")
          /\ UNCHANGED polls
       \/ /\ xferExists
          /\ xferPhase # "FINISHED_FAILURE"
          /\ xferPhase # "INITIALIZING"
          /\ ppc' = IF xferPhase = "TRANSFERRING" THEN "setup" ELSE "open_cancel"
          /\ UNCHANGED <<polls, result>>
       \/ /\ xferExists
          /\ xferPhase = "INITIALIZING"
          /\ \E expired \in Expired(polls + 1) :
               IF expired THEN ppc' = "open_cancel" /\ UNCHANGED polls
               ELSE polls' = polls + 1 /\ UNCHANGED ppc
          /\ UNCHANGED result
    /\ UNCHANGED <<failed, cancelCalled, diskIdWritten, sdkOpen, engine>>

\* Mutant of OpenCancel: open's except clause re-raises without canceling.
OpenCancelNoCancel ==
    /\ ppc = "open_cancel"
    /\ Finish("open_failed")
    /\ UNCHANGED <<polls, failed, cancelCalled, diskIdWritten, diskStatus,
                   diskHeld, xferPhase, xferExists, sdkOpen>>

(* The cancel of create_transfer, or open's except clause calling         *)
(* cancel_transfer; then the error propagates out of open.                *)
OpenCancel ==
    /\ ppc = "open_cancel"
    /\ CancelRpc
    /\ Finish("open_failed")
    /\ UNCHANGED <<polls, failed, diskIdWritten, diskStatus, diskHeld,
                   xferExists, sdkOpen>>

(* open's try block: parse_transfer_url, create_http, get_options and     *)
(* create_http_pool; any of them may raise (no transfer_url in direct     *)
(* mode, an unknown URL scheme, an unexpected OPTIONS status).            *)
Setup ==
    /\ ppc = "setup"
    /\ ppc' \in {"opened", "open_cancel"}
    /\ UNCHANGED <<polls, failed, cancelCalled, diskIdWritten, result, sdkOpen,
                   engine>>

(* A pread, pwrite, zero or flush raised: the failing decorator sets      *)
(* h['failed'].                                                           *)
IoFailure ==
    /\ ppc = "opened"
    /\ failed' = TRUE
    /\ UNCHANGED <<ppc, polls, cancelCalled, diskIdWritten, result, sdkOpen,
                   engine>>

(* close(): after close_http_pool, a failed handle goes to cancel; else   *)
(* transfer_service.finalize(), which raises unless the transfer is live  *)
(* and transferring, sending close to its except clause.                  *)
Close ==
    /\ ppc = "opened"
    /\ \/ /\ failed
          /\ ppc' = "close_cancel"
          /\ UNCHANGED <<polls, xferPhase>>
       \/ /\ ~failed
          /\ xferExists /\ xferPhase = "TRANSFERRING"
          /\ xferPhase' = "FINALIZING_SUCCESS"
          /\ ppc' = "finalize_wait"
          /\ polls' = 0
       \/ /\ ~failed
          /\ ~(xferExists /\ xferPhase = "TRANSFERRING")
          /\ ppc' = "close_cancel"
          /\ UNCHANGED <<polls, xferPhase>>
    /\ UNCHANGED <<failed, cancelCalled, diskIdWritten, result, sdkOpen,
                   diskStatus, diskHeld, xferExists>>

(* Mutant of FinalizePoll: success is read from the disk status while    *)
(* the transfer still exists.                                             *)
FinalizePollDiskStatus ==
    /\ ppc = "finalize_wait"
    /\ \/ /\ ~xferExists
          /\ ppc' = IF diskStatus = "OK" THEN "publish" ELSE "close_cancel"
          /\ UNCHANGED polls
       \/ /\ xferExists
          /\ diskStatus = "OK"
          /\ ppc' = "publish"
          /\ UNCHANGED polls
       \/ /\ xferExists
          /\ diskStatus # "OK"
          /\ \E expired \in Expired(polls + 1) :
               IF expired THEN ppc' = "close_cancel" /\ UNCHANGED polls
               ELSE polls' = polls + 1 /\ UNCHANGED ppc
    /\ UNCHANGED <<failed, cancelCalled, diskIdWritten, result, sdkOpen, engine>>

(* finalize_transfer's loop.  If the transfer is gone, the disk is        *)
(* fetched once: absent or not OK raises, OK succeeds.  Otherwise         *)
(* FINISHED_SUCCESS succeeds, FINISHED_FAILURE and PAUSED_SYSTEM raise,   *)
(* and a passed deadline raises.  close() cancels on any raise.           *)
FinalizePoll ==
    /\ ppc = "finalize_wait"
    /\ \/ /\ ~xferExists
          /\ ppc' = IF diskStatus = "OK" THEN "publish" ELSE "close_cancel"
          /\ UNCHANGED polls
       \/ /\ xferExists
          /\ xferPhase \in {"FINISHED_SUCCESS", "FINISHED_FAILURE",
                            "PAUSED_SYSTEM"}
          /\ ppc' = IF xferPhase = "FINISHED_SUCCESS" THEN "publish"
                    ELSE "close_cancel"
          /\ UNCHANGED polls
       \/ /\ xferExists
          /\ xferPhase \notin {"FINISHED_SUCCESS", "FINISHED_FAILURE",
                               "PAUSED_SYSTEM"}
          /\ \E expired \in Expired(polls + 1) :
               IF expired THEN ppc' = "close_cancel" /\ UNCHANGED polls
               ELSE polls' = polls + 1 /\ UNCHANGED ppc
    /\ UNCHANGED <<failed, cancelCalled, diskIdWritten, result, sdkOpen, engine>>

\* Mutant of Publish: cancel_transfer in close()'s finally, not its except.
PublishThenCancel ==
    /\ ppc = "publish"
    /\ diskIdWritten' = TRUE
    /\ Finish("closed_ok")
    /\ sdkOpen' = FALSE
    /\ CancelRpc
    /\ UNCHANGED <<polls, failed, diskStatus, diskHeld, xferExists>>

(* close()'s else clause writes the disk id file; finally closes the     *)
(* SDK connection.                                                        *)
Publish ==
    /\ ppc = "publish"
    /\ diskIdWritten' = TRUE
    /\ Finish("closed_ok")
    /\ sdkOpen' = FALSE
    /\ UNCHANGED <<polls, failed, cancelCalled, engine>>

(* close() on a failed handle, or after finalize raised: cancel_transfer, *)
(* whose RPC raises unless the engine can cancel; the finally clause      *)
(* closes the connection either way and close() ends in error.            *)
CloseCancel ==
    /\ ppc = "close_cancel"
    /\ CancelRpc
    /\ Finish("closed_error")
    /\ sdkOpen' = FALSE
    /\ UNCHANGED <<polls, failed, diskIdWritten, diskStatus, diskHeld,
                   xferExists>>

PluginStep ==
    \/ CreateDisk \/ DiskPoll \/ CreateTransfer \/ TransferPoll
    \/ OpenCancel \/ Setup \/ Close \/ FinalizePoll \/ Publish
    \/ CloseCancel

-----------------------------------------------------------------------------
(* The engine.                                                            *)

\* A new disk becomes ready.
DiskReady ==
    /\ diskStatus = "LOCKED" /\ xferPhase = "none"
    /\ diskStatus' = "OK"
    /\ UNCHANGED <<plugin, diskHeld, xferPhase, xferExists>>

\* A transfer leaves INITIALIZING: ready, paused, failed, or elsewhere.
TransferInitialized ==
    /\ xferExists /\ xferPhase = "INITIALIZING"
    /\ \/ xferPhase' \in {"TRANSFERRING", "PAUSED_SYSTEM", "UNKNOWN"}
          /\ UNCHANGED diskStatus
       \/ xferPhase' = "FINISHED_FAILURE" /\ diskStatus' = "ILLEGAL"
    /\ UNCHANGED <<plugin, diskHeld, xferExists>>

\* A transferring upload is paused (inactivity_timeout, host trouble).
TransferPaused ==
    /\ xferExists /\ xferPhase = "TRANSFERRING"
    /\ xferPhase' = "PAUSED_SYSTEM"
    /\ UNCHANGED <<plugin, diskStatus, diskHeld, xferExists>>

\* Finalizing sets the disk OK before the transfer finishes (lock held).
FinalizeDiskOk ==
    /\ xferExists /\ xferPhase = "FINALIZING_SUCCESS" /\ diskStatus # "OK"
    /\ diskStatus' = "OK"
    /\ UNCHANGED <<plugin, diskHeld, xferPhase, xferExists>>

\* Finalizing ends: success releases the lock; failure makes the disk
\* ILLEGAL and either fails the transfer or pauses it.
FinalizeEnds ==
    /\ xferExists /\ xferPhase = "FINALIZING_SUCCESS"
    /\ \/ /\ diskStatus = "OK"
          /\ xferPhase' = "FINISHED_SUCCESS"
          /\ diskHeld' = FALSE
          /\ UNCHANGED diskStatus
       \/ /\ xferPhase' \in {"FINISHED_FAILURE", "PAUSED_SYSTEM"}
          /\ diskStatus' = "ILLEGAL"
          /\ UNCHANGED diskHeld
    /\ UNCHANGED <<plugin, xferExists>>

\* A finished or canceled transfer is removed; unless it succeeded, its
\* disk is removed with it.
TransferRemoved ==
    /\ xferExists
    /\ xferPhase \in {"FINISHED_SUCCESS", "FINISHED_FAILURE", "CANCELLED"}
    /\ xferExists' = FALSE
    /\ IF xferPhase = "FINISHED_SUCCESS"
       THEN UNCHANGED <<diskStatus, diskHeld>>
       ELSE diskStatus' = "none" /\ diskHeld' = FALSE
    /\ UNCHANGED <<plugin, xferPhase>>

EngineStep ==
    \/ DiskReady \/ TransferInitialized \/ TransferPaused
    \/ FinalizeDiskOk \/ FinalizeEnds \/ TransferRemoved

\* open() failed or close() returned; the engine may still move.
Terminated == ppc = "done" /\ UNCHANGED vars

Next == PluginStep \/ IoFailure \/ EngineStep \/ Terminated

(* The plugin runs in one nbdkit thread and takes each step it can.  The *)
(* engine owes nothing: the deadlines exist because it may stall.  The    *)
(* client may keep the disk open for ever, so close is not fair.          *)
Spec == Init /\ [][Next]_vars /\ WF_vars(PluginStep /\ ppc # "opened")

-----------------------------------------------------------------------------
(* Properties.                                                            *)

(* The disk id file names a usable disk (close(), finalize_transfer): it  *)
(* is written only if no I/O failed, and only once the engine reports     *)
(* the disk OK and has released its lock on it.  The code must wait for   *)
(* FINISHED_SUCCESS or the transfer's removal, since the disk turns OK    *)
(* before the lock is released.                                           *)
DiskIdMeansUsableDisk ==
    diskIdWritten => ~failed /\ diskStatus = "OK" /\ ~diskHeld

(* Every way open() or close() fails after the transfer exists calls      *)
(* cancel, unless the plugin saw the engine already failing or removing   *)
(* the transfer (spec 7: lifecycle errors trigger a best-effort cancel).  *)
UnwindOnFailure ==
    ppc = "done" /\ result # "closed_ok" /\ xferPhase # "none"
        => cancelCalled \/ xferPhase = "FINISHED_FAILURE" \/ ~xferExists

(* open() and a started close() always return: every polling loop ends    *)
(* by its deadline even if the engine never moves.                        *)
LifecycleTerminates ==
    ppc \notin {"opened", "done"} ~> ppc \in {"opened", "done"}

(* A failed upload leaves no disk behind (spec 7, spec 8; close(): "we    *)
(* need to cancel the transfer to remove the disk"): once open() or       *)
(* close() has failed, the disk is gone or its transfer is canceled or    *)
(* failed, so the engine deletes it.                                      *)
NoLeftoverDisk ==
    ppc = "done" /\ result # "closed_ok"
        => \/ diskStatus = "none"
           \/ xferExists /\ xferPhase \in {"CANCELLED", "FINISHED_FAILURE"}

(* A failed close() deletes the disk (close(): "Canceling the transfer    *)
(* will delete the disk", "we need to cancel the transfer to remove the   *)
(* disk"): once close() has raised, the disk is gone or its transfer is   *)
(* canceled or failed.                                                    *)
FailedCloseDeletesDisk ==
    ppc = "done" /\ result = "closed_error"
        => \/ diskStatus = "none"
           \/ xferExists /\ xferPhase \in {"CANCELLED", "FINISHED_FAILURE"}

(* No path of open() or close() leaves the sdk.Connection open: when     *)
(* open() raises, nbdkit never calls close(), so open() itself would have *)
(* to close the connection it made.                                       *)
ConnectionNeverLeaked ==
    ppc = "done" => ~sdkOpen

=============================================================================
