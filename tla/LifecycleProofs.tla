-------------------------- MODULE LifecycleProofs --------------------------
(***************************************************************************)
(* Proof, for every timeout, that the disk id file written by close()     *)
(* names a disk that is OK, unlocked and untouched by failed I/O.         *)
(***************************************************************************)
EXTENDS Lifecycle, TLAPS

(* The engine's promise the code relies on: a transfer is FINISHED_SUCCESS *)
(* only once the disk is OK and unlocked, and a removed transfer that did  *)
(* not succeed has taken its disk with it.                                 *)
EngineOrder ==
    /\ xferPhase = "FINISHED_SUCCESS" => diskStatus = "OK" /\ ~diskHeld
    /\ xferPhase # "none" /\ ~xferExists
         => xferPhase = "FINISHED_SUCCESS" \/ diskStatus = "none"

(* finalize_transfer is entered only for a handle that has not failed and *)
(* after the transfer was created; it reaches publish only on success.    *)
FinalizeContext ==
    /\ ppc \in {"finalize_wait", "publish"} => ~failed /\ xferPhase # "none"
    /\ ppc = "publish" \/ diskIdWritten => xferPhase = "FINISHED_SUCCESS"
    /\ diskIdWritten => ppc = "done"

(* open() creates the disk before the transfer: until add returns, no    *)
(* transfer exists, and nothing exists before create_disk.                 *)
CreationOrder ==
    /\ ppc \in {"start", "disk_wait", "transfer_add"}
         => xferPhase = "none" /\ ~xferExists /\ ~diskHeld
    /\ ppc = "start" => diskStatus = "none"

(* result leaves "pending" exactly when open() or close() ends, and      *)
(* nothing runs after that.                                                *)
ResultFinal == result # "pending" <=> ppc = "done"

\* The inductive invariant.
IInv == TypeOK /\ CreationOrder /\ EngineOrder /\ FinalizeContext
        /\ DiskIdMeansUsableDisk /\ ResultFinal /\ UnwindOnFailure

-----------------------------------------------------------------------------
LEMMA InitIInv == Init => IInv
<1> SUFFICES ASSUME Init PROVE IInv
  OBVIOUS
<1>1. polls \in 0..Timeout
  BY TimeoutAssumption DEF Init
<1>2. TypeOK
  <2>1. ppc \in Locations /\ result \in Results /\ xferPhase \in Phases
    BY DEF Init, Locations, Phases, Results
  <2>2. diskStatus \in {"none", "LOCKED", "OK", "ILLEGAL"}
    BY DEF Init
  <2>3. /\ failed \in BOOLEAN /\ cancelCalled \in BOOLEAN
        /\ diskIdWritten \in BOOLEAN /\ diskHeld \in BOOLEAN
        /\ xferExists \in BOOLEAN /\ sdkOpen \in BOOLEAN
    BY Zenon DEF Init
  <2>4. QED
    BY <1>1, <2>1, <2>2, <2>3 DEF TypeOK
<1>3. EngineOrder /\ FinalizeContext /\ DiskIdMeansUsableDisk
  BY DEF Init, EngineOrder, FinalizeContext, DiskIdMeansUsableDisk
<1>6. ResultFinal /\ UnwindOnFailure
  BY DEF Init, ResultFinal, UnwindOnFailure
<1>4. CreationOrder
  BY DEF Init, CreationOrder
<1>5. QED
  BY <1>2, <1>3, <1>4, <1>6 DEF IInv

(* A polling loop sleeps again only while its deadline cannot have       *)
(* passed: the else branch of "if time.time() > endt" is taken only       *)
(* before Timeout sleeps.                                                  *)
LEMMA ExpiredBound ==
    ASSUME NEW n \in Nat, FALSE \in Expired(n)
    PROVE  n < Timeout
<1>1. ~(n >= Timeout)
  BY Zenon DEF Expired
<1>2. QED
  BY <1>1, TimeoutAssumption

\* Every step of the plugin and of the engine preserves IInv.
LEMMA NextIInv == IInv /\ [Next]_vars => IInv'
<1> SUFFICES ASSUME IInv, [Next]_vars PROVE IInv'
  OBVIOUS
<1> USE TimeoutAssumption DEF IInv, TypeOK, CreationOrder, EngineOrder, FinalizeContext,
        DiskIdMeansUsableDisk, ResultFinal,
        UnwindOnFailure, Locations, Phases, Results
<1>1. CASE CreateDisk
  <2>1. /\ ppc = "start"
        /\ UNCHANGED <<polls, failed, cancelCalled, diskIdWritten, diskHeld,
                       xferPhase, xferExists>>
        /\ sdkOpen' = TRUE
    BY <1>1, Zenon DEF CreateDisk
  <2>2. CASE diskStatus' = "LOCKED" /\ ppc' = "disk_wait" /\ UNCHANGED result
    BY <2>1, <2>2
  <2>3. CASE ppc' = "done" /\ result' = "open_failed" /\ UNCHANGED diskStatus
    BY <2>1, <2>3
  <2>4. QED
    BY <1>1, <2>2, <2>3, Zenon DEF CreateDisk, Finish
<1>2. CASE DiskPoll
  <2>1. /\ ppc = "disk_wait"
        /\ UNCHANGED <<failed, cancelCalled, diskIdWritten, diskStatus,
                       diskHeld, xferPhase, xferExists, sdkOpen>>
    BY <1>2, Zenon DEF DiskPoll, engine
  <2>2. CASE ppc' = "transfer_add" /\ UNCHANGED <<polls, result>>
    BY <2>1, <2>2
  <2>3. CASE ppc' = "done" /\ result' = "open_failed" /\ UNCHANGED polls
    BY <2>1, <2>3
  <2>4. CASE polls + 1 < Timeout /\ polls' = polls + 1 /\ UNCHANGED <<ppc, result>>
    BY <2>1, <2>4
  <2>5. CASE diskStatus # "OK"
    <3>1. PICK expired \in Expired(polls + 1) :
                 IF expired THEN Finish("open_failed") /\ UNCHANGED polls
                 ELSE polls' = polls + 1 /\ UNCHANGED <<ppc, result>>
      BY <1>2, <2>5, Zenon DEF DiskPoll
    <3>2. CASE expired
      BY <3>1, <3>2, <2>3, Zenon DEF Finish
    <3>3. CASE ~expired
      <4>1. polls + 1 < Timeout
        <5>1. FALSE \in Expired(polls + 1)
          BY <3>1, <3>3, Zenon DEF Expired
        <5>2. polls + 1 \in Nat
          OBVIOUS
        <5>3. QED
          BY <5>1, <5>2, ExpiredBound
      <4>2. QED
        BY <3>1, <3>3, <4>1, <2>4, Zenon
    <3>4. QED
      BY <3>2, <3>3
  <2>6. QED
    BY <1>2, <2>2, <2>5, Zenon DEF DiskPoll
<1>3. CASE CreateTransfer
  <2>1. /\ ppc = "transfer_add"
        /\ UNCHANGED <<failed, cancelCalled, diskIdWritten, sdkOpen>>
    BY <1>3, Zenon DEF CreateTransfer
  <2>2. CASE /\ xferPhase' = "INITIALIZING" /\ xferExists' = TRUE
             /\ diskHeld' = TRUE /\ diskStatus' = "LOCKED"
             /\ ppc' = "transfer_wait" /\ polls' = 0 /\ UNCHANGED result
    BY <2>1, <2>2
  <2>3. CASE /\ ppc' = "done" /\ result' = "open_failed"
             /\ UNCHANGED <<polls, diskStatus, diskHeld, xferPhase, xferExists>>
    BY <2>1, <2>3
  <2>4. QED
    BY <1>3, <2>2, <2>3, Zenon DEF CreateTransfer, Finish
<1>4. CASE TransferPoll
  <2>1. /\ ppc = "transfer_wait"
        /\ UNCHANGED <<failed, cancelCalled, diskIdWritten, diskStatus,
                       diskHeld, xferPhase, xferExists, sdkOpen>>
    BY <1>4, Zenon DEF TransferPoll, engine
  <2>2. CASE /\ ppc' = "done" /\ result' = "open_failed" /\ UNCHANGED polls
             /\ ~xferExists \/ xferPhase = "FINISHED_FAILURE"
    BY <2>1, <2>2
  <2>3. CASE ppc' \in {"setup", "open_cancel"} /\ UNCHANGED <<polls, result>>
    BY <2>1, <2>3
  <2>4. CASE polls + 1 < Timeout /\ polls' = polls + 1 /\ UNCHANGED <<ppc, result>>
    BY <2>1, <2>4
  <2>5. CASE xferExists /\ xferPhase = "INITIALIZING"
    <3>1. PICK expired \in Expired(polls + 1) :
                 /\ IF expired THEN ppc' = "open_cancel" /\ UNCHANGED polls
                    ELSE polls' = polls + 1 /\ UNCHANGED ppc
                 /\ UNCHANGED result
      BY <1>4, <2>5, Zenon DEF TransferPoll
    <3>2. CASE expired
      BY <3>1, <3>2, <2>3, Zenon
    <3>3. CASE ~expired
      <4>1. polls + 1 < Timeout
        <5>1. FALSE \in Expired(polls + 1)
          BY <3>1, <3>3, Zenon DEF Expired
        <5>2. polls + 1 \in Nat
          OBVIOUS
        <5>3. QED
          BY <5>1, <5>2, ExpiredBound
      <4>2. QED
        BY <3>1, <3>3, <4>1, <2>4, Zenon
    <3>4. QED
      BY <3>2, <3>3
  <2>6. QED
    BY <1>4, <2>2, <2>3, <2>5, Zenon DEF TransferPoll, Finish
<1>5. CASE OpenCancel
  BY <1>5 DEF OpenCancel, Finish, CancelRpc, Cancellable
<1>6. CASE Setup
  BY <1>6 DEF Setup, engine
<1>7. CASE IoFailure
  BY <1>7 DEF IoFailure, engine
<1>8. CASE Close
  BY <1>8 DEF Close
<1>9. CASE FinalizePoll
  <2>1. /\ ppc = "finalize_wait" /\ ~failed /\ xferPhase # "none"
        /\ UNCHANGED <<failed, cancelCalled, diskIdWritten, result, diskStatus,
                       diskHeld, xferPhase, xferExists, sdkOpen>>
    BY <1>9, Zenon DEF FinalizePoll, engine
  <2>2. CASE ~xferExists /\ UNCHANGED polls
             /\ ppc' = IF diskStatus = "OK" THEN "publish" ELSE "close_cancel"
    BY <2>1, <2>2
  <2>3. CASE xferExists /\ UNCHANGED polls
             /\ ppc' = IF xferPhase = "FINISHED_SUCCESS" THEN "publish"
                       ELSE "close_cancel"
    BY <2>1, <2>3
  <2>4. CASE ppc' = "close_cancel" /\ UNCHANGED polls
    BY <2>1, <2>4
  <2>5. CASE polls + 1 < Timeout /\ polls' = polls + 1 /\ UNCHANGED ppc
    BY <2>1, <2>5
  <2>6. CASE xferExists /\ xferPhase \notin {"FINISHED_SUCCESS",
                                            "FINISHED_FAILURE", "PAUSED_SYSTEM"}
    <3>1. PICK expired \in Expired(polls + 1) :
                 IF expired THEN ppc' = "close_cancel" /\ UNCHANGED polls
                 ELSE polls' = polls + 1 /\ UNCHANGED ppc
      BY <1>9, <2>6, Zenon DEF FinalizePoll
    <3>2. CASE expired
      BY <3>1, <3>2, <2>4, Zenon
    <3>3. CASE ~expired
      <4>1. polls + 1 < Timeout
        <5>1. FALSE \in Expired(polls + 1)
          BY <3>1, <3>3, Zenon DEF Expired
        <5>2. polls + 1 \in Nat
          OBVIOUS
        <5>3. QED
          BY <5>1, <5>2, ExpiredBound
      <4>2. QED
        BY <3>1, <3>3, <4>1, <2>5, Zenon
    <3>4. QED
      BY <3>2, <3>3
  <2>7. QED
    BY <1>9, <2>2, <2>3, <2>6, Zenon DEF FinalizePoll
<1>10. CASE Publish
  BY <1>10 DEF Publish, Finish, engine
<1>11. CASE CloseCancel
  BY <1>11 DEF CloseCancel, Finish, CancelRpc, Cancellable
<1>12. CASE DiskReady
  BY <1>12 DEF DiskReady, plugin
<1>13. CASE TransferInitialized
  BY <1>13 DEF TransferInitialized, plugin
<1>14. CASE TransferPaused
  BY <1>14 DEF TransferPaused, plugin
<1>15. CASE FinalizeDiskOk
  BY <1>15 DEF FinalizeDiskOk, plugin
<1>16. CASE FinalizeEnds
  BY <1>16 DEF FinalizeEnds, plugin
<1>17. CASE TransferRemoved
  BY <1>17 DEF TransferRemoved, plugin
<1>18. CASE Terminated \/ UNCHANGED vars
  BY <1>18 DEF Terminated, vars
<1>19. QED
  BY <1>1, <1>2, <1>3, <1>4, <1>5, <1>6, <1>7, <1>8, <1>9, <1>10, <1>11,
     <1>12, <1>13, <1>14, <1>15, <1>16, <1>17, <1>18
  DEF Next, PluginStep, EngineStep

LEMMA AlwaysIInv == Spec => []IInv
BY InitIInv, NextIInv, PTL DEF Spec

(* Every state of open() and close() has its variables in their types;   *)
(* in particular the polling loops of create_disk, create_transfer and    *)
(* finalize_transfer never sleep more than Timeout times.                 *)
THEOREM TypeCorrect == Spec => []TypeOK
<1>1. IInv => TypeOK
  BY DEF IInv
<1>2. QED
  BY AlwaysIInv, <1>1, PTL

(* For every timeout: close() writes the disk id file only for a handle  *)
(* with no failed I/O, and only when the engine has the disk OK and no    *)
(* longer locked by the transfer (finalize_transfer waits for             *)
(* FINISHED_SUCCESS or for the transfer's removal with the disk OK).     *)
THEOREM DiskIdUsable == Spec => []DiskIdMeansUsableDisk
<1>1. IInv => DiskIdMeansUsableDisk
  BY DEF IInv
<1>2. QED
  BY AlwaysIInv, <1>1, PTL

(* For every timeout: every way open() or close() fails once the         *)
(* transfer exists goes through cancel_transfer (open's except clause,    *)
(* create_transfer's cancels, close's failed and finalize-error paths),   *)
(* unless the plugin saw the transfer FINISHED_FAILURE or already gone.  *)
THEOREM Unwinds == Spec => []UnwindOnFailure
<1>1. IInv => UnwindOnFailure
  BY DEF IInv
<1>2. QED
  BY AlwaysIInv, <1>1, PTL

=============================================================================
