---------------------- MODULE LifecycleRefinementProofs ----------------------
(***************************************************************************)
(* Proof, for every timeout, that Lifecycle implements SessionSpec under  *)
(* the mapping of LifecycleRefinement.                                     *)
(***************************************************************************)
EXTENDS LifecycleRefinement, LifecycleProofs

(* cancel_transfer is called only by OpenCancel and CloseCancel, each of  *)
(* which ends open() or close(): while open() or close() runs, no cancel  *)
(* has been issued.                                                        *)
CancelAtEnd == cancelCalled => ppc = "done"

\* The invariant the refinement rests on.
RInv == IInv /\ CancelAtEnd

\* The abstract variables, read off a Lifecycle state.
absVars == <<sessionStage, failed, diskIdWritten, diskUsable, cancelCalled>>

-----------------------------------------------------------------------------
LEMMA InitRInv == Init => RInv
<1> SUFFICES ASSUME Init PROVE RInv
  OBVIOUS
<1>1. IInv
  BY InitIInv
<1>2. CancelAtEnd
  BY Zenon DEF Init, CancelAtEnd
<1>3. QED
  BY <1>1, <1>2 DEF RInv

LEMMA NextRInv == RInv /\ [Next]_vars => RInv'
<1> SUFFICES ASSUME RInv, [Next]_vars PROVE RInv'
  OBVIOUS
<1>1. IInv'
  BY NextIInv DEF RInv
<1>2. CancelAtEnd'
  <2>1. CASE OpenCancel \/ CloseCancel
    BY <2>1 DEF OpenCancel, CloseCancel, Finish, CancelAtEnd
  <2>2. CASE ~(OpenCancel \/ CloseCancel)
    <3>1. UNCHANGED cancelCalled \/ ppc' = "done"
      BY <2>2 DEF Next, PluginStep, EngineStep, CreateDisk, DiskPoll,
                  CreateTransfer, TransferPoll, Setup, IoFailure, Close,
                  FinalizePoll, Publish, DiskReady, TransferInitialized,
                  TransferPaused, FinalizeDiskOk, FinalizeEnds,
                  TransferRemoved, Terminated, vars, plugin, Finish
    <3>2. ppc = "done" => ppc' = "done"
      BY DEF Next, PluginStep, EngineStep, CreateDisk, DiskPoll,
             CreateTransfer, TransferPoll, OpenCancel, Setup, IoFailure,
             Close, FinalizePoll, Publish, CloseCancel, DiskReady,
             TransferInitialized, TransferPaused, FinalizeDiskOk,
             FinalizeEnds, TransferRemoved, Terminated, vars, plugin
    <3>3. QED
      BY <3>1, <3>2, Zenon DEF RInv, CancelAtEnd
  <2>3. QED
    BY <2>1, <2>2
<1>3. QED
  BY <1>1, <1>2 DEF RInv

\* RInv holds in every reachable state.
LEMMA AlwaysRInv == Spec => []RInv
BY InitRInv, NextRInv, PTL DEF Spec


-----------------------------------------------------------------------------
(* What the mapping gives.                                                *)

\* A step that leaves the plugin's place, flags and the disk alone is a
\* stutter of the session.
LEMMA SessionKept ==
  ASSUME UNCHANGED <<ppc, failed, diskIdWritten, cancelCalled, diskStatus,
                     diskHeld>>
  PROVE  UNCHANGED absVars
BY DEF absVars, sessionStage, diskUsable

(* Once the disk id is written, no engine step changes the disk: the      *)
(* transfer is FINISHED_SUCCESS, and the engine only removes it, keeping  *)
(* the disk.                                                               *)
LEMMA PublishedStable ==
  ASSUME RInv, EngineStep, diskIdWritten
  PROVE  UNCHANGED <<diskStatus, diskHeld>>
<1>1. xferPhase = "FINISHED_SUCCESS"
  BY DEF RInv, IInv, FinalizeContext
<1>2. ~(DiskReady \/ TransferInitialized \/ TransferPaused \/ FinalizeDiskOk
        \/ FinalizeEnds)
  BY <1>1 DEF DiskReady, TransferInitialized, TransferPaused, FinalizeDiskOk,
              FinalizeEnds
<1>3. TransferRemoved
  BY <1>2 DEF EngineStep
<1>4. QED
  BY <1>1, <1>3 DEF TransferRemoved

\* While open() or close() runs, nothing has been published or canceled.
LEMMA Running ==
  ASSUME RInv, ppc # "done"
  PROVE  ~diskIdWritten /\ ~cancelCalled
BY DEF RInv, IInv, FinalizeContext, CancelAtEnd

\* A step of open() that ends it in failure is the session's OpenFails.
LEMMA OpenFailsStep ==
  ASSUME RInv, sessionStage = "opening", ppc' = "done",
         UNCHANGED <<failed, diskIdWritten, diskStatus, diskHeld>>,
         cancelCalled' \in BOOLEAN
  PROVE  Session!OpenFails
BY DEF Session!OpenFails, sessionStage, diskUsable

-----------------------------------------------------------------------------
LEMMA RefineStep ==
    RInv /\ [Next]_vars => [Session!Next]_absVars
<1> SUFFICES ASSUME RInv, [Next]_vars PROVE [Session!Next]_absVars
  OBVIOUS
<1>T. TypeOK
  BY DEF RInv, IInv
<1>1. CASE CreateDisk
  <2>1. ppc = "start" /\ diskStatus = "none"
    BY <1>1 DEF CreateDisk, RInv, IInv, CreationOrder
  <2>2. UNCHANGED <<failed, cancelCalled, diskIdWritten, diskHeld>>
    BY <1>1 DEF CreateDisk
  <2>3. CASE ppc' = "disk_wait"
    BY <1>1, <2>1, <2>2, <2>3 DEF CreateDisk, absVars, sessionStage, diskUsable
  <2>4. CASE ppc' # "disk_wait"
    <3>1. ppc' = "done" /\ UNCHANGED diskStatus
      BY <1>1, <2>4 DEF CreateDisk, Finish
    <3>2. Session!OpenFails
      BY <1>T, <2>1, <2>2, <3>1, OpenFailsStep DEF sessionStage, TypeOK
    <3>3. QED
      BY <3>2 DEF Session!Next
  <2>5. QED
    BY <2>3, <2>4
<1>2. CASE DiskPoll
  <2>1. ppc = "disk_wait" /\ UNCHANGED <<failed, cancelCalled, diskIdWritten,
                                         diskStatus, diskHeld>>
    BY <1>2 DEF DiskPoll, engine
  <2>2. ppc' \in {"disk_wait", "transfer_add", "done"}
    BY <1>2 DEF DiskPoll, Finish
  <2>3. CASE ppc' = "done"
    BY <1>T, <2>1, <2>3, OpenFailsStep DEF sessionStage, TypeOK, Session!Next
  <2>4. CASE ppc' # "done"
    BY <2>1, <2>2, <2>4 DEF absVars, sessionStage, diskUsable
  <2>5. QED
    BY <2>3, <2>4
<1>3. CASE CreateTransfer
  <2>1. ppc = "transfer_add" /\ UNCHANGED <<failed, cancelCalled, diskIdWritten>>
    BY <1>3 DEF CreateTransfer
  <2>2. ~diskIdWritten
    BY <2>1, Running
  <2>3. CASE ppc' = "transfer_wait"
    <3>1. diskHeld' = TRUE /\ diskStatus' = "LOCKED"
      BY <1>3, <2>3 DEF CreateTransfer, Finish
    <3>2. ~diskUsable' /\ sessionStage' = sessionStage
      BY <2>1, <2>3, <3>1 DEF diskUsable, sessionStage
    <3>3. CASE diskUsable
      <4>1. Session!DiskChanges
        BY <2>1, <2>2, <3>2, <3>3 DEF Session!DiskChanges, diskUsable
      <4>2. QED
        BY <4>1 DEF Session!Next
    <3>4. CASE ~diskUsable
      BY <2>1, <3>2, <3>4 DEF absVars, diskUsable
    <3>5. QED
      BY <3>3, <3>4
  <2>4. CASE ppc' # "transfer_wait"
    <3>1. ppc' = "done" /\ UNCHANGED <<diskStatus, diskHeld>>
      BY <1>3, <2>4 DEF CreateTransfer, Finish
    <3>2. QED
      BY <1>T, <2>1, <3>1, OpenFailsStep DEF sessionStage, TypeOK, Session!Next
  <2>5. QED
    BY <2>3, <2>4
<1>4. CASE TransferPoll
  <2>1. ppc = "transfer_wait" /\ UNCHANGED <<failed, cancelCalled, diskIdWritten,
                                             diskStatus, diskHeld>>
    BY <1>4 DEF TransferPoll, engine
  <2>2. ppc' \in {"transfer_wait", "setup", "open_cancel", "done"}
    BY <1>4 DEF TransferPoll, Finish
  <2>3. CASE ppc' = "done"
    BY <1>T, <2>1, <2>3, OpenFailsStep DEF sessionStage, TypeOK, Session!Next
  <2>4. CASE ppc' # "done"
    BY <2>1, <2>2, <2>4 DEF absVars, sessionStage, diskUsable
  <2>5. QED
    BY <2>3, <2>4
<1>5. CASE OpenCancel
  <2>1. /\ ppc = "open_cancel" /\ ppc' = "done" /\ cancelCalled' = TRUE
        /\ UNCHANGED <<failed, diskIdWritten, diskStatus, diskHeld>>
    BY <1>5 DEF OpenCancel, CancelRpc, Finish
  <2>2. QED
    BY <2>1, OpenFailsStep DEF sessionStage, Session!Next
<1>6. CASE Setup
  <2>1. /\ ppc = "setup" /\ ppc' \in {"opened", "open_cancel"}
        /\ UNCHANGED <<failed, cancelCalled, diskIdWritten, diskStatus, diskHeld>>
    BY <1>6 DEF Setup, engine
  <2>2. CASE ppc' = "opened"
    <3>1. Session!Opened
      BY <2>1, <2>2 DEF Session!Opened, sessionStage, diskUsable
    <3>2. QED
      BY <3>1 DEF Session!Next
  <2>3. CASE ppc' = "open_cancel"
    BY <2>1, <2>3 DEF absVars, sessionStage, diskUsable
  <2>4. QED
    BY <2>1, <2>2, <2>3
<1>7. CASE IoFailure
  <2>1. /\ ppc = "opened" /\ failed' = TRUE
        /\ UNCHANGED <<ppc, cancelCalled, diskIdWritten, diskStatus, diskHeld>>
    BY <1>7 DEF IoFailure, engine
  <2>2. Session!IoFails
    BY <2>1 DEF Session!IoFails, sessionStage, diskUsable
  <2>3. QED
    BY <2>2 DEF Session!Next
<1>8. CASE Close
  <2>1. /\ ppc = "opened" /\ ppc' \in {"close_cancel", "finalize_wait"}
        /\ UNCHANGED <<failed, cancelCalled, diskIdWritten, diskStatus, diskHeld>>
    BY <1>8 DEF Close
  <2>2. Session!BeginClose
    BY <2>1 DEF Session!BeginClose, sessionStage, diskUsable
  <2>3. QED
    BY <2>2 DEF Session!Next
<1>9. CASE FinalizePoll
  <2>1. /\ ppc = "finalize_wait"
        /\ ppc' \in {"finalize_wait", "publish", "close_cancel"}
        /\ UNCHANGED <<failed, cancelCalled, diskIdWritten, diskStatus, diskHeld>>
    BY <1>9 DEF FinalizePoll, engine
  <2>2. QED
    BY <2>1 DEF absVars, sessionStage, diskUsable
<1>10. CASE Publish
  <2>1. /\ ppc = "publish" /\ ppc' = "done" /\ diskIdWritten' = TRUE
        /\ UNCHANGED <<failed, cancelCalled, diskStatus, diskHeld>>
    BY <1>10 DEF Publish, Finish, engine
  <2>2. ~failed /\ diskStatus = "OK" /\ ~diskHeld
    BY <2>1 DEF RInv, IInv, FinalizeContext, EngineOrder
  <2>3. ~cancelCalled
    BY <2>1, Running
  <2>4. Session!Publish
    BY <2>1, <2>2, <2>3 DEF Session!Publish, sessionStage, diskUsable
  <2>5. QED
    BY <2>4 DEF Session!Next
<1>11. CASE CloseCancel
  <2>1. /\ ppc = "close_cancel" /\ ppc' = "done" /\ cancelCalled' = TRUE
        /\ UNCHANGED <<failed, diskIdWritten, diskStatus, diskHeld>>
    BY <1>11 DEF CloseCancel, CancelRpc, Finish
  <2>2. Session!CloseFails
    BY <2>1 DEF Session!CloseFails, sessionStage, diskUsable
  <2>3. QED
    BY <2>2 DEF Session!Next
<1>12. CASE EngineStep
  <2>1. UNCHANGED plugin
    BY <1>12 DEF EngineStep, DiskReady, TransferInitialized, TransferPaused,
                 FinalizeDiskOk, FinalizeEnds, TransferRemoved
  <2>2. UNCHANGED <<ppc, failed, diskIdWritten, cancelCalled>>
    BY <2>1 DEF plugin
  <2>3. CASE diskIdWritten
    BY <1>12, <2>2, <2>3, PublishedStable, SessionKept
  <2>4. CASE ~diskIdWritten /\ diskUsable' = diskUsable
    BY <2>2, <2>4 DEF absVars, sessionStage
  <2>5. CASE ~diskIdWritten /\ diskUsable' # diskUsable
    <3>1. diskUsable' = ~diskUsable
      BY <2>5 DEF diskUsable
    <3>2. Session!DiskChanges
      BY <2>2, <2>5, <3>1 DEF Session!DiskChanges, sessionStage
    <3>3. QED
      BY <3>2 DEF Session!Next
  <2>6. QED
    BY <2>3, <2>4, <2>5
<1>13. CASE Terminated \/ UNCHANGED vars
  <2>1. UNCHANGED vars
    BY <1>13 DEF Terminated
  <2>2. QED
    BY <2>1, SessionKept DEF vars
<1>14. QED
  BY <1>1, <1>2, <1>3, <1>4, <1>5, <1>6, <1>7, <1>8, <1>9, <1>10, <1>11,
     <1>12, <1>13 DEF Next, PluginStep

(* open() and close() keep the session contract for every timeout: a      *)
(* handle starts opening with nothing published, usable or canceled, and  *)
(* every step of the plugin or the engine is a step of SessionSpec or     *)
(* leaves the session alone.  In particular the disk id file is written   *)
(* only by a close that saw no failed I/O, issued no cancel and found the *)
(* disk OK and unlocked, and the engine never changes a published disk.   *)
THEOREM Refinement == Spec => SessionRefines
<1>1. Init => Session!Init
  BY DEF Init, Session!Init, sessionStage, diskUsable
<1>2. RInv /\ [Next]_vars => [Session!Next]_absVars
  BY RefineStep
<1>3. QED
  BY <1>1, <1>2, AlwaysRInv, PTL DEF Spec, SessionRefines, Session!Spec,
                                   Session!vars, absVars

=============================================================================
