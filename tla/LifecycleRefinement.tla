------------------------- MODULE LifecycleRefinement -------------------------
(***************************************************************************)
(* Lifecycle implements SessionSpec.  open() is the opening stage up to   *)
(* the handle's return, the handle serves I/O in "opened", and close()'s  *)
(* finalize loop, cancel and publish are the closing stage.  The disk is  *)
(* usable when the engine reports it OK with no transfer lock on it.      *)
(* Under this mapping the polling loops and the engine's steps that do    *)
(* not touch the disk's usability are stutters.                           *)
(***************************************************************************)
EXTENDS Lifecycle

\* The session stage of each place in open() and close().
sessionStage ==
    CASE ppc = "opened"                                     -> "serving"
      [] ppc \in {"finalize_wait", "close_cancel", "publish"} -> "closing"
      [] ppc = "done"                                       -> "ended"
      [] OTHER                                              -> "opening"

diskUsable == diskStatus = "OK" /\ ~diskHeld

Session == INSTANCE SessionSpec
    WITH stage <- sessionStage, ioFailed <- failed,
         published <- diskIdWritten, usable <- diskUsable,
         cancelled <- cancelCalled

(* open() and close() keep the session contract of spec 4.4 and 7: the    *)
(* disk id file is written once, at the end of a close on a handle whose  *)
(* I/O never failed, for a disk the engine has made OK and unlocked, with *)
(* no cancel issued; every other close attempts cancel_transfer; and the  *)
(* engine never takes back a published disk.                              *)
SessionRefines == Session!Spec

=============================================================================
