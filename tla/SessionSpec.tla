----------------------------- MODULE SessionSpec -----------------------------
(***************************************************************************)
(* What one handle of the plugin promises virt-v2v, stated without the    *)
(* engine's phases or the polling loops (spec 4.4, 6, 7):                  *)
(*   - open either fails or serves I/O;                                    *)
(*   - an I/O error marks the session failed, for good;                    *)
(*   - close ends the session exactly once, either by publishing the disk  *)
(*     id, only for a session with no failed I/O, a usable disk and no     *)
(*     cancel issued, or by attempting a cancel and failing;               *)
(*   - a published disk stays usable: the engine never takes it back.      *)
(* "usable" abstracts the engine's disk: it exists, is OK and no transfer  *)
(* holds its lock.                                                         *)
(***************************************************************************)
VARIABLES
    stage,      \* "opening", "serving", "closing", "ended"
    ioFailed,   \* an I/O call has failed
    published,  \* the disk id file has been written
    usable,     \* the disk exists, is OK and is unlocked
    cancelled   \* a cancel of the transfer has been attempted

vars == <<stage, ioFailed, published, usable, cancelled>>

TypeOK ==
    /\ stage \in {"opening", "serving", "closing", "ended"}
    /\ ioFailed \in BOOLEAN
    /\ published \in BOOLEAN
    /\ usable \in BOOLEAN
    /\ cancelled \in BOOLEAN

Init ==
    /\ stage = "opening"
    /\ ioFailed = FALSE
    /\ published = FALSE
    /\ usable = FALSE
    /\ cancelled = FALSE

\* open succeeds and returns a handle.
Opened ==
    /\ stage = "opening"
    /\ stage' = "serving"
    /\ UNCHANGED <<ioFailed, published, usable, cancelled>>

\* open fails, with or without a best-effort cancel.
OpenFails ==
    /\ stage = "opening"
    /\ stage' = "ended"
    /\ cancelled' \in BOOLEAN
    /\ UNCHANGED <<ioFailed, published, usable>>

\* A read, write, zero or flush fails; the session stays failed.
IoFails ==
    /\ stage = "serving"
    /\ ioFailed' = TRUE
    /\ UNCHANGED <<stage, published, usable, cancelled>>

\* The client closes the handle.
BeginClose ==
    /\ stage = "serving"
    /\ stage' = "closing"
    /\ UNCHANGED <<ioFailed, published, usable, cancelled>>

\* close succeeds: the disk id of a usable disk is published, no cancel.
Publish ==
    /\ stage = "closing"
    /\ ~ioFailed /\ usable /\ ~cancelled
    /\ stage' = "ended"
    /\ published' = TRUE
    /\ UNCHANGED <<ioFailed, usable, cancelled>>

\* close fails after attempting a cancel; nothing is published.
CloseFails ==
    /\ stage = "closing"
    /\ stage' = "ended"
    /\ cancelled' = TRUE
    /\ UNCHANGED <<ioFailed, published, usable>>

\* The engine makes the disk usable or not, until its id is published.
DiskChanges ==
    /\ ~published
    /\ usable' = ~usable
    /\ UNCHANGED <<stage, ioFailed, published, cancelled>>

Next ==
    \/ Opened \/ OpenFails \/ IoFails \/ BeginClose
    \/ Publish \/ CloseFails \/ DiskChanges

Spec == Init /\ [][Next]_vars

=============================================================================
