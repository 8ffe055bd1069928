------------------------- MODULE ObservationTickets -------------------------
(***************************************************************************)
(* Reconciliation under the Git backend: reconcile scans the product       *)
(* worktrees and GitHub without the repository lock, so scans overtake     *)
(* each other; a ticket drawn before the scan decides, under the lock,     *)
(* whether its result may still be published.                              *)
(***************************************************************************)
EXTENDS Naturals

CONSTANTS
    Scanners,     \* concurrent reconcile processes of one checkout
    MaxWorld,     \* bound on changes of the observed worktrees
    MaxTicket     \* bound on tickets drawn

ASSUME TicketAssumption == MaxWorld \in Nat /\ MaxTicket \in Nat

VARIABLES
    world,        \* version of the live worktrees and of GitHub
    sequence,     \* observation-sequence: the last ticket drawn
    published,    \* observation-published
    recorded,     \* the version the task files and live views show
    before,       \* the version restore_paths would put back
    pc, ticket, seen,   \* each process: progress, ticket, scanned version
    drawnAt,      \* history: the version when its ticket was drawn
    floor         \* history: the latest such version of a completed reconcile

vars == <<world, sequence, published, recorded, before, pc, ticket, seen, drawnAt, floor>>

Steps == {"idle", "drawn", "scanned", "written"}

\* Tickets and versions are numbers and every process is at a known step.
TypeOK ==
    /\ world \in Nat /\ sequence \in Nat /\ published \in Nat
    /\ recorded \in Nat /\ before \in Nat /\ floor \in Nat
    /\ pc \in [Scanners -> Steps] /\ ticket \in [Scanners -> Nat]
    /\ seen \in [Scanners -> Nat] /\ drawnAt \in [Scanners -> Nat]

Init ==
    /\ world = 0 /\ sequence = 0 /\ published = 0
    /\ recorded = 0 /\ before = 0 /\ floor = 0
    /\ pc = [s \in Scanners |-> "idle"] /\ ticket = [s \in Scanners |-> 0]
    /\ seen = [s \in Scanners |-> 0] /\ drawnAt = [s \in Scanners |-> 0]

\* A process that ends or retries forgets its ticket and its scan.
Forget(s) ==
    /\ pc' = [pc EXCEPT ![s] = "idle"] /\ ticket' = [ticket EXCEPT ![s] = 0]
    /\ seen' = [seen EXCEPT ![s] = 0] /\ drawnAt' = [drawnAt EXCEPT ![s] = 0]

\* The repository lock is held from a process's write to its publication.
Locked == \E s \in Scanners : pc[s] = "written"

WorldChanges ==
    /\ world < MaxWorld
    /\ world' = world + 1
    /\ UNCHANGED <<sequence, published, recorded, before, pc, ticket, seen, drawnAt, floor>>

\* Drawing is atomic under the ticket file's own lock.
Reserve(s) ==
    /\ pc[s] = "idle" /\ sequence < MaxTicket
    /\ sequence' = sequence + 1
    /\ ticket' = [ticket EXCEPT ![s] = sequence + 1]
    /\ drawnAt' = [drawnAt EXCEPT ![s] = world]
    /\ pc' = [pc EXCEPT ![s] = "drawn"]
    /\ UNCHANGED <<world, published, recorded, before, seen, floor>>

Scan(s) ==
    /\ pc[s] = "drawn"
    /\ seen' = [seen EXCEPT ![s] = world]
    /\ pc' = [pc EXCEPT ![s] = "scanned"]
    /\ UNCHANGED <<world, sequence, published, recorded, before, ticket, drawnAt, floor>>

\* observation_is_superseded, under the lock.
Superseded_Never(s) == FALSE
Superseded(s) == ticket[s] < published

\* An overtaken scan draws again, at most 32 times; a failed scan or a changed
\* configuration ends the command.
Retry(s) ==
    /\ pc[s] \in {"drawn", "scanned"}
    /\ Forget(s)
    /\ UNCHANGED <<world, sequence, published, recorded, before, floor>>

Write(s) ==
    /\ pc[s] = "scanned" /\ ~ Locked
    /\ ~ Superseded(s)
    /\ before' = recorded
    /\ recorded' = seen[s]
    /\ pc' = [pc EXCEPT ![s] = "written"]
    /\ UNCHANGED <<world, sequence, published, ticket, seen, drawnAt, floor>>

\* A failed validation or commit restores the files and leaves the marker.
Restore(s) ==
    /\ pc[s] = "written"
    /\ recorded' = before
    /\ Forget(s)
    /\ UNCHANGED <<world, sequence, published, before, floor>>

Publish(s) ==
    /\ pc[s] = "written"
    /\ published' = ticket[s]
    /\ floor' = IF drawnAt[s] > floor THEN drawnAt[s] ELSE floor
    /\ Forget(s)
    /\ UNCHANGED <<world, sequence, recorded, before>>

\* The ticket is published but the reconcile marker cannot be written and there
\* was nothing to commit: the files go back, the ticket stays published.
MarkerFails(s) ==
    /\ pc[s] = "written"
    /\ published' = ticket[s]
    /\ recorded' = before
    /\ Forget(s)
    /\ UNCHANGED <<world, sequence, before, floor>>

\* A killed process leaves a gap in the tickets, or files nobody published.
Crash(s) ==
    /\ pc[s] # "idle"
    /\ Forget(s)
    /\ UNCHANGED <<world, sequence, published, recorded, before, floor>>

Step(s) ==
    \/ Reserve(s) \/ Scan(s) \/ Retry(s)
    \/ Write(s) \/ Restore(s) \/ Publish(s)
    \/ MarkerFails(s) \/ Crash(s)

Next == WorldChanges \/ \E s \in Scanners : Step(s)

Spec == Init /\ [][Next]_vars

-----------------------------------------------------------------------------
(* Properties.  Operators named X_Y are plausible mistakes in X, against   *)
(* which the properties are tried; no action uses them.                    *)

\* docs/GIT_BACKEND_CONTENTION.md, 175-177: an older, slower scan does not
\* overwrite a newer published observation.  Whatever overtakes, fails or is
\* killed, the recorded observation is at least as recent as the moment the
\* ticket of any completed reconcile was drawn (observation_is_superseded).
NotOvertaken == floor <= recorded

=============================================================================
