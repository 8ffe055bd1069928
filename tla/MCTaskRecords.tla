--------------------------- MODULE MCTaskRecords ---------------------------
(* Small instances of the records a task carries beside its lifecycle: the *)
(* command budget, the retry circuit, and the evidence for its completion. *)
(* They share no state; `running` says which of them an execution is       *)
(* about.                                                                  *)
EXTENDS AutonomyLimits, TLC

CONSTANTS Commands, Progresses, Windows, Lengths, Leases, MaxAttempts, MaxRecoveries,
          MaxAbandoned, MaxSlots, CircuitBackend, CircuitRevision, CircuitTime,
          Predicates, Candidates, Proofs, Observation, Paths, Assumptions, OptIns,
          MaxVersion, MaxRows, MaxSaved, MaxEdits, MaxHead, MaxDrift, MaxRecords

VARIABLES running,
          owned, until, rev, progress, attempts, recoveries, held, slots, retired,
          wrapped, time, reopened,
          uses, status, spec, specFile, vocabulary, acceptance, evidence, file, drift,
          work, head, assumption, written, dependency, saved, edits

Circuit == INSTANCE RetryCircuit
    WITH Backend <- CircuitBackend, MaxRevision <- CircuitRevision, MaxTime <- CircuitTime,
         claimed <- owned, expires <- until, revision <- rev, hold <- held,
         run <- wrapped, clock <- time
Done == INSTANCE AcceptanceEvidence WITH policy <- vocabulary, ledger <- evidence

circuitVars == <<owned, until, rev, progress, attempts, recoveries, held, slots,
                 retired, wrapped, time, reopened>>
doneVars == <<uses, status, spec, specFile, vocabulary, acceptance, evidence, file,
              drift, work, head, assumption, written, dependency, saved, edits>>
MCvars == <<vars, circuitVars, doneVars, running>>

ASSUME CircuitAssumption == Circuit!RetryConstants
ASSUME EvidenceAssumption == MaxVersion \in Nat \ {0} /\ None \notin Done!Entry

MCInit ==
    /\ running \in {"budget", "circuit", "evidence"}
    /\ Init /\ Circuit!Init /\ Done!Init
    /\ policy = CHOOSE p \in Policies : TRUE
    /\ running # "circuit" => progress = CHOOSE p \in Progresses : TRUE
    /\ running # "evidence" => uses = {"drift"}

BudgetSteps ==
    running = "budget" /\ Next /\ UNCHANGED <<circuitVars, doneVars, running>>
CircuitSteps ==
    running = "circuit" /\ Circuit!Next /\ UNCHANGED <<vars, doneVars, running>>
EvidenceSteps ==
    running = "evidence" /\ Done!Next /\ UNCHANGED <<vars, circuitVars, running>>

MCSpec == MCInit /\ [][BudgetSteps \/ CircuitSteps \/ EvidenceSteps]_MCvars

\* Invocations, commands and fingerprints are only compared for equality, and
\* so are predicates and paths, for which the same values stand.
Interchangeable ==
    Permutations(Runs) \cup Permutations(Commands) \cup Permutations(Progresses)

\* The retry ledger can be loaded again, and no series of failures outgrows the
\* window its runs asked for (retry_circuit.validate, record_failure).
LedgerSound == Circuit!LedgerSound

\* Capacity lost to killed runs returns when their slots elapse (reserve).
CapacityReturns == Circuit!CapacityReturns

\* A task becomes done on current evidence for one candidate and on assumptions
\* that still hold (require_done_admission).
DoneIsEvidenced == Done!DoneIsEvidenced

\* A task becomes done with every change since its baseline explained
\* (change_drift.delta, completion_error).
ChangesExplained == Done!ChangesExplained

=============================================================================
