------------------------ MODULE AcceptanceEvidence ------------------------
(***************************************************************************)
(* What release --status done demands of a task (tools/task_spec,          *)
(* predicate_ledger, predicate_ledger_repair, change_drift,                *)
(* assumption_revalidation and handoffctl's require_done_admission).       *)
(*                                                                         *)
(* One task with the records its author opts into: a bound spec with a     *)
(* predicate ledger, a change-drift cycle over its worktree, and declared  *)
(* assumptions.  The records name files, commits and task revisions that   *)
(* other people keep changing; nothing but the next command looks at them  *)
(* again.                                                                  *)
(*                                                                         *)
(* A digest is the version of a file it was taken of, 0 for a file that is *)
(* absent.  The fence on the task's revision refuses a caller who read an  *)
(* earlier task and is left out, as are notes, scopes (they classify a     *)
(* path, and every classified path is material) and renames.               *)
(***************************************************************************)
EXTENDS Integers, FiniteSets

CONSTANTS
    Predicates,     \* acceptance predicates a spec may declare
    Candidates,     \* files named as candidates
    Proofs,         \* files named as evidence
    Observation,    \* the file an observation assumption names
    Paths,          \* paths of the bound worktree
    Assumptions,    \* assumption identifiers
    OptIns,         \* the sets of records a task may use
    MaxVersion,     \* bound on the versions of a file, and of a spec
    MaxRows,        \* bound on the rows of a ledger
    MaxSaved,       \* bound on the checkpoints
    MaxEdits,       \* bound on the changes of files, specs, paths and policy
    MaxHead,        \* bound on the number of commits
    MaxDrift,       \* change_drift.MAX_RECORDS
    MaxRecords,     \* assumption_revalidation.MAX_RECORDS
    None

VARIABLES
    uses,           \* which records this task uses
    status,         \* "open", "in_progress" or "done"
    spec,           \* spec_revision the task is bound to, or 0
    specFile,       \* the referenced spec as it is now, or None
    policy,         \* the task-spec policy file: "absent", "clean" or "dirty"
    acceptance,     \* spec_acceptance, or None
    ledger,         \* evidence_ledger, or None
    file,           \* version of every candidate, evidence and observation
    drift,          \* change_drift: the active cycle, or None
    work,           \* version of every path in the worktree
    head,           \* the worktree's HEAD: its identity and its tree
    assumption,     \* assumption_revalidation: the active record of each
    written,        \* length of that history
    dependency,     \* revision of the task a dependency assumption names
    saved,          \* checkpoints: the fields a rollback restores
    edits           \* number of changes so far (bounded)

vars == <<uses, status, spec, specFile, policy, acceptance, ledger, file, drift,
          work, head, assumption, written, dependency, saved, edits>>

Files     == Candidates \cup Proofs \cup {Observation}
Versions  == 0 .. MaxVersion
Tree      == [Paths -> Versions]
Binding(refs) == [ref : refs, version : Versions \ {0}]
Class     == {"builtin", "extra"}
Row       == [pred : Predicates, pass : BOOLEAN, cand : Binding(Candidates),
              proof : Binding(Proofs), class : Class]
SpecFile  == [revision : Versions \ {0}, predicates : SUBSET Predicates \ {{}}]
Accepted  == [match : {"best_effort", "spec"}, class : Class]
Entry     == [kind : {"added", "deleted", "modified"}, content : Versions]
Cycle     == [last : {"baseline", "rescope", "delta", "explain"},
              entries : [Paths -> Entry \cup {None}], head : Tree,
              changed : SUBSET Paths, differs : SUBSET Paths,
              explained : SUBSET Paths, length : 1 .. MaxDrift]
Assumed   == [kind : {"base", "dependency", "observation"}, material : BOOLEAN,
              binding : Nat, disposed : BOOLEAN]

\* Every variable has the shape the source declares.
TypeOK ==
    /\ uses \in OptIns
    /\ status \in {"open", "in_progress", "done"}
    /\ spec \in Versions /\ specFile \in SpecFile \cup {None}
    /\ policy \in {"absent", "clean", "dirty"}
    /\ acceptance \in Accepted \cup {None}
    /\ ledger # None => ledger.cand \in Binding(Candidates) /\ ledger.rows \subseteq Row
    /\ file \in [Files -> Versions]
    /\ drift \in Cycle \cup {None}
    /\ work \in Tree /\ head \in [id : 1 .. MaxHead, tree : Tree]
    /\ assumption \in [Assumptions -> Assumed \cup {None}]
    /\ written \in 0 .. MaxRecords /\ dependency \in Versions /\ edits \in 0 .. MaxEdits
    /\ \A s \in saved : s.spec \in Versions /\ s.acceptance \in Accepted \cup {None}

Init ==
    /\ uses \in OptIns
    /\ status = "open"
    /\ spec = 0 /\ acceptance = None /\ ledger = None
    /\ specFile \in {f \in SpecFile : f.revision = 1}
    /\ "spec" \notin uses => specFile.predicates = Predicates
    /\ policy = "absent"
    /\ file = [r \in Files |-> 1]
    /\ drift = None
    /\ work = [p \in Paths |-> 1] /\ head = [id |-> 1, tree |-> work]
    /\ assumption = [a \in Assumptions |-> None] /\ written = 0
    /\ dependency = 1
    /\ saved = {} /\ edits = 0

Active == status = "in_progress"

world == <<uses, specFile, policy, file, work, head, dependency, edits>>
records == <<spec, acceptance, ledger, drift, assumption, written>>

-----------------------------------------------------------------------------
(* Validation of the spec and the ledger.                                  *)

\* evidence_policy: an addition to the vocabulary counts while the file is
\* tracked and unchanged; a policy that is not is an error everywhere.
PolicyReadable == policy # "dirty"
Classes == IF policy = "clean" THEN Class ELSE {"builtin"}

\* task_spec_errors without the ledger.
SpecReadable(s) == s # 0 => specFile # None /\ specFile.revision = s

Taken(r) == [ref |-> r, version |-> file[r]]
Current(b) == b.version = file[b.ref]

\* evidence_ledger_errors: passing rows are for the ledger's candidate, with
\* evidence that still has its digest; historical rows are for another one.
LedgerValid_EvidenceUnread(l) ==
    l # None =>
        /\ Current(l.cand)
        /\ \A r \in l.rows :
              /\ r.pred \in specFile.predicates /\ r.class \in Classes
              /\ r.pass <=> r.cand = l.cand
        /\ \A r, s \in l.rows : r.pass /\ s.pass /\ r.pred = s.pred => r = s
LedgerValid(l) ==
    l # None =>
        /\ Current(l.cand)
        /\ \A r \in l.rows :
              /\ r.pred \in specFile.predicates /\ r.class \in Classes
              /\ r.pass <=> r.cand = l.cand
              /\ r.pass => Current(r.proof)
        /\ \A r, s \in l.rows : r.pass /\ s.pass /\ r.pred = s.pred => r = s

\* What every mutation validates before it commits, and what the repair does.
ValidWithoutLedger == PolicyReadable /\ SpecReadable(spec')
Validated == ValidWithoutLedger /\ (spec' # 0 => LedgerValid(ledger'))

\* next_unmet_predicate.
Unmet == specFile.predicates \ {r.pred : r \in {r \in ledger.rows : r.pass}}

\* task_spec.done_admission_error, for an acceptance about to be recorded too.
Evidence(accepted) ==
    /\ PolicyReadable /\ SpecReadable(spec) /\ (spec # 0 => LedgerValid(ledger))
    /\ IF ledger # None
       THEN Unmet = {}
       ELSE /\ accepted # None
            /\ accepted.match = (IF spec # 0 THEN "spec" ELSE "best_effort")
            /\ accepted.class \in Classes

-----------------------------------------------------------------------------
(* Assumptions and change drift.                                           *)

\* _binding: what an assumption of a kind is bound to now; 0 when there is
\* nothing to bind to.
Observed(kind) ==
    [base |-> head.id, dependency |-> dependency, observation |-> file[Observation]][kind]

\* admission_error over the active material records.  accept passes no tasks,
\* so that to it a dependency is unavailable.
Fresh(tasksKnown) ==
    \A a \in Assumptions :
        LET record == assumption[a] IN
        record # None /\ record.material /\ ~ record.disposed
            => /\ record.kind = "dependency" => tasksKnown
               /\ Observed(record.kind) = record.binding

\* observe: the entries of git status, with the digest of what is there.
Status(p) ==
    IF work[p] = head.tree[p] THEN None
    ELSE [kind |-> IF head.tree[p] = 0 THEN "added"
                   ELSE IF work[p] = 0 THEN "deleted" ELSE "modified",
          content |-> work[p]]

\* delta: what git status shows otherwise than at the baseline, and what was
\* committed since, except what the baseline had already seen uncommitted.
Delta_Uncommitted(c) == {p \in Paths : Status(p) # None /\ Status(p) # c.entries[p]}
Delta(c) ==
    {p \in Paths :
        \/ Status(p) # None /\ Status(p) # c.entries[p]
        \/ /\ head.tree[p] # c.head[p]
           /\ c.entries[p] # None => c.entries[p].content # work[p]}

\* The content of a path when the baseline was taken.
Before(c, p) == IF c.entries[p] = None THEN c.head[p] ELSE c.entries[p].content

\* Paths whose content is another one than at the baseline, but for
\* uncommitted work that was put back to an unmoved HEAD.
Differs(c) ==
    {p \in Paths : /\ work[p] # Before(c, p)
                   /\ ~ (c.entries[p] # None /\ work[p] = head.tree[p]
                                             /\ head.tree[p] = c.head[p])}

\* completion_error.
CycleComplete(c) == c.last \in {"delta", "explain"} /\ c.changed \subseteq c.explained

\* require_done_admission.
DoneAdmitted ==
    /\ Evidence(acceptance)
    /\ drift # None => CycleComplete(drift)
    /\ Fresh(TRUE)

-----------------------------------------------------------------------------
(* The commands.                                                           *)

Claim ==
    /\ status = "open" /\ status' = "in_progress"
    /\ UNCHANGED <<world, records, saved>>
    /\ Validated

Release(to) ==
    /\ Active
    /\ to = "done" => DoneAdmitted
    /\ status' = to
    /\ UNCHANGED <<world, records, saved>>
    /\ Validated

\* apply_bind_spec: once, and before any acceptance.
BindSpec ==
    /\ "spec" \in uses
    /\ Active
    /\ spec = 0 /\ acceptance = None
    /\ specFile # None /\ spec' = specFile.revision
    /\ UNCHANGED <<world, status, acceptance, ledger, drift, assumption, written, saved>>
    /\ Validated

\* apply_acceptance without a predicate; it must already admit done.
Accept(class) ==
    /\ Active
    /\ Fresh(FALSE)
    /\ acceptance' = [match |-> IF spec # 0 THEN "spec" ELSE "best_effort",
                      class |-> class]
    /\ Evidence(acceptance')
    /\ UNCHANGED <<world, status, spec, ledger, drift, assumption, written, saved>>
    /\ Validated

Staled(r) == [r EXCEPT !.pass = FALSE]

\* apply_predicate_acceptance: rows of another candidate, and an earlier pass
\* of this predicate, become history; only --reopen may change the candidate.
AcceptPredicate(p, c, e, class, reopen) ==
    LET cand    == Taken(c)
        old     == IF ledger = None THEN [cand |-> cand, rows |-> {}] ELSE ledger
        changed == old.cand # cand
        history == {IF changed \/ r.pred = p THEN Staled(r) ELSE r : r \in old.rows}
        row     == [pred |-> p, pass |-> TRUE, cand |-> cand, proof |-> Taken(e),
                    class |-> class]
    IN
    /\ "spec" \in uses
    /\ Active
    /\ Fresh(FALSE)
    /\ spec # 0 /\ SpecReadable(spec) /\ p \in specFile.predicates
    /\ changed <=> reopen
    /\ file[c] # 0 /\ file[e] # 0
    /\ Cardinality(old.rows) < MaxRows
    /\ ledger' = [cand |-> cand, rows |-> history \cup {row}]
    /\ UNCHANGED <<world, status, spec, acceptance, drift, assumption, written, saved>>
    /\ Validated

\* repair-predicate-ledger, of a done task: only the predicate's own pass
\* becomes history, and the ledger that results is not validated.
Repair(p, c, e, class) ==
    /\ status = "done"
    /\ ledger # None
    /\ SpecReadable(spec) /\ p \in specFile.predicates /\ class \in Classes
    /\ file[c] # 0 /\ file[e] # 0
    /\ ledger.cand # Taken(c)
    /\ Cardinality(ledger.rows) < MaxRows
    /\ ledger' = [cand |-> Taken(c),
                  rows |-> {IF r.pred = p THEN Staled(r) ELSE r : r \in ledger.rows}
                           \cup {[pred |-> p, pass |-> TRUE, cand |-> Taken(c),
                                  proof |-> Taken(e), class |-> class]}]
    /\ UNCHANGED <<world, status, spec, acceptance, drift, assumption, written, saved>>
    /\ ValidWithoutLedger

DriftStep ==
    /\ "drift" \in uses
    /\ Active
    /\ UNCHANGED <<world, status, spec, acceptance, ledger, assumption, written, saved>>
    /\ Validated

\* A new cycle replaces the history of a completed one.
Baseline ==
    /\ drift # None => CycleComplete(drift)
    /\ drift' = [last |-> "baseline", entries |-> [p \in Paths |-> Status(p)],
                 head |-> head.tree, changed |-> {}, differs |-> {},
                 explained |-> {}, length |-> 1]
    /\ DriftStep

Extends(kinds) ==
    /\ drift # None /\ drift.last \in kinds
    /\ drift.length < MaxDrift

Rescope ==
    /\ Extends({"baseline", "rescope"})
    /\ drift' = [drift EXCEPT !.last = "rescope", !.length = @ + 1]
    /\ DriftStep

TakeDelta ==
    /\ Extends({"baseline", "rescope"})
    /\ drift' = [drift EXCEPT !.last = "delta", !.length = @ + 1,
                              !.changed = Delta(drift), !.differs = Differs(drift)]
    /\ DriftStep

Explain(ps) ==
    /\ Extends({"delta", "explain"})
    /\ ps # {} /\ ps \subseteq drift.changed
    /\ drift' = [drift EXCEPT !.last = "explain", !.length = @ + 1,
                              !.explained = @ \cup ps]
    /\ DriftStep

AssumptionStep ==
    /\ "assumptions" \in uses
    /\ Active
    /\ written < MaxRecords /\ written' = written + 1
    /\ UNCHANGED <<world, status, spec, acceptance, ledger, drift, saved>>
    /\ Validated

Declare(a, kind, material) ==
    /\ assumption[a] = None
    /\ Observed(kind) # 0
    /\ assumption' = [assumption EXCEPT ![a] = [kind |-> kind, material |-> material,
                                                binding |-> Observed(kind), disposed |-> FALSE]]
    /\ AssumptionStep

\* Revalidation wants a changed binding; both take the current one.
FollowUp(a, disposes) ==
    /\ assumption[a] # None /\ ~ assumption[a].disposed
    /\ LET now == Observed(assumption[a].kind) IN
       /\ now # 0
       /\ ~ disposes => now # assumption[a].binding
       /\ assumption' = [assumption EXCEPT ![a].binding = now, ![a].disposed = disposes]
    /\ AssumptionStep

Checkpoint ==
    /\ Active
    /\ Cardinality(saved) < MaxSaved
    /\ saved' = saved \cup {[spec |-> spec, acceptance |-> acceptance]}
    /\ UNCHANGED <<world, status, records>>
    /\ Validated

\* apply_rollback: fields the checkpoint lacks keep their value, and ledger,
\* drift and assumptions are not among the restored ones.
Rollback(s) ==
    /\ ~ Active
    /\ status' = "open"
    /\ spec' = IF s.spec # 0 THEN s.spec ELSE spec
    /\ acceptance' = IF s.acceptance # None THEN s.acceptance ELSE acceptance
    /\ UNCHANGED <<world, ledger, drift, assumption, written, saved>>
    /\ Validated

-----------------------------------------------------------------------------
(* The world the records speak of.                                         *)

Outside ==
    /\ edits < MaxEdits /\ edits' = edits + 1
    /\ UNCHANGED <<uses, status, records, saved>>

EditFile(r, v) ==
    /\ IF r = Observation THEN "assumptions" \in uses ELSE "spec" \in uses
    /\ v # file[r] /\ file' = [file EXCEPT ![r] = v]
    /\ Outside /\ UNCHANGED <<specFile, policy, work, head, dependency>>

EditSpec(f) ==
    /\ "spec" \in uses
    /\ f # specFile /\ specFile' = f
    /\ Outside /\ UNCHANGED <<policy, file, work, head, dependency>>

EditPolicy(p) ==
    /\ "spec" \in uses
    /\ p # policy /\ policy' = p
    /\ Outside /\ UNCHANGED <<specFile, file, work, head, dependency>>

EditPath(p, v) ==
    /\ "drift" \in uses
    /\ v # work[p] /\ work' = [work EXCEPT ![p] = v]
    /\ Outside /\ UNCHANGED <<specFile, policy, file, head, dependency>>

CommitPaths(ps) ==
    /\ {"drift", "assumptions"} \cap uses # {}
    /\ head.id < MaxHead
    /\ head' = [id |-> head.id + 1,
                tree |-> [p \in Paths |-> IF p \in ps THEN work[p] ELSE head.tree[p]]]
    /\ Outside /\ UNCHANGED <<specFile, policy, file, work, dependency>>

AdvanceDependency ==
    /\ "assumptions" \in uses
    /\ dependency < MaxVersion /\ dependency' = dependency + 1
    /\ Outside /\ UNCHANGED <<specFile, policy, file, work, head>>

Command ==
    \/ Claim \/ Checkpoint \/ BindSpec
    \/ \E to \in {"open", "done"} : Release(to)
    \/ \E s \in saved : Rollback(s)
    \/ \E class \in Class : Accept(class)
    \/ \E p \in Predicates, c \in Candidates, e \in Proofs, class \in Class :
          \/ \E reopen \in BOOLEAN : AcceptPredicate(p, c, e, class, reopen)
          \/ Repair(p, c, e, class)
    \/ Baseline \/ Rescope \/ TakeDelta
    \/ \E ps \in SUBSET Paths : Explain(ps)
    \/ \E a \in Assumptions :
          \/ \E kind \in {"base", "dependency", "observation"}, material \in BOOLEAN :
                Declare(a, kind, material)
          \/ \E disposes \in BOOLEAN : FollowUp(a, disposes)

World ==
    \/ \E r \in Files, v \in Versions : EditFile(r, v)
    \/ \E f \in SpecFile \cup {None} : EditSpec(f)
    \/ \E p \in {"absent", "clean", "dirty"} : EditPolicy(p)
    \/ \E p \in Paths, v \in Versions : EditPath(p, v)
    \/ \E ps \in SUBSET Paths : CommitPaths(ps)
    \/ AdvanceDependency

Next == Command \/ World

Spec == Init /\ [][Next]_vars

-----------------------------------------------------------------------------
(* Properties.  Operators named X_Y are plausible mistakes in X.           *)

Closes == status = "in_progress" /\ status' = "done"

\* docs/EXTENDING.md, 31-41 and 45-54: when a task becomes done, every predicate
\* its spec declares by then was accepted for one and the same candidate, whose
\* file and whose evidence are still the ones accepted; and no material input it
\* declared has moved since it was last looked at, whatever was edited, committed,
\* reopened, rolled back or repaired in between (evidence_ledger_errors,
\* next_unmet_predicate, admission_error).
Evidenced ==
    /\ ledger # None =>
          \E cand \in Binding(Candidates) :
             /\ Current(cand)
             /\ \A p \in specFile.predicates :
                   \E r \in ledger.rows : /\ r.pass /\ r.pred = p /\ r.cand = cand
                                          /\ Current(r.proof)
    /\ \A a \in Assumptions :
          assumption[a] # None /\ assumption[a].material /\ ~ assumption[a].disposed
             => assumption[a].binding = Observed(assumption[a].kind)
DoneIsEvidenced == [][Closes => Evidenced]_vars

\* docs/PROJECT_GUIDE.md, 149-152: every changed path is explained before a task
\* that took a baseline becomes done.  Committed or not, a path whose content at
\* the delta was another one than at the baseline has its explanation, unless it
\* was uncommitted work put back to an unmoved HEAD (delta, completion_error).
ChangesExplained == [][Closes /\ drift # None => drift.differs \subseteq drift.explained]_vars
=============================================================================
