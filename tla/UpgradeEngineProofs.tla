------------------------ MODULE UpgradeEngineProofs ------------------------
(***************************************************************************)
(* Proofs about the upgrade engine, for any operations, processes, backend *)
(* and bounds: no effect of an operation starts twice and what a journal   *)
(* calls finished happened, there is one active barrier, and a commit      *)
(* called a success landed behind its fence.                               *)
(*                                                                         *)
(* The inductive invariant says, of each operation, what its journal lets  *)
(* one conclude of the effects (Accounted) and, of the one process that    *)
(* holds the engine lock, what it has done since it last wrote the journal *)
(* (ForwardOK, BackwardOK).                                                *)
(***************************************************************************)
EXTENDS UpgradeEngine, FiniteSetTheorems, SequenceTheorems, TLAPS

Steps == {PHASES[i] : i \in 1..8} \union {"rollback"}
Forwards == {"next", "dispatch", "admitted", "projected", "committing", "landed", "executed"}
Holder == [at : Forwards \union Releasing, op : Ops]
Sessions ==
    {f \in [op : Nat, status : {"held", "releasing", "released", "ambiguous"}, drifted : BOOLEAN] :
        f.op = 0 => f.status = "released"}

-----------------------------------------------------------------------------
(* The inductive invariant.                                                *)

\* The shapes of the state.
Stores ==
    /\ journal \in [Ops -> Journals \union {None}]
    /\ barrier \in [Ops -> Rows \union {None}]
    /\ fence \in Sessions
    /\ backup \in [Ops -> {"none", "published"}]
    /\ begun \in [Ops -> [Steps -> 0..1]]
    /\ landed \in [Ops -> SUBSET BOOLEAN]

Shapes == Stores /\ proc \in [Procs -> Holder \union {Idle}]

\* _exclusive: one process has the engine lock.
Exclusive == \A p, q \in Procs : proc[p] # Idle /\ proc[q] # Idle => p = q

\* What a journal j says of the effects of its operation: of its control row, its
\* backup, the steps begun and the commits landed.
AccountsFor(j, row, copy, starts, lands) ==
    /\ j = None => copy = "none" /\ \A step \in Steps : starts[step] = 0
    /\ starts["commit"] = 0 => lands = {}
    /\ j # None =>
          /\ Len(j.outs) <= 8
          /\ \A i \in 1..8 : i < Len(j.outs) => j.outs[i] = "success"
          /\ \A i \in 1..8 : i > Len(j.outs) => starts[PHASES[i]] = 0
          /\ \A i \in 1..8 : i <= Len(j.outs) /\ j.outs[i] = "success" =>
                /\ starts[PHASES[i]] = 1
                /\ i = 4 => copy = "published"
                /\ i = 6 => lands = {TRUE}
          /\ j.rollback = "none" => starts["rollback"] = 0
          /\ j.rollback \in {"verified", "completed"} => starts["rollback"] = 1
          /\ j.status = "completed" =>
                Len(j.outs) = 8 /\ j.outs[8] = "success" /\ j.rollback = "none"
          /\ j.status = "rolled-back" =>
                j.rollback = "completed" /\ row \in {"released", "ambiguous"}

Accounted(op) == AccountsFor(journal[op], barrier[op], backup[op], begun[op], landed[op])

\* Where an apply is with an operation.
ForwardOK(at, op) ==
    LET outs == journal[op].outs IN
    /\ journal[op].rollback = "none"
    /\ journal[op].status \in {"planned", "running"}
    /\ at = "next" => \A i \in 1..8 : i <= Len(outs) => outs[i] = "success"
    /\ at # "next" => Len(outs) > 0 /\ LastOutcome(op) = "started"
    /\ at \in {"dispatch", "admitted", "projected", "committing"} => begun[op][Phase(op)] = 0
    /\ at \in {"landed", "executed"} => begun[op][Phase(op)] = 1
    /\ at = "projected" => Len(outs) = 4
    /\ at \in {"committing", "landed"} => Len(outs) = 6 /\ fence.op >= op
    /\ at = "landed" => landed[op] = {TRUE} \/ (landed[op] = {FALSE} /\ ~ Held(op))
    /\ at = "executed" => /\ Len(outs) = 4 => backup[op] = "published"
                          /\ Len(outs) = 6 => landed[op] = {TRUE}

\* Where a rollback is with an operation.
BackwardOK(at, op) ==
    /\ journal[op].status \in RollbackStatuses
    /\ barrier[op] # None
    /\ at \in {"restoring", "restored"} => journal[op].rollback = "started"
    /\ at = "restoring" => begun[op]["rollback"] = 0
    /\ at = "restored" => begun[op]["rollback"] = 1
    /\ at \notin {"restoring", "restored"} => journal[op].rollback = "verified"
    /\ at \in {"restoring", "restored", "release"} =>
          barrier[op] \in {"held", "releasing", "released"}
    /\ at = "authorize" => barrier[op] \in {"releasing", "released"}
    /\ at = "complete" => barrier[op] = "releasing"
    /\ at = "finish" => barrier[op] = "released"

HolderOK(p) ==
    proc[p] # Idle =>
        /\ journal[proc[p].op] # None
        /\ proc[p].at \in Forwards => ForwardOK(proc[p].at, proc[p].op)
        /\ proc[p].at \in Releasing => BackwardOK(proc[p].at, proc[p].op)

\* The control rows: one active barrier.
RowsOK == \A a, b \in Active : a = b

EngineInv ==
    /\ Shapes /\ Exclusive
    /\ \A op \in Ops : Accounted(op)
    /\ \A p \in Procs : HolderOK(p)
    /\ RowsOK

-----------------------------------------------------------------------------
(* Facts about phases, journals and the holder of the engine lock.         *)

\* The eight phases are distinct steps.
LEMMA PhaseFacts ==
  /\ Len(PHASES) = 8
  /\ \A i \in 1..8 : PHASES[i] \in Steps /\ PHASES[i] # "rollback"
  /\ \A i, k \in 1..8 : PHASES[i] = PHASES[k] => i = k
  /\ PHASES[4] = "backup" /\ PHASES[6] = "commit"
  /\ {"backup", "commit", "rollback"} \subseteq Steps
  BY DEF PHASES, Steps

\* Counting phases.
LEMMA Counting ==
  /\ \A n \in Nat : n <= 8 => n \in 0..8 /\ (n > 0 => n \in 1..8)
  /\ \A n \in 1..8 : n > 0
  /\ \A n \in Nat, i \in 1..8 : i <= n => (i < n \/ i = n)
  OBVIOUS

\* The process that is not idle is the one with the lock.
LEMMA Holding ==
  ASSUME EngineInv, NEW p \in Procs, proc[p].at # "idle"
  PROVE  /\ proc[p] # Idle /\ proc[p] \in Holder
         /\ proc[p].op \in Ops /\ journal[proc[p].op] # None
         /\ journal[proc[p].op] \in Journals
         /\ Accounted(proc[p].op)
         /\ proc[p].at \in Forwards => ForwardOK(proc[p].at, proc[p].op)
         /\ proc[p].at \in Releasing => BackwardOK(proc[p].at, proc[p].op)
         /\ \A q \in Procs : q # p => proc[q] = Idle
  <1>1. proc[p] # Idle
    BY DEF Idle
  <1>2. proc[p] \in Holder /\ proc[p].op \in Ops
    BY <1>1 DEF EngineInv, Shapes, Holder
  <1>3. /\ journal[proc[p].op] # None
        /\ proc[p].at \in Forwards => ForwardOK(proc[p].at, proc[p].op)
        /\ proc[p].at \in Releasing => BackwardOK(proc[p].at, proc[p].op)
    BY <1>1 DEF EngineInv, HolderOK
  <1>4. journal[proc[p].op] \in Journals
    BY <1>2, <1>3 DEF EngineInv, Shapes, Stores
  <1> QED
    BY <1>1, <1>2, <1>3, <1>4 DEF EngineInv, Exclusive

\* Where Goto and Leave put a process.
LEMMA Moves ==
  ASSUME Shapes, NEW p \in Procs, NEW op \in Ops, NEW at \in Forwards \union Releasing,
         Goto(p, at, op) \/ Leave(p)
  PROVE  /\ proc' \in [Procs -> Holder \union {Idle}]
         /\ Goto(p, at, op) => proc'[p].at = at /\ proc'[p].op = op
         /\ Leave(p) => proc'[p] = Idle
         /\ \A q \in Procs : q # p => proc'[q] = proc[q]
  <1>1. [at |-> at, op |-> op] \in Holder
    BY DEF Holder
  <1> DEFINE there == [at |-> at, op |-> op]
  <1>2. there.at = at /\ there.op = op
    OBVIOUS
  <1>3. Goto(p, at, op) => proc' = [proc EXCEPT ![p] = there]
    BY DEF Goto
  <1> HIDE DEF there
  <1>4. CASE Goto(p, at, op)
    <2>1. proc' = [proc EXCEPT ![p] = there] /\ there \in Holder
      BY <1>1, <1>3, <1>4 DEF there
    <2>2. /\ proc' \in [Procs -> Holder \union {Idle}] /\ proc'[p] = there
          /\ \A q \in Procs : q # p => proc'[q] = proc[q]
      BY <2>1 DEF Shapes
    <2>3. there # Idle
      BY <1>2 DEF Idle, Forwards, Releasing
    <2>4. ~ Leave(p)
      BY <2>2, <2>3 DEF Shapes, Leave
    <2> QED
      BY <1>2, <2>2, <2>4
  <1>5. CASE ~ Goto(p, at, op)
    BY <1>5 DEF Shapes, Leave
  <1> QED
    BY <1>4, <1>5

\* A step of the lock's holder concerns its own operation only.
LEMMA HolderLocal ==
  ASSUME EngineInv, Shapes', NEW p \in Procs, NEW op \in Ops,
         \A q \in Procs : q # p => proc[q] = Idle /\ proc'[q] = Idle,
         \A o \in Ops : o # op =>
            /\ journal'[o] = journal[o] /\ barrier'[o] = barrier[o]
            /\ backup'[o] = backup[o] /\ begun'[o] = begun[o] /\ landed'[o] = landed[o],
         Accounted(op)', HolderOK(p)', RowsOK'
  PROVE  EngineInv'
  <1>1. Exclusive'
    BY DEF Exclusive
  <1>2. ASSUME NEW o \in Ops, o # op
        PROVE  Accounted(o)'
    <2>1. /\ journal'[o] = journal[o] /\ barrier'[o] = barrier[o]
          /\ backup'[o] = backup[o] /\ begun'[o] = begun[o] /\ landed'[o] = landed[o]
      BY <1>2
    <2>2. Accounted(o)
      BY DEF EngineInv
    <2> QED
      BY <2>1, <2>2 DEF Accounted
  <1>3. \A q \in Procs : HolderOK(q)'
    BY DEF HolderOK
  <1> QED
    BY <1>1, <1>2, <1>3 DEF EngineInv

\* The control rows do not mind a journal.
LEMMA RowsStay ==
  ASSUME EngineInv, barrier' = barrier
  PROVE  RowsOK'
  BY DEF EngineInv, RowsOK, Active, HasRow

\* A journal's record of one operation is replaced.
LEMMA JournalWrites ==
  ASSUME Shapes, NEW op \in Ops, NEW j \in Journals, journal' = [journal EXCEPT ![op] = j]
  PROVE  /\ journal' \in [Ops -> Journals \union {None}]
         /\ journal'[op] = j /\ journal'[op] # None
         /\ \A o \in Ops : o # op => journal'[o] = journal[o]
  BY NoneAssumption DEF Shapes, Stores

\* Recording the outcome of the last phase.
LEMMA OutcomeIs ==
  ASSUME Shapes, NEW op \in Ops, journal[op] # None, Len(journal[op].outs) > 0,
         NEW outcome \in {"started", "success", "failed", "ambiguous"},
         NEW status \in {"planned", "running", "failed", "safe-mode", "completed", "rolled-back"},
         Outcome(op, outcome, status)
  PROVE  /\ journal' \in [Ops -> Journals \union {None}] /\ journal'[op] # None
         /\ \A o \in Ops : o # op => journal'[o] = journal[o]
         /\ journal'[op].status = status /\ journal'[op].rollback = journal[op].rollback
         /\ Len(journal'[op].outs) = Len(journal[op].outs)
         /\ Len(journal[op].outs) \in Nat
         /\ journal'[op].outs[Len(journal[op].outs)] = outcome
         /\ \A i \in 1..8 : i < Len(journal[op].outs) =>
               journal'[op].outs[i] = journal[op].outs[i]
  <1> DEFINE o == journal[op].outs
             new == [o EXCEPT ![Len(o)] = outcome]
             j == [journal[op] EXCEPT !.outs = new, !.status = status]
  <1>1. journal[op] \in Journals /\ o \in Seq({"started", "success", "failed", "ambiguous"})
    BY DEF Shapes, Stores, Journals
  <1>2. /\ new \in Seq({"started", "success", "failed", "ambiguous"})
        /\ Len(new) = Len(o) /\ Len(o) \in Nat /\ new[Len(o)] = outcome
        /\ \A i \in 1..8 : i < Len(o) => new[i] = o[i]
    <2>1. Len(o) \in Nat /\ o \in [1..Len(o) -> {"started", "success", "failed", "ambiguous"}]
      BY <1>1
    <2>2. Len(o) \in 1..Len(o)
      BY <2>1
    <2>3. /\ new \in Seq({"started", "success", "failed", "ambiguous"}) /\ Len(new) = Len(o)
          /\ \A i \in 1..Len(o) : new[i] = IF i = Len(o) THEN outcome ELSE o[i]
      BY <1>1, <2>2, ExceptSeq
    <2>4. \A i \in 1..8 : i < Len(o) => i \in 1..Len(o) /\ i # Len(o)
      <3>1. ASSUME NEW n \in Nat, NEW i \in 1..8, i < n
            PROVE  i \in 1..n /\ i # n
        BY <3>1
      <3> QED
        BY <2>1, <3>1
    <2> HIDE DEF new, o
    <2> QED
      BY <2>1, <2>2, <2>3, <2>4
  <1>3. journal' = [journal EXCEPT ![op] = j]
    BY <1>1 DEF Outcome, Shapes, Stores, Journals
  <1> HIDE DEF new
  <1>4. /\ j \in Journals /\ j.outs = new /\ j.status = status
        /\ j.rollback = journal[op].rollback
    BY <1>1, <1>2 DEF Journals
  <1> HIDE DEF j
  <1> QED
    BY <1>2, <1>3, <1>4, JournalWrites

\* The holder of the lock moves on with its operation ...
LEMMA HolderGoes ==
  ASSUME EngineInv, NEW p \in Procs, NEW op \in Ops, NEW at \in Forwards \union Releasing,
         \A q \in Procs : q # p => proc[q] = Idle,
         Goto(p, at, op), Stores',
         \A o \in Ops : o # op =>
            /\ journal'[o] = journal[o] /\ barrier'[o] = barrier[o]
            /\ backup'[o] = backup[o] /\ begun'[o] = begun[o] /\ landed'[o] = landed[o],
         Accounted(op)', RowsOK', journal'[op] # None,
         at \in Forwards => ForwardOK(at, op)',
         at \in Releasing => BackwardOK(at, op)'
  PROVE  EngineInv'
  <1>1. /\ proc' \in [Procs -> Holder \union {Idle}]
        /\ proc'[p].at = at /\ proc'[p].op = op
        /\ \A q \in Procs : q # p => proc'[q] = proc[q]
    BY Moves DEF EngineInv
  <1>2. HolderOK(p)'
    BY <1>1 DEF HolderOK
  <1> QED
    BY <1>1, <1>2, HolderLocal DEF Shapes

\* ... or returns.
LEMMA HolderLeaves ==
  ASSUME EngineInv, NEW p \in Procs, NEW op \in Ops,
         \A q \in Procs : q # p => proc[q] = Idle,
         Leave(p), Stores',
         \A o \in Ops : o # op =>
            /\ journal'[o] = journal[o] /\ barrier'[o] = barrier[o]
            /\ backup'[o] = backup[o] /\ begun'[o] = begun[o] /\ landed'[o] = landed[o],
         Accounted(op)', RowsOK'
  PROVE  EngineInv'
  <1>1. /\ proc' \in [Procs -> Holder \union {Idle}] /\ proc'[p] = Idle
        /\ \A q \in Procs : q # p => proc'[q] = proc[q]
    BY DEF Leave, EngineInv, Shapes
  <1>2. HolderOK(p)'
    BY <1>1 DEF HolderOK
  <1> QED
    BY <1>1, <1>2, HolderLocal DEF Shapes

\* A step that only moves the holder.
LEMMA PureGo ==
  ASSUME EngineInv, NEW p \in Procs, NEW op \in Ops, NEW at \in Forwards \union Releasing,
         \A q \in Procs : q # p => proc[q] = Idle,
         Goto(p, at, op),
         UNCHANGED <<journal, barrier, fence, backup, begun, landed>>,
         journal[op] # None,
         at \in Forwards => ForwardOK(at, op),
         at \in Releasing => BackwardOK(at, op)
  PROVE  EngineInv'
  <1>1. Stores'
    BY DEF EngineInv, Shapes, Stores
  <1>2. Accounted(op)'
    BY DEF EngineInv, Accounted
  <1>3. RowsOK'
    BY RowsStay
  <1>4. /\ at \in Forwards => ForwardOK(at, op)'
        /\ at \in Releasing => BackwardOK(at, op)'
    BY DEF ForwardOK, BackwardOK, LastOutcome, Phase, Record, Held
  <1> QED
    BY <1>1, <1>2, <1>3, <1>4, HolderGoes

\* A process that leaves the lock without a durable write.
LEMMA PureLeave ==
  ASSUME EngineInv, NEW p \in Procs, NEW op \in Ops,
         \A q \in Procs : q # p => proc[q] = Idle,
         Leave(p), UNCHANGED <<journal, barrier, fence, backup, begun, landed>>
  PROVE  EngineInv'
  <1>1. Stores'
    BY DEF EngineInv, Shapes, Stores
  <1>2. Accounted(op)'
    BY DEF EngineInv, Accounted
  <1>3. RowsOK'
    BY RowsStay
  <1> QED
    BY <1>1, <1>2, <1>3, HolderLeaves

-----------------------------------------------------------------------------
(* What the writes of an apply keep of the accounting.                     *)

\* A journal that is ready for the next phase gets its started record.
LEMMA AppendAccounts ==
  ASSUME NEW j \in Journals, NEW row, NEW copy, NEW starts, NEW lands,
         AccountsFor(j, row, copy, starts, lands), Len(j.outs) < 8,
         j.rollback = "none", \A i \in 1..8 : i <= Len(j.outs) => j.outs[i] = "success",
         NEW k \in Journals, k.outs = Append(j.outs, "started"),
         k.status = "running", k.rollback = "none"
  PROVE  /\ AccountsFor(k, row, copy, starts, lands)
         /\ Len(k.outs) = Len(j.outs) + 1 /\ Len(k.outs) \in 1..8
         /\ k.outs[Len(k.outs)] = "started"
         /\ starts[PHASES[Len(k.outs)]] = 0
  <1>1. j # None /\ k # None
    BY NoneAssumption
  <1>2. j.outs \in Seq({"started", "success", "failed", "ambiguous"})
    BY DEF Journals
  <1> PICK n \in Nat : n = Len(j.outs)
    BY <1>2
  <1>3. /\ Len(k.outs) = n + 1 /\ k.outs[n + 1] = "started"
        /\ \A i \in 1..8 : i <= n => k.outs[i] = j.outs[i]
    BY <1>2
  <1>4. n + 1 \in 1..8
    OBVIOUS
  <1>5. \A i \in 1..8 : i > n => starts[PHASES[i]] = 0
    BY <1>1 DEF AccountsFor
  <1>6. starts[PHASES[n + 1]] = 0
    BY <1>4, <1>5
  <1>7. \A i \in 1..8 : i < n + 1 => k.outs[i] = "success"
    BY <1>3
  <1>8. \A i \in 1..8 : i <= n + 1 /\ k.outs[i] = "success" => i <= n /\ j.outs[i] = "success"
    BY <1>3
  <1>9. \A i \in 1..8 : i > n + 1 => starts[PHASES[i]] = 0
    BY <1>5
  <1>10. AccountsFor(k, row, copy, starts, lands)
    <2>1. /\ starts["commit"] = 0 => lands = {}
          /\ starts["rollback"] = 0
          /\ \A i \in 1..8 : i <= n /\ j.outs[i] = "success" =>
                /\ starts[PHASES[i]] = 1
                /\ i = 4 => copy = "published"
                /\ i = 6 => lands = {TRUE}
      BY <1>1 DEF AccountsFor
    <2>2. \A i \in 1..8 : i <= n + 1 /\ k.outs[i] = "success" =>
                /\ starts[PHASES[i]] = 1
                /\ i = 4 => copy = "published"
                /\ i = 6 => lands = {TRUE}
      BY <1>8, <2>1
    <2>3. n + 1 <= 8
      BY <1>4
    <2> QED
      BY <1>1, <1>3, <1>7, <1>9, <2>1, <2>2, <2>3 DEF AccountsFor
  <1> QED
    BY <1>3, <1>4, <1>6, <1>10

\* The outcome of the last phase is recorded; a success stands for an effect.
LEMMA OutcomeAccounts ==
  ASSUME NEW j \in Journals, NEW row, NEW copy, NEW starts, NEW lands,
         AccountsFor(j, row, copy, starts, lands), Len(j.outs) > 0, j.rollback = "none",
         NEW k \in Journals, NEW outcome,
         Len(k.outs) = Len(j.outs), k.rollback = j.rollback,
         k.status \in {"running", "failed", "safe-mode"},
         k.outs[Len(j.outs)] = outcome,
         \A i \in 1..8 : i < Len(j.outs) => k.outs[i] = j.outs[i],
         outcome = "success" =>
            /\ starts[PHASES[Len(j.outs)]] = 1
            /\ Len(j.outs) = 4 => copy = "published"
            /\ Len(j.outs) = 6 => lands = {TRUE}
  PROVE  AccountsFor(k, row, copy, starts, lands)
  <1>1. j # None /\ k # None
    BY NoneAssumption
  <1>2. j.outs \in Seq({"started", "success", "failed", "ambiguous"})
    BY DEF Journals
  <1> PICK n \in Nat : n = Len(j.outs)
    BY <1>2
  <1>0. Len(j.outs) <= 8
    BY <1>1 DEF AccountsFor
  <1>3. n \in 1..8
    <2>1. n <= 8 /\ n > 0
      BY <1>0
    <2>2. ASSUME NEW m \in Nat, m <= 8, m > 0
          PROVE  m \in 1..8
      BY <2>2
    <2> QED
      BY <2>1, <2>2
  <1>4. \A i \in 1..8 : i <= n => i < n \/ i = n
    OBVIOUS
  <1>5. \A i \in 1..8 : i <= n /\ k.outs[i] = "success" =>
          /\ starts[PHASES[i]] = 1
          /\ i = 4 => copy = "published"
          /\ i = 6 => lands = {TRUE}
    BY <1>1, <1>4 DEF AccountsFor
  <1> QED
    BY <1>1, <1>3, <1>5 DEF AccountsFor

\* The effect of the last phase starts.
LEMMA BeginAccounts ==
  ASSUME NEW j \in Journals, NEW row, NEW copy, NEW starts \in [Steps -> 0..1], NEW lands,
         AccountsFor(j, row, copy, starts, lands), Len(j.outs) > 0,
         j.outs[Len(j.outs)] # "success",
         NEW copy1, Len(j.outs) # 4 => copy1 = copy,
         NEW lands1, Len(j.outs) # 6 => lands1 = lands,
         NEW starts1, starts1 = [starts EXCEPT ![PHASES[Len(j.outs)]] = 1]
  PROVE  /\ AccountsFor(j, row, copy1, starts1, lands1)
         /\ starts1[PHASES[Len(j.outs)]] = 1 /\ starts1 \in [Steps -> 0..1]
  <1>1. j # None
    BY NoneAssumption
  <1>2. j.outs \in Seq({"started", "success", "failed", "ambiguous"})
    BY DEF Journals
  <1> PICK n \in Nat : n = Len(j.outs)
    BY <1>2
  <1>0. Len(j.outs) <= 8
    BY <1>1 DEF AccountsFor
  <1>3. n \in 1..8
    <2>1. n <= 8 /\ n > 0
      BY <1>0
    <2>2. ASSUME NEW m \in Nat, m <= 8, m > 0
          PROVE  m \in 1..8
      BY <2>2
    <2> QED
      BY <2>1, <2>2
  <1>4. PHASES[n] \in Steps /\ PHASES[n] # "rollback"
    BY <1>3, PhaseFacts
  <1>5. /\ starts1 \in [Steps -> 0..1] /\ starts1[PHASES[n]] = 1
        /\ \A step \in Steps : step # PHASES[n] => starts1[step] = starts[step]
    BY <1>4
  <1>6. \A i \in 1..8 : i # n => starts1[PHASES[i]] = starts[PHASES[i]]
    BY <1>3, <1>5, PhaseFacts
  <1>7. starts1["rollback"] = starts["rollback"]
    BY <1>4, <1>5, PhaseFacts
  <1>8. starts1["commit"] = 0 => n # 6 /\ starts["commit"] = 0
    BY <1>3, <1>5, <1>6, PhaseFacts
  <1>9. \A i \in 1..8 : i > n => starts1[PHASES[i]] = 0
    BY <1>1, <1>6 DEF AccountsFor
  <1>10. \A i \in 1..8 : i <= n /\ j.outs[i] = "success" =>
          /\ starts1[PHASES[i]] = 1
          /\ i = 4 => copy1 = "published"
          /\ i = 6 => lands1 = {TRUE}
    <2>1. \A i \in 1..8 : i <= n /\ j.outs[i] = "success" => i # n /\ i < n
      OBVIOUS
    <2>2. \A i \in 1..8 : i < n /\ i = 4 => copy1 = copy
      <3>1. CASE n = 4
        BY <3>1
      <3>2. CASE n # 4
        BY <3>2
      <3> QED
        BY <3>1, <3>2
    <2>3. \A i \in 1..8 : i < n /\ i = 6 => lands1 = lands
      <3>1. CASE n = 6
        BY <3>1
      <3>2. CASE n # 6
        BY <3>2
      <3> QED
        BY <3>1, <3>2
    <2>4. \A i \in 1..8 : i <= n /\ j.outs[i] = "success" =>
          /\ starts[PHASES[i]] = 1
          /\ i = 4 => copy = "published"
          /\ i = 6 => lands = {TRUE}
      BY <1>1 DEF AccountsFor
    <2> QED
      BY <1>6, <2>1, <2>2, <2>3, <2>4
  <1>11. \A i \in 1..8 : i < n => j.outs[i] = "success"
    BY <1>1 DEF AccountsFor
  <1>12. n = 8 => j.outs[8] # "success"
    OBVIOUS
  <1>13. /\ starts1["commit"] = 0 => lands1 = {}
         /\ j.rollback = "none" => starts1["rollback"] = 0
         /\ j.rollback \in {"verified", "completed"} => starts1["rollback"] = 1
    BY <1>1, <1>7, <1>8 DEF AccountsFor
  <1>14. /\ j.status = "completed" =>
             Len(j.outs) = 8 /\ j.outs[8] = "success" /\ j.rollback = "none"
         /\ j.status = "rolled-back" =>
             j.rollback = "completed" /\ row \in {"released", "ambiguous"}
    BY <1>1 DEF AccountsFor
  <1>15. AccountsFor(j, row, copy1, starts1, lands1)
    BY <1>1, <1>3, <1>9, <1>10, <1>11, <1>13, <1>14 DEF AccountsFor
  <1> QED
    BY <1>5, <1>15

-----------------------------------------------------------------------------
(* The steps of an apply.                                                  *)

\* What is known of the operation that an apply is in the middle of.
LEMMA Applying ==
  ASSUME EngineInv, NEW p \in Procs, proc[p].at \in Forwards, NEW op \in Ops, op = proc[p].op
  PROVE  /\ \A q \in Procs : q # p => proc[q] = Idle
         /\ journal[op] # None /\ journal[op] \in Journals
         /\ Accounted(op) /\ ForwardOK(proc[p].at, op)
         /\ Len(journal[op].outs) \in 0..8
         /\ begun[op] \in [Steps -> 0..1]
         /\ proc[p].at # "next" =>
               /\ Len(journal[op].outs) \in 1..8
               /\ journal[op].outs[Len(journal[op].outs)] = "started"
               /\ Phase(op) = PHASES[Len(journal[op].outs)]
               /\ Phase(op) = "backup" => Len(journal[op].outs) = 4
               /\ Phase(op) = "commit" => Len(journal[op].outs) = 6
  <1>1. proc[p].at # "idle"
    BY DEF Forwards
  <1>2. /\ \A q \in Procs : q # p => proc[q] = Idle
        /\ journal[op] # None /\ journal[op] \in Journals
        /\ Accounted(op) /\ ForwardOK(proc[p].at, op)
    BY <1>1, Holding
  <1>3. journal[op].outs \in Seq({"started", "success", "failed", "ambiguous"})
    BY <1>2 DEF Journals
  <1>4. Len(journal[op].outs) \in Nat /\ Len(journal[op].outs) <= 8
    BY <1>2, <1>3 DEF Accounted, AccountsFor
  <1>5. begun[op] \in [Steps -> 0..1]
    BY DEF EngineInv, Shapes, Stores
  <1>6. proc[p].at # "next" =>
          /\ Len(journal[op].outs) > 0
          /\ journal[op].outs[Len(journal[op].outs)] = "started"
          /\ Phase(op) = PHASES[Len(journal[op].outs)]
    BY <1>2 DEF ForwardOK, LastOutcome, Phase, Record
  <1>7. proc[p].at # "next" => Len(journal[op].outs) \in 1..8
    BY <1>4, <1>6, Counting, Zenon
  <1>8. Len(journal[op].outs) \in 0..8
    BY <1>4, Counting, Zenon
  <1>9. \A k \in 1..8 : /\ PHASES[k] = "backup" => k = 4
                        /\ PHASES[k] = "commit" => k = 6
    BY PhaseFacts
  <1> QED
    BY <1>2, <1>5, <1>6, <1>7, <1>8, <1>9

\* _load: the journal of a planned or running operation.
LEMMA RunningLoads ==
  ASSUME NEW j, StatusLoads(j)
  PROVE  /\ j.status = "planned" => j.outs = <<>>
         /\ j.status = "running" /\ j.outs # <<>> =>
               j.outs[Len(j.outs)] \in {"started", "success"}
  <1>1. CASE j.status = "planned"
    BY <1>1, Zenon DEF StatusLoads
  <1>2. CASE j.status = "running"
    BY <1>2, Zenon DEF StatusLoads
  <1> QED
    BY <1>1, <1>2, Zenon

\* An apply takes a journal whose last phase has its outcome.
LEMMA StartApplyStep ==
  ASSUME EngineInv, NEW p \in Procs, NEW op \in Ops, StartApply(p, op)
  PROVE  EngineInv'
  <1>1. /\ \A q \in Procs : proc[q] = Idle
        /\ journal[op] # None /\ StatusLoads(journal[op])
        /\ journal[op].status \in {"planned", "running"}
        /\ journal[op].rollback = "none"
        /\ journal[op].outs # <<>> => journal[op].outs[Len(journal[op].outs)] # "started"
    BY DEF StartApply, EngineFree, Loads, Resumable, Record, LastOutcome
  <1>2. /\ journal[op] \in Journals /\ AccountsFor(journal[op], barrier[op], backup[op], begun[op], landed[op])
    BY <1>1 DEF EngineInv, Shapes, Stores, Accounted
  <1>3. /\ journal[op].outs \in Seq({"started", "success", "failed", "ambiguous"})
        /\ Len(journal[op].outs) \in Nat
    BY <1>2 DEF Journals
  <1>4. \A i \in 1..8 : i < Len(journal[op].outs) => journal[op].outs[i] = "success"
    BY <1>1, <1>2 DEF AccountsFor
  <1>5. ASSUME NEW i \in 1..8, i = Len(journal[op].outs)
        PROVE  journal[op].outs[i] = "success"
    <2>1. journal[op].outs # <<>>
      BY <1>3, <1>5
    <2>2. journal[op].status = "running"
      BY <1>1, <2>1, RunningLoads
    <2>3. journal[op].outs[Len(journal[op].outs)] \in {"started", "success"}
      BY <1>1, <2>1, <2>2, RunningLoads
    <2> QED
      BY <1>1, <1>5, <2>1, <2>3
  <1>6. \A i \in 1..8 : i <= Len(journal[op].outs) => journal[op].outs[i] = "success"
    BY <1>3, <1>4, <1>5, Counting, Zenon
  <1>7. ForwardOK("next", op)
    BY <1>1, <1>6 DEF ForwardOK
  <1>8. "next" \in Forwards /\ "next" \notin Releasing
    BY DEF Forwards, Releasing
  <1>9. /\ Goto(p, "next", op)
        /\ UNCHANGED <<journal, barrier, fence, backup, begun, landed>>
    BY DEF StartApply, world
  <1> QED
    BY <1>1, <1>7, <1>8, <1>9, PureGo

\* snapshot_bound, the projection of the backup step and the admission of the commit.
LEMMA AdmitStep ==
  ASSUME EngineInv, NEW p \in Procs, Admit(p) \/ ProjectBackup(p) \/ PrepareCommit(p)
  PROVE  EngineInv'
  <1>1. proc[p].at \in {"dispatch", "admitted"}
    BY DEF Admit, ProjectBackup, PrepareCommit, At
  <1>2. proc[p].at \in Forwards /\ proc[p].at # "next" /\ proc[p].at # "idle"
    BY <1>1 DEF Forwards
  <1> PICK op \in Ops : op = proc[p].op
    BY <1>2, Holding
  <1>3. /\ \A q \in Procs : q # p => proc[q] = Idle
        /\ journal[op] # None /\ ForwardOK(proc[p].at, op)
        /\ Phase(op) = "backup" => Len(journal[op].outs) = 4
        /\ Phase(op) = "commit" => Len(journal[op].outs) = 6
    BY <1>2, Applying
  <1>4. UNCHANGED <<journal, barrier, fence, backup, begun, landed>>
    BY DEF Admit, ProjectBackup, PrepareCommit, world
  <1>5. {"admitted", "projected", "committing"} \subseteq Forwards \ Releasing
    BY DEF Forwards, Releasing
  <1>6. CASE Admit(p)
    <2>1. ForwardOK("admitted", op)
      BY <1>1, <1>3 DEF ForwardOK
    <2> QED
      BY <1>3, <1>4, <1>5, <1>6, <2>1, PureGo DEF Admit
  <1>7. CASE ProjectBackup(p)
    <2>1. proc[p].at = "admitted" /\ Len(journal[op].outs) = 4
      BY <1>3, <1>7 DEF ProjectBackup, At
    <2>2. ForwardOK("projected", op)
      BY <1>3, <2>1 DEF ForwardOK
    <2> QED
      BY <1>3, <1>4, <1>5, <1>7, <2>2, PureGo DEF ProjectBackup
  <1>8. CASE PrepareCommit(p)
    <2>1. proc[p].at = "admitted" /\ Len(journal[op].outs) = 6 /\ fence.op = op
      BY <1>3, <1>8 DEF PrepareCommit, At, Held
    <2>2. fence.op >= op
      BY <2>1, UpgradeAssumption
    <2>3. ForwardOK("committing", op)
      BY <1>3, <2>1, <2>2 DEF ForwardOK
    <2> QED
      BY <1>3, <1>4, <1>5, <1>8, <2>3, PureGo DEF PrepareCommit
  <1> QED
    BY <1>6, <1>7, <1>8

\* A phase is journaled as started before its adapter does anything, and only once.
LEMMA BeginPhaseStep ==
  ASSUME EngineInv, NEW p \in Procs, BeginPhase(p)
  PROVE  EngineInv'
  <1>1. proc[p].at = "next" /\ proc[p].at \in Forwards /\ proc[p].at # "idle"
    BY DEF BeginPhase, At, Forwards
  <1> PICK op \in Ops : op = proc[p].op
    BY <1>1, Holding
  <1>2. /\ \A q \in Procs : q # p => proc[q] = Idle
        /\ journal[op] # None /\ journal[op] \in Journals
        /\ Accounted(op) /\ ForwardOK("next", op) /\ Len(journal[op].outs) \in 0..8
    BY <1>1, Applying
  <1> DEFINE k == [journal[op] EXCEPT !.outs = Append(journal[op].outs, "started"),
                                      !.status = "running"]
  <1>3. /\ Len(journal[op].outs) < 8 /\ Goto(p, "dispatch", op)
        /\ journal' = [journal EXCEPT ![op] = k]
        /\ UNCHANGED <<barrier, fence, backup, begun, landed>>
    BY <1>2, PhaseFacts DEF BeginPhase, Record, world, EngineInv, Shapes, Stores, Journals
  <1>4. /\ journal[op].rollback = "none"
        /\ \A i \in 1..8 : i <= Len(journal[op].outs) => journal[op].outs[i] = "success"
    BY <1>2 DEF ForwardOK
  <1>5. journal[op].outs \in Seq({"started", "success", "failed", "ambiguous"})
    BY <1>2 DEF Journals
  <1>6. Append(journal[op].outs, "started") \in Seq({"started", "success", "failed", "ambiguous"})
    BY <1>5
  <1>7. /\ k \in Journals /\ k.outs = Append(journal[op].outs, "started")
        /\ k.status = "running" /\ k.rollback = "none"
    BY <1>2, <1>4, <1>6 DEF Journals
  <1> HIDE DEF k
  <1>8. /\ AccountsFor(k, barrier[op], backup[op], begun[op], landed[op])
        /\ Len(k.outs) \in 1..8 /\ k.outs[Len(k.outs)] = "started"
        /\ begun[op][PHASES[Len(k.outs)]] = 0
    <2>1. AccountsFor(journal[op], barrier[op], backup[op], begun[op], landed[op])
      BY <1>2 DEF Accounted
    <2>2. journal[op] \in Journals /\ Len(journal[op].outs) < 8
      BY <1>2, <1>3
    <2>3. AccountsFor(k, barrier[op], backup[op], begun[op], landed[op])
      BY <1>4, <1>7, <2>1, <2>2, AppendAccounts
    <2>4. Len(k.outs) \in 1..8 
      BY <1>4, <1>7, <2>1, <2>2, AppendAccounts
    <2>5. k.outs[Len(k.outs)] = "started" /\ Len(k.outs) > Len(journal[op].outs)
      <3>1. ASSUME NEW s \in Seq({"started", "success", "failed", "ambiguous"})
            PROVE  LET t == Append(s, "started") IN t[Len(t)] = "started" /\ Len(t) > Len(s)
        OBVIOUS
      <3> QED
        BY <1>5, <1>7, <3>1
    <2>6. \A i \in 1..8 : i > Len(journal[op].outs) => begun[op][PHASES[i]] = 0
      BY <1>2, <2>1 DEF AccountsFor
    <2>7. begun[op][PHASES[Len(k.outs)]] = 0
      BY <2>4, <2>5, <2>6, Zenon
    <2> QED
      BY <2>3, <2>4, <2>5, <2>7
  <1>9. /\ journal' \in [Ops -> Journals \union {None}]
        /\ journal'[op] = k /\ journal'[op] # None
        /\ \A o \in Ops : o # op => journal'[o] = journal[o]
    BY <1>3, <1>7, JournalWrites DEF EngineInv
  <1>10. Stores'
    BY <1>3, <1>9 DEF EngineInv, Shapes, Stores
  <1>11. Accounted(op)'
    BY <1>3, <1>8, <1>9 DEF Accounted
  <1>12. RowsOK'
    BY <1>3, <1>4, <1>9, RowsStay
  <1>13. Len(k.outs) > 0
    BY <1>8, Counting, Zenon
  <1>14. ForwardOK("dispatch", op)'
    BY <1>3, <1>7, <1>8, <1>9, <1>13 DEF ForwardOK, LastOutcome, Phase, Record
  <1>15. "dispatch" \in Forwards /\ "dispatch" \notin Releasing
    BY DEF Forwards, Releasing
  <1> QED
    BY <1>2, <1>3, <1>9, <1>10, <1>11, <1>12, <1>14, <1>15, HolderGoes

\* The last phase of an apply gets its outcome.
LEMMA OutcomeRecorded ==
  ASSUME EngineInv, NEW p \in Procs, NEW op \in Ops, op = proc[p].op,
         proc[p].at \in Forwards, proc[p].at # "next",
         NEW outcome \in {"success", "failed", "ambiguous"},
         NEW status \in {"running", "failed", "safe-mode"},
         Outcome(op, outcome, status), barrier' = barrier,
         AccountsFor(journal[op], barrier[op], backup'[op], begun'[op], landed'[op]),
         outcome = "success" =>
            /\ begun'[op][PHASES[Len(journal[op].outs)]] = 1
            /\ Len(journal[op].outs) = 4 => backup'[op] = "published"
            /\ Len(journal[op].outs) = 6 => landed'[op] = {TRUE}
  PROVE  /\ journal' \in [Ops -> Journals \union {None}] /\ journal'[op] # None
         /\ \A o \in Ops : o # op => journal'[o] = journal[o]
         /\ Accounted(op)' /\ RowsOK'
         /\ journal'[op].status = status /\ journal'[op].rollback = "none"
  <1>1. /\ journal[op] # None /\ journal[op] \in Journals /\ Accounted(op)
        /\ Len(journal[op].outs) \in 1..8 /\ journal[op].rollback = "none"
    <2>1. /\ journal[op] # None /\ journal[op] \in Journals /\ Accounted(op)
          /\ Len(journal[op].outs) \in 1..8 /\ ForwardOK(proc[p].at, op)
      BY Applying
    <2> QED
      BY <2>1 DEF ForwardOK
  <1>2. Len(journal[op].outs) > 0
    BY <1>1, Counting, Zenon
  <1>3. /\ journal' \in [Ops -> Journals \union {None}] /\ journal'[op] # None
        /\ \A o \in Ops : o # op => journal'[o] = journal[o]
        /\ journal'[op].status = status /\ journal'[op].rollback = journal[op].rollback
        /\ Len(journal'[op].outs) = Len(journal[op].outs)
        /\ journal'[op].outs[Len(journal[op].outs)] = outcome
        /\ \A i \in 1..8 : i < Len(journal[op].outs) =>
              journal'[op].outs[i] = journal[op].outs[i]
    BY <1>1, <1>2, OutcomeIs DEF EngineInv
  <1>4. journal'[op] \in Journals
    BY <1>3
  <1>5. AccountsFor(journal'[op], barrier[op], backup'[op], begun'[op], landed'[op])
    BY <1>1, <1>2, <1>3, <1>4, OutcomeAccounts
  <1>6. Accounted(op)'
    BY <1>5 DEF Accounted
  <1>7. RowsOK'
    BY <1>1, <1>3, RowsStay
  <1> QED
    BY <1>1, <1>3, <1>6, <1>7

\* An apply that records a failure or an ambiguity returns.
LEMMA FailingStep ==
  ASSUME EngineInv, NEW p \in Procs, NEW op \in Ops, op = proc[p].op,
         proc[p].at \in Forwards, proc[p].at # "next",
         NEW outcome \in {"failed", "ambiguous"}, NEW status \in {"failed", "safe-mode"},
         Outcome(op, outcome, status), Leave(p),
         UNCHANGED <<barrier, fence, backup, begun, landed>>
  PROVE  EngineInv'
  <1>1. /\ \A q \in Procs : q # p => proc[q] = Idle
        /\ AccountsFor(journal[op], barrier[op], backup[op], begun[op], landed[op])
    BY Applying DEF Accounted
  <1>2. /\ journal' \in [Ops -> Journals \union {None}]
        /\ \A o \in Ops : o # op => journal'[o] = journal[o]
        /\ Accounted(op)' /\ RowsOK'
    <2>1. AccountsFor(journal[op], barrier[op], backup'[op], begun'[op], landed'[op])
      BY <1>1
    <2>2. outcome # "success" /\ barrier' = barrier
      OBVIOUS
    <2>3. outcome \in {"success", "failed", "ambiguous"} /\ status \in {"running", "failed", "safe-mode"}
      OBVIOUS
    <2>4. Accounted(op)'
      BY <2>1, <2>2, <2>3, OutcomeRecorded
    <2>5. RowsOK'
      BY <2>1, <2>2, <2>3, OutcomeRecorded
    <2>6. journal' \in [Ops -> Journals \union {None}]
      BY <2>1, <2>2, <2>3, OutcomeRecorded
    <2>7. ASSUME NEW o \in Ops, o # op
          PROVE  journal'[o] = journal[o]
      BY <2>1, <2>2, <2>3, <2>7, OutcomeRecorded
    <2> QED
      BY <2>4, <2>5, <2>6, <2>7
  <1>3. Stores'
    BY <1>2 DEF EngineInv, Shapes, Stores
  <1> QED
    BY <1>1, <1>2, <1>3, HolderLeaves

\* A refusal or failure before the effect is journaled as such, and ends the apply.
LEMMA FailureSteps ==
  ASSUME EngineInv, NEW p \in Procs,
         SnapshotFails(p) \/ Deny(p) \/ BackupRefused(p) \/ Fail(p)
  PROVE  EngineInv'
  <1>1. proc[p].at \in Forwards /\ proc[p].at # "next" /\ proc[p].at # "idle"
    BY DEF SnapshotFails, Deny, BackupRefused, Fail, At, Forwards
  <1> PICK op \in Ops : op = proc[p].op
    BY <1>1, Holding
  <1>2. /\ \/ Outcome(op, "failed", "failed")
           \/ Outcome(op, "ambiguous", "safe-mode")
        /\ Leave(p) /\ UNCHANGED <<barrier, fence, backup, begun, landed>>
    BY DEF SnapshotFails, Deny, BackupRefused, Fail, FailPhase, world
  <1> QED
    BY <1>1, <1>2, FailingStep

\* A commit is a success only when it is found again under the held session.
LEMMA ConfirmCommitStep ==
  ASSUME EngineInv, NEW p \in Procs, ConfirmCommit(p)
  PROVE  EngineInv'
  <1>1. proc[p].at = "landed" /\ proc[p].at \in Forwards /\ proc[p].at # "idle"
    BY DEF ConfirmCommit, At, Forwards
  <1> PICK op \in Ops : op = proc[p].op
    BY <1>1, Holding
  <1>2. UNCHANGED <<barrier, fence, backup, begun, landed>>
    BY DEF ConfirmCommit, world
  <1>3. CASE ~ Confirmed(op)
    <2>1. Outcome(op, "ambiguous", "safe-mode") /\ Leave(p)
      BY <1>3 DEF ConfirmCommit
    <2> QED
      BY <1>1, <1>2, <2>1, FailingStep
  <1>4. CASE Confirmed(op)
    <2>1. Goto(p, "executed", op) /\ UNCHANGED journal
      BY <1>4 DEF ConfirmCommit
    <2>2. Held(op)
      BY <1>4 DEF Confirmed, Admitted
    <2>3. /\ \A q \in Procs : q # p => proc[q] = Idle
          /\ journal[op] # None /\ ForwardOK("landed", op)
      BY <1>1, Applying
    <2>4. ForwardOK("executed", op)
      <3>1. landed[op] = {TRUE} /\ Len(journal[op].outs) = 6
        BY <2>2, <2>3 DEF ForwardOK
      <3> QED
        BY <2>3, <3>1 DEF ForwardOK
    <2>5. "executed" \in Forwards /\ "executed" \notin Releasing
      BY DEF Forwards, Releasing
    <2> QED
      BY <1>2, <2>1, <2>3, <2>4, <2>5, PureGo
  <1> QED
    BY <1>3, <1>4

\* A phase that is done gets its outcome, and the next one is due.
LEMMA SucceedStep ==
  ASSUME EngineInv, NEW p \in Procs, Succeed(p)
  PROVE  EngineInv'
  <1>1. proc[p].at = "executed" /\ proc[p].at \in Forwards /\ proc[p].at # "idle"
    BY DEF Succeed, At, Forwards
  <1> PICK op \in Ops : op = proc[p].op
    BY <1>1, Holding
  <1>2. /\ Outcome(op, "success", "running") /\ Goto(p, "next", op)
        /\ UNCHANGED <<barrier, fence, backup, begun, landed>>
    BY DEF Succeed, world
  <1>3. /\ \A q \in Procs : q # p => proc[q] = Idle
        /\ AccountsFor(journal[op], barrier[op], backup[op], begun[op], landed[op])
        /\ ForwardOK("executed", op) /\ Len(journal[op].outs) \in 1..8
        /\ Phase(op) = PHASES[Len(journal[op].outs)]
    BY <1>1, Applying DEF Accounted
  <1>4. /\ begun[op][PHASES[Len(journal[op].outs)]] = 1
        /\ Len(journal[op].outs) = 4 => backup[op] = "published"
        /\ Len(journal[op].outs) = 6 => landed[op] = {TRUE}
    BY <1>3 DEF ForwardOK
  <1>5. /\ journal' \in [Ops -> Journals \union {None}] /\ journal'[op] # None
        /\ \A o \in Ops : o # op => journal'[o] = journal[o]
        /\ Accounted(op)' /\ RowsOK'
        /\ journal'[op].status = "running" /\ journal'[op].rollback = "none"
        /\ Len(journal'[op].outs) = Len(journal[op].outs)
        /\ journal'[op].outs[Len(journal[op].outs)] = "success"
        /\ \A i \in 1..8 : i < Len(journal[op].outs) => journal'[op].outs[i] = "success"
    <2>1. AccountsFor(journal[op], barrier[op], backup'[op], begun'[op], landed'[op])
      BY <1>2, <1>3
    <2>2. /\ begun'[op][PHASES[Len(journal[op].outs)]] = 1
          /\ Len(journal[op].outs) = 4 => backup'[op] = "published"
          /\ Len(journal[op].outs) = 6 => landed'[op] = {TRUE}
          /\ barrier' = barrier
      BY <1>2, <1>4
    <2>3. Outcome(op, "success", "running")
      BY <1>2
    <2>4. Accounted(op)' /\ RowsOK'
      BY <1>1, <2>1, <2>2, <2>3, OutcomeRecorded
    <2>5. /\ journal' \in [Ops -> Journals \union {None}] /\ journal'[op] # None
          /\ journal'[op].status = "running" /\ journal'[op].rollback = "none"
      BY <1>1, <2>1, <2>2, <2>3, OutcomeRecorded
    <2>6. ASSUME NEW o \in Ops, o # op
          PROVE  journal'[o] = journal[o]
      BY <1>1, <2>1, <2>2, <2>3, <2>6, OutcomeRecorded
    <2>7. Len(journal[op].outs) > 0 /\ journal[op] # None
      BY <1>1, <1>3, Applying, Counting
    <2>8. /\ Len(journal'[op].outs) = Len(journal[op].outs)
          /\ journal'[op].outs[Len(journal[op].outs)] = "success"
          /\ \A i \in 1..8 : i < Len(journal[op].outs) =>
                journal'[op].outs[i] = journal[op].outs[i]
      BY <2>3, <2>7, OutcomeIs DEF EngineInv
    <2>9. \A i \in 1..8 : i < Len(journal[op].outs) => journal[op].outs[i] = "success"
      BY <1>3, <2>7 DEF AccountsFor
    <2> QED
      BY <2>4, <2>5, <2>6, <2>8, <2>9
  <1>6. Stores'
    BY <1>2, <1>5 DEF EngineInv, Shapes, Stores
  <1>7. \A i \in 1..8 : i <= Len(journal'[op].outs) => journal'[op].outs[i] = "success"
    <2>1. Len(journal[op].outs) \in Nat
      BY <1>3
    <2> QED
      BY <1>5, <2>1, Counting, Zenon
  <1>8. ForwardOK("next", op)'
    BY <1>5, <1>7 DEF ForwardOK
  <1>9. "next" \in Forwards /\ "next" \notin Releasing
    BY DEF Forwards, Releasing
  <1> QED
    BY <1>2, <1>3, <1>5, <1>6, <1>8, <1>9, HolderGoes

\* An apply is complete when all of its phases are successes.
LEMMA CompleteStep ==
  ASSUME EngineInv, NEW p \in Procs, Complete(p)
  PROVE  EngineInv'
  <1>1. proc[p].at = "next" /\ proc[p].at \in Forwards /\ proc[p].at # "idle"
    BY DEF Complete, At, Forwards
  <1> PICK op \in Ops : op = proc[p].op
    BY <1>1, Holding
  <1>2. /\ \A q \in Procs : q # p => proc[q] = Idle
        /\ journal[op] # None /\ journal[op] \in Journals
        /\ AccountsFor(journal[op], barrier[op], backup[op], begun[op], landed[op])
        /\ ForwardOK("next", op)
    BY <1>1, Applying DEF Accounted
  <1> DEFINE k == [journal[op] EXCEPT !.status = "completed"]
  <1>3. /\ Len(journal[op].outs) = 8 /\ Leave(p)
        /\ journal' = [journal EXCEPT ![op] = k]
        /\ UNCHANGED <<barrier, fence, backup, begun, landed>>
    BY <1>2, PhaseFacts DEF Complete, Record, world, EngineInv, Shapes, Stores, Journals
  <1>4. /\ k \in Journals /\ k.outs = journal[op].outs
        /\ k.status = "completed" /\ k.rollback = journal[op].rollback
    BY <1>2 DEF Journals
  <1> HIDE DEF k
  <1>5. k # None
    BY <1>4, NoneAssumption
  <1>6. journal[op].rollback = "none" /\ journal[op].outs[8] = "success"
    BY <1>2, <1>3 DEF ForwardOK
  <1>7. AccountsFor(k, barrier[op], backup[op], begun[op], landed[op])
    BY <1>2, <1>3, <1>4, <1>5, <1>6 DEF AccountsFor
  <1>8. /\ journal' \in [Ops -> Journals \union {None}] /\ journal'[op] = k
        /\ \A o \in Ops : o # op => journal'[o] = journal[o]
    BY <1>3, <1>4, JournalWrites DEF EngineInv
  <1>9. Stores'
    BY <1>3, <1>8 DEF EngineInv, Shapes, Stores
  <1>10. Accounted(op)'
    BY <1>3, <1>7, <1>8 DEF Accounted
  <1>11. RowsOK'
    BY <1>3, <1>4, <1>6, <1>8, RowsStay
  <1> QED
    BY <1>2, <1>3, <1>8, <1>9, <1>10, <1>11, HolderLeaves

\* The effect of a phase starts, for the first time.
LEMMA EffectStarts ==
  ASSUME EngineInv, NEW p \in Procs, NEW op \in Ops, op = proc[p].op,
         proc[p].at \in {"admitted", "projected", "committing"},
         Begin(op, Phase(op)),
         Len(journal[op].outs) # 4 => backup'[op] = backup[op],
         Len(journal[op].outs) # 6 => landed'[op] = landed[op]
  PROVE  /\ begun' \in [Ops -> [Steps -> 0..1]]
         /\ \A o \in Ops : o # op => begun'[o] = begun[o]
         /\ begun'[op][Phase(op)] = 1
         /\ AccountsFor(journal[op], barrier[op], backup'[op], begun'[op], landed'[op])
  <1>1. proc[p].at \in Forwards /\ proc[p].at # "next"
    BY DEF Forwards
  <1>2. /\ journal[op] # None /\ journal[op] \in Journals
        /\ AccountsFor(journal[op], barrier[op], backup[op], begun[op], landed[op])
        /\ ForwardOK(proc[p].at, op)
        /\ begun[op] \in [Steps -> 0..1] /\ Len(journal[op].outs) \in 1..8
        /\ journal[op].outs[Len(journal[op].outs)] = "started"
        /\ Phase(op) = PHASES[Len(journal[op].outs)]
    BY <1>1, Applying DEF Accounted
  <1>3. begun[op][Phase(op)] = 0
    BY <1>2 DEF ForwardOK
  <1>4. Phase(op) \in Steps
    BY <1>2, PhaseFacts
  <1> PICK step \in Steps : step = Phase(op)
    BY <1>4
  <1> DEFINE starts1 == [begun[op] EXCEPT ![step] = 1]
  <1>5. begun' = [begun EXCEPT ![op] = starts1]
    BY <1>2, <1>3 DEF Begin, EngineInv, Shapes, Stores
  <1>6. starts1 = [begun[op] EXCEPT ![PHASES[Len(journal[op].outs)]] = 1]
    BY <1>2
  <1> HIDE DEF starts1
  <1>7. Len(journal[op].outs) > 0
    BY <1>2, Counting, Zenon
  <1>8. /\ AccountsFor(journal[op], barrier[op], backup'[op], starts1, landed'[op])
        /\ starts1[PHASES[Len(journal[op].outs)]] = 1 /\ starts1 \in [Steps -> 0..1]
    BY <1>2, <1>6, <1>7, BeginAccounts
  <1>9. /\ begun' \in [Ops -> [Steps -> 0..1]] /\ begun'[op] = starts1
        /\ \A o \in Ops : o # op => begun'[o] = begun[o]
    BY <1>5, <1>8 DEF EngineInv, Shapes, Stores
  <1> QED
    BY <1>2, <1>8, <1>9

\* What an apply is after the effect of its phase.
LEMMA ExecutedOK ==
  ASSUME NEW op \in Ops, NEW at, ForwardOK(at, op), at \in Forwards, at # "next",
         journal' = journal, begun'[op][Phase(op)] = 1,
         Len(journal[op].outs) = 4 => backup'[op] = "published",
         Len(journal[op].outs) = 6 => landed'[op] = {TRUE}
  PROVE  ForwardOK("executed", op)'
  BY DEF ForwardOK, LastOutcome, Phase, Record

\* Discovery, staging, validation: nothing is changed but the count.
LEMMA ObserveSteps ==
  ASSUME EngineInv, NEW p \in Procs, Observe(p) \/ Stage(p) \/ Validate(p)
  PROVE  EngineInv'
  <1>1. /\ proc[p].at = "admitted" /\ proc[p].at \in Forwards
        /\ proc[p].at # "idle" /\ proc[p].at # "next"
    BY DEF Observe, Stage, Validate, At, Forwards
  <1> PICK op \in Ops : op = proc[p].op
    BY <1>1, Holding
  <1>2. /\ Phase(op) \in {"discover", "preflight", "quiesce", "reopen", "stage", "validate"}
        /\ Begin(op, Phase(op)) /\ Goto(p, "executed", op)
        /\ UNCHANGED <<journal, barrier, fence, backup, landed>>
    BY DEF Observe, Stage, Validate, Started
  <1>3. /\ \A q \in Procs : q # p => proc[q] = Idle
        /\ journal[op] # None /\ ForwardOK("admitted", op)
        /\ Phase(op) = PHASES[Len(journal[op].outs)]
    BY <1>1, Applying
  <1>4. Len(journal[op].outs) # 4 /\ Len(journal[op].outs) # 6
    BY <1>2, <1>3, PhaseFacts
  <1>5. /\ begun' \in [Ops -> [Steps -> 0..1]]
        /\ \A o \in Ops : o # op => begun'[o] = begun[o]
        /\ begun'[op][Phase(op)] = 1
        /\ AccountsFor(journal[op], barrier[op], backup'[op], begun'[op], landed'[op])
    BY <1>1, <1>2, EffectStarts
  <1>6. Stores'
    BY <1>2, <1>5 DEF EngineInv, Shapes, Stores
  <1>7. Accounted(op)'
    BY <1>2, <1>5 DEF Accounted
  <1>8. RowsOK'
    BY <1>2, RowsStay
  <1>9. "executed" \in Forwards /\ "executed" \notin Releasing /\ "admitted" \in Forwards
    BY DEF Forwards, Releasing
  <1>10. ForwardOK("executed", op)'
    BY <1>2, <1>3, <1>4, <1>5, <1>9, ExecutedOK
  <1> QED
    BY <1>2, <1>3, <1>5, <1>6, <1>7, <1>8, <1>9, <1>10, HolderGoes

\* The backup is published.
LEMMA RunBackupStep ==
  ASSUME EngineInv, NEW p \in Procs, RunBackup(p)
  PROVE  EngineInv'
  <1>1. /\ proc[p].at = "projected" /\ proc[p].at \in Forwards
        /\ proc[p].at # "idle" /\ proc[p].at # "next"
    BY DEF RunBackup, At, Forwards
  <1> PICK op \in Ops : op = proc[p].op
    BY <1>1, Holding
  <1>2. /\ \A q \in Procs : q # p => proc[q] = Idle
        /\ journal[op] # None /\ ForwardOK("projected", op)
        /\ Phase(op) = PHASES[Len(journal[op].outs)]
    BY <1>1, Applying
  <1>3. Len(journal[op].outs) = 4 /\ Phase(op) = "backup"
    BY <1>2, PhaseFacts DEF ForwardOK
  <1>4. /\ Begin(op, Phase(op)) /\ Goto(p, "executed", op)
        /\ backup' = [backup EXCEPT ![op] = "published"]
        /\ UNCHANGED <<journal, barrier, fence, landed>>
    BY <1>3 DEF RunBackup, PublishBackup
  <1>6. /\ backup' \in [Ops -> {"none", "published"}]
        /\ backup'[op] = "published" /\ \A o \in Ops : o # op => backup'[o] = backup[o]
    BY <1>4 DEF EngineInv, Shapes, Stores
  <1>7. /\ begun' \in [Ops -> [Steps -> 0..1]]
        /\ \A o \in Ops : o # op => begun'[o] = begun[o]
        /\ begun'[op][Phase(op)] = 1
        /\ AccountsFor(journal[op], barrier[op], backup'[op], begun'[op], landed'[op])
    BY <1>1, <1>3, <1>4, EffectStarts
  <1>8. Stores'
    BY <1>4, <1>6, <1>7 DEF EngineInv, Shapes, Stores
  <1>9. Accounted(op)'
    BY <1>4, <1>7 DEF Accounted
  <1>10. RowsOK'
    BY <1>4, RowsStay
  <1>11. "executed" \in Forwards /\ "executed" \notin Releasing /\ "projected" \in Forwards
    BY DEF Forwards, Releasing
  <1>12. ForwardOK("executed", op)'
    <2>1. Len(journal[op].outs) # 6 /\ journal' = journal
      BY <1>3, <1>4
    <2> QED
      BY <1>2, <1>6, <1>7, <1>11, <2>1, ExecutedOK
  <1> QED
    BY <1>2, <1>4, <1>6, <1>7, <1>8, <1>9, <1>10, <1>11, <1>12, HolderGoes

\* What the commit leaves behind, whether it returns or raises.
LEMMA Landing ==
  ASSUME EngineInv, NEW op \in Ops, begun[op]["commit"] = 0,
         Land(op) \/ UNCHANGED <<landed, fence>>
  PROVE  /\ landed' \in [Ops -> SUBSET BOOLEAN]
         /\ fence' \in Sessions
         /\ fence'.op = fence.op /\ fence'.status = fence.status
         /\ \A o \in Ops : o # op => landed'[o] = landed[o]
         /\ Land(op) => landed'[op] = {TRUE} \/ (landed'[op] = {FALSE} /\ ~ Held(op)')
  <1>1. /\ landed \in [Ops -> SUBSET BOOLEAN]
        /\ fence \in Sessions
        /\ landed[op] = {}
    BY DEF EngineInv, Shapes, Stores, Accounted, AccountsFor
  <1>2. CASE UNCHANGED <<landed, fence>> /\ ~ Land(op)
    BY <1>1, <1>2
  <1>3. CASE Land(op)
    <2> PICK seen \in BOOLEAN : fence' = [fence EXCEPT !.drifted = fence.drifted \/ seen]
      BY <1>3 DEF Land
    <2>1. (fence.drifted \/ seen) \in BOOLEAN
      OBVIOUS
    <2>2. /\ fence' \in Sessions
          /\ fence'.op = fence.op /\ fence'.status = fence.status
      BY <1>1, <2>1 DEF Sessions
    <2>3. Held(op)' <=> Held(op)
      BY <2>2 DEF Held
    <2>4. PICK h \in BOOLEAN : h = Held(op)
      BY DEF Held
    <2>5. landed' = [landed EXCEPT ![op] = {h}]
      BY <1>1, <1>3, <2>4 DEF Land
    <2>6. /\ landed' \in [Ops -> SUBSET BOOLEAN] /\ landed'[op] = {h}
          /\ \A o \in Ops : o # op => landed'[o] = landed[o]
      BY <1>1, <2>5
    <2>7. landed'[op] = {TRUE} \/ (landed'[op] = {FALSE} /\ ~ Held(op)')
      BY <2>3, <2>4, <2>6, Zenon
    <2> QED
      BY <2>2, <2>5, <2>6, <2>7
  <1> QED
    BY <1>2, <1>3

\* A commit lands while its row is held, or raises before or after it has.
LEMMA CommitSteps ==
  ASSUME EngineInv, NEW p \in Procs, LandCommit(p) \/ CommitRaises(p)
  PROVE  EngineInv'
  <1>1. /\ proc[p].at = "committing" /\ proc[p].at \in Forwards
        /\ proc[p].at # "idle" /\ proc[p].at # "next"
    BY DEF LandCommit, CommitRaises, At, Forwards
  <1> PICK op \in Ops : op = proc[p].op
    BY <1>1, Holding
  <1>2. /\ \A q \in Procs : q # p => proc[q] = Idle
        /\ journal[op] # None /\ ForwardOK("committing", op)
        /\ Phase(op) = PHASES[Len(journal[op].outs)]
    BY <1>1, Applying
  <1>3. /\ Len(journal[op].outs) = 6 /\ Phase(op) = "commit"
        /\ begun[op]["commit"] = 0 /\ fence.op >= op
    <2>1. Len(journal[op].outs) = 6 /\ begun[op][Phase(op)] = 0 /\ fence.op >= op
      BY <1>2 DEF ForwardOK
    <2> QED
      BY <1>2, <2>1, PhaseFacts
  <1>4. /\ Begin(op, Phase(op)) /\ (Land(op) \/ UNCHANGED <<landed, fence>>)
        /\ UNCHANGED <<barrier, backup>>
    BY <1>3 DEF LandCommit, CommitRaises
  <1>5. /\ landed' \in [Ops -> SUBSET BOOLEAN]
        /\ fence' \in Sessions
        /\ fence'.op = fence.op
        /\ \A o \in Ops : o # op => landed'[o] = landed[o]
        /\ Land(op) => landed'[op] = {TRUE} \/ (landed'[op] = {FALSE} /\ ~ Held(op)')
    BY <1>3, <1>4, Landing
  <1>6. /\ begun' \in [Ops -> [Steps -> 0..1]]
        /\ \A o \in Ops : o # op => begun'[o] = begun[o]
        /\ begun'[op][Phase(op)] = 1
        /\ AccountsFor(journal[op], barrier[op], backup'[op], begun'[op], landed'[op])
    <2>1. /\ backup'[op] = backup[op] /\ Begin(op, Phase(op))
          /\ proc[p].at \in {"admitted", "projected", "committing"}
      BY <1>1, <1>4
    <2>2. /\ begun' \in [Ops -> [Steps -> 0..1]] /\ begun'[op][Phase(op)] = 1
          /\ AccountsFor(journal[op], barrier[op], backup'[op], begun'[op], landed'[op])
      BY <1>3, <2>1, EffectStarts
    <2>3. ASSUME NEW o \in Ops, o # op
          PROVE  begun'[o] = begun[o]
      BY <1>3, <2>1, <2>3, EffectStarts
    <2> QED
      BY <2>2, <2>3
  <1>7. CASE LandCommit(p)
    <2>1. Land(op) /\ journal' = journal /\ Goto(p, "landed", op)
      BY <1>7 DEF LandCommit
    <2>2. Stores'
      BY <1>4, <1>5, <1>6, <2>1 DEF EngineInv, Shapes, Stores
    <2>3. Accounted(op)'
      BY <1>4, <1>6, <2>1 DEF Accounted
    <2>4. RowsOK'
      BY <1>4, <2>1, RowsStay
    <2>5. "landed" \in Forwards /\ "landed" \notin Releasing
      BY DEF Forwards, Releasing
    <2>6. ForwardOK("landed", op)'
      BY <1>2, <1>3, <1>5, <1>6, <2>1 DEF ForwardOK, LastOutcome, Phase, Record
    <2>7. journal'[op] # None
      BY <1>2, <2>1
    <2> QED
      BY <1>2, <1>4, <1>5, <1>6, <2>1, <2>2, <2>3, <2>4, <2>5, <2>6, <2>7, HolderGoes
  <1>8. CASE CommitRaises(p)
    <2>1. Outcome(op, "ambiguous", "safe-mode") /\ Leave(p) /\ barrier' = barrier
      BY <1>8 DEF CommitRaises
    <2>2. Accounted(op)' /\ RowsOK'
      BY <1>1, <1>6, <2>1, OutcomeRecorded
    <2>3. journal' \in [Ops -> Journals \union {None}]
      BY <1>1, <1>6, <2>1, OutcomeRecorded
    <2>4. ASSUME NEW o \in Ops, o # op
          PROVE  journal'[o] = journal[o]
      BY <1>1, <1>6, <2>1, <2>4, OutcomeRecorded
    <2>5. Stores'
      BY <1>4, <1>5, <1>6, <2>3 DEF EngineInv, Shapes, Stores
    <2> QED
      BY <1>2, <1>4, <1>5, <1>6, <2>1, <2>2, <2>4, <2>5, HolderLeaves
  <1> QED
    BY <1>7, <1>8

\* Every step of an apply keeps the invariant.
LEMMA ForwardStep ==
  ASSUME EngineInv, NEW p \in Procs, Forward(p)
  PROVE  EngineInv'
  BY BeginPhaseStep, CompleteStep, AdmitStep, FailureSteps, ObserveSteps, RunBackupStep,
     CommitSteps, ConfirmCommitStep, SucceedStep DEF Forward

-----------------------------------------------------------------------------
(* The steps of a rollback, and of a killed process.                       *)

\* What is known of the operation that a rollback is in the middle of.
LEMMA Restoring ==
  ASSUME EngineInv, NEW p \in Procs, proc[p].at \in Releasing, NEW op \in Ops, op = proc[p].op
  PROVE  /\ \A q \in Procs : q # p => proc[q] = Idle
         /\ journal[op] # None /\ journal[op] \in Journals
         /\ AccountsFor(journal[op], barrier[op], backup[op], begun[op], landed[op])
         /\ BackwardOK(proc[p].at, op)
         /\ barrier[op] # None /\ barrier[op] \in Rows
         /\ begun[op] \in [Steps -> 0..1]
  <1>1. proc[p].at # "idle"
    BY DEF Releasing
  <1>2. /\ \A q \in Procs : q # p => proc[q] = Idle
        /\ journal[op] # None /\ journal[op] \in Journals
        /\ Accounted(op) /\ BackwardOK(proc[p].at, op)
    BY <1>1, Holding
  <1>3. barrier[op] # None /\ barrier[op] \in Rows
    BY <1>2 DEF EngineInv, Shapes, Stores, BackwardOK
  <1> QED
    BY <1>2, <1>3 DEF Accounted, EngineInv, Shapes, Stores

\* A journal of a rollback gets a new outcome of the rollback.
LEMMA RollbackAccounts ==
  ASSUME NEW j \in Journals, NEW row, NEW copy, NEW starts, NEW lands,
         AccountsFor(j, row, copy, starts, lands),
         NEW k \in Journals, k.outs = j.outs,
         k.rollback # "none", k.rollback \in {"verified", "completed"} => starts["rollback"] = 1,
         k.status # "completed",
         k.status = "rolled-back" =>
            k.rollback = "completed" /\ row \in {"released", "ambiguous"}
  PROVE  AccountsFor(k, row, copy, starts, lands)
  <1>1. j # None /\ k # None
    BY NoneAssumption
  <1> QED
    BY <1>1 DEF AccountsFor

\* A rollback starts on a journal that no restore has been begun for.
LEMMA StartRollbackStep ==
  ASSUME EngineInv, NEW p \in Procs, NEW op \in Ops, StartRollback(p, op)
  PROVE  EngineInv'
  <1>1. /\ \A q \in Procs : proc[q] = Idle
        /\ journal[op] # None /\ journal[op].status \in RollbackStatuses
        /\ journal[op].rollback = "none" /\ barrier[op] # None
        /\ barrier[op] \in {"held", "releasing", "released"}
        /\ Goto(p, "restoring", op)
        /\ UNCHANGED <<barrier, fence, backup, begun, landed>>
    BY NoneAssumption DEF StartRollback, EngineFree, Loads, Record, Verified, Beginnable, world, Rows
  <1>2. journal[op] \in Journals /\ AccountsFor(journal[op], barrier[op], backup[op], begun[op], landed[op])
    BY <1>1 DEF EngineInv, Shapes, Stores, Accounted
  <1> DEFINE k == [journal[op] EXCEPT !.rollback = "started"]
  <1>3. journal' = [journal EXCEPT ![op] = k]
    BY <1>2 DEF StartRollback, EngineInv, Shapes, Stores, Journals
  <1>4. /\ k \in Journals /\ k.outs = journal[op].outs
        /\ k.status = journal[op].status /\ k.rollback = "started"
    BY <1>2 DEF Journals
  <1> HIDE DEF k
  <1>5. k.status # "completed" /\ k.status # "rolled-back"
    BY <1>1, <1>4 DEF RollbackStatuses
  <1>6. AccountsFor(k, barrier[op], backup[op], begun[op], landed[op])
    BY <1>2, <1>4, <1>5, RollbackAccounts
  <1>7. /\ journal' \in [Ops -> Journals \union {None}]
        /\ journal'[op] = k /\ journal'[op] # None
        /\ \A o \in Ops : o # op => journal'[o] = journal[o]
    BY <1>3, <1>4, JournalWrites DEF EngineInv
  <1>8. Stores'
    BY <1>1, <1>7 DEF EngineInv, Shapes, Stores
  <1>9. Accounted(op)'
    BY <1>1, <1>6, <1>7 DEF Accounted
  <1>10. RowsOK'
    BY <1>1, <1>7, RowsStay
  <1>11. begun[op]["rollback"] = 0
    BY <1>1, <1>2 DEF AccountsFor
  <1>12. BackwardOK("restoring", op)'
    BY <1>1, <1>4, <1>7, <1>11 DEF BackwardOK, RollbackStatuses
  <1>13. "restoring" \in Releasing /\ "restoring" \notin Forwards
    BY DEF Forwards, Releasing
  <1> QED
    BY <1>1, <1>7, <1>8, <1>9, <1>10, <1>12, <1>13, HolderGoes

\* A rollback whose restore is verified goes on to the release.
LEMMA ResumeRollbackStep ==
  ASSUME EngineInv, NEW p \in Procs, NEW op \in Ops, ResumeRollback(p, op)
  PROVE  EngineInv'
  <1>1. /\ \A q \in Procs : proc[q] = Idle
        /\ journal[op] # None /\ journal[op].status \in RollbackStatuses
        /\ journal[op].rollback = "verified" /\ barrier[op] # None
        /\ barrier[op] \in {"held", "releasing", "released"}
        /\ Goto(p, "release", op)
        /\ UNCHANGED <<journal, barrier, fence, backup, begun, landed>>
    BY NoneAssumption DEF ResumeRollback, EngineFree, Loads, Record, Verified, world, Rows
  <1>2. BackwardOK("release", op)
    BY <1>1 DEF BackwardOK
  <1>3. "release" \in Releasing /\ "release" \notin Forwards
    BY DEF Forwards, Releasing
  <1> QED
    BY <1>1, <1>2, <1>3, PureGo

\* The rollback's outcome is recorded; a verified restore stays one.
LEMMA RollbackRecorded ==
  ASSUME EngineInv, NEW p \in Procs, proc[p].at \in Releasing, NEW op \in Ops, op = proc[p].op,
         NEW outcome \in {"verified", "completed", "ambiguous", "failed"},
         NEW status \in {"running", "failed", "safe-mode", "rolled-back"},
         RollbackOutcome(op, outcome, status),
         UNCHANGED <<barrier, fence, backup, begun, landed>>,
         outcome \in {"verified", "completed"} => begun[op]["rollback"] = 1,
         outcome \notin {"verified", "completed"} => journal[op].rollback = "started",
         status = "rolled-back" => outcome = "completed" /\ barrier[op] = "released"
  PROVE  /\ Stores' /\ Accounted(op)' /\ RowsOK'
         /\ journal'[op] # None
         /\ journal'[op].rollback = outcome /\ journal'[op].status = status
         /\ \A o \in Ops : o # op => journal'[o] = journal[o]
  <1>1. /\ journal[op] # None /\ journal[op] \in Journals
        /\ AccountsFor(journal[op], barrier[op], backup[op], begun[op], landed[op])
        /\ barrier[op] # None
    BY Restoring
  <1> DEFINE k == [journal[op] EXCEPT !.rollback = outcome, !.status = status]
  <1>2. journal' = [journal EXCEPT ![op] = k]
    BY <1>1 DEF RollbackOutcome, EngineInv, Shapes, Stores, Journals
  <1>3. /\ k \in Journals /\ k.outs = journal[op].outs
        /\ k.status = status /\ k.rollback = outcome
    BY <1>1 DEF Journals
  <1> HIDE DEF k
  <1>4. /\ k.status # "completed" /\ k.rollback # "none"
        /\ k.rollback \in {"verified", "completed"} => begun[op]["rollback"] = 1
        /\ k.status = "rolled-back" =>
              k.rollback = "completed" /\ barrier[op] \in {"released", "ambiguous"}
    BY <1>1, <1>3
  <1>5. AccountsFor(k, barrier[op], backup[op], begun[op], landed[op])
    BY <1>1, <1>3, <1>4, RollbackAccounts
  <1>6. /\ journal' \in [Ops -> Journals \union {None}]
        /\ journal'[op] = k /\ journal'[op] # None
        /\ \A o \in Ops : o # op => journal'[o] = journal[o]
    BY <1>2, <1>3, JournalWrites DEF EngineInv
  <1>7. Stores'
    BY <1>6 DEF EngineInv, Shapes, Stores
  <1>8. Accounted(op)'
    BY <1>5, <1>6 DEF Accounted
  <1>9. journal[op].rollback \in {"verified", "completed"} => k.rollback \in {"verified", "completed"}
    BY <1>3
  <1>10. RowsOK'
    BY <1>6, <1>9, RowsStay
  <1> QED
    BY <1>3, <1>6, <1>7, <1>8, <1>10

\* A restore that is refused or doubted, and a finished rollback, are final.
LEMMA RejectSteps ==
  ASSUME EngineInv, NEW p \in Procs,
         RejectRestore(p) \/ DoubtRestore(p) \/ FinishRollback(p)
  PROVE  EngineInv'
  <1>1. proc[p].at \in {"restoring", "restored", "finish"}
    BY DEF RejectRestore, DoubtRestore, FinishRollback, At
  <1>2. proc[p].at \in Releasing /\ proc[p].at # "idle"
    BY <1>1 DEF Releasing
  <1> PICK op \in Ops : op = proc[p].op
    BY <1>2, Holding
  <1>3. /\ \A q \in Procs : q # p => proc[q] = Idle
        /\ BackwardOK(proc[p].at, op)
        /\ AccountsFor(journal[op], barrier[op], backup[op], begun[op], landed[op])
        /\ journal[op] # None
    BY <1>2, Restoring
  <1>4. Leave(p) /\ UNCHANGED <<barrier, fence, backup, begun, landed>>
    BY DEF RejectRestore, DoubtRestore, FinishRollback, world
  <1>5. /\ Stores' /\ Accounted(op)' /\ RowsOK'
        /\ \A o \in Ops : o # op => journal'[o] = journal[o]
    <2>1. CASE RejectRestore(p) \/ DoubtRestore(p)
      <3>1. proc[p].at \in {"restoring", "restored"}
        BY <2>1 DEF RejectRestore, DoubtRestore, At
      <3>2. journal[op].rollback = "started"
        BY <1>3, <3>1 DEF BackwardOK
      <3>3. RollbackOutcome(op, "failed", "failed") \/ RollbackOutcome(op, "ambiguous", "safe-mode")
        BY <2>1 DEF RejectRestore, DoubtRestore
      <3>4. CASE RollbackOutcome(op, "failed", "failed")
        BY <1>2, <1>4, <3>2, <3>4, RollbackRecorded
      <3>5. CASE RollbackOutcome(op, "ambiguous", "safe-mode")
        BY <1>2, <1>4, <3>2, <3>5, RollbackRecorded
      <3> QED
        BY <3>3, <3>4, <3>5
    <2>2. CASE FinishRollback(p)
      <3>1. proc[p].at = "finish" /\ RollbackOutcome(op, "completed", "rolled-back")
        BY <2>2 DEF FinishRollback, At
      <3>2. journal[op].rollback = "verified" /\ barrier[op] = "released"
        BY <1>3, <3>1 DEF BackwardOK
      <3>3. begun[op]["rollback"] = 1
        BY <1>3, <3>2 DEF AccountsFor
      <3> QED
        BY <1>2, <1>4, <3>1, <3>2, <3>3, RollbackRecorded
    <2> QED
      BY <2>1, <2>2
  <1> QED
    BY <1>3, <1>4, <1>5, HolderLeaves

\* A restore is verified after it has taken place.
LEMMA VerifyRestoreStep ==
  ASSUME EngineInv, NEW p \in Procs, VerifyRestore(p)
  PROVE  EngineInv'
  <1>1. proc[p].at = "restored" /\ proc[p].at \in Releasing /\ proc[p].at # "idle"
    BY DEF VerifyRestore, At, Releasing
  <1> PICK op \in Ops : op = proc[p].op
    BY <1>1, Holding
  <1>2. /\ \A q \in Procs : q # p => proc[q] = Idle
        /\ BackwardOK("restored", op) /\ journal[op] # None
    BY <1>1, Restoring
  <1> PICK status : status = journal[op].status
    OBVIOUS
  <1>3. /\ RollbackOutcome(op, "verified", status) /\ Goto(p, "release", op)
        /\ UNCHANGED <<barrier, fence, backup, begun, landed>>
    BY DEF VerifyRestore, Record, world
  <1>4. /\ status \in RollbackStatuses /\ begun[op]["rollback"] = 1 /\ barrier[op] # None
        /\ barrier[op] \in {"held", "releasing", "released"}
    BY <1>2 DEF BackwardOK
  <1>5. status \in {"running", "failed", "safe-mode", "rolled-back"} /\ status # "rolled-back"
    BY <1>4 DEF RollbackStatuses
  <1>6. /\ Stores' /\ Accounted(op)' /\ RowsOK' /\ journal'[op] # None
        /\ journal'[op].rollback = "verified" /\ journal'[op].status = status
        /\ \A o \in Ops : o # op => journal'[o] = journal[o]
    BY <1>1, <1>3, <1>4, <1>5, RollbackRecorded
  <1>7. BackwardOK("release", op)'
    BY <1>3, <1>4, <1>6 DEF BackwardOK, RollbackStatuses
  <1>8. "release" \in Releasing /\ "release" \notin Forwards
    BY DEF Forwards, Releasing
  <1> QED
    BY <1>2, <1>3, <1>6, <1>7, <1>8, HolderGoes

\* A restore is begun once.
LEMMA RestoreStep ==
  ASSUME EngineInv, NEW p \in Procs, Restore(p)
  PROVE  EngineInv'
  <1>1. proc[p].at = "restoring" /\ proc[p].at \in Releasing /\ proc[p].at # "idle"
    BY DEF Restore, At, Releasing
  <1> PICK op \in Ops : op = proc[p].op
    BY <1>1, Holding
  <1>2. /\ \A q \in Procs : q # p => proc[q] = Idle
        /\ BackwardOK("restoring", op) /\ journal[op] # None
        /\ AccountsFor(journal[op], barrier[op], backup[op], begun[op], landed[op])
        /\ begun[op] \in [Steps -> 0..1]
    BY <1>1, Restoring
  <1>3. begun[op]["rollback"] = 0 /\ journal[op].rollback = "started"
    BY <1>2 DEF BackwardOK
  <1> DEFINE starts1 == [begun[op] EXCEPT !["rollback"] = 1]
  <1>4. /\ begun' = [begun EXCEPT ![op] = starts1]
        /\ Goto(p, "restored", op)
        /\ UNCHANGED <<journal, barrier, fence, backup, landed>>
    BY <1>2, <1>3, PhaseFacts DEF Restore, Begin, EngineInv, Shapes, Stores
  <1>5. /\ starts1 \in [Steps -> 0..1] /\ starts1["rollback"] = 1
        /\ \A i \in 1..8 : starts1[PHASES[i]] = begun[op][PHASES[i]]
        /\ starts1["commit"] = begun[op]["commit"]
    BY <1>2, PhaseFacts
  <1> HIDE DEF starts1
  <1>6. AccountsFor(journal[op], barrier[op], backup[op], starts1, landed[op])
    <2> PICK outs, copy, lands, row : /\ outs = journal[op].outs /\ copy = backup[op]
                                      /\ lands = landed[op] /\ row = barrier[op]
      OBVIOUS
    <2>1. /\ begun[op]["commit"] = 0 => lands = {}
          /\ Len(outs) <= 8 /\ \A i \in 1..8 : i < Len(outs) => outs[i] = "success"
          /\ \A i \in 1..8 : i > Len(outs) => begun[op][PHASES[i]] = 0
          /\ \A i \in 1..8 : i <= Len(outs) /\ outs[i] = "success" =>
                /\ begun[op][PHASES[i]] = 1
                /\ i = 4 => copy = "published"
                /\ i = 6 => lands = {TRUE}
          /\ journal[op].status \notin {"completed", "rolled-back"}
      BY <1>2, <1>3 DEF AccountsFor
    <2>2. /\ \A i \in 1..8 : i > Len(outs) => starts1[PHASES[i]] = 0
          /\ \A i \in 1..8 : i <= Len(outs) /\ outs[i] = "success" =>
                /\ starts1[PHASES[i]] = 1
                /\ i = 4 => copy = "published"
                /\ i = 6 => lands = {TRUE}
      BY <1>5, <2>1
    <2> QED
      BY <1>2, <1>3, <1>5, <2>1, <2>2 DEF AccountsFor
  <1>7. /\ begun' \in [Ops -> [Steps -> 0..1]] /\ begun'[op] = starts1
        /\ \A o \in Ops : o # op => begun'[o] = begun[o]
    BY <1>4, <1>5 DEF EngineInv, Shapes, Stores
  <1>8. Stores'
    BY <1>4, <1>7 DEF EngineInv, Shapes, Stores
  <1>9. Accounted(op)'
    BY <1>4, <1>6, <1>7 DEF Accounted
  <1>10. RowsOK'
    BY <1>4, RowsStay
  <1>11. BackwardOK("restored", op)'
    BY <1>2, <1>4, <1>5, <1>7 DEF BackwardOK
  <1>12. "restored" \in Releasing /\ "restored" \notin Forwards
    BY DEF Forwards, Releasing
  <1>13. journal'[op] # None
    BY <1>2, <1>4
  <1> QED
    BY <1>2, <1>4, <1>7, <1>8, <1>9, <1>10, <1>11, <1>12, <1>13, HolderGoes

\* The release of a row follows a verified restore.
LEMMA AuthorizeStep ==
  ASSUME EngineInv, NEW p \in Procs, Authorize(p)
  PROVE  EngineInv'
  <1>1. proc[p].at = "authorize" /\ proc[p].at \in Releasing /\ proc[p].at # "idle"
    BY DEF Authorize, At, Releasing
  <1> PICK op \in Ops : op = proc[p].op
    BY <1>1, Holding
  <1>2. /\ \A q \in Procs : q # p => proc[q] = Idle
        /\ BackwardOK("authorize", op) /\ journal[op] # None
    BY <1>1, Restoring
  <1>3. UNCHANGED <<journal, barrier, fence, backup, begun, landed>>
    BY DEF Authorize, world
  <1>4. {"complete", "finish"} \subseteq Releasing \ Forwards
    BY DEF Forwards, Releasing
  <1>5. CASE barrier[op] = "releasing"
    <2>1. Goto(p, "complete", op)
      BY <1>5 DEF Authorize
    <2>2. BackwardOK("complete", op)
      BY <1>2, <1>5 DEF BackwardOK
    <2> QED
      BY <1>2, <1>3, <1>4, <2>1, <2>2, PureGo
  <1>6. CASE barrier[op] # "releasing"
    <2>1. Goto(p, "finish", op)
      BY <1>6 DEF Authorize
    <2>2. BackwardOK("finish", op)
      BY <1>2, <1>6 DEF BackwardOK
    <2> QED
      BY <1>2, <1>3, <1>4, <2>1, <2>2, PureGo
  <1> QED
    BY <1>5, <1>6

\* A process that dies leaves the stores as they are.
LEMMA CrashStep ==
  ASSUME EngineInv, NEW p \in Procs, Crash(p) \/ RereadFails(p)
  PROVE  EngineInv'
  <1>1. proc[p] # Idle
    BY DEF Crash, RereadFails, Idle
  <1>2. proc[p].op \in Ops
    BY <1>1 DEF EngineInv, Shapes, Holder
  <1>3. \A q \in Procs : q # p => proc[q] = Idle
    BY <1>1 DEF EngineInv, Exclusive
  <1>4. /\ Leave(p)
        /\ UNCHANGED <<journal, barrier, fence, backup, begun, landed>>
    BY DEF Crash, RereadFails, world
  <1> QED
    BY <1>2, <1>3, <1>4, PureLeave

-----------------------------------------------------------------------------
(* The control rows.                                                       *)

\* A row is replaced by another: a released or fenced one by such a one, and it is the
\* only active one if it is active.
LEMMA RowWritten ==
  ASSUME EngineInv, NEW op \in Ops, NEW new \in Rows,
         barrier' = [barrier EXCEPT ![op] = new],
         UNCHANGED <<journal, backup, begun, landed>>,
         barrier[op] \in {"released", "ambiguous"} => new \in {"released", "ambiguous"},
         new \in {"held", "releasing"} => op \in Active \/ Active = {}
  PROVE  /\ barrier' \in [Ops -> Rows \union {None}] /\ barrier'[op] = new /\ new # None
         /\ \A o \in Ops : o # op => barrier'[o] = barrier[o]
         /\ Accounted(op)' /\ RowsOK'
  <1>1. /\ barrier' \in [Ops -> Rows \union {None}] /\ barrier'[op] = new /\ new # None
        /\ \A o \in Ops : o # op => barrier'[o] = barrier[o]
    BY NoneAssumption DEF EngineInv, Shapes, Stores
  <1>2. AccountsFor(journal[op], barrier[op], backup[op], begun[op], landed[op])
    BY DEF EngineInv, Accounted
  <1>3. AccountsFor(journal[op], new, backup[op], begun[op], landed[op])
    BY <1>2 DEF AccountsFor
  <1>4. Accounted(op)'
    BY <1>1, <1>3 DEF Accounted
  <1>5. \A o \in Active' : o # op => o \in Active
    BY <1>1 DEF Active, HasRow
  <1>6. op \in Active' => new \in {"held", "releasing"}
    BY <1>1 DEF Active, HasRow
  <1>7. \A a, b \in Active : a = b
    BY DEF EngineInv, RowsOK
  <1>8. \A a, b \in Active' : a = b
    BY <1>5, <1>6, <1>7
  <1> QED
    BY <1>1, <1>4, <1>8 DEF RowsOK

\* What an uncertain commit leaves.
LEMMA UncertainRows ==
  ASSUME NEW op \in Ops, NEW row \in Rows, NEW new \in Uncertain(op, row)
  PROVE  \/ new = barrier[op]
         \/ new = row
         \/ new \in Rows /\ new = "ambiguous"
  BY DEF Uncertain, Rows

\* BeginRelease and CompleteRelease write the row of the operation.
LEMMA ReleaseSteps ==
  ASSUME EngineInv, NEW p \in Procs, BeginRelease(p) \/ CompleteRelease(p)
  PROVE  EngineInv'
  <1>1. proc[p].at \in {"release", "complete"}
    BY DEF BeginRelease, CompleteRelease, At
  <1>2. proc[p].at \in Releasing /\ proc[p].at # "idle"
    BY <1>1 DEF Releasing
  <1> PICK op \in Ops : op = proc[p].op
    BY <1>2, Holding
  <1>3. /\ \A q \in Procs : q # p => proc[q] = Idle
        /\ journal[op] # None /\ BackwardOK(proc[p].at, op)
        /\ barrier[op] # None /\ barrier[op] \in Rows
    BY <1>2, Restoring
  <1>4. journal[op].rollback = "verified" /\ journal[op].status \in RollbackStatuses
    BY <1>1, <1>3 DEF BackwardOK
  <1>5. UNCHANGED <<journal, fence, backup, begun, landed>>
    BY DEF BeginRelease, CompleteRelease, world
  <1>6. {"authorize", "finish"} \subseteq Releasing \ Forwards
    BY DEF Forwards, Releasing
  \* the row is written, or not, and the rollback goes on or returns
  <1>7. ASSUME NEW new \in Rows, barrier' = [barrier EXCEPT ![op] = new],
               barrier[op] \in {"held", "releasing"},
               NEW at \in {"authorize", "finish"}, Leave(p) \/ Goto(p, at, op),
               Goto(p, at, op) => \/ at = "authorize" /\ new \in {"releasing", "released"}
                                  \/ at = "finish" /\ new = "released"
        PROVE  EngineInv'
    <2>1. op \in Active
      BY <1>3, <1>7 DEF Active, HasRow
    <2>2. /\ barrier' \in [Ops -> Rows \union {None}] /\ barrier'[op] = new /\ new # None
          /\ \A o \in Ops : o # op => barrier'[o] = barrier[o]
          /\ Accounted(op)' /\ RowsOK'
      BY <1>3, <1>4, <1>5, <1>7, <2>1, RowWritten
    <2>3. Stores'
      BY <1>5, <2>2 DEF EngineInv, Shapes, Stores
    <2>4. CASE Leave(p)
      BY <1>3, <1>5, <2>2, <2>3, <2>4, HolderLeaves
    <2>5. CASE Goto(p, at, op)
      <3>1. BackwardOK(at, op)'
        BY <1>3, <1>4, <1>5, <1>7, <2>2, <2>5 DEF BackwardOK, RollbackStatuses
      <3>2. at \in Releasing /\ at \notin Forwards /\ journal'[op] # None
        BY <1>3, <1>5, <1>6
      <3> QED
        BY <1>3, <1>5, <2>2, <2>3, <2>5, <3>1, <3>2, HolderGoes
    <2> QED
      BY <1>7, <2>4, <2>5
  <1>8. CASE BeginRelease(p)
    <2> DEFINE row == "releasing"
    <2>1. row \in Rows /\ row = "releasing"
      BY DEF Rows
    <2>2. proc[p].at = "release"
      BY <1>8 DEF BeginRelease, At
    <2>3. CASE barrier[op] = "held"
      <3>1. \/ barrier' = [barrier EXCEPT ![op] = row] /\ Goto(p, "authorize", op)
            \/ Leave(p) /\ \E new \in Uncertain(op, row) : barrier' = [barrier EXCEPT ![op] = new]
        BY <1>8, <2>3 DEF BeginRelease
      <3> HIDE DEF row
      <3>2. CASE barrier' = [barrier EXCEPT ![op] = row] /\ Goto(p, "authorize", op)
        BY <1>7, <2>1, <2>3, <3>2
      <3>3. CASE Leave(p) /\ \E new \in Uncertain(op, row) : barrier' = [barrier EXCEPT ![op] = new]
        <4> PICK new \in Uncertain(op, row) : barrier' = [barrier EXCEPT ![op] = new]
          BY <3>3
        <4>1. new \in Rows
          BY <1>3, <2>1, UncertainRows
        <4>2. ~ Goto(p, "authorize", op)
          BY <3>3 DEF Leave, Goto, Idle, EngineInv, Shapes
        <4> QED
          BY <1>7, <2>3, <3>3, <4>1, <4>2
      <3> QED
        BY <3>1, <3>2, <3>3
    <2>4. CASE barrier[op] # "held"
      <3>1. Goto(p, "authorize", op) /\ barrier' = barrier
        BY <1>8, <2>4 DEF BeginRelease
      <3>2. BackwardOK("authorize", op)
        BY <1>3, <2>2, <2>4 DEF BackwardOK
      <3> QED
        BY <1>3, <1>5, <1>6, <3>1, <3>2, PureGo
    <2> QED
      BY <2>3, <2>4
  <1>9. CASE CompleteRelease(p)
    <2> DEFINE row == "released"
    <2>1. row \in Rows /\ row = "released"
      BY DEF Rows
    <2>2. /\ barrier[op] = "releasing"
          /\ \/ barrier' = [barrier EXCEPT ![op] = row] /\ Goto(p, "finish", op)
             \/ Leave(p) /\ \E new \in Uncertain(op, row) : barrier' = [barrier EXCEPT ![op] = new]
      BY <1>9 DEF CompleteRelease
    <2> HIDE DEF row
    <2>3. CASE barrier' = [barrier EXCEPT ![op] = row] /\ Goto(p, "finish", op)
      BY <1>7, <2>1, <2>2, <2>3
    <2>4. CASE Leave(p) /\ \E new \in Uncertain(op, row) : barrier' = [barrier EXCEPT ![op] = new]
      <3> PICK new \in Uncertain(op, row) : barrier' = [barrier EXCEPT ![op] = new]
        BY <2>4
      <3>1. new \in Rows
        BY <1>3, <2>1, UncertainRows
      <3>2. ~ Goto(p, "finish", op)
        BY <2>4 DEF Leave, Goto, Idle, EngineInv, Shapes
      <3> QED
        BY <1>7, <2>2, <2>4, <3>1, <3>2
    <2> QED
      BY <2>2, <2>3, <2>4
  <1> QED
    BY <1>8, <1>9

\* Every step of a rollback keeps the invariant.
LEMMA BackwardStep ==
  ASSUME EngineInv, NEW p \in Procs, Backward(p)
  PROVE  EngineInv'
  BY RestoreStep, RejectSteps, VerifyRestoreStep, ReleaseSteps, AuthorizeStep, CrashStep
     DEF Backward

-----------------------------------------------------------------------------
(* The control store's other callers, the session and the board.           *)

\* The holder of the engine lock does not notice a session that is lost or newer,
\* nor, outside a rollback, a control row that changes.
LEMMA HoldersStay ==
  ASSUME EngineInv, UNCHANGED <<journal, proc, backup, begun, landed>>,
         ControlFree \/ barrier' = barrier,
         fence'.op \in Nat, fence'.op >= fence.op,
         \A o \in Ops : fence.op >= o /\ ~ Held(o) => ~ Held(o)'
  PROVE  \A p \in Procs : HolderOK(p)'
  <1> SUFFICES ASSUME NEW p \in Procs, proc[p] # Idle
               PROVE  HolderOK(p)'
    BY DEF HolderOK
  <1>1. HolderOK(p) /\ proc[p] \in Holder /\ fence.op \in Nat
    BY DEF EngineInv, Shapes, Stores, Sessions
  <1> PICK at, op : at = proc[p].at /\ op = proc[p].op
    OBVIOUS
  <1>2. op \in Ops /\ op \in Nat /\ at \in Forwards \union Releasing
    BY <1>1, UpgradeAssumption DEF Holder
  <1>3. /\ journal[op] # None
        /\ at \in Forwards => ForwardOK(at, op)
        /\ at \in Releasing => BackwardOK(at, op)
    BY <1>1 DEF HolderOK
  <1>4. fence.op >= op => fence'.op >= op
    BY <1>1, <1>2
  <1>5. ASSUME at \in Forwards
        PROVE  ForwardOK(at, op)'
    BY <1>2, <1>3, <1>4, <1>5 DEF ForwardOK, LastOutcome, Phase, Record
  <1>6. ASSUME at \in Releasing
        PROVE  BackwardOK(at, op)'
    BY <1>3, <1>6 DEF BackwardOK, ControlFree
  <1> QED
    BY <1>3, <1>5, <1>6 DEF HolderOK

\* One of the other callers commits a row, or is left uncertain of it.
LEMMA CommitRowStep ==
  ASSUME EngineInv, ControlFree, NEW op \in Ops, NEW row \in Rows, CommitRow(op, row),
         barrier[op] \in {"released", "ambiguous"} => row \in {"released", "ambiguous"},
         row \in {"held", "releasing"} => op \in Active \/ Active = {}
  PROVE  EngineInv'
  <1>1. UNCHANGED <<journal, fence, proc, backup, begun, landed>>
    BY DEF CommitRow, world
  <1>2. PICK new \in Uncertain(op, row) : barrier' = [barrier EXCEPT ![op] = new]
    BY DEF CommitRow, Uncertain
  <1>3. \A p \in Procs : HolderOK(p)'
    <2>1. fence'.op \in Nat /\ fence'.op >= fence.op
      BY <1>1 DEF EngineInv, Shapes, Stores, Sessions
    <2>2. \A o \in Ops : ~ Held(o) => ~ Held(o)'
      BY <1>1 DEF Held
    <2> QED
      BY <1>1, <2>1, <2>2, HoldersStay
  <1>4. CASE barrier' = barrier
    <2>1. Stores' /\ Shapes' /\ Exclusive'
      BY <1>1, <1>4 DEF EngineInv, Shapes, Stores, Exclusive
    <2>2. \A o \in Ops : Accounted(o)'
      BY <1>1, <1>4 DEF EngineInv, Accounted
    <2>3. RowsOK'
      BY <1>1, <1>4, RowsStay
    <2> QED
      BY <1>3, <2>1, <2>2, <2>3 DEF EngineInv
  <1>5. CASE new \in Rows
    <2>1. \/ new = barrier[op] \/ new = row \/ new = "ambiguous"
      BY UncertainRows
    <2>2. /\ new \in {"held", "releasing"} => op \in Active \/ Active = {}
          /\ barrier[op] \in {"released", "ambiguous"} => new \in {"released", "ambiguous"}
      <3>1. CASE new = barrier[op]
        BY <1>5, <3>1, NoneAssumption DEF Active, HasRow
      <3>2. CASE new = row \/ new = "ambiguous"
        BY <3>2
      <3> QED
        BY <2>1, <3>1, <3>2
    <2>3. /\ barrier' \in [Ops -> Rows \union {None}]
          /\ \A o \in Ops : o # op => barrier'[o] = barrier[o]
          /\ Accounted(op)' /\ RowsOK'
      BY <1>1, <1>2, <1>5, <2>2, RowWritten
    <2>4. \A o \in Ops : Accounted(o)'
      <3>1. ASSUME NEW o \in Ops, o # op
            PROVE  Accounted(o)'
        <4>1. barrier'[o] = barrier[o]
          BY <2>3, <3>1
        <4> QED
          BY <1>1, <4>1 DEF EngineInv, Accounted
      <3> QED
        BY <2>3, <3>1
    <2>5. Shapes' /\ Exclusive'
      BY <1>1, <2>3 DEF EngineInv, Shapes, Stores, Exclusive
    <2> QED
      BY <1>3, <2>3, <2>4, <2>5 DEF EngineInv
  <1>6. new \notin Rows => barrier' = barrier
    <2>1. new \notin Rows => new = barrier[op]
      BY UncertainRows
    <2> QED
      BY <1>2, <2>1 DEF EngineInv, Shapes, Stores
  <1> QED
    BY <1>4, <1>5, <1>6

\* What STATUS_TRANSITIONS admits.
LEMMA TransitionFacts ==
  ASSUME NEW old, NEW status \in Transitions(old)
  PROVE  /\ old \in {"held", "releasing", "released"}
         /\ old = "released" => status = "released"
         /\ status = "held" => old = "held"
         /\ status = "releasing" => old \in {"held", "releasing"}
  <1>1. CASE old = "held"
    BY <1>1, Zenon DEF Transitions
  <1>2. CASE old = "releasing"
    BY <1>2, Zenon DEF Transitions
  <1>3. CASE old = "released"
    BY <1>3, Zenon DEF Transitions
  <1>4. CASE old \notin {"held", "releasing", "released"}
    BY <1>4, Zenon DEF Transitions
  <1> QED
    BY <1>1, <1>2, <1>3, <1>4, Zenon

\* Rows are inserted, exchanged and released by the control commands.
LEMMA RowSteps ==
  ASSUME EngineInv, NEW op \in Ops,
         \/ InsertRow(op) \/ ReleaseRow(op)
         \/ \E status \in {"held", "releasing", "released", "ambiguous"} : CasRow(op, status)
         \/ \E old \in Ops : ReconcileRow(old, op)
  PROVE  EngineInv'
  <1>1. {"held", "released"} \subseteq Rows /\ "held" # "released" /\ "held" # "ambiguous"
    BY DEF Rows
  <1>2. CASE InsertRow(op) \/ \E old \in Ops : ReconcileRow(old, op)
    <2>1. /\ ControlFree /\ barrier[op] = None /\ Active = {}
          /\ CommitRow(op, "held")
      BY <1>2 DEF InsertRow, ReconcileRow, Insertable
    <2>2. barrier[op] \notin {"released", "ambiguous"}
      BY <2>1, NoneAssumption DEF Rows
    <2> QED
      BY <1>1, <2>1, <2>2, CommitRowStep
  <1>3. CASE ReleaseRow(op)
    <2>1. ControlFree /\ CommitRow(op, "released")
      BY <1>3 DEF ReleaseRow
    <2> QED
      BY <1>1, <2>1, CommitRowStep
  <1>4. CASE \E status \in {"held", "releasing", "released", "ambiguous"} : CasRow(op, status)
    <2> PICK status \in {"held", "releasing", "released", "ambiguous"} : CasRow(op, status)
      BY <1>4
    <2>1. /\ ControlFree /\ barrier[op] # None /\ status \in Transitions(barrier[op])
          /\ CommitRow(op, status)
      BY DEF CasRow
    <2>2. status \in Rows
      BY DEF Rows
    <2>3. /\ barrier[op] \in {"released", "ambiguous"} => status = "released"
          /\ status \in {"held", "releasing"} => barrier[op] \in {"held", "releasing"}
      BY <2>1, TransitionFacts
    <2>4. status \in {"held", "releasing"} => op \in Active
      BY <2>1, <2>3 DEF Active, HasRow
    <2> QED
      BY <2>1, <2>2, <2>3, <2>4, CommitRowStep
  <1> QED
    BY <1>2, <1>3, <1>4

\* The session, the board and a new plan.
LEMMA FenceSteps ==
  ASSUME EngineInv,
         LoseFence \/ BoardWrite \/ \E op \in Ops : AcquireFence(op) \/ ProvisionFence(op)
  PROVE  EngineInv'
  <1>1. UNCHANGED <<journal, barrier, proc, backup, begun, landed>>
    BY DEF LoseFence, BoardWrite, AcquireFence, ProvisionFence, world
  <1>2. /\ fence \in Sessions
        /\ fence.op \in Nat /\ Ops \subseteq Nat
    BY UpgradeAssumption DEF EngineInv, Shapes, Stores, Sessions
  <1>3. /\ fence' \in Sessions
        /\ fence'.op \in Nat /\ fence'.op >= fence.op
        /\ \A o \in Ops : fence.op >= o /\ ~ Held(o) => ~ Held(o)'
    <2>1. CASE LoseFence
      <3> PICK s \in {"releasing", "released", "ambiguous"} :
                  fence' = [fence EXCEPT !.status = s, !.drifted = FALSE]
        BY <2>1 DEF LoseFence, StatusAfter
      <3>1. /\ fence' \in Sessions
            /\ fence'.op = fence.op /\ fence'.status # "held"
        BY <1>2, <2>1 DEF LoseFence, world, Sessions
      <3>2. fence'.op >= fence.op
        BY <1>2, <3>1
      <3> QED
        BY <1>2, <3>1, <3>2 DEF Held
    <2>2. CASE BoardWrite
      <3>1. fence' = [fence EXCEPT !.drifted = TRUE]
        BY <2>2 DEF BoardWrite
      <3>2. /\ fence' \in Sessions
            /\ fence'.op = fence.op /\ fence'.status = fence.status
        BY <1>2, <3>1 DEF Sessions
      <3>3. fence'.op >= fence.op
        BY <1>2, <3>2
      <3> QED
        BY <1>2, <3>1, <3>2, <3>3 DEF Held
    <2>3. CASE \E op \in Ops : AcquireFence(op) \/ ProvisionFence(op)
      <3> PICK op \in Ops : AcquireFence(op) \/ ProvisionFence(op)
        BY <2>3
      <3>0. op \in Nat /\ op # 0
        BY UpgradeAssumption
      <3> PICK s \in {"held", "releasing", "released", "ambiguous"} :
                  fence' = [op |-> op, status |-> s, drifted |-> FALSE]
        BY DEF AcquireFence, ProvisionFence, FirstStatuses
      <3>1. op > fence.op
        BY <1>2, <3>0 DEF AcquireFence, ProvisionFence, world
      <3>2. fence' \in Sessions /\ fence'.op = op
        BY <3>0 DEF Sessions
      <3>3. /\ fence'.op >= fence.op
            /\ \A o \in Ops : fence.op >= o => o # op
        BY <1>2, <3>0, <3>1, <3>2
      <3> QED
        BY <1>2, <3>0, <3>1, <3>2, <3>3 DEF Held
    <2> QED
      BY <2>1, <2>2, <2>3
  <1>4. Shapes' /\ Exclusive'
    BY <1>1, <1>3 DEF EngineInv, Shapes, Stores, Exclusive
  <1>5. \A o \in Ops : Accounted(o)'
    BY <1>1 DEF EngineInv, Accounted
  <1>6. \A p \in Procs : HolderOK(p)'
    BY <1>1, <1>3, HoldersStay
  <1>7. RowsOK'
    BY <1>1, RowsStay
  <1> QED
    BY <1>4, <1>5, <1>6, <1>7 DEF EngineInv

\* A new journal has no phases.
LEMMA PlanStep ==
  ASSUME EngineInv, NEW op \in Ops, Plan(op)
  PROVE  EngineInv'
  <1> DEFINE k == [status |-> "planned", outs |-> <<>>, rollback |-> "none"]
  <1>1. /\ \A q \in Procs : proc[q] = Idle
        /\ journal[op] = None /\ journal' = [journal EXCEPT ![op] = k]
        /\ UNCHANGED <<barrier, fence, proc, backup, begun, landed>>
    BY DEF Plan, EngineFree, Record, world
  <1>2. /\ k \in Journals /\ k.outs = <<>> /\ k.status = "planned" /\ k.rollback = "none"
        /\ Len(k.outs) = 0
    BY DEF Journals
  <1> HIDE DEF k
  <1>3. /\ journal' \in [Ops -> Journals \union {None}] /\ journal'[op] = k
        /\ \A o \in Ops : o # op => journal'[o] = journal[o]
    BY <1>1, <1>2, JournalWrites DEF EngineInv
  <1>4. AccountsFor(journal[op], barrier[op], backup[op], begun[op], landed[op])
    BY DEF EngineInv, Accounted
  <1>5. AccountsFor(k, barrier[op], backup[op], begun[op], landed[op])
    <2>1. \A step \in Steps : begun[op][step] = 0
      BY <1>1, <1>4 DEF AccountsFor
    <2>2. /\ begun[op]["commit"] = 0 /\ landed[op] = {} /\ begun[op]["rollback"] = 0
          /\ \A i \in 1..8 : begun[op][PHASES[i]] = 0
      BY <1>4, <2>1, PhaseFacts DEF AccountsFor
    <2>3. k # None
      BY <1>2, NoneAssumption
    <2>4. \A i \in 1..8 : ~ (i < Len(k.outs)) /\ ~ (i <= Len(k.outs))
      BY <1>2
    <2> QED
      BY <1>2, <2>2, <2>3, <2>4 DEF AccountsFor
  <1>6. ASSUME NEW o \in Ops
        PROVE  Accounted(o)'
    <2>1. CASE o = op
      BY <1>1, <1>3, <1>5, <2>1 DEF Accounted
    <2>2. CASE o # op
      <3>1. journal'[o] = journal[o]
        BY <1>3, <2>2
      <3> QED
        BY <1>1, <3>1 DEF Accounted, EngineInv
    <2> QED
      BY <2>1, <2>2
  <1>7. Shapes' /\ Exclusive'
    BY <1>1, <1>3 DEF EngineInv, Shapes, Stores, Exclusive
  <1>8. \A q \in Procs : HolderOK(q)'
    BY <1>1 DEF HolderOK
  <1>9. RowsOK'
    BY <1>1, <1>3, RowsStay
  <1> QED
    BY <1>6, <1>7, <1>8, <1>9 DEF EngineInv

-----------------------------------------------------------------------------
(* The theorems.                                                           *)

\* At first there are no journals, no rows and no processes.
LEMMA EngineInit == Init => EngineInv
  <1> SUFFICES ASSUME Init PROVE EngineInv
    OBVIOUS
  <1> USE DEF Init
  <1>1. \A op \in Ops : begun[op] = [step \in Steps |-> 0]
    BY DEF Steps
  <1>2. Shapes
    <2>1. begun \in [Ops -> [Steps -> 0..1]]
      BY <1>1 DEF Steps
    <2> QED
      BY <2>1 DEF Shapes, Stores, Sessions
  <1>3. Exclusive /\ \A p \in Procs : HolderOK(p)
    BY DEF Exclusive, HolderOK
  <1>4. \A op \in Ops : Accounted(op)
    BY <1>1 DEF Accounted, AccountsFor
  <1>5. RowsOK
    BY DEF RowsOK, Active, HasRow
  <1> QED
    BY <1>2, <1>3, <1>4, <1>5 DEF EngineInv

\* Every step of the engine and of the control commands keeps the invariant.
LEMMA EngineStep == EngineInv /\ [Next]_vars => EngineInv'
  <1> SUFFICES ASSUME EngineInv, [Next]_vars PROVE EngineInv'
    OBVIOUS
  <1>1. CASE UNCHANGED vars
    <2>1. Shapes' /\ Exclusive'
      BY <1>1 DEF vars, world, EngineInv, Shapes, Stores, Exclusive
    <2>2. \A op \in Ops : Accounted(op)'
      BY <1>1 DEF vars, world, EngineInv, Accounted
    <2>3. ASSUME NEW p \in Procs
          PROVE  HolderOK(p)'
      <3>1. UNCHANGED <<journal, barrier, fence, backup, proc, begun, landed>>
        BY <1>1 DEF vars, world
      <3>2. HolderOK(p)
        BY DEF EngineInv
      <3>3. CASE proc[p] # Idle /\ proc[p].at \in Forwards /\ ForwardOK(proc[p].at, proc[p].op)
        <4>1. ForwardOK(proc[p].at, proc[p].op)'
          BY <3>1, <3>3 DEF ForwardOK, LastOutcome, Phase, Record, Held
        <4> QED
          BY <3>1, <3>2, <3>3, <4>1 DEF HolderOK, Forwards, Releasing
      <3>4. CASE proc[p] # Idle /\ proc[p].at \in Releasing /\ BackwardOK(proc[p].at, proc[p].op)
        <4>1. BackwardOK(proc[p].at, proc[p].op)'
          BY <3>1, <3>4 DEF BackwardOK
        <4> QED
          BY <3>1, <3>2, <3>4, <4>1 DEF HolderOK, Forwards, Releasing
      <3> QED
        BY <3>1, <3>2, <3>3, <3>4 DEF HolderOK
    <2>4. RowsOK'
      BY <1>1, RowsStay DEF vars, world
    <2> QED
      BY <2>1, <2>2, <2>3, <2>4 DEF EngineInv
  <1>2. CASE \E op \in Ops : Plan(op)
    BY <1>2, PlanStep
  <1>3. ASSUME NEW p \in Procs,
               \/ \E op \in Ops : StartApply(p, op) \/ StartRollback(p, op) \/ ResumeRollback(p, op)
               \/ Forward(p) \/ Backward(p) \/ Crash(p)
        PROVE  EngineInv'
    BY <1>3, StartApplyStep, StartRollbackStep, ResumeRollbackStep, ForwardStep, BackwardStep,
       CrashStep
  <1>4. CASE Control
    <2>1. \/ \E op \in Ops :
                \/ InsertRow(op) \/ ReleaseRow(op)
                \/ \E status \in {"held", "releasing", "released", "ambiguous"} : CasRow(op, status)
                \/ \E old \in Ops : ReconcileRow(old, op)
          \/ LoseFence \/ BoardWrite \/ \E op \in Ops : AcquireFence(op) \/ ProvisionFence(op)
      BY <1>4 DEF Control
    <2> QED
      BY <2>1, RowSteps, FenceSteps
  <1> QED
    BY <1>1, <1>2, <1>3, <1>4 DEF Next

\* Journals, control rows, effects and the holder of the engine lock agree in every
\* state of the engine: what _apply_locked, rollback and the control store rely on.
THEOREM EngineInvariance == Spec => []EngineInv
  BY EngineInit, EngineStep, PTL DEF Spec

\* No phase and no restore of an operation is started a second time, and what the
\* journal calls completed or rolled back happened (_apply_locked, rollback).
THEOREM PhaseAccounting == Spec => []PhasesAccounted
  <1>1. EngineInv => PhasesAccounted
    <2> SUFFICES ASSUME EngineInv PROVE PhasesAccounted
      OBVIOUS
    <2>1. EffectsAtMostOnce
      BY DEF EffectsAtMostOnce, EngineInv, Shapes, Stores
    <2>2. ASSUME NEW op \in Ops, journal[op] # None
          PROVE  /\ journal[op].status = "completed" =>
                       /\ begun[op]["commit"] = 1 /\ begun[op]["rollback"] = 0
                       /\ backup[op] = "published"
                 /\ journal[op].status = "rolled-back" =>
                       begun[op]["rollback"] = 1 /\ barrier[op] \in {"released", "ambiguous"}
      <3> DEFINE outs == journal[op].outs
      <3>1. AccountsFor(journal[op], barrier[op], backup[op], begun[op], landed[op])
        BY DEF EngineInv, Accounted
      <3>2. /\ \A i \in 1..8 : i < Len(outs) => outs[i] = "success"
            /\ \A i \in 1..8 : i <= Len(outs) /\ outs[i] = "success" =>
                  /\ begun[op][PHASES[i]] = 1
                  /\ i = 4 => backup[op] = "published"
            /\ journal[op].status = "completed" => Len(outs) = 8 /\ journal[op].rollback = "none"
            /\ journal[op].rollback = "none" => begun[op]["rollback"] = 0
        BY <2>2, <3>1 DEF AccountsFor
      <3> HIDE DEF outs
      <3>3. Len(outs) = 8 => begun[op][PHASES[6]] = 1 /\ backup[op] = "published"
        BY <3>2
      <3>4. journal[op].status = "rolled-back" =>
               begun[op]["rollback"] = 1 /\ barrier[op] \in {"released", "ambiguous"}
        BY <2>2, <3>1 DEF AccountsFor
      <3> QED
        BY <3>2, <3>3, <3>4, PhaseFacts
    <2>3. TerminalStates
      BY <2>2 DEF TerminalStates
    <2> QED
      BY <2>1, <2>3 DEF PhasesAccounted
  <1> QED
    BY <1>1, EngineInvariance, PTL

\* There is at most one active barrier, through fencings, releases and take-overs, and
\* a commit called a success landed while the session was held (_cas_connection, the
\* durable commit capability).
THEOREM BarrierSafety == Spec => []BarrierKept
  <1>1. EngineInv => BarrierKept
    <2> SUFFICES ASSUME EngineInv PROVE BarrierKept
      OBVIOUS
    <2>1. OneActiveBarrier
      <3>1. CASE Active = {}
        <4>1. Cardinality(Active) = 0
          BY <3>1, FS_EmptySet
        <4> QED
          BY <4>1 DEF OneActiveBarrier
      <3>2. CASE Active # {}
        <4> PICK a \in Active : TRUE
          BY <3>2
        <4>1. Active = {a}
          BY DEF EngineInv, RowsOK
        <4>2. Cardinality(Active) = 1
          BY <4>1, FS_Singleton
        <4> QED
          BY <4>2 DEF OneActiveBarrier
      <3> QED
        BY <3>1, <3>2
    <2>2. ASSUME NEW op \in Ops, journal[op] # None, Len(journal[op].outs) >= 6,
                 journal[op].outs[6] = "success"
          PROVE  landed[op] = {TRUE}
      <3>1. AccountsFor(journal[op], barrier[op], backup[op], begun[op], landed[op])
        BY DEF EngineInv, Accounted
      <3>2. journal[op].outs \in Seq({"started", "success", "failed", "ambiguous"})
        BY <2>2 DEF EngineInv, Shapes, Stores, Journals
      <3>3. 6 <= Len(journal[op].outs)
        BY <2>2, <3>2
      <3> QED
        <4>1. \A i \in 1..8 : i <= Len(journal[op].outs) /\ journal[op].outs[i] = "success" =>
                (i = 6 => landed[op] = {TRUE})
          BY <2>2, <3>1 DEF AccountsFor
        <4>2. 6 \in 1..8
          OBVIOUS
        <4> QED
          BY <2>2, <3>3, <4>1, <4>2, Zenon
    <2>3. CommitInsideFence
      BY <2>2 DEF CommitInsideFence
    <2> QED
      BY <2>1, <2>3 DEF BarrierKept
  <1> QED
    BY <1>1, EngineInvariance, PTL

-----------------------------------------------------------------------------
(* The journals and the control rows are only ever written forward.        *)

\* How a rollback moves on: it is begun once, and a refused or doubted one is final.
RollbackMoves ==
    {<<"none", "started">>, <<"started", "verified">>, <<"started", "failed">>,
     <<"started", "ambiguous">>, <<"verified", "completed">>}

\* A later journal k of the operation that had j.
JournalGrows(j, k) ==
    /\ j.status \in {"completed", "rolled-back"} => k = j
    /\ Len(j.outs) <= Len(k.outs)
    /\ \A i \in 1..8 : i <= Len(j.outs) /\ j.outs[i] # "started" => k.outs[i] = j.outs[i]
    /\ k.rollback = j.rollback \/ <<j.rollback, k.rollback>> \in RollbackMoves

\* A later control row s of the operation that had r.
RowAdvances(r, s) ==
    /\ r = "ambiguous" => s = r
    /\ r = "released" => s \in {"released", "ambiguous"}
    /\ s = "held" => r = "held"

JournalsGrow ==
    \A op \in Ops : journal[op] # None =>
        journal'[op] # None /\ JournalGrows(journal[op], journal'[op])

RowsAdvance ==
    \A op \in Ops : barrier[op] # None =>
        barrier'[op] # None /\ RowAdvances(barrier[op], barrier'[op])

\* A step that writes no journal.
LEMMA JournalsStay ==
  ASSUME EngineInv, journal' = journal
  PROVE  JournalsGrow
  <1>1. ASSUME NEW op \in Ops, journal[op] # None
        PROVE  JournalGrows(journal[op], journal[op])
    <2>1. journal[op].outs \in Seq({"started", "success", "failed", "ambiguous"})
      BY <1>1 DEF EngineInv, Shapes, Stores, Journals
    <2>2. Len(journal[op].outs) <= Len(journal[op].outs)
      BY <2>1
    <2> QED
      BY <2>2 DEF JournalGrows
  <1> QED
    BY <1>1 DEF JournalsGrow

\* A step that writes the journal of one operation.
LEMMA OneJournalGrows ==
  ASSUME EngineInv, NEW op \in Ops,
         \A o \in Ops : o # op => journal'[o] = journal[o],
         journal[op] # None => journal'[op] # None /\ JournalGrows(journal[op], journal'[op])
  PROVE  JournalsGrow
  <1>1. ASSUME NEW o \in Ops, journal[o] # None, o # op
        PROVE  journal'[o] # None /\ JournalGrows(journal[o], journal'[o])
    <2>1. journal[o].outs \in Seq({"started", "success", "failed", "ambiguous"})
      BY <1>1 DEF EngineInv, Shapes, Stores, Journals
    <2>2. Len(journal[o].outs) <= Len(journal[o].outs)
      BY <2>1
    <2> QED
      BY <1>1, <2>2 DEF JournalGrows
  <1> QED
    BY <1>1 DEF JournalsGrow

\* A phase begins behind the outcomes of the earlier ones.
LEMMA BeginPhaseGrows ==
  ASSUME EngineInv, NEW p \in Procs, BeginPhase(p)
  PROVE  JournalsGrow
  <1>1. proc[p].at = "next" /\ proc[p].at \in Forwards /\ proc[p].at # "idle"
    BY DEF BeginPhase, At, Forwards
  <1> PICK op \in Ops : op = proc[p].op
    BY <1>1, Holding
  <1>2. journal[op] # None /\ journal[op] \in Journals /\ ForwardOK("next", op)
    BY <1>1, Applying
  <1> DEFINE k == [journal[op] EXCEPT !.outs = Append(journal[op].outs, "started"),
                                      !.status = "running"]
  <1>3. journal' = [journal EXCEPT ![op] = k]
    BY <1>2 DEF BeginPhase, EngineInv, Shapes, Stores, Journals
  <1>4. journal[op].outs \in Seq({"started", "success", "failed", "ambiguous"})
    BY <1>2 DEF Journals
  <1>5. Append(journal[op].outs, "started") \in Seq({"started", "success", "failed", "ambiguous"})
    BY <1>4
  <1>6. /\ k \in Journals /\ k.outs = Append(journal[op].outs, "started")
        /\ k.rollback = journal[op].rollback
    BY <1>2, <1>5 DEF Journals
  <1> HIDE DEF k
  <1>7. /\ Len(journal[op].outs) <= Len(k.outs)
        /\ \A i \in 1..8 : i <= Len(journal[op].outs) => k.outs[i] = journal[op].outs[i]
    <2>1. ASSUME NEW s \in Seq({"started", "success", "failed", "ambiguous"})
          PROVE  LET t == Append(s, "started") IN
                 Len(s) <= Len(t) /\ \A i \in 1..8 : i <= Len(s) => t[i] = s[i]
      OBVIOUS
    <2> QED
      BY <1>4, <1>6, <2>1
  <1>8. /\ journal'[op] = k /\ journal'[op] # None
        /\ \A o \in Ops : o # op => journal'[o] = journal[o]
    BY <1>3, <1>6, JournalWrites DEF EngineInv
  <1>9. journal[op].status \notin {"completed", "rolled-back"}
    BY <1>2 DEF ForwardOK
  <1>10. JournalGrows(journal[op], k)
    BY <1>6, <1>7, <1>9 DEF JournalGrows
  <1> QED
    BY <1>8, <1>10, OneJournalGrows

\* An apply completes a journal whose status is not final yet.
LEMMA CompleteGrows ==
  ASSUME EngineInv, NEW p \in Procs, Complete(p)
  PROVE  JournalsGrow
  <1>1. proc[p].at = "next" /\ proc[p].at \in Forwards /\ proc[p].at # "idle"
    BY DEF Complete, At, Forwards
  <1> PICK op \in Ops : op = proc[p].op
    BY <1>1, Holding
  <1>2. journal[op] # None /\ journal[op] \in Journals /\ ForwardOK("next", op)
    BY <1>1, Applying
  <1> DEFINE k == [journal[op] EXCEPT !.status = "completed"]
  <1>3. journal' = [journal EXCEPT ![op] = k]
    BY <1>2 DEF Complete, EngineInv, Shapes, Stores, Journals
  <1>4. k \in Journals /\ k.outs = journal[op].outs /\ k.rollback = journal[op].rollback
    BY <1>2 DEF Journals
  <1> HIDE DEF k
  <1>5. /\ journal'[op] = k /\ journal'[op] # None
        /\ \A o \in Ops : o # op => journal'[o] = journal[o]
    BY <1>3, <1>4, JournalWrites DEF EngineInv
  <1>6. journal[op].status \notin {"completed", "rolled-back"}
    BY <1>2 DEF ForwardOK
  <1>7. Len(journal[op].outs) <= Len(journal[op].outs)
    BY <1>2 DEF Journals
  <1>8. JournalGrows(journal[op], k)
    BY <1>4, <1>6, <1>7 DEF JournalGrows
  <1> QED
    BY <1>5, <1>8, OneJournalGrows

\* An outcome replaces the started record of the last phase only.
LEMMA OutcomeGrows ==
  ASSUME EngineInv, NEW p \in Procs, NEW op \in Ops, op = proc[p].op,
         proc[p].at \in Forwards, proc[p].at # "next",
         NEW outcome \in {"success", "failed", "ambiguous"},
         NEW status \in {"running", "failed", "safe-mode"},
         Outcome(op, outcome, status)
  PROVE  JournalsGrow
  <1>1. /\ journal[op] # None /\ journal[op] \in Journals /\ ForwardOK(proc[p].at, op)
        /\ Len(journal[op].outs) \in 1..8
        /\ journal[op].outs[Len(journal[op].outs)] = "started"
    BY Applying
  <1>2. Len(journal[op].outs) > 0
    BY <1>1, Counting, Zenon
  <1>3. /\ journal'[op] # None
        /\ \A o \in Ops : o # op => journal'[o] = journal[o]
        /\ journal'[op].rollback = journal[op].rollback
        /\ Len(journal'[op].outs) = Len(journal[op].outs) /\ Len(journal[op].outs) \in Nat
        /\ \A i \in 1..8 : i < Len(journal[op].outs) =>
              journal'[op].outs[i] = journal[op].outs[i]
    BY <1>1, <1>2, OutcomeIs DEF EngineInv
  <1>4. journal[op].status \notin {"completed", "rolled-back"}
    BY <1>1 DEF ForwardOK
  <1>5. ASSUME NEW i \in 1..8, i <= Len(journal[op].outs), journal[op].outs[i] # "started"
        PROVE  i < Len(journal[op].outs)
    BY <1>1, <1>3, <1>5
  <1>6. JournalGrows(journal[op], journal'[op])
    BY <1>3, <1>4, <1>5 DEF JournalGrows
  <1> QED
    BY <1>3, <1>6, OneJournalGrows

\* The steps of an apply.
LEMMA ForwardGrows ==
  ASSUME EngineInv, NEW p \in Procs, Forward(p)
  PROVE  JournalsGrow
  <1>1. CASE Admit(p) \/ Observe(p) \/ Stage(p) \/ Validate(p) \/ ProjectBackup(p)
             \/ RunBackup(p) \/ PrepareCommit(p) \/ LandCommit(p)
    <2>1. journal' = journal
      BY <1>1 DEF Admit, Observe, Stage, Validate, Started, ProjectBackup, RunBackup,
                  PrepareCommit, LandCommit
    <2> QED
      BY <2>1, JournalsStay
  <1>2. CASE SnapshotFails(p) \/ Deny(p) \/ BackupRefused(p) \/ Fail(p) \/ CommitRaises(p)
             \/ ConfirmCommit(p) \/ Succeed(p)
    <2>1. proc[p].at \in Forwards /\ proc[p].at # "next" /\ proc[p].at # "idle"
      BY <1>2 DEF SnapshotFails, Deny, BackupRefused, Fail, CommitRaises, ConfirmCommit,
                  Succeed, At, Forwards
    <2> PICK op \in Ops : op = proc[p].op
      BY <2>1, Holding
    <2>2. \/ Outcome(op, "failed", "failed") \/ Outcome(op, "ambiguous", "safe-mode")
          \/ Outcome(op, "success", "running") \/ journal' = journal
      BY <1>2 DEF SnapshotFails, Deny, BackupRefused, Fail, FailPhase, CommitRaises,
                  ConfirmCommit, Succeed
    <2> QED
      BY <2>1, <2>2, OutcomeGrows, JournalsStay
  <1> QED
    BY <1>1, <1>2, BeginPhaseGrows, CompleteGrows DEF Forward

\* A rollback's record moves on, and its phases stay as they are.
LEMMA RollbackGrows ==
  ASSUME EngineInv, NEW op \in Ops, journal[op] # None,
         journal[op].status \notin {"completed", "rolled-back"},
         NEW outcome \in {"started", "verified", "completed", "ambiguous", "failed"},
         NEW status \in {"running", "failed", "safe-mode", "rolled-back"},
         \/ RollbackOutcome(op, outcome, status)
         \/ journal' = [journal EXCEPT ![op].rollback = outcome],
         <<journal[op].rollback, outcome>> \in RollbackMoves
  PROVE  JournalsGrow
  <1> DEFINE k == [journal[op] EXCEPT !.rollback = outcome,
                       !.status = IF RollbackOutcome(op, outcome, status) THEN status ELSE @]
  <1>1. journal[op] \in Journals
    BY DEF EngineInv, Shapes, Stores
  <1>2. journal' = [journal EXCEPT ![op] = k]
    BY <1>1 DEF RollbackOutcome, EngineInv, Shapes, Stores, Journals
  <1>3. k \in Journals /\ k.outs = journal[op].outs /\ k.rollback = outcome
    BY <1>1 DEF Journals
  <1> HIDE DEF k
  <1>4. /\ journal'[op] = k /\ journal'[op] # None
        /\ \A o \in Ops : o # op => journal'[o] = journal[o]
    BY <1>2, <1>3, JournalWrites DEF EngineInv
  <1>5. Len(journal[op].outs) <= Len(journal[op].outs)
    BY <1>1 DEF Journals
  <1>6. JournalGrows(journal[op], k)
    BY <1>3, <1>5 DEF JournalGrows
  <1> QED
    BY <1>4, <1>6, OneJournalGrows

\* The steps of a rollback.
LEMMA BackwardGrows ==
  ASSUME EngineInv, NEW p \in Procs, Backward(p)
  PROVE  JournalsGrow
  <1>1. CASE Restore(p) \/ BeginRelease(p) \/ Authorize(p) \/ CompleteRelease(p) \/ RereadFails(p)
    <2>1. journal' = journal
      BY <1>1 DEF Restore, BeginRelease, Authorize, CompleteRelease, RereadFails
    <2> QED
      BY <2>1, JournalsStay
  <1>2. CASE RejectRestore(p) \/ VerifyRestore(p) \/ DoubtRestore(p) \/ FinishRollback(p)
    <2>1. proc[p].at \in Releasing /\ proc[p].at # "idle"
      BY <1>2 DEF RejectRestore, VerifyRestore, DoubtRestore, FinishRollback, At, Releasing
    <2> PICK op \in Ops : op = proc[p].op
      BY <2>1, Holding
    <2>2. journal[op] # None /\ BackwardOK(proc[p].at, op)
      BY <2>1, Restoring
    <2>3. journal[op].status \in {"running", "failed", "safe-mode"}
      BY <2>2 DEF BackwardOK, RollbackStatuses
    <2>4. CASE RejectRestore(p) \/ VerifyRestore(p) \/ DoubtRestore(p)
      <3>1. journal[op].rollback = "started"
        BY <2>2, <2>4 DEF BackwardOK, RejectRestore, VerifyRestore, DoubtRestore, At
      <3>2. \/ RollbackOutcome(op, "failed", "failed")
            \/ RollbackOutcome(op, "verified", journal[op].status)
            \/ RollbackOutcome(op, "ambiguous", "safe-mode")
        BY <2>4 DEF RejectRestore, VerifyRestore, DoubtRestore, Record
      <3>3. \A outcome \in {"failed", "verified", "ambiguous"} :
               <<journal[op].rollback, outcome>> \in RollbackMoves
        BY <3>1 DEF RollbackMoves
      <3> QED
        BY <2>2, <2>3, <3>2, <3>3, RollbackGrows
    <2>5. CASE FinishRollback(p)
      <3>1. journal[op].rollback = "verified" /\ RollbackOutcome(op, "completed", "rolled-back")
        BY <2>2, <2>5 DEF BackwardOK, FinishRollback, At
      <3>2. <<journal[op].rollback, "completed">> \in RollbackMoves
        BY <3>1 DEF RollbackMoves
      <3> QED
        BY <2>2, <2>3, <3>1, <3>2, RollbackGrows
    <2> QED
      BY <1>2, <2>4, <2>5
  <1> QED
    BY <1>1, <1>2 DEF Backward

\* The row of one operation is written along STATUS_TRANSITIONS, fenced, or inserted.
LEMMA OneRowAdvances ==
  ASSUME EngineInv, NEW op \in Ops, NEW status \in Rows,
         NEW new, new = status \/ new \in Uncertain(op, status),
         barrier' = [barrier EXCEPT ![op] = new],
         barrier[op] # None =>
            /\ barrier[op] \in {"held", "releasing", "released"}
            /\ barrier[op] = "released" => status = "released"
            /\ status = "held" => barrier[op] = "held"
  PROVE  RowsAdvance
  <1>1. \A o \in Ops : barrier'[o] = IF o = op THEN new ELSE barrier[o]
    BY DEF EngineInv, Shapes, Stores
  <1>2. ASSUME barrier[op] # None
        PROVE  new # None /\ RowAdvances(barrier[op], new)
    <2>1. new = barrier[op] \/ new = status \/ new = "ambiguous"
      BY DEF Uncertain
    <2>2. new # None
      BY <1>2, <2>1, NoneAssumption DEF Rows
    <2> QED
      BY <1>2, <2>1, <2>2 DEF RowAdvances
  <1>3. ASSUME NEW o \in Ops, o # op, barrier[o] # None
        PROVE  barrier'[o] # None /\ RowAdvances(barrier[o], barrier'[o])
    BY <1>1, <1>3 DEF RowAdvances
  <1> QED
    BY <1>1, <1>2, <1>3 DEF RowsAdvance

\* A step that writes no control row.
LEMMA RowsRest ==
  ASSUME EngineInv, barrier' = barrier
  PROVE  RowsAdvance
  BY DEF RowsAdvance, RowAdvances

\* The release of a rollback writes an active row.
LEMMA ReleaseAdvances ==
  ASSUME EngineInv, NEW p \in Procs, BeginRelease(p) \/ CompleteRelease(p)
  PROVE  RowsAdvance
  <1>1. proc[p].at \in Releasing /\ proc[p].at # "idle"
    BY DEF BeginRelease, CompleteRelease, At, Releasing
  <1> PICK op \in Ops : op = proc[p].op
    BY <1>1, Holding
  <1>2. barrier[op] # None
    BY <1>1, Restoring
  <1>3. \/ barrier' = barrier
        \/ \E status \in {"releasing", "released"} :
              /\ barrier[op] \in {"held", "releasing"}
              /\ \E new : /\ new = status \/ new \in Uncertain(op, status)
                          /\ barrier' = [barrier EXCEPT ![op] = new]
    BY DEF BeginRelease, CompleteRelease
  <1> QED
    BY <1>2, <1>3, RowsRest, OneRowAdvances DEF Rows

\* A control command moves a row along STATUS_TRANSITIONS, or inserts one.
LEMMA CommandAdvances ==
  ASSUME EngineInv, Control
  PROVE  RowsAdvance
  <1>1. ASSUME NEW op \in Ops, NEW status \in Rows, CommitRow(op, status),
               barrier[op] # None =>
                  /\ barrier[op] \in {"held", "releasing", "released"}
                  /\ barrier[op] = "released" => status = "released"
                  /\ status = "held" => barrier[op] = "held"
        PROVE  RowsAdvance
    BY <1>1, OneRowAdvances DEF CommitRow
  <1>2. ASSUME NEW op \in Ops, InsertRow(op) \/ \E old \in Ops : ReconcileRow(old, op)
        PROVE  RowsAdvance
    <2>1. barrier[op] = None /\ CommitRow(op, "held")
      BY <1>2 DEF InsertRow, ReconcileRow, Insertable
    <2> QED
      BY <1>1, <2>1 DEF Rows
  <1>3. ASSUME NEW op \in Ops, ReleaseRow(op)
        PROVE  RowsAdvance
    <2>1. barrier[op] = "releasing" /\ CommitRow(op, "released")
      BY <1>3 DEF ReleaseRow
    <2> QED
      BY <1>1, <2>1 DEF Rows
  <1>4. ASSUME NEW op \in Ops, NEW status \in {"held", "releasing", "released", "ambiguous"},
               CasRow(op, status)
        PROVE  RowsAdvance
    <2>1. status \in Transitions(barrier[op]) /\ CommitRow(op, status)
      BY <1>4 DEF CasRow
    <2>2. status \in Rows
      BY DEF Rows
    <2> QED
      BY <1>1, <2>1, <2>2, TransitionFacts
  <1>5. ASSUME LoseFence \/ BoardWrite \/ \E op \in Ops : AcquireFence(op) \/ ProvisionFence(op)
        PROVE  RowsAdvance
    BY <1>5, RowsRest DEF LoseFence, BoardWrite, AcquireFence, ProvisionFence
  <1> QED
    BY <1>2, <1>3, <1>4, <1>5 DEF Control

\* A journal and a control row are only written forward: a phase's outcome is never
\* rewritten, a finished upgrade is never reopened, a rollback is begun once and a
\* verified restore stays verified until it is finished, a released row is never held
\* again and a fenced one never written again (_apply_locked, rollback,
\* STATUS_TRANSITIONS).
THEOREM RecordsAdvance == Spec => [][JournalsGrow /\ RowsAdvance]_vars
  <1>1. EngineInv /\ Next => JournalsGrow /\ RowsAdvance
    <2> SUFFICES ASSUME EngineInv, Next PROVE JournalsGrow /\ RowsAdvance
      OBVIOUS
    <2>1. ASSUME NEW op \in Ops, Plan(op)
          PROVE  JournalsGrow /\ RowsAdvance
      <3>1. journal[op] = None /\ barrier' = barrier
        BY <2>1 DEF Plan, Record
      <3>2. \A o \in Ops : o # op => journal'[o] = journal[o]
        BY <2>1 DEF Plan, EngineInv, Shapes, Stores
      <3> QED
        BY <3>1, <3>2, OneJournalGrows, RowsRest
    <2>2. ASSUME NEW p \in Procs, NEW op \in Ops, StartApply(p, op) \/ ResumeRollback(p, op)
          PROVE  JournalsGrow /\ RowsAdvance
      BY <2>2, JournalsStay, RowsRest DEF StartApply, ResumeRollback
    <2>3. ASSUME NEW p \in Procs, NEW op \in Ops, StartRollback(p, op)
          PROVE  JournalsGrow /\ RowsAdvance
      <3>1. /\ journal[op] # None /\ journal[op].status \notin {"completed", "rolled-back"}
            /\ journal[op].rollback = "none" /\ barrier' = barrier
            /\ journal' = [journal EXCEPT ![op].rollback = "started"]
        BY <2>3 DEF StartRollback, Loads, Record, RollbackStatuses, Beginnable
      <3>2. <<journal[op].rollback, "started">> \in RollbackMoves
        BY <3>1 DEF RollbackMoves
      <3> QED
        BY <3>1, <3>2, RollbackGrows, RowsRest
    <2>4. ASSUME NEW p \in Procs, Forward(p)
          PROVE  JournalsGrow /\ RowsAdvance
      <3>1. barrier' = barrier
        BY <2>4 DEF Forward, BeginPhase, Complete, Admit, SnapshotFails, Deny, Observe, Stage,
              Validate, Started, ProjectBackup, RunBackup, BackupRefused, FailPhase,
              PrepareCommit, LandCommit, CommitRaises, ConfirmCommit, Succeed, Fail
      <3> QED
        BY <2>4, <3>1, ForwardGrows, RowsRest
    <2>5. ASSUME NEW p \in Procs, Backward(p)
          PROVE  JournalsGrow /\ RowsAdvance
      <3>1. CASE ~ BeginRelease(p) /\ ~ CompleteRelease(p)
        <4>1. barrier' = barrier
          BY <2>5, <3>1 DEF Backward, Restore, RejectRestore, VerifyRestore, DoubtRestore,
                Authorize, FinishRollback, RereadFails
        <4> QED
          BY <2>5, <4>1, BackwardGrows, RowsRest
      <3> QED
        BY <2>5, <3>1, BackwardGrows, ReleaseAdvances
    <2>6. ASSUME NEW p \in Procs, Crash(p)
          PROVE  JournalsGrow /\ RowsAdvance
      BY <2>6, JournalsStay, RowsRest DEF Crash
    <2>7. CASE Control
      <3>1. journal' = journal
        BY <2>7 DEF Control, InsertRow, CasRow, ReleaseRow, ReconcileRow, CommitRow,
              AcquireFence, ProvisionFence, LoseFence, BoardWrite
      <3> QED
        BY <2>7, <3>1, JournalsStay, CommandAdvances
    <2> QED
      BY <2>1, <2>2, <2>3, <2>4, <2>5, <2>6, <2>7 DEF Next
  <1> QED
    BY <1>1, EngineInvariance, PTL DEF Spec

-----------------------------------------------------------------------------
(* The engine and the store of its session.                                *)

\* What the engine sees of the session.
SessionSeen == [op |-> fence.op, status |-> fence.status]

\* Whatever the store may do to the session while no rollback owns its lock, the
\* engine is ready for: every move of SessionView is a step of Next.  With
\* BarrierSessionProofs!SeenFollows the engine's results hold over that store
\* (create_session, provision_released, session_begin_reopen, session_complete_reopen,
\* session_mark_ambiguous, reconcile_ambiguous), for as many fencings as MaxFaults
\* allows, whatever that number is.
THEOREM EngineMeetsSession ==
  ASSUME EngineInv, ControlFree, NEW op \in Ops, NEW status,
         SessionFollows(SessionSeen, [op |-> op, status |-> status]),
         fence' = [op |-> op, status |-> status, drifted |-> FALSE],
         Fencing(status), UNCHANGED <<journal, barrier, lifecycle, proc, world>>
  PROVE  Next
  <1>1. fence \in Sessions /\ op \in Nat /\ op # 0
    BY UpgradeAssumption DEF EngineInv, Shapes, Stores
  <1>2. \/ fence.op = 0 /\ status \in FirstStatuses
        \/ fence.op # 0 /\ fence.status \in {"released", "ambiguous"} /\ op > fence.op
           /\ status = "held"
        \/ fence.op # 0 /\ op = fence.op /\ status \in StatusAfter(fence.status)
    BY DEF SessionFollows, SessionSeen
  <1>3. CASE fence.op = 0 /\ status \in FirstStatuses
    <2>1. fence.status = "released" /\ op > fence.op
      BY <1>1, <1>3 DEF Sessions
    <2>2. CASE status = "held"
      <3>1. AcquireFence(op)
        BY <2>1, <2>2 DEF AcquireFence, Fencing
      <3> QED
        BY <3>1 DEF Next, Control
    <2>3. CASE status # "held"
      <3>1. ProvisionFence(op)
        BY <1>3, <2>3 DEF ProvisionFence
      <3> QED
        BY <3>1 DEF Next, Control
    <2> QED
      BY <2>2, <2>3
  <1>4. CASE fence.op # 0 /\ fence.status \in {"released", "ambiguous"} /\ op > fence.op
             /\ status = "held"
    <2>1. AcquireFence(op)
      BY <1>4 DEF AcquireFence, Fencing
    <2> QED
      BY <2>1 DEF Next, Control
  <1>5. CASE fence.op # 0 /\ op = fence.op /\ status \in StatusAfter(fence.status)
    <2>1. fence' = [fence EXCEPT !.status = status, !.drifted = FALSE]
      <3> DEFINE T == [op : Nat, status : {"held", "releasing", "released", "ambiguous"},
                       drifted : BOOLEAN]
                 moved == [fence EXCEPT !.status = status, !.drifted = FALSE]
      <3>1. fence \in T /\ fence' \in T /\ status \in {"releasing", "released", "ambiguous"}
        BY <1>1, <1>5 DEF Sessions, StatusAfter
      <3>2. /\ moved \in T
            /\ moved.op = fence.op /\ moved.status = status /\ moved.drifted = FALSE
        BY <3>1
      <3>3. fence'.op = fence.op /\ fence'.status = status /\ fence'.drifted = FALSE
        BY <1>5
      <3> HIDE DEF moved
      <3>4. fence' = moved
        BY <3>1, <3>2, <3>3
      <3> QED
        BY <3>4 DEF moved
    <2>2. LoseFence
      BY <1>5, <2>1 DEF LoseFence
    <2> QED
      BY <2>2 DEF Next, Control
  <1> QED
    BY <1>2, <1>3, <1>4, <1>5

\* And the engine assumes of the session nothing but such moves: no phase, restore,
\* crash or command of the engine's model moves it in any other way.
THEOREM SessionOnlyFollows ==
  Spec => [][SessionFollows(SessionSeen, SessionSeen')]_SessionSeen
  <1>1. EngineInv /\ [Next]_vars => [SessionFollows(SessionSeen, SessionSeen')]_SessionSeen
    <2> SUFFICES ASSUME EngineInv, [Next]_vars, SessionSeen' # SessionSeen
                 PROVE  SessionFollows(SessionSeen, SessionSeen')
      OBVIOUS
    <2>1. fence \in Sessions /\ Ops \subseteq Nat \ {0}
      BY UpgradeAssumption DEF EngineInv, Shapes, Stores
    <2>2. ASSUME fence' = fence \/ (fence'.op = fence.op /\ fence'.status = fence.status)
          PROVE  FALSE
      BY <2>2 DEF SessionSeen
    <2>3. CASE UNCHANGED vars \/ \E op \in Ops : Plan(op)
      BY <2>2, <2>3 DEF vars, Plan
    <2>4. ASSUME NEW p \in Procs,
                 \/ \E op \in Ops : StartApply(p, op) \/ StartRollback(p, op) \/ ResumeRollback(p, op)
                 \/ Forward(p) \/ Backward(p) \/ Crash(p)
          PROVE  FALSE
      <3>1. CASE LandCommit(p) \/ CommitRaises(p)
        <4>1. Land(proc[p].op) \/ fence' = fence
          BY <3>1 DEF LandCommit, CommitRaises
        <4>2. Land(proc[p].op) => fence'.op = fence.op /\ fence'.status = fence.status
          BY <2>1 DEF Land, Sessions
        <4> QED
          BY <2>2, <4>1, <4>2
      <3>2. CASE ~ LandCommit(p) /\ ~ CommitRaises(p)
        <4>1. fence' = fence
          BY <2>4, <3>2
          DEF StartApply, StartRollback, ResumeRollback, Forward, Backward, Crash, BeginPhase,
              Complete, Admit, SnapshotFails, Deny, Observe, Stage, Validate, Started,
              ProjectBackup, RunBackup, BackupRefused, FailPhase, PrepareCommit, ConfirmCommit,
              Succeed, Fail, Restore, RejectRestore, VerifyRestore, DoubtRestore, BeginRelease,
              Authorize, CompleteRelease, FinishRollback, RereadFails
        <4> QED
          BY <2>2, <4>1
      <3> QED
        BY <3>1, <3>2
    <2>5. CASE Control
      <3>1. CASE \/ \E op \in Ops : InsertRow(op) \/ ReleaseRow(op)
                 \/ \E op \in Ops, status \in {"held", "releasing", "released", "ambiguous"} :
                       CasRow(op, status)
                 \/ \E op, new \in Ops : ReconcileRow(op, new)
                 \/ BoardWrite
        <4>1. fence' = fence \/ (fence'.op = fence.op /\ fence'.status = fence.status)
          BY <2>1, <3>1 DEF InsertRow, ReleaseRow, CasRow, ReconcileRow, CommitRow, BoardWrite, Sessions
        <4> QED
          BY <2>2, <4>1
      <3>2. ASSUME NEW op \in Ops, AcquireFence(op) \/ ProvisionFence(op)
            PROVE  SessionFollows(SessionSeen, SessionSeen')
        <4>1. op \in Nat /\ op # 0
          BY <2>1
        <4>2. CASE AcquireFence(op)
          BY <2>1, <4>1, <4>2
          DEF AcquireFence, SessionFollows, SessionSeen, FirstStatuses, Sessions
        <4>3. CASE ProvisionFence(op)
          <5> PICK st \in FirstStatuses : fence' = [op |-> op, status |-> st, drifted |-> FALSE]
            BY <4>3 DEF ProvisionFence
          <5>1. fence.op = 0
            BY <4>3 DEF ProvisionFence
          <5> QED
            BY <4>1, <5>1 DEF SessionFollows, SessionSeen
        <4> QED
          BY <3>2, <4>2, <4>3
      <3>3. CASE LoseFence
        <4> PICK st \in StatusAfter(fence.status) :
                    fence' = [fence EXCEPT !.status = st, !.drifted = FALSE]
          BY <3>3 DEF LoseFence
        <4>1. fence'.op = fence.op /\ fence'.status = st /\ fence.op # 0
          BY <2>1, <3>3 DEF LoseFence, Sessions
        <4> QED
          BY <4>1 DEF SessionFollows, SessionSeen
      <3> QED
        BY <2>5, <3>1, <3>2, <3>3 DEF Control
    <2> QED
      BY <2>3, <2>4, <2>5 DEF Next
  <1> QED
    BY <1>1, EngineInvariance, PTL DEF Spec
=============================================================================
