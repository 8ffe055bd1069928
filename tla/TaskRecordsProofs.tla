------------------------- MODULE TaskRecordsProofs -------------------------
(***************************************************************************)
(* The records a task carries beside its lifecycle, for any number of      *)
(* invocations of run and any history: the budget of wrapped commands      *)
(* (AutonomyLimits), the retry circuit (the instance Circuit) and the      *)
(* evidence a task is completed on (the instance Done).                    *)
(***************************************************************************)
EXTENDS MCTaskRecords, Sequences, FiniteSetTheorems, TLAPS

-----------------------------------------------------------------------------
(* The budget of wrapped commands.                                           *)

\* Runs whose child has not been recorded, and those that may still start one.
Unrecorded == {"running", "exited", "resolved", "recording"}
Admitted == Unrecorded \union {"admitted"}
Those(stages) == {r \in Runs : run[r].stage \in stages}
RecordedCommands == IF ledger = None THEN 0 ELSE ledger.commands

BudgetShapes ==
    /\ TypeOK
    /\ \A r \in Runs : run[r].stage # "idle" => run[r].policy \in Policies

\* A hold is never ahead of the task, and children that run were started before it.
HoldsOrdered ==
    /\ hold <= revision
    /\ \A r \in Runs : run[r].at <= revision
    /\ HeldStartsNothing

\* Every child that was started is recorded, lost or still to be recorded, and runs
\* that were admitted before the budget was used up are the only excess.
LaunchesCounted ==
    /\ launched = lost + RecordedCommands + Cardinality(Those(Unrecorded))
    /\ RecordedCommands + Cardinality(Those(Admitted)) <= MaxCommands + Cardinality(Runs) - 1

BudgetInv == BudgetShapes /\ HoldStaysDisposable /\ HoldsOrdered /\ LaunchesCounted

\* The numbers among the variables.
LEMMA BudgetNumbers ==
  ASSUME TypeOK
  PROVE  /\ expires \in Nat /\ revision \in Nat /\ hold \in Nat /\ clock \in Nat
         /\ heldSince \in Nat /\ launched \in Nat /\ lost \in Nat
  BY DEF TypeOK

\* At first nothing runs and nothing is held.
LEMMA InitBudget == Init => BudgetInv
  <1> SUFFICES ASSUME Init PROVE BudgetInv
    OBVIOUS
  <1>1. Idle \in RunState /\ Idle.stage = "idle" /\ Idle.at = 0
    BY DEF Idle, RunState, Stages
  <1>2. run \in [Runs -> RunState] /\ \A r \in Runs : run[r] = Idle
    BY <1>1 DEF Init
  <1>3. BudgetShapes
    <2>1. {expires, revision, hold, clock, heldSince, launched, lost} \subseteq Nat
      BY AutonomyAssumption DEF Init
    <2>2. claimed \in BOOLEAN /\ overtaken \in BOOLEAN /\ policy \in Policies
          /\ ledger \in Ledger \union {None}
      BY DEF Init
    <2> QED
      BY <1>1, <1>2, <2>1, <2>2 DEF BudgetShapes, TypeOK
  <1>4. HoldStaysDisposable /\ HoldsOrdered
    BY <1>1, <1>2 DEF Init, HoldStaysDisposable, HoldsOrdered, HeldStartsNothing
  <1>5. Those(Unrecorded) = {} /\ Those(Admitted) = {}
    BY <1>1, <1>2 DEF Those, Unrecorded, Admitted
  <1>6. Cardinality({}) = 0 /\ Cardinality(Runs) \in Nat /\ Cardinality(Runs) # 0
    BY FS_EmptySet, FS_CardinalityType, AutonomyAssumption
  <1>7. LaunchesCounted
    BY <1>5, <1>6, AutonomyAssumption DEF Init, LaunchesCounted, RecordedCommands
  <1> QED
    BY <1>3, <1>4, <1>7 DEF BudgetInv

\* One for a stage that counts.
Weight(stage, stages) == IF stage \in stages THEN 1 ELSE 0

\* The count of some stages follows the run that moves.
LEMMA CountMoves ==
  ASSUME TypeOK, NEW stages, NEW r \in Runs, NEW next \in RunState,
         run' = [run EXCEPT ![r] = next]
  PROVE  /\ Cardinality(Those(stages)) \in Nat /\ Cardinality(Those(stages)') \in Nat
         /\ Cardinality(Those(stages)') =
               Cardinality(Those(stages)) + Weight(next.stage, stages)
                                          - Weight(run[r].stage, stages)
  <1>1. run'[r] = next /\ \A q \in Runs \ {r} : run'[q] = run[q]
    BY DEF TypeOK
  <1>2. IsFiniteSet(Those(stages)) /\ IsFiniteSet(Those(stages)')
    BY FS_Subset, AutonomyAssumption DEF Those
  <1>3. Cardinality(Those(stages)) \in Nat /\ Cardinality(Those(stages)') \in Nat
    BY <1>2, FS_CardinalityType
  <1>4. CASE (run[r].stage \in stages) = (next.stage \in stages)
    <2>1. Those(stages)' = Those(stages)
      BY <1>1, <1>4 DEF Those
    <2>2. Weight(next.stage, stages) = Weight(run[r].stage, stages)
          /\ Weight(next.stage, stages) \in Nat
      BY <1>4 DEF Weight
    <2> QED
      BY <1>3, <2>1, <2>2
  <1>5. CASE run[r].stage \in stages /\ next.stage \notin stages
    <2>1. Those(stages)' = Those(stages) \ {r} /\ r \in Those(stages)
      BY <1>1, <1>5 DEF Those
    <2>2. Cardinality(Those(stages)') = Cardinality(Those(stages)) - 1
      BY <1>2, <2>1, FS_RemoveElement
    <2>3. Weight(next.stage, stages) = 0 /\ Weight(run[r].stage, stages) = 1
      BY <1>5 DEF Weight
    <2> QED
      BY <1>3, <2>2, <2>3
  <1>6. CASE run[r].stage \notin stages /\ next.stage \in stages
    <2>1. Those(stages)' = Those(stages) \union {r} /\ r \notin Those(stages)
      BY <1>1, <1>6 DEF Those
    <2>2. Cardinality(Those(stages)') = Cardinality(Those(stages)) + 1
      BY <1>2, <2>1, FS_AddElement
    <2>3. Weight(next.stage, stages) = 1 /\ Weight(run[r].stage, stages) = 0
      BY <1>6 DEF Weight
    <2> QED
      BY <1>3, <2>2, <2>3
  <1> QED
    BY <1>4, <1>5, <1>6

\* A run that moves on keeps what its record may be; its policy is the one it read.
LEMMA RunTypes ==
  ASSUME BudgetShapes, NEW r \in Runs, NEW next \in RunState,
         next.stage # "idle" => next.policy \in Policies,
         run' = [run EXCEPT ![r] = next]
  PROVE  /\ run' \in [Runs -> RunState]
         /\ \A q \in Runs : run'[q].stage # "idle" => run'[q].policy \in Policies
  BY DEF BudgetShapes, TypeOK

\* What is known of one run.
LEMMA RunRecord ==
  ASSUME BudgetShapes, NEW r \in Runs
  PROVE  /\ run[r] \in RunState /\ run[r].at \in Nat /\ run[r].used \in Nat
         /\ run[r].stage \in Stages
         /\ run[r].stage # "idle" => run[r].policy \in Policies
         /\ Idle \in RunState /\ Idle.stage = "idle" /\ Idle.at = 0
         /\ \A to \in Stages : LET next == [run[r] EXCEPT !.stage = to] IN
               next \in RunState /\ next.stage = to /\ next.policy = run[r].policy
               /\ next.at = run[r].at
  BY DEF BudgetShapes, TypeOK, RunState, Stages, Idle

\* The ledger a run continues is one, and so is what it becomes.
LEMMA LedgerTypes ==
  ASSUME BudgetShapes, NEW r \in Runs, run[r].stage # "idle"
  PROVE  /\ LedgerFor(r) \in Ledger /\ LedgerFor(r).commands = RecordedCommands
         /\ Counted(r) \in Ledger /\ Counted(r).commands = RecordedCommands + 1
         /\ None \notin Ledger
  <1>1. run[r].used \in Nat /\ run[r].policy \in Policies /\ clock \in Nat
    BY RunRecord DEF BudgetShapes, TypeOK
  <1>2. ledger \in Ledger \union {None}
    BY DEF BudgetShapes, TypeOK
  <1>3. LedgerFor(r) \in Ledger
    BY <1>1, <1>2 DEF LedgerFor, Ledger
  <1>4. LedgerFor(r).commands = RecordedCommands
    BY <1>1, <1>2 DEF LedgerFor, RecordedCommands
  <1>5. Counted(r) \in Ledger /\ Counted(r).commands = LedgerFor(r).commands + 1
    <2>1. PICK l : l = LedgerFor(r)
      OBVIOUS
    <2>2. l \in Ledger /\ l.commands \in Nat /\ l.spent \in Nat
      BY <1>3, <2>1 DEF Ledger
    <2>3. Counted(r) = [l EXCEPT !.commands = @ + 1, !.spent = @ + run[r].used]
      BY <2>1 DEF Counted
    <2>4. PICK used \in Nat : used = run[r].used
      BY <1>1
    <2>a. PICK more, total \in Nat : more = l.commands + 1 /\ total = l.spent + used
      BY <2>2
    <2>b. [l EXCEPT !.commands = more, !.spent = total] \in Ledger
      BY <2>2 DEF Ledger
    <2>c. [l EXCEPT !.commands = more, !.spent = total].commands = more
      BY <2>2 DEF Ledger
    <2>5. /\ [l EXCEPT !.commands = @ + 1, !.spent = @ + used] \in Ledger
          /\ [l EXCEPT !.commands = @ + 1, !.spent = @ + used].commands = l.commands + 1
      BY <2>a, <2>b, <2>c
    <2> QED
      BY <2>1, <2>3, <2>4, <2>5
  <1> QED
    BY <1>3, <1>4, <1>5, LedgerAssumption

\* The numbers a step leaves are numbers.
ScalarTypes ==
    /\ claimed \in BOOLEAN /\ overtaken \in BOOLEAN /\ policy \in Policies
    /\ expires \in Nat /\ revision \in Nat /\ hold \in Nat /\ clock \in Nat
    /\ heldSince \in Nat /\ launched \in Nat /\ lost \in Nat
    /\ ledger \in Ledger \union {None}

\* The variables that are no histories.
LEMMA Scalars == ASSUME TypeOK PROVE ScalarTypes
  BY DEF TypeOK, ScalarTypes

\* A step in which one run moves keeps the invariant when a new hold comes after
\* everything that runs, and a child is counted as started, recorded or lost.
LEMMA KeepBudget ==
  ASSUME BudgetInv, ScalarTypes', NEW r \in Runs, NEW next \in RunState,
         next.stage # "idle" => next.policy \in Policies,
         run' = [run EXCEPT ![r] = next],
         revision <= revision', hold' <= revision', HoldStaysDisposable',
         hold' # 0 => (hold # 0 /\ heldSince' = heldSince) \/ heldSince' > revision,
         next.at <= revision',
         next.stage = "running" /\ hold' # 0 => next.at < heldSince',
         launched' - lost' - RecordedCommands' =
            launched - lost - RecordedCommands
               + Weight(next.stage, Unrecorded) - Weight(run[r].stage, Unrecorded),
         \/ RecordedCommands' + Weight(next.stage, Admitted) <=
               RecordedCommands + Weight(run[r].stage, Admitted)
         \/ RecordedCommands' < MaxCommands
  PROVE  BudgetInv'
  <1>1. BudgetShapes /\ TypeOK /\ ScalarTypes
    BY Scalars DEF BudgetInv, BudgetShapes
  <1>2. BudgetShapes'
    <2>1. /\ run' \in [Runs -> RunState]
          /\ \A q \in Runs : run'[q].stage # "idle" => run'[q].policy \in Policies
      BY <1>1, RunTypes
    <2>2. TypeOK'
      BY <2>1 DEF TypeOK, ScalarTypes
    <2> QED
      BY <2>1, <2>2 DEF BudgetShapes
  <1>3. HoldsOrdered'
    <2>1. run'[r] = next /\ \A q \in Runs \ {r} : run'[q] = run[q]
      BY <1>1 DEF TypeOK
    <2>2. \A q \in Runs : run[q].at \in Nat /\ run[q].at <= revision
      BY <1>1, RunRecord DEF BudgetInv, HoldsOrdered
    <2>3. \A q \in Runs : run'[q].at <= revision'
      BY <1>1, <2>1, <2>2 DEF ScalarTypes
    <2>4. ASSUME NEW q \in Runs, run'[q].stage = "running", hold' # 0
          PROVE  run'[q].at < heldSince'
      <3>1. CASE q = r
        BY <2>1, <2>4, <3>1
      <3>2. CASE q # r
        <4>1. run[q].stage = "running" /\ run'[q].at = run[q].at
          BY <2>1, <2>4, <3>2
        <4>2. hold # 0 => run[q].at < heldSince
          BY <4>1 DEF BudgetInv, HoldsOrdered, HeldStartsNothing
        <4> QED
          BY <1>1, <2>2, <2>4, <4>1, <4>2 DEF ScalarTypes
      <3> QED
        BY <3>1, <3>2
    <2> QED
      BY <2>3, <2>4 DEF HoldsOrdered, HeldStartsNothing
  <1>4. LaunchesCounted'
    <2>1. /\ RecordedCommands \in Nat /\ RecordedCommands' \in Nat
      BY <1>1 DEF ScalarTypes, RecordedCommands, Ledger
    <2>a. PICK open, admitted : open = Unrecorded /\ admitted = Admitted
      OBVIOUS
    <2>b. Those(Unrecorded)' = Those(open)' /\ Those(Admitted)' = Those(admitted)'
      BY <2>a DEF Those, Unrecorded, Admitted
    <2>2. /\ Cardinality(Those(Unrecorded)) \in Nat /\ Cardinality(Those(Unrecorded)') \in Nat
          /\ Cardinality(Those(Unrecorded)') = Cardinality(Those(Unrecorded))
                + Weight(next.stage, Unrecorded) - Weight(run[r].stage, Unrecorded)
      <3>1. /\ Cardinality(Those(open)) \in Nat /\ Cardinality(Those(open)') \in Nat
            /\ Cardinality(Those(open)') = Cardinality(Those(open))
                  + Weight(next.stage, open) - Weight(run[r].stage, open)
        BY <1>1, CountMoves
      <3> QED
        BY <2>a, <2>b, <3>1
    <2>3. /\ Cardinality(Those(Admitted)) \in Nat /\ Cardinality(Those(Admitted)') \in Nat
          /\ Cardinality(Those(Admitted)') = Cardinality(Those(Admitted))
                + Weight(next.stage, Admitted) - Weight(run[r].stage, Admitted)
      <3>1. /\ Cardinality(Those(admitted)) \in Nat /\ Cardinality(Those(admitted)') \in Nat
            /\ Cardinality(Those(admitted)') = Cardinality(Those(admitted))
                  + Weight(next.stage, admitted) - Weight(run[r].stage, admitted)
        BY <1>1, CountMoves
      <3> QED
        BY <2>a, <2>b, <3>1
    <2>4. \A x, stages : Weight(x, stages) \in Nat
      BY DEF Weight
    <2>5. Cardinality(Those(Admitted)') <= Cardinality(Runs) /\ Cardinality(Runs) \in Nat
      BY FS_Subset, FS_CardinalityType, AutonomyAssumption DEF Those
    <2>6. launched' = lost' + RecordedCommands' + Cardinality(Those(Unrecorded)')
      BY <1>1, <2>1, <2>2, <2>4 DEF BudgetInv, LaunchesCounted, ScalarTypes
    <2>7. RecordedCommands' + Cardinality(Those(Admitted)') <= MaxCommands + Cardinality(Runs) - 1
      BY <1>1, <2>1, <2>3, <2>4, <2>5, AutonomyAssumption
         DEF BudgetInv, LaunchesCounted, ScalarTypes
    <2> QED
      BY <2>6, <2>7 DEF LaunchesCounted
  <1> QED
    BY <1>2, <1>3, <1>4 DEF BudgetInv

\* A run that only moves on: the task, the ledger and the hold stay as they are.
LEMMA QuietRun ==
  ASSUME BudgetInv, NEW r \in Runs, NEW next \in RunState,
         next.stage # "idle" => next.policy \in Policies,
         run' = [run EXCEPT ![r] = next], Steady, launched' = launched, lost' \in Nat,
         next.at <= revision, next.stage \notin {"running", "admitted"},
         lost' = lost + Weight(run[r].stage, Unrecorded) - Weight(next.stage, Unrecorded),
         next.stage \in Unrecorded => run[r].stage \in Unrecorded
  PROVE  BudgetInv'
  <1>1. ScalarTypes /\ BudgetShapes
    BY Scalars DEF BudgetInv, BudgetShapes
  <1>2. ScalarTypes' /\ RecordedCommands' = RecordedCommands /\ HoldStaysDisposable'
    BY <1>1 DEF ScalarTypes, Steady, RecordedCommands, BudgetInv, HoldStaysDisposable
  <1>3. /\ revision' = revision /\ hold' = hold /\ heldSince' = heldSince
        /\ revision \in Nat /\ hold <= revision
    BY <1>1 DEF Steady, ScalarTypes, BudgetInv, HoldsOrdered
  <1>4. /\ Weight(run[r].stage, Unrecorded) \in Nat /\ Weight(next.stage, Unrecorded) \in Nat
        /\ RecordedCommands \in Nat /\ launched \in Nat /\ lost \in Nat
    BY <1>1 DEF Weight, ScalarTypes, RecordedCommands, Ledger
  <1>5. /\ Weight(next.stage, Admitted) = Weight(next.stage, Unrecorded)
        /\ Weight(next.stage, Unrecorded) <= Weight(run[r].stage, Admitted)
        /\ Weight(run[r].stage, Admitted) \in Nat
    BY DEF Weight, Admitted, Unrecorded
  <1>6. RecordedCommands' + Weight(next.stage, Admitted) <=
           RecordedCommands + Weight(run[r].stage, Admitted)
        \/ RecordedCommands' < MaxCommands
    BY <1>2, <1>4, <1>5
  <1>7. launched' - lost' - RecordedCommands' =
           launched - lost - RecordedCommands
              + Weight(next.stage, Unrecorded) - Weight(run[r].stage, Unrecorded)
    BY <1>2, <1>4
  <1>8. /\ revision <= revision' /\ hold' <= revision' /\ next.at <= revision'
        /\ hold' # 0 => (hold # 0 /\ heldSince' = heldSince) \/ heldSince' > revision
        /\ next.stage = "running" /\ hold' # 0 => next.at < heldSince'
    BY <1>3
  <1> QED
    BY <1>2, <1>6, <1>7, <1>8, KeepBudget

\* Reading, being refused, and ending leave the task alone.
LEMMA QuietSteps ==
  ASSUME BudgetInv, NEW r \in Runs,
         \/ Prepare(r) \/ PreflightRefused(r) \/ ReserveRefused(r)
         \/ \E used \in 0 .. 1 : ChildExit(r, used)
         \/ Locate(r) \/ CompletionRefused(r) \/ Journal(r) \/ UpdateRefused(r) \/ Kill(r)
  PROVE  BudgetInv'
  <1>1. ScalarTypes /\ BudgetShapes /\ run \in [Runs -> RunState]
    BY Scalars DEF BudgetInv, BudgetShapes, TypeOK
  <1>2. /\ revision \in Nat /\ lost \in Nat /\ policy \in Policies /\ run[r].at <= revision
    BY <1>1 DEF ScalarTypes, BudgetInv, HoldsOrdered
  <1>3. CASE Prepare(r)
    <2>1. PICK next : next = [Idle EXCEPT !.stage = "prepared", !.policy = policy, !.at = revision]
      OBVIOUS
    <2>2. /\ next \in RunState /\ next.stage = "prepared" /\ next.policy = policy
          /\ next.at = revision
      BY <1>2, <2>1 DEF Idle, RunState, Stages
    <2>3. /\ run' = [run EXCEPT ![r] = next] /\ Steady /\ UNCHANGED <<launched, lost>>
          /\ run[r].stage = "idle"
      BY <1>3, <2>1 DEF Prepare
    <2>4. Weight(run[r].stage, Unrecorded) = 0 /\ Weight(next.stage, Unrecorded) = 0
      BY <2>2, <2>3 DEF Weight, Unrecorded
    <2>5. /\ next.stage \notin {"running", "admitted"} /\ next.stage \notin Unrecorded
          /\ lost' \in Nat /\ next.at <= revision /\ next.policy \in Policies
          /\ lost' = lost + Weight(run[r].stage, Unrecorded) - Weight(next.stage, Unrecorded)
      BY <1>2, <2>2, <2>3, <2>4 DEF Unrecorded
    <2> QED
      BY <2>2, <2>3, <2>5, QuietRun
  <1>4. ASSUME Ends(r), Steady, launched' = launched,
               lost' = lost + Weight(run[r].stage, Unrecorded)
        PROVE  BudgetInv'
    <2>1. Idle \in RunState /\ Idle.stage = "idle" /\ Idle.at = 0
      BY DEF Idle, RunState, Stages
    <2>2. PICK next : next = Idle
      OBVIOUS
    <2>3. run' = [run EXCEPT ![r] = next]
      BY <1>4, <2>2 DEF Ends
    <2>4. Weight(next.stage, Unrecorded) = 0 /\ Weight(run[r].stage, Unrecorded) \in Nat
      BY <2>1, <2>2 DEF Weight, Unrecorded
    <2>5. /\ next.stage \notin {"running", "admitted"} /\ next.stage \notin Unrecorded
          /\ lost' \in Nat /\ next.at <= revision /\ next.stage = "idle" /\ next \in RunState
          /\ lost' = lost + Weight(run[r].stage, Unrecorded) - Weight(next.stage, Unrecorded)
      BY <1>2, <1>4, <2>1, <2>2, <2>3, <2>4 DEF Unrecorded
    <2> QED
      BY <1>4, <2>3, <2>5, QuietRun
  <1>5. CASE PreflightRefused(r) \/ ReserveRefused(r) \/ UpdateRefused(r)
    <2>1. Weight(run[r].stage, Unrecorded) = 0
      BY <1>5 DEF PreflightRefused, ReserveRefused, UpdateRefused, Weight, Unrecorded
    <2> QED
      BY <1>2, <1>4, <1>5, <2>1 DEF PreflightRefused, ReserveRefused, UpdateRefused
  <1>6. CASE CompletionRefused(r)
    <2>1. Weight(run[r].stage, Unrecorded) = 1
      BY <1>6 DEF CompletionRefused, Weight, Unrecorded
    <2> QED
      BY <1>2, <1>4, <1>6, <2>1 DEF CompletionRefused
  <1>7. CASE Kill(r)
    <2>1. lost' = lost + Weight(run[r].stage, Unrecorded)
      BY <1>7 DEF Kill, Weight, Unrecorded
    <2> QED
      BY <1>4, <1>7, <2>1 DEF Kill
  <1>8. ASSUME NEW next \in RunState, run' = [run EXCEPT ![r] = next], Steady,
               UNCHANGED <<launched, lost>>, next.policy = run[r].policy,
               next.at \in {run[r].at, revision}, run[r].stage # "idle",
               \/ run[r].stage \in Unrecorded /\ next.stage \in Unrecorded \ {"running"}
               \/ run[r].stage \notin Unrecorded /\ next.stage \notin Unrecorded \union {"admitted"}
        PROVE  BudgetInv'
    <2>1. Weight(run[r].stage, Unrecorded) = Weight(next.stage, Unrecorded)
          /\ Weight(run[r].stage, Unrecorded) \in Nat
      BY <1>8 DEF Weight
    <2>2. run[r].policy \in Policies
      BY <1>1, <1>8 DEF BudgetShapes
    <2>3. /\ next.stage \notin {"running", "admitted"} /\ next.policy \in Policies
          /\ next.stage \in Unrecorded => run[r].stage \in Unrecorded
      BY <1>8, <2>2 DEF Unrecorded
    <2>4. /\ lost' \in Nat /\ next.at <= revision /\ launched' = launched
          /\ lost' = lost + Weight(run[r].stage, Unrecorded) - Weight(next.stage, Unrecorded)
      BY <1>2, <1>8, <2>1
    <2> QED
      BY <1>8, <2>3, <2>4, QuietRun
  <1>9. ASSUME NEW used \in 0 .. 1, ChildExit(r, used) PROVE BudgetInv'
    <2>1. PICK next : next = [run[r] EXCEPT !.stage = "exited", !.used = used]
      OBVIOUS
    <2>2. /\ next \in RunState /\ next.stage = "exited" /\ next.policy = run[r].policy
          /\ next.at = run[r].at
      <3>1. used \in Nat
        OBVIOUS
      <3> QED
        BY <1>1, <2>1, <3>1 DEF RunState, Stages
    <2>3. run' = [run EXCEPT ![r] = next] /\ run[r].stage = "running"
      BY <1>1, <1>9, <2>1 DEF ChildExit
    <2> QED
      BY <1>8, <1>9, <2>2, <2>3 DEF ChildExit, Unrecorded
  <1>10. CASE Locate(r)
    <2>1. PICK next : next = [run[r] EXCEPT !.stage = "recording", !.at = revision]
      OBVIOUS
    <2>2. /\ next \in RunState /\ next.stage = "recording" /\ next.policy = run[r].policy
          /\ next.at = revision
      BY <1>1, <1>2, <2>1 DEF RunState, Stages
    <2>3. run' = [run EXCEPT ![r] = next] /\ run[r].stage = "resolved"
      BY <1>1, <1>10, <2>1 DEF Locate
    <2> QED
      BY <1>8, <1>10, <2>2, <2>3 DEF Locate, Unrecorded
  <1>11. CASE Journal(r)
    <2>1. PICK next : next = [run[r] EXCEPT !.stage = "journaled", !.at = revision]
      OBVIOUS
    <2>2. /\ next \in RunState /\ next.stage = "journaled" /\ next.policy = run[r].policy
          /\ next.at = revision
      BY <1>1, <1>2, <2>1 DEF RunState, Stages
    <2>3. run' = [run EXCEPT ![r] = next] /\ run[r].stage = "recorded"
      BY <1>1, <1>11, <2>1 DEF Journal
    <2> QED
      BY <1>8, <1>11, <2>2, <2>3 DEF Journal, Unrecorded
  <1> QED
    BY <1>3, <1>5, <1>6, <1>7, <1>9, <1>10, <1>11

\* A mutation of a run: the claim stands, and a hold that is not new was not there.
LEMMA MutatingRun ==
  ASSUME BudgetInv, Mutation, Keeps, claimed, NEW r \in Runs, NEW next \in RunState,
         next.stage # "idle" => next.policy \in Policies,
         run' = [run EXCEPT ![r] = next], ledger' \in Ledger \union {None},
         launched' \in Nat, lost' = lost, hold' \in Nat, heldSince' \in Nat,
         hold' # 0 => (hold # 0 /\ heldSince' = heldSince) \/ heldSince' > revision,
         next.at <= revision + 1,
         next.stage = "running" => hold' = 0,
         launched' - RecordedCommands' =
            launched - RecordedCommands
               + Weight(next.stage, Unrecorded) - Weight(run[r].stage, Unrecorded),
         \/ RecordedCommands' + Weight(next.stage, Admitted) <=
               RecordedCommands + Weight(run[r].stage, Admitted)
         \/ RecordedCommands' < MaxCommands
  PROVE  BudgetInv'
  <1>1. ScalarTypes /\ BudgetShapes
    BY Scalars DEF BudgetInv, BudgetShapes
  <1>2. /\ revision' = revision + 1 /\ revision \in Nat /\ claimed' = claimed /\ expires' = expires
        /\ hold' # 0 => hold' = revision'
        /\ UNCHANGED <<policy, clock, overtaken>>
    BY <1>1 DEF Mutation, HoldValid, Keeps, ScalarTypes
  <1>3. ScalarTypes'
    BY <1>1, <1>2 DEF ScalarTypes
  <1>4. HoldStaysDisposable'
    BY <1>2 DEF HoldStaysDisposable
  <1>5. /\ revision <= revision' /\ hold' <= revision' /\ next.at <= revision'
        /\ next.stage = "running" /\ hold' # 0 => next.at < heldSince'
    BY <1>2
  <1>6. /\ Weight(run[r].stage, Unrecorded) \in Nat /\ Weight(next.stage, Unrecorded) \in Nat
        /\ RecordedCommands \in Nat /\ RecordedCommands' \in Nat
        /\ launched \in Nat /\ lost \in Nat
    BY <1>1, <1>3 DEF Weight, ScalarTypes, RecordedCommands, Ledger
  <1>7. launched' - lost' - RecordedCommands' =
           launched - lost - RecordedCommands
              + Weight(next.stage, Unrecorded) - Weight(run[r].stage, Unrecorded)
    BY <1>6
  <1> QED
    BY <1>3, <1>4, <1>5, <1>7, KeepBudget

\* A mutation that keeps the hold finds none: a standing one refuses every mutation.
LEMMA NoHoldKept ==
  ASSUME BudgetInv, Mutation, hold' = hold
  PROVE  hold = 0
  <1>1. hold \in Nat /\ revision \in Nat /\ hold <= revision
    BY BudgetNumbers DEF BudgetInv, BudgetShapes, HoldsOrdered
  <1> QED
    BY <1>1 DEF Mutation, HoldValid

\* The preflight admits only below the budget.
LEMMA PreflightSteps ==
  ASSUME BudgetInv, NEW r \in Runs, Preflight(r)
  PROVE  BudgetInv'
  <1>1. /\ ScalarTypes /\ BudgetShapes /\ run \in [Runs -> RunState]
        /\ run[r].stage = "prepared" /\ run[r].policy \in Policies /\ run[r].at <= revision
    BY Scalars DEF BudgetInv, BudgetShapes, TypeOK, Preflight, HoldsOrdered
  <1>2. /\ claimed /\ hold = 0 /\ Mutation /\ Keeps /\ ledger' = LedgerFor(r)
        /\ UNCHANGED <<launched, lost>>
    BY DEF Preflight, PreflightAdmitted, ActiveOwner
  <1>3. /\ ledger' \in Ledger /\ ledger' # None /\ ledger'.commands = RecordedCommands
        /\ RecordedCommands' = RecordedCommands
    BY <1>1, <1>2, LedgerTypes DEF RecordedCommands
  <1>4. /\ revision \in Nat /\ heldSince \in Nat /\ launched \in Nat /\ RecordedCommands \in Nat
        /\ clock \in Nat
    BY <1>1 DEF ScalarTypes, RecordedCommands, Ledger
  <1>5. CASE Ends(r)
    <2>1. PICK next : next = Idle
      OBVIOUS
    <2>2. next \in RunState /\ next.stage = "idle" /\ next.at = 0
      BY <2>1 DEF Idle, RunState, Stages
    <2>3. Weight(next.stage, Unrecorded) = 0 /\ Weight(run[r].stage, Unrecorded) = 0
          /\ Weight(next.stage, Admitted) = 0 /\ Weight(run[r].stage, Admitted) = 0
      BY <1>1, <2>2 DEF Weight, Unrecorded, Admitted
    <2>4. /\ hold' \in Nat /\ heldSince' \in Nat
          /\ hold' # 0 => heldSince' > revision
      BY <1>2, <1>4 DEF Preflight
    <2>5. /\ launched' - RecordedCommands' =
               launched - RecordedCommands
                  + Weight(next.stage, Unrecorded) - Weight(run[r].stage, Unrecorded)
          /\ RecordedCommands' + Weight(next.stage, Admitted) <=
                RecordedCommands + Weight(run[r].stage, Admitted)
          /\ launched' \in Nat /\ lost' = lost /\ next.at <= revision + 1
          /\ ledger' \in Ledger \union {None}
          /\ run' = [run EXCEPT ![r] = next]
      BY <1>2, <1>3, <1>4, <1>5, <2>1, <2>2, <2>3 DEF Ends
    <2> QED
      BY <1>2, <2>2, <2>4, <2>5, MutatingRun
  <1>6. CASE Goes(r, "admitted") /\ ~ Breach(ledger') /\ UNCHANGED <<hold, heldSince>>
    <2>1. PICK next : next = [run[r] EXCEPT !.stage = "admitted"]
      OBVIOUS
    <2>2. /\ next \in RunState /\ next.stage = "admitted" /\ next.at = run[r].at
          /\ next.policy = run[r].policy
      BY <1>1, <2>1 DEF RunState, Stages
    <2>3. run' = [run EXCEPT ![r] = next]
      BY <1>1, <1>6, <2>1 DEF Goes
    <2>4. Weight(next.stage, Unrecorded) = 0 /\ Weight(run[r].stage, Unrecorded) = 0
      BY <1>1, <2>2 DEF Weight, Unrecorded
    <2>5. RecordedCommands' < MaxCommands
      BY <1>3, <1>4, <1>6, AutonomyAssumption DEF Breach
    <2>6. /\ launched' - RecordedCommands' =
               launched - RecordedCommands
                  + Weight(next.stage, Unrecorded) - Weight(run[r].stage, Unrecorded)
          /\ launched' \in Nat /\ lost' = lost /\ next.at <= revision + 1
          /\ ledger' \in Ledger \union {None} /\ next.policy \in Policies
      <3>1. run[r].at \in Nat
        BY <1>1 DEF RunState
      <3> QED
        BY <1>1, <1>2, <1>3, <1>4, <2>2, <2>4, <3>1
    <2>7. hold' = 0 /\ hold' \in Nat /\ heldSince' \in Nat
      BY <1>2, <1>4, <1>6
    <2> QED
      BY <1>2, <2>2, <2>3, <2>5, <2>6, <2>7, MutatingRun
  <1> QED
    BY <1>5, <1>6 DEF Preflight

\* Nothing is reserved or resolved under a hold.
LEMMA LaunchSteps ==
  ASSUME BudgetInv, NEW r \in Runs, Reserve(r) \/ Resolve(r)
  PROVE  BudgetInv'
  <1>1. /\ ScalarTypes /\ BudgetShapes /\ run \in [Runs -> RunState]
        /\ run[r] \in RunState /\ run[r].at <= revision /\ run[r].at \in Nat
    BY Scalars DEF BudgetInv, BudgetShapes, TypeOK, HoldsOrdered, RunState
  <1>2. /\ claimed /\ Mutation /\ Keeps /\ UNCHANGED <<ledger, hold, heldSince, lost>>
    BY DEF Reserve, Resolve
  <1>3. /\ revision \in Nat /\ heldSince \in Nat /\ launched \in Nat /\ RecordedCommands \in Nat
        /\ RecordedCommands' = RecordedCommands /\ ledger' \in Ledger \union {None}
        /\ hold = 0 /\ hold' = 0 /\ hold' \in Nat /\ heldSince' \in Nat /\ lost' = lost
    BY <1>1, <1>2, NoHoldKept DEF ScalarTypes, RecordedCommands, Ledger
  <1>4. CASE Reserve(r)
    <2>1. PICK next : next = [run[r] EXCEPT !.stage = "running", !.at = revision + 1]
      OBVIOUS
    <2>2. /\ next \in RunState /\ next.stage = "running" /\ next.at = revision + 1
          /\ next.policy = run[r].policy
      <3>1. PICK later \in Nat : later = revision + 1
        BY <1>3
      <3> QED
        BY <1>1, <2>1, <3>1 DEF RunState, Stages
    <2>3. /\ run' = [run EXCEPT ![r] = next] /\ run[r].stage = "admitted"
          /\ launched' = launched + 1
      BY <1>1, <1>4, <2>1 DEF Reserve
    <2>4. /\ Weight(next.stage, Unrecorded) = 1 /\ Weight(run[r].stage, Unrecorded) = 0
          /\ Weight(next.stage, Admitted) = 1 /\ Weight(run[r].stage, Admitted) = 1
      BY <2>2, <2>3 DEF Weight, Unrecorded, Admitted
    <2>5. /\ launched' - RecordedCommands' =
               launched - RecordedCommands
                  + Weight(next.stage, Unrecorded) - Weight(run[r].stage, Unrecorded)
          /\ RecordedCommands' + Weight(next.stage, Admitted) <=
                RecordedCommands + Weight(run[r].stage, Admitted)
          /\ launched' \in Nat /\ next.at <= revision + 1
      BY <1>3, <2>2, <2>3, <2>4
    <2>6. next.policy \in Policies
      BY <1>1, <2>2, <2>3 DEF BudgetShapes
    <2> QED
      BY <1>2, <1>3, <2>2, <2>3, <2>5, <2>6, MutatingRun
  <1>5. CASE Resolve(r)
    <2>1. PICK next : next = [run[r] EXCEPT !.stage = "resolved"]
      OBVIOUS
    <2>2. /\ next \in RunState /\ next.stage = "resolved" /\ next.at = run[r].at
          /\ next.policy = run[r].policy
      BY <1>1, <2>1 DEF RunState, Stages
    <2>3. /\ run' = [run EXCEPT ![r] = next] /\ run[r].stage = "exited"
          /\ launched' = launched
      BY <1>1, <1>5, <2>1 DEF Resolve, Goes
    <2>4. /\ Weight(next.stage, Unrecorded) = 1 /\ Weight(run[r].stage, Unrecorded) = 1
          /\ Weight(next.stage, Admitted) = 1 /\ Weight(run[r].stage, Admitted) = 1
      BY <2>2, <2>3 DEF Weight, Unrecorded, Admitted
    <2>5. /\ launched' - RecordedCommands' =
               launched - RecordedCommands
                  + Weight(next.stage, Unrecorded) - Weight(run[r].stage, Unrecorded)
          /\ RecordedCommands' + Weight(next.stage, Admitted) <=
                RecordedCommands + Weight(run[r].stage, Admitted)
          /\ launched' \in Nat /\ next.at <= revision + 1
      BY <1>1, <1>3, <2>2, <2>3, <2>4
    <2>6. next.policy \in Policies
      BY <1>1, <2>2, <2>3 DEF BudgetShapes
    <2> QED
      BY <1>2, <1>3, <2>2, <2>3, <2>5, <2>6, MutatingRun
  <1> QED
    BY <1>4, <1>5

\* A record counts the child, and an overrun becomes a hold unless there is one; the
\* run's own update takes the hold along.
LEMMA RecordSteps ==
  ASSUME BudgetInv, NEW r \in Runs, Record(r) \/ UpdateTask(r)
  PROVE  BudgetInv'
  <1>1. /\ ScalarTypes /\ BudgetShapes /\ run \in [Runs -> RunState]
        /\ run[r] \in RunState /\ run[r].at <= revision /\ run[r].at \in Nat
        /\ hold <= revision
    BY Scalars DEF BudgetInv, BudgetShapes, TypeOK, HoldsOrdered, RunState
  <1>2. /\ claimed /\ Mutation /\ Keeps /\ UNCHANGED <<launched, lost>>
    BY DEF Record, UpdateTask, ActiveOwner
  <1>3. /\ revision \in Nat /\ heldSince \in Nat /\ launched \in Nat /\ RecordedCommands \in Nat
        /\ hold \in Nat /\ launched' \in Nat /\ lost' = lost
    BY <1>1, <1>2 DEF ScalarTypes, RecordedCommands, Ledger
  <1>4. CASE Record(r)
    <2>1. PICK next : next = [run[r] EXCEPT !.stage = "recorded"]
      OBVIOUS
    <2>2. /\ next \in RunState /\ next.stage = "recorded" /\ next.at = run[r].at
          /\ next.policy = run[r].policy
      BY <1>1, <2>1 DEF RunState, Stages
    <2>3. /\ run' = [run EXCEPT ![r] = next] /\ run[r].stage = "recording"
          /\ ledger' = Counted(r) /\ hold' = HoldAfter(r)
          /\ heldSince' = IF hold' # hold THEN hold' ELSE heldSince
      BY <1>1, <1>4, <2>1 DEF Record, Goes
    <2>4. /\ Weight(next.stage, Unrecorded) = 0 /\ Weight(run[r].stage, Unrecorded) = 1
          /\ Weight(next.stage, Admitted) = 0 /\ Weight(run[r].stage, Admitted) = 1
      BY <2>2, <2>3 DEF Weight, Unrecorded, Admitted
    <2>5. ledger' \in Ledger /\ ledger' # None /\ RecordedCommands' = RecordedCommands + 1
      BY <1>1, <2>3, LedgerTypes DEF RecordedCommands
    <2>6. /\ launched' - RecordedCommands' =
               launched - RecordedCommands
                  + Weight(next.stage, Unrecorded) - Weight(run[r].stage, Unrecorded)
          /\ RecordedCommands' + Weight(next.stage, Admitted) <=
                RecordedCommands + Weight(run[r].stage, Admitted)
          /\ next.at <= revision + 1 /\ ledger' \in Ledger \union {None}
      BY <1>1, <1>2, <1>3, <2>2, <2>4, <2>5
    <2>7. hold' = hold \/ hold' = revision + 1
      BY <2>3 DEF HoldAfter
    <2>8. /\ hold' \in Nat /\ heldSince' \in Nat
          /\ hold' # 0 => (hold # 0 /\ heldSince' = heldSince) \/ heldSince' > revision
      BY <1>1, <1>3, <2>3, <2>7
    <2>9. next.policy \in Policies
      BY <1>1, <2>2, <2>3 DEF BudgetShapes
    <2> QED
      BY <1>2, <1>3, <2>2, <2>3, <2>6, <2>8, <2>9, MutatingRun
  <1>5. CASE UpdateTask(r)
    <2>1. PICK next : next = Idle
      OBVIOUS
    <2>2. next \in RunState /\ next.stage = "idle" /\ next.at = 0
      BY <2>1 DEF Idle, RunState, Stages
    <2>3. /\ run' = [run EXCEPT ![r] = next] /\ run[r].stage = "journaled"
          /\ UNCHANGED <<ledger, heldSince>>
          /\ hold' = IF hold # 0 THEN revision + 1 ELSE 0
      BY <1>5, <2>1 DEF UpdateTask, Ends
    <2>4. /\ Weight(next.stage, Unrecorded) = 0 /\ Weight(run[r].stage, Unrecorded) = 0
          /\ Weight(next.stage, Admitted) = 0 /\ Weight(run[r].stage, Admitted) = 0
      BY <2>2, <2>3 DEF Weight, Unrecorded, Admitted
    <2>5. RecordedCommands' = RecordedCommands /\ ledger' \in Ledger \union {None}
      BY <1>1, <2>3 DEF RecordedCommands, ScalarTypes
    <2>6. /\ launched' - RecordedCommands' =
               launched - RecordedCommands
                  + Weight(next.stage, Unrecorded) - Weight(run[r].stage, Unrecorded)
          /\ RecordedCommands' + Weight(next.stage, Admitted) <=
                RecordedCommands + Weight(run[r].stage, Admitted)
          /\ next.at <= revision + 1
      BY <1>2, <1>3, <2>2, <2>4, <2>5
    <2>7. /\ hold' \in Nat /\ heldSince' \in Nat
          /\ hold' # 0 => (hold # 0 /\ heldSince' = heldSince)
      BY <1>3, <2>3
    <2> QED
      BY <1>2, <1>3, <2>2, <2>3, <2>5, <2>6, <2>7, MutatingRun
  <1> QED
    BY <1>4, <1>5

\* Steps outside the runs keep the ledger and record no hold.
LEMMA OwnerSteps ==
  ASSUME BudgetInv, ScalarTypes', UNCHANGED <<ledger, run, launched, lost>>,
         revision <= revision', hold' <= revision', HoldStaysDisposable',
         hold' # 0 => hold # 0 /\ heldSince' = heldSince
  PROVE  BudgetInv'
  <1>1. ScalarTypes /\ BudgetShapes /\ run \in [Runs -> RunState]
    BY Scalars DEF BudgetInv, BudgetShapes, TypeOK
  <1>2. PICK r \in Runs : TRUE
    BY AutonomyAssumption
  <1>3. PICK next \in RunState : next = run[r]
    BY <1>1
  <1>4. run' = [run EXCEPT ![r] = next]
    BY <1>1, <1>3
  <1>5. /\ next.at \in Nat /\ next.at <= revision
        /\ next.stage # "idle" => next.policy \in Policies
        /\ next.stage = "running" /\ hold # 0 => next.at < heldSince
    BY <1>1, <1>3 DEF BudgetInv, BudgetShapes, HoldsOrdered, HeldStartsNothing, RunState
  <1>6. /\ next.at <= revision'
        /\ next.stage = "running" /\ hold' # 0 => next.at < heldSince'
    BY <1>1, <1>5 DEF ScalarTypes
  <1>7. /\ RecordedCommands \in Nat /\ RecordedCommands' = RecordedCommands
        /\ launched \in Nat /\ lost \in Nat
        /\ Weight(next.stage, Unrecorded) = Weight(run[r].stage, Unrecorded)
        /\ Weight(run[r].stage, Unrecorded) \in Nat
        /\ Weight(next.stage, Admitted) = Weight(run[r].stage, Admitted)
        /\ Weight(run[r].stage, Admitted) \in Nat
    BY <1>1, <1>3 DEF ScalarTypes, RecordedCommands, Ledger, Weight
  <1>8. /\ launched' - lost' - RecordedCommands' =
             launched - lost - RecordedCommands
                + Weight(next.stage, Unrecorded) - Weight(run[r].stage, Unrecorded)
        /\ RecordedCommands' + Weight(next.stage, Admitted) <=
              RecordedCommands + Weight(run[r].stage, Admitted)
    BY <1>7
  <1> QED
    BY <1>4, <1>5, <1>6, <1>8, KeepBudget

\* The owner's other commands, scans, the clock and the policy.
LEMMA OtherSteps ==
  ASSUME BudgetInv,
         \/ Dispose \/ OtherCommand \/ Scan \/ Tick \/ UNCHANGED vars
         \/ \E p \in Policies : ChangePolicy(p)
  PROVE  BudgetInv'
  <1>1. /\ ScalarTypes /\ revision \in Nat /\ hold \in Nat /\ hold <= revision
        /\ HoldStaysDisposable /\ Lease \in Nat
    BY Scalars, AutonomyAssumption DEF BudgetInv, BudgetShapes, HoldsOrdered, ScalarTypes
  <1>2. CASE Dispose
    BY <1>1, <1>2, OwnerSteps DEF Dispose, Mutation, Keeps, ScalarTypes, HoldStaysDisposable
  <1>3. CASE OtherCommand
    <2>1. hold = 0 /\ hold' = 0
      BY <1>3, NoHoldKept DEF OtherCommand
    <2>2. ScalarTypes'
      <3>1. /\ claimed' \in BOOLEAN /\ revision' = revision + 1
            /\ expires' = clock + Lease \/ expires' = 0
            /\ UNCHANGED <<policy, clock, overtaken, ledger, heldSince, launched, lost>>
        BY <1>3 DEF OtherCommand, Mutation
      <3>2. expires' \in Nat /\ revision' \in Nat
        BY <1>1, <3>1 DEF ScalarTypes
      <3> QED
        BY <1>1, <2>1, <3>1, <3>2 DEF ScalarTypes
    <2> QED
      BY <1>1, <1>3, <2>1, <2>2, OwnerSteps DEF OtherCommand, Mutation, HoldStaysDisposable
  <1>4. CASE Scan
    <2>1. ScalarTypes' /\ HoldStaysDisposable'
      BY <1>1, <1>4 DEF Scan, ScalarTypes, HoldStaysDisposable
    <2> QED
      BY <1>1, <1>4, <2>1, OwnerSteps DEF Scan
  <1>5. CASE Tick \/ UNCHANGED vars \/ \E p \in Policies : ChangePolicy(p)
    <2>1. UNCHANGED <<claimed, expires, revision, ledger, hold, run, heldSince, overtaken,
                      launched, lost>>
      BY <1>5 DEF Tick, vars, ChangePolicy
    <2>2. ScalarTypes'
      BY <1>1, <1>5, <2>1 DEF ScalarTypes, Tick, vars, ChangePolicy
    <2>3. HoldStaysDisposable'
      BY <1>1, <2>1 DEF HoldStaysDisposable
    <2> QED
      BY <1>1, <2>1, <2>2, <2>3, OwnerSteps
  <1> QED
    BY <1>2, <1>3, <1>4, <1>5

\* The ledger, the hold and the runs agree for any number of invocations, whatever the
\* owner, scans and a changing policy do between their mutations (autonomy_limits.py).
THEOREM BudgetInvariance == Spec => []BudgetInv
  <1>1. BudgetInv /\ [Next]_vars => BudgetInv'
    BY QuietSteps, PreflightSteps, LaunchSteps, RecordSteps, OtherSteps DEF Next, RunStep
  <1> QED
    BY InitBudget, <1>1, PTL DEF Spec

\* A hold that no unvalidated scan has overtaken names the task's revision and finds
\* the claim with its owner, so that it can be disposed of (apply_dispose).
THEOREM HoldSafety == Spec => []HoldStaysDisposable
  <1>1. BudgetInv => HoldStaysDisposable
    BY DEF BudgetInv
  <1> QED
    BY <1>1, BudgetInvariance, PTL

\* Nothing starts under a hold, and children that started are within the budget up to
\* the runs admitted side by side (apply_preflight, apply_record).
THEOREM BudgetSafety == Spec => []BudgetKept
  <1>1. BudgetInv => BudgetKept
    <2> SUFFICES ASSUME BudgetInv PROVE BudgetKept
      OBVIOUS
    <2>1. HeldStartsNothing
      BY DEF BudgetInv, HoldsOrdered
    <2>2. ScalarTypes
      BY Scalars DEF BudgetInv, BudgetShapes
    <2>3. /\ IsFiniteSet(Those(Admitted)) /\ Those(Unrecorded) \subseteq Those(Admitted)
          /\ Cardinality(Runs) \in Nat
      BY FS_Subset, FS_CardinalityType, AutonomyAssumption DEF Those, Admitted
    <2>4. /\ Cardinality(Those(Unrecorded)) <= Cardinality(Those(Admitted))
          /\ Cardinality(Those(Unrecorded)) \in Nat /\ Cardinality(Those(Admitted)) \in Nat
      BY <2>3, FS_Subset, FS_CardinalityType
    <2>5. RecordedCommands \in Nat /\ launched \in Nat /\ lost \in Nat
      BY <2>2 DEF ScalarTypes, RecordedCommands, Ledger
    <2>6. LaunchesBudgeted
      BY <2>3, <2>4, <2>5, AutonomyAssumption DEF BudgetInv, LaunchesCounted, LaunchesBudgeted
    <2> QED
      BY <2>1, <2>6 DEF BudgetKept
  <1> QED
    BY <1>1, BudgetInvariance, PTL

-----------------------------------------------------------------------------
(* The retry circuit.                                                        *)

\* The instance counts as this module does.
LEMMA CircuitCardinality ==
  ASSUME NEW S PROVE Circuit!Cardinality(S) = Cardinality(S)
  BY DEF Circuit!Cardinality, Cardinality

\* The numbers, the histories and the slots, which are finitely many.
CircuitShapes ==
    /\ rev \in Nat /\ time \in Nat /\ progress \in Progresses
    /\ attempts \in Seq(Circuit!Attempt) /\ recoveries \in Seq(Circuit!Recovery)
    /\ slots \subseteq Circuit!Slot /\ IsFiniteSet(slots)

\* Histories are in revision order and older than the task.
LedgerOrdered ==
    /\ Circuit!Ascending(attempts) /\ Circuit!Ascending(recoveries)
    /\ \A i \in 1 .. Len(attempts) : attempts[i].at < rev
    /\ \A i \in 1 .. Len(recoveries) : recoveries[i].at < rev
    /\ \A s \in slots : s.at < rev

\* The failures of a series asked for one window, and are no more than it.
SeriesUniform ==
    ~ reopened =>
        \A cmd \in Commands, digest \in Progresses :
           \A i \in Circuit!Active(cmd, digest) :
              /\ Cardinality(Circuit!Active(cmd, digest)) <= attempts[i].window
              /\ \A j \in Circuit!Active(cmd, digest) :
                    attempts[i].window = attempts[j].window

\* A slot that no mutation followed has room for the failure of its run.
SlotsFit ==
    \A s \in slots :
       s.at + 1 = rev =>
          /\ s.progress = progress
          /\ Cardinality(Circuit!Active(s.cmd, progress)) < s.window

CircuitInv ==
    /\ CircuitShapes /\ LedgerOrdered /\ Circuit!HoldBacked(held, attempts)
    /\ SeriesUniform /\ SlotsFit

\* The failures of a series are finitely many.
LEMMA SeriesFinite ==
  ASSUME CircuitShapes, NEW cmd, NEW digest
  PROVE  /\ IsFiniteSet(Circuit!Active(cmd, digest))
         /\ Cardinality(Circuit!Active(cmd, digest)) \in Nat
         /\ Circuit!Active(cmd, digest) \subseteq 1 .. Len(attempts)
  <1>1. Len(attempts) \in Nat
    BY DEF CircuitShapes
  <1>2. Circuit!Active(cmd, digest) \subseteq 1 .. Len(attempts)
    BY DEF Circuit!Active, Circuit!ActiveIn
  <1>3. IsFiniteSet(1 .. Len(attempts))
    BY <1>1, FS_Interval
  <1> QED
    BY <1>2, <1>3, FS_Subset, FS_CardinalityType

\* What the histories hold.
LEMMA LedgerEntries ==
  ASSUME CircuitShapes
  PROVE  /\ Len(attempts) \in Nat /\ Len(recoveries) \in Nat
         /\ \A i \in 1 .. Len(attempts) :
               /\ attempts[i] \in Circuit!Attempt /\ attempts[i].at \in Nat
               /\ attempts[i].window \in Windows
         /\ \A i \in 1 .. Len(recoveries) :
               recoveries[i] \in Circuit!Recovery /\ recoveries[i].at \in Nat
  <1>1. ASSUME NEW i \in 1 .. Len(attempts)
        PROVE  attempts[i] \in Circuit!Attempt
    BY DEF CircuitShapes
  <1>2. ASSUME NEW i \in 1 .. Len(recoveries)
        PROVE  recoveries[i] \in Circuit!Recovery
    BY DEF CircuitShapes
  <1>3. /\ \A e \in Circuit!Attempt : e.at \in Nat /\ e.window \in Windows
        /\ \A e \in Circuit!Recovery : e.at \in Nat
    BY DEF Circuit!Attempt, Circuit!Recovery
  <1> QED
    BY <1>1, <1>2, <1>3 DEF CircuitShapes

\* At first the ledger is empty.
LEMMA InitCircuit == Circuit!Init => CircuitInv
  <1> SUFFICES ASSUME Circuit!Init PROVE CircuitInv
    OBVIOUS
  <1>1. CircuitShapes
    BY FS_EmptySet DEF Circuit!Init, CircuitShapes
  <1>2. attempts = <<>> /\ recoveries = <<>> /\ held = None /\ slots = {} /\ Len(attempts) = 0
        /\ Len(recoveries) = 0
    BY DEF Circuit!Init
  <1>3. \A cmd, digest : Circuit!Active(cmd, digest) = {}
    BY <1>2 DEF Circuit!Active, Circuit!ActiveIn
  <1> QED
    BY <1>1, <1>2, <1>3 DEF CircuitInv, LedgerOrdered, Circuit!Ascending,
       Circuit!HoldBacked, SeriesUniform, SlotsFit

\* Steps that leave the histories alone.
LEMMA LedgerKept ==
  ASSUME CircuitInv, UNCHANGED <<attempts, recoveries, held, reopened>>,
         rev' \in Nat, time' \in Nat, progress' \in Progresses, rev <= rev',
         slots' \subseteq Circuit!Slot, IsFiniteSet(slots'),
         \A s \in slots' : s.at < rev', SlotsFit'
  PROVE  CircuitInv'
  <1>1. CircuitShapes'
    BY DEF CircuitInv, CircuitShapes
  <1>2. /\ \A i \in 1 .. Len(attempts) : attempts[i].at \in Nat
        /\ \A i \in 1 .. Len(recoveries) : recoveries[i].at \in Nat
    BY LedgerEntries DEF CircuitInv
  <1>3. LedgerOrdered'
    <2>1. Circuit!Ascending(attempts)' /\ Circuit!Ascending(recoveries)'
      BY DEF CircuitInv, LedgerOrdered, Circuit!Ascending
    <2>2. /\ \A i \in 1 .. Len(attempts) : attempts[i].at < rev'
          /\ \A i \in 1 .. Len(recoveries) : recoveries[i].at < rev'
      BY <1>2 DEF CircuitInv, LedgerOrdered, CircuitShapes
    <2> QED
      BY <2>1, <2>2 DEF LedgerOrdered
  <1>4. \A cmd, digest : Circuit!Active(cmd, digest)' = Circuit!Active(cmd, digest)
    BY DEF Circuit!Active, Circuit!ActiveIn, Circuit!RecoveredAt
  <1>5. Circuit!HoldBacked(held, attempts)'
    BY DEF CircuitInv, Circuit!HoldBacked, Circuit!ActiveIn, Circuit!RecoveredAt
  <1>6. SeriesUniform'
    BY <1>4 DEF CircuitInv, SeriesUniform
  <1> QED
    BY <1>1, <1>3, <1>5, <1>6 DEF CircuitInv

\* A mutation that reserves nothing leaves no slot without a later mutation.
LEMMA SlotsPassed ==
  ASSUME CircuitInv, UNCHANGED <<attempts, recoveries, held, reopened, time>>,
         rev' = rev + 1, progress' \in Progresses, slots' \subseteq slots
  PROVE  CircuitInv'
  <1>1. /\ rev \in Nat /\ slots \subseteq Circuit!Slot /\ IsFiniteSet(slots)
        /\ time \in Nat
        /\ \A s \in slots : s.at < rev /\ s.at \in Nat
    BY DEF CircuitInv, CircuitShapes, LedgerOrdered, Circuit!Slot
  <1>2. IsFiniteSet(slots')
    BY <1>1, FS_Subset
  <1>3. \A s \in slots' : s.at < rev' /\ s.at + 1 # rev'
    BY <1>1
  <1>4. SlotsFit'
    BY <1>3 DEF SlotsFit
  <1> QED
    BY <1>1, <1>2, <1>3, <1>4, LedgerKept

\* Steps that are no mutation change neither ledger nor task.
LEMMA LedgerIdle ==
  ASSUME CircuitInv, UNCHANGED <<attempts, recoveries, held, slots, reopened, rev, progress>>,
         time' \in Nat
  PROVE  CircuitInv'
  <1>1. /\ rev \in Nat /\ slots \subseteq Circuit!Slot /\ IsFiniteSet(slots)
        /\ progress \in Progresses /\ \A s \in slots : s.at < rev
    BY DEF CircuitInv, CircuitShapes, LedgerOrdered
  <1>2. \A cmd : Circuit!Active(cmd, progress)' = Circuit!Active(cmd, progress)
    BY DEF Circuit!Active, Circuit!ActiveIn, Circuit!RecoveredAt
  <1>3. SlotsFit'
    <2> SUFFICES ASSUME NEW s \in slots', s.at + 1 = rev'
                 PROVE  /\ s.progress = progress'
                        /\ Cardinality(Circuit!Active(s.cmd, progress)') < s.window
      BY DEF SlotsFit
    <2>1. s.progress = progress /\ Cardinality(Circuit!Active(s.cmd, progress)) < s.window
      BY DEF CircuitInv, SlotsFit
    <2> QED
      BY <1>2, <2>1
  <1> QED
    BY <1>1, <1>3, LedgerKept

\* A launch finds room in its window for the failures on record.
LEMMA LaunchKeeps ==
  ASSUME CircuitInv, NEW r \in Runs, NEW cmd \in Commands, NEW w \in Windows,
         NEW length \in Lengths, Circuit!Launch(r, cmd, w, length)
  PROVE  CircuitInv'
  <1> DEFINE new == [cmd |-> cmd, progress |-> progress, window |-> w,
                     at |-> rev, expires |-> time + length]
  <1>1. /\ rev \in Nat /\ time \in Nat /\ progress \in Progresses
        /\ slots \subseteq Circuit!Slot /\ IsFiniteSet(slots)
        /\ \A s \in slots : s.at < rev /\ s.at \in Nat
        /\ length \in Nat /\ w \in Nat
    BY CircuitAssumption DEF Circuit!RetryConstants, CircuitInv, CircuitShapes,
       LedgerOrdered, Circuit!Slot
  <1>2. /\ slots' = Circuit!SlotsAfterCleanup \union {new}
        /\ UNCHANGED <<attempts, recoveries, held, reopened, progress, time>>
        /\ rev' = rev + 1 /\ Circuit!Used(cmd) < w
    BY DEF Circuit!Launch, Circuit!Mutation
  <1>3. Circuit!SlotsAfterCleanup \subseteq slots
    BY DEF Circuit!SlotsAfterCleanup, Circuit!LiveSlots
  <1>4. new \in Circuit!Slot
    <2>1. PICK limit \in Nat : limit = time + length
      BY <1>1
    <2> QED
      BY <1>1, <2>1 DEF Circuit!Slot
  <1>5. slots' \subseteq Circuit!Slot /\ IsFiniteSet(slots')
    BY <1>1, <1>2, <1>3, <1>4, FS_Subset, FS_AddElement
  <1>6. Cardinality(Circuit!Active(cmd, progress)) < w
    <2> DEFINE others == {s \in Circuit!SlotsAfterCleanup : s.cmd = cmd /\ s.progress = progress}
    <2>1. Cardinality(others) \in Nat
      BY <1>1, <1>3, FS_Subset, FS_CardinalityType
    <2>2. Circuit!Used(cmd) = Cardinality(Circuit!Active(cmd, progress)) + Cardinality(others)
      BY CircuitCardinality DEF Circuit!Used
    <2>3. Cardinality(Circuit!Active(cmd, progress)) \in Nat
      BY SeriesFinite DEF CircuitInv
    <2> QED
      BY <1>1, <1>2, <2>1, <2>2, <2>3
  <1>7. new.at = rev /\ new.progress = progress /\ new.cmd = cmd /\ new.window = w
    OBVIOUS
  <1> HIDE DEF new
  <1>8. \A c \in Commands : Circuit!Active(c, progress)' = Circuit!Active(c, progress)
    BY <1>2 DEF Circuit!Active, Circuit!ActiveIn, Circuit!RecoveredAt
  <1>9. \A s \in slots' : s.at < rev' /\ (s.at + 1 = rev' => s = new)
    BY <1>1, <1>2, <1>3, <1>7
  <1>10. SlotsFit'
    BY <1>2, <1>6, <1>7, <1>8, <1>9 DEF SlotsFit
  <1> QED
    BY <1>1, <1>2, <1>5, <1>9, <1>10, LedgerKept

\* A set of numbers with an upper bound has a greatest one.
LEMMA Greatest ==
  ASSUME NEW n \in Nat, NEW T \in SUBSET (1 .. n), T # {}
  PROVE  \E i \in T : \A j \in T : j <= i
  <1> DEFINE D == {d \in Nat : \E i \in T : d = n - i}
  <1>1. D \subseteq Nat /\ D # {}
    <2>1. PICK i \in T : i \in 1 .. n
      OBVIOUS
    <2>2. n - i \in Nat
      BY <2>1
    <2>3. n - i \in D
      BY <2>1, <2>2
    <2> QED
      BY <2>3
  <1>2. PICK d \in D : \A o \in D : ~ (<<o, d>> \in OpToRel(<, Nat))
    BY <1>1, NatLessThanWellFounded, WFMin
  <1>3. \A o \in D : ~ (o < d)
    BY <1>1, <1>2 DEF OpToRel
  <1>4. PICK i \in T : d = n - i
    BY <1>2
  <1>5. ASSUME NEW j \in T PROVE j <= i
    <2>1. j \in 1 .. n /\ i \in 1 .. n /\ n - j \in Nat
      BY <1>5
    <2>2. n - j \in D
      BY <1>5, <2>1
    <2>3. ~ (n - j < n - i)
      BY <1>3, <1>4, <2>2
    <2> QED
      BY <2>1, <2>3
  <1> QED
    BY <1>5

\* A bounded history that grew by an entry: its newest entries, in their order, of
\* which k older ones have left.
KeptFrom(kept, log, e, k) ==
    /\ Len(kept) + k = Len(log) + 1
    /\ \A i \in 1 .. Len(kept) :
          /\ i + k \in 1 .. Len(log) + 1
          /\ i + k = Len(log) + 1 => kept[i] = e
          /\ i + k # Len(log) + 1 => kept[i] = log[i + k]

\* Keep drops entries from the front.
LEMMA KeptEntries ==
  ASSUME NEW S, NEW log \in Seq(S), NEW e \in S, NEW n \in Nat \ {0},
         NEW kept, kept = Circuit!Keep(Append(log, e), n)
  PROVE  kept \in Seq(S) /\ \E k \in Nat : KeptFrom(kept, log, e, k)
  <1> DEFINE new == Append(log, e)
  <1>1. /\ new \in Seq(S) /\ Len(new) = Len(log) + 1 /\ Len(log) \in Nat
        /\ new[Len(log) + 1] = e /\ \A i \in 1 .. Len(log) : new[i] = log[i]
        /\ \A i \in 1 .. Len(log) + 1 : new[i] \in S
    OBVIOUS
  <1> HIDE DEF new
  <1>2. kept = IF Len(new) <= n THEN new ELSE SubSeq(new, Len(new) - n + 1, Len(new))
    BY DEF new, Circuit!Keep
  <1>3. CASE Len(new) <= n
    <2>1. kept = new
      BY <1>2, <1>3
    <2>2. KeptFrom(kept, log, e, 0)
      BY <1>1, <2>1 DEF KeptFrom
    <2> QED
      BY <1>1, <2>1, <2>2
  <1>4. CASE ~ (Len(new) <= n)
    <2>1. PICK k \in Nat : k = Len(new) - n
      BY <1>1, <1>4
    <2>2. kept = SubSeq(new, k + 1, Len(new))
      BY <1>2, <1>4, <2>1
    <2>3. /\ kept \in Seq(S) /\ Len(kept) = Len(new) - k
          /\ \A i \in 1 .. Len(kept) : kept[i] = new[i + k]
      BY <1>1, <2>1, <2>2
    <2>4. \A i \in 1 .. Len(kept) : i + k \in 1 .. Len(log) + 1
      BY <1>1, <2>1, <2>3
    <2>5. ASSUME NEW i \in 1 .. Len(kept)
          PROVE  /\ i + k = Len(log) + 1 => kept[i] = e
                 /\ i + k # Len(log) + 1 => kept[i] = log[i + k]
      <3>1. kept[i] = new[i + k] /\ i + k \in 1 .. Len(log) + 1
        BY <2>3, <2>4
      <3>2. i + k # Len(log) + 1 => i + k \in 1 .. Len(log)
        BY <1>1, <3>1
      <3> QED
        BY <1>1, <3>1, <3>2
    <2>6. Len(kept) + k = Len(log) + 1
      BY <1>1, <2>1, <2>3
    <2> QED
      BY <2>1, <2>3, <2>4, <2>5, <2>6 DEF KeptFrom
  <1> QED
    BY <1>3, <1>4

\* It stays in order when the entry is the newest.
LEMMA KeptOrder ==
  ASSUME NEW S, \A x \in S : x.at \in Nat,
         NEW log \in Seq(S), NEW e \in S, NEW n \in Nat \ {0},
         NEW kept, kept = Circuit!Keep(Append(log, e), n),
         Circuit!Ascending(log), \A i \in 1 .. Len(log) : log[i].at < e.at
  PROVE  /\ kept \in Seq(S) /\ Circuit!Ascending(kept)
         /\ \A i \in 1 .. Len(kept) : kept[i].at <= e.at
  <1>a. PICK k \in Nat : KeptFrom(kept, log, e, k)
    BY KeptEntries
  <1>1. /\ kept \in Seq(S) /\ Len(kept) + k = Len(log) + 1
        /\ \A i \in 1 .. Len(kept) :
              /\ i + k \in 1 .. Len(log) + 1
              /\ i + k = Len(log) + 1 => kept[i] = e
              /\ i + k # Len(log) + 1 => kept[i] = log[i + k]
    BY <1>a, KeptEntries DEF KeptFrom
  <1>2. Len(log) \in Nat /\ Len(kept) \in Nat /\ e.at \in Nat
        /\ \A i \in 1 .. Len(log) : log[i] \in S
    BY <1>1
  <1>3. \A i \in 1 .. Len(log) : log[i].at \in Nat
    BY <1>2
  <1>4. ASSUME NEW i \in 1 .. Len(kept), NEW j \in 1 .. Len(kept), i < j
        PROVE  kept[i].at < kept[j].at
    <2>1. /\ i + k \in 1 .. Len(log) /\ i + k # Len(log) + 1 /\ kept[i] = log[i + k]
      BY <1>1, <1>2, <1>4
    <2>2. CASE j + k = Len(log) + 1
      BY <1>1, <2>1, <2>2
    <2>3. CASE j + k # Len(log) + 1
      <3>a. j + k \in 1 .. Len(log) + 1 /\ kept[j] = log[j + k]
        BY <1>1, <2>3
      <3>b. j \in Nat /\ i \in Nat
        BY <1>2
      <3>1. j + k \in 1 .. Len(log) /\ kept[j] = log[j + k] /\ i + k < j + k
        BY <1>2, <1>4, <2>3, <3>a, <3>b
      <3> QED
        BY <2>1, <3>1 DEF Circuit!Ascending
    <2> QED
      BY <2>2, <2>3
  <1>5. ASSUME NEW i \in 1 .. Len(kept) PROVE kept[i].at <= e.at
    <2>1. CASE i + k = Len(log) + 1
      BY <1>1, <1>2, <2>1
    <2>2. CASE i + k # Len(log) + 1
      <3>1. i + k \in 1 .. Len(log) /\ kept[i] = log[i + k]
        BY <1>1, <1>2, <2>2
      <3> QED
        BY <1>2, <1>3, <3>1
    <2> QED
      BY <2>1, <2>2
  <1> QED
    BY <1>1, <1>4, <1>5 DEF Circuit!Ascending

\* What a new failure adds to the series: itself, to its own and to no other.
LEMMA SeriesGrows ==
  ASSUME CircuitShapes, NEW e \in Circuit!Attempt, NEW kept,
         kept = Circuit!Keep(Append(attempts, e), MaxAttempts),
         NEW cmd, NEW digest,
         NEW before, before = Circuit!Active(cmd, digest),
         NEW after, after = Circuit!ActiveIn(kept, cmd, digest)
  PROVE  /\ IsFiniteSet(after) /\ Cardinality(after) \in Nat
         /\ (e.cmd = cmd /\ e.progress = digest) =>
               Cardinality(after) <= Cardinality(before) + 1
         /\ ~ (e.cmd = cmd /\ e.progress = digest) =>
               Cardinality(after) <= Cardinality(before)
         /\ \A i \in after :
               \/ kept[i] = e /\ e.cmd = cmd /\ e.progress = digest
               \/ \E j \in before : kept[i] = attempts[j]
  <1>1. /\ attempts \in Seq(Circuit!Attempt) /\ MaxAttempts \in Nat \ {0}
        /\ Len(attempts) \in Nat
    BY CircuitAssumption DEF Circuit!RetryConstants, CircuitShapes
  <1>a. kept \in Seq(Circuit!Attempt) /\ \E k \in Nat : KeptFrom(kept, attempts, e, k)
    BY <1>1, KeptEntries
  <1>b. PICK k \in Nat : KeptFrom(kept, attempts, e, k)
    BY <1>a
  <1>2. /\ kept \in Seq(Circuit!Attempt) /\ Len(kept) + k = Len(attempts) + 1
        /\ \A i \in 1 .. Len(kept) :
              /\ i + k \in 1 .. Len(attempts) + 1
              /\ i + k = Len(attempts) + 1 => kept[i] = e
              /\ i + k # Len(attempts) + 1 => kept[i] = attempts[i + k]
    BY <1>a, <1>b DEF KeptFrom
  <1>3. after \subseteq 1 .. Len(kept) /\ Len(kept) \in Nat
        /\ before \subseteq 1 .. Len(attempts)
        /\ IsFiniteSet(before) /\ Cardinality(before) \in Nat
    BY <1>2, SeriesFinite DEF Circuit!ActiveIn
  <1>4. IsFiniteSet(after) /\ Cardinality(after) \in Nat
    <2>1. IsFiniteSet(1 .. Len(kept))
      BY <1>3, FS_Interval
    <2> QED
      BY <1>3, <2>1, FS_Subset, FS_CardinalityType
  <1>5. ASSUME NEW i \in after
        PROVE  \/ /\ i + k = Len(attempts) + 1 /\ kept[i] = e
                  /\ e.cmd = cmd /\ e.progress = digest
               \/ i + k \in before /\ kept[i] = attempts[i + k]
    <2>1. /\ i \in 1 .. Len(kept) /\ kept[i].cmd = cmd /\ kept[i].progress = digest
          /\ kept[i].at > Circuit!RecoveredAt(cmd, digest)
      BY DEF Circuit!ActiveIn
    <2>2. CASE i + k = Len(attempts) + 1
      BY <1>2, <2>1, <2>2
    <2>3. CASE i + k # Len(attempts) + 1
      <3>1. kept[i] = attempts[i + k] /\ i + k \in 1 .. Len(attempts)
        BY <1>1, <1>2, <2>1, <2>3
      <3> QED
        BY <2>1, <3>1 DEF Circuit!Active, Circuit!ActiveIn
    <2> QED
      BY <2>2, <2>3
  <1>6. ASSUME NEW T, IsFiniteSet(T), \A i \in after : i + k \in T
        PROVE  Cardinality(after) <= Cardinality(T)
    <2>1. [i \in after |-> i + k] \in Injection(after, T)
      BY <1>3, <1>6 DEF Injection, IsInjective
    <2> QED
      BY <1>6, <2>1, FS_Injection
  <1>7. IsFiniteSet(before \union {Len(attempts) + 1})
        /\ Cardinality(before \union {Len(attempts) + 1}) = Cardinality(before) + 1
    <2>1. Len(attempts) + 1 \notin before
      BY <1>1, <1>3
    <2> QED
      BY <1>3, <2>1, FS_AddElement
  <1>8. Cardinality(after) <= Cardinality(before) + 1
    BY <1>5, <1>6, <1>7
  <1>9. ~ (e.cmd = cmd /\ e.progress = digest) => Cardinality(after) <= Cardinality(before)
    BY <1>3, <1>5, <1>6
  <1>10. \A i \in after :
            \/ kept[i] = e /\ e.cmd = cmd /\ e.progress = digest
            \/ \E j \in before : kept[i] = attempts[j]
    BY <1>5
  <1> QED
    BY <1>4, <1>8, <1>9, <1>10

\* The failures of a series that a new one joins asked for its window.
LEMMA WindowShared ==
  ASSUME CircuitInv, ~ reopened, NEW cmd \in Commands, NEW w,
         Circuit!SameWindow(cmd, w), NEW j \in Circuit!Active(cmd, progress)
  PROVE  attempts[j].window = w
  <1> DEFINE series == Circuit!Active(cmd, progress)
  <1>1. /\ series \subseteq 1 .. Len(attempts) /\ Len(attempts) \in Nat
        /\ progress \in Progresses
    BY SeriesFinite DEF CircuitInv, CircuitShapes
  <1>2. PICK i \in series : \A o \in series : o <= i
    BY <1>1, Greatest
  <1>3. attempts[i].window = w
    BY <1>2 DEF Circuit!SameWindow
  <1>4. attempts[i].window = attempts[j].window
    BY <1>1, <1>2 DEF CircuitInv, SeriesUniform
  <1> QED
    BY <1>3, <1>4

\* A failure joins its series within the window, and a hold is backed by the failures
\* that are kept.
LEMMA FailureKeeps ==
  ASSUME CircuitInv, NEW r \in Runs, Circuit!ResolveFailure(r)
  PROVE  CircuitInv'
  <1>1. PICK s \in Circuit!OwnSlot(r) :
           /\ Circuit!Recordable(s)
           /\ attempts' = Circuit!NewLog(s.cmd, s.window)
           /\ held' = Circuit!NewHold(s.cmd, s.window)
    BY DEF Circuit!ResolveFailure
  <1>2. /\ rev' = rev + 1 /\ UNCHANGED <<progress, recoveries, reopened, time>>
        /\ slots' \subseteq slots /\ s \in slots /\ s.at + 1 = rev
    BY DEF Circuit!ResolveFailure, Circuit!Mutation, Circuit!Resolvable, Circuit!OwnSlot
  <1>3. /\ CircuitShapes /\ rev \in Nat /\ time \in Nat /\ progress \in Progresses
        /\ s \in Circuit!Slot /\ s.cmd \in Commands /\ s.window \in Windows
        /\ s.window \in Nat /\ MaxAttempts \in Nat \ {0}
        /\ \A o \in slots : o.at < rev /\ o.at \in Nat
    BY <1>2, CircuitAssumption DEF Circuit!RetryConstants, CircuitInv, CircuitShapes,
       LedgerOrdered, Circuit!Slot
  <1>4. PICK e : e = Circuit!NewAttempt(s.cmd, s.window)
    OBVIOUS
  <1>5. /\ e \in Circuit!Attempt /\ e.cmd = s.cmd /\ e.progress = progress
        /\ e.at = rev /\ e.window = s.window
    BY <1>3, <1>4 DEF Circuit!NewAttempt, Circuit!Attempt
  <1>6. PICK kept : kept = attempts'
    OBVIOUS
  <1>7. kept = Circuit!Keep(Append(attempts, e), MaxAttempts)
    BY <1>1, <1>4, <1>6 DEF Circuit!NewLog
  <1>8. \A o \in Circuit!Attempt : o.at \in Nat
    BY DEF Circuit!Attempt
  <1>9. /\ attempts \in Seq(Circuit!Attempt) /\ Circuit!Ascending(attempts)
        /\ \A i \in 1 .. Len(attempts) : attempts[i].at < e.at
    BY <1>5 DEF CircuitInv, CircuitShapes, LedgerOrdered
  <1>10. /\ kept \in Seq(Circuit!Attempt) /\ Circuit!Ascending(kept)
         /\ \A i \in 1 .. Len(kept) : kept[i].at <= e.at
    BY <1>3, <1>5, <1>7, <1>8, <1>9, KeptOrder
  <1>11. CircuitShapes'
    BY <1>2, <1>3, <1>6, <1>10, FS_Subset DEF CircuitInv, CircuitShapes
  <1>12. LedgerOrdered'
    <2>1. \A i \in 1 .. Len(kept) : kept[i].at < rev + 1
      <3>1. \A i \in 1 .. Len(kept) : kept[i].at \in Nat
        BY <1>8, <1>10
      <3> QED
        BY <1>3, <1>5, <1>10, <3>1
    <2>2. /\ \A i \in 1 .. Len(recoveries) : recoveries[i].at < rev + 1
          /\ Circuit!Ascending(recoveries)
      BY <1>3, LedgerEntries DEF CircuitInv, LedgerOrdered
    <2>3. \A o \in slots' : o.at < rev + 1
      BY <1>2, <1>3
    <2> QED
      BY <1>2, <1>6, <1>10, <2>1, <2>2, <2>3 DEF LedgerOrdered, Circuit!Ascending
  <1>13. SlotsFit'
    <2>1. \A o \in slots' : o.at + 1 # rev'
      BY <1>2, <1>3
    <2> QED
      BY <2>1 DEF SlotsFit
  <1>14. Circuit!HoldBacked(held, attempts)'
    <2>1. Circuit!HoldBacked(Circuit!NewHold(s.cmd, s.window), Circuit!NewLog(s.cmd, s.window))
      BY <1>1 DEF Circuit!Recordable
    <2>2. PICK standing, stored : standing = held' /\ stored = attempts'
      OBVIOUS
    <2>3. Circuit!HoldBacked(standing, stored)
      BY <1>1, <2>1, <2>2
    <2> QED
      BY <1>2, <2>2, <2>3 DEF Circuit!HoldBacked, Circuit!ActiveIn, Circuit!RecoveredAt
  <1>15. ASSUME ~ reopened, NEW cmd \in Commands, NEW digest \in Progresses,
                NEW after, after = Circuit!ActiveIn(kept, cmd, digest), NEW i \in after
         PROVE  /\ Cardinality(after) <= kept[i].window
                /\ \A j \in after : kept[i].window = kept[j].window
    <2>1. PICK before : before = Circuit!Active(cmd, digest)
      OBVIOUS
    <2>2. /\ IsFiniteSet(after) /\ Cardinality(after) \in Nat
          /\ (e.cmd = cmd /\ e.progress = digest) =>
                Cardinality(after) <= Cardinality(before) + 1
          /\ ~ (e.cmd = cmd /\ e.progress = digest) =>
                Cardinality(after) <= Cardinality(before)
          /\ \A j \in after :
                \/ kept[j] = e /\ e.cmd = cmd /\ e.progress = digest
                \/ \E o \in before : kept[j] = attempts[o]
      BY <1>3, <1>5, <1>7, <1>15, <2>1, SeriesGrows
    <2>3. Cardinality(before) \in Nat /\ before \subseteq 1 .. Len(attempts)
      BY <1>3, <2>1, SeriesFinite
    <2>4. /\ \A o \in before : Cardinality(before) <= attempts[o].window
          /\ \A o, q \in before : attempts[o].window = attempts[q].window
      BY <1>15, <2>1 DEF CircuitInv, SeriesUniform
    <2>5. CASE e.cmd = cmd /\ e.progress = digest
      <3>1. Cardinality(before) < s.window
        BY <1>2, <1>5, <2>1, <2>5 DEF CircuitInv, SlotsFit
      <3>2. \A o \in before : attempts[o].window = s.window
        BY <1>1, <1>3, <1>5, <1>15, <2>1, <2>5, WindowShared DEF Circuit!Recordable
      <3>3. \A j \in after : kept[j].window = s.window
        BY <1>5, <2>2, <3>2
      <3> QED
        BY <1>3, <1>15, <2>2, <2>3, <2>5, <3>1, <3>3
    <2>6. CASE ~ (e.cmd = cmd /\ e.progress = digest)
      <3>1. PICK o \in before : kept[i] = attempts[o]
        BY <1>15, <2>2, <2>6
      <3>2. \A j \in after : kept[j].window = attempts[o].window
        BY <2>2, <2>4, <2>6
      <3>3. attempts[o].window \in Nat
        BY <1>3, <2>3, LedgerEntries, CircuitAssumption DEF Circuit!RetryConstants
      <3> QED
        BY <1>15, <2>2, <2>3, <2>4, <2>6, <3>1, <3>2, <3>3
    <2> QED
      BY <2>5, <2>6
  <1>16. SeriesUniform'
    <2>1. \A cmd, digest :
             Circuit!Active(cmd, digest)' = Circuit!ActiveIn(kept, cmd, digest)
      BY <1>2, <1>6 DEF Circuit!Active, Circuit!ActiveIn, Circuit!RecoveredAt
    <2> QED
      BY <1>2, <1>6, <1>15, <2>1 DEF SeriesUniform
  <1> QED
    BY <1>11, <1>12, <1>13, <1>14, <1>16 DEF CircuitInv

\* A success forgets an empty ledger, or its own slot.
LEMMA SuccessKeeps ==
  ASSUME CircuitInv, NEW r \in Runs, Circuit!ResolveSuccess(r)
  PROVE  CircuitInv'
  <1>1. rev' = rev + 1 /\ UNCHANGED <<progress, reopened, time>> /\ progress \in Progresses
    BY DEF Circuit!ResolveSuccess, Circuit!Mutation, CircuitInv, CircuitShapes
  <1>2. CASE attempts = <<>>
    <2>1. /\ attempts' = <<>> /\ recoveries' = <<>> /\ held' = None /\ slots' = {}
          /\ Len(attempts') = 0 /\ Len(recoveries') = 0
      BY <1>2 DEF Circuit!ResolveSuccess
    <2>2. CircuitShapes'
      BY <1>1, <2>1, FS_EmptySet DEF CircuitInv, CircuitShapes
    <2>3. \A cmd, digest : Circuit!Active(cmd, digest)' = {}
      BY <2>1 DEF Circuit!Active, Circuit!ActiveIn
    <2> QED
      BY <2>1, <2>2, <2>3 DEF CircuitInv, LedgerOrdered, Circuit!Ascending,
         Circuit!HoldBacked, SeriesUniform, SlotsFit
  <1>3. CASE attempts # <<>>
    <2>1. slots' \subseteq slots /\ UNCHANGED <<attempts, recoveries, held>>
      BY <1>3 DEF Circuit!ResolveSuccess
    <2> QED
      BY <1>1, <2>1, SlotsPassed
  <1> QED
    BY <1>2, <1>3

\* A recovery closes a series; unless one that left its history reopens another, no
\* series grows.
LEMMA RecoveryKeeps ==
  ASSUME CircuitInv, NEW cmd \in Commands, Circuit!RecoverCircuit(cmd)
  PROVE  CircuitInv'
  <1>1. PICK e : e = [cmd |-> cmd, progress |-> progress, at |-> rev]
    OBVIOUS
  <1>2. PICK kept : kept = recoveries'
    OBVIOUS
  <1>3. /\ rev' = rev + 1 /\ UNCHANGED <<progress, attempts, time>>
        /\ slots' = {} /\ held' = None
        /\ kept = Circuit!Keep(Append(recoveries, e), MaxRecoveries)
    BY <1>1, <1>2 DEF Circuit!RecoverCircuit, Circuit!Mutation
  <1>4. /\ rev \in Nat /\ MaxRecoveries \in Nat \ {0} /\ progress \in Progresses
        /\ CircuitShapes
    BY CircuitAssumption DEF Circuit!RetryConstants, CircuitInv, CircuitShapes
  <1>5. e \in Circuit!Recovery /\ e.at = rev /\ \A o \in Circuit!Recovery : o.at \in Nat
    BY <1>1, <1>4 DEF Circuit!Recovery
  <1>6. /\ recoveries \in Seq(Circuit!Recovery) /\ Circuit!Ascending(recoveries)
        /\ \A i \in 1 .. Len(recoveries) : recoveries[i].at < e.at
    BY <1>5 DEF CircuitInv, CircuitShapes, LedgerOrdered
  <1>7. /\ kept \in Seq(Circuit!Recovery) /\ Circuit!Ascending(kept)
        /\ \A i \in 1 .. Len(kept) : kept[i].at <= e.at
    BY <1>3, <1>4, <1>5, <1>6, KeptOrder
  <1>8. CircuitShapes'
    BY <1>2, <1>3, <1>4, <1>7, FS_EmptySet DEF CircuitShapes
  <1>9. LedgerOrdered'
    <2>1. \A i \in 1 .. Len(kept) : kept[i].at < rev + 1
      <3>1. \A i \in 1 .. Len(kept) : kept[i].at \in Nat
        BY <1>5, <1>7
      <3> QED
        BY <1>4, <1>5, <1>7, <3>1
    <2>2. /\ \A i \in 1 .. Len(attempts) : attempts[i].at < rev + 1
          /\ Circuit!Ascending(attempts)
      BY <1>4, LedgerEntries DEF CircuitInv, LedgerOrdered
    <2> QED
      BY <1>2, <1>3, <1>7, <2>1, <2>2 DEF LedgerOrdered, Circuit!Ascending
  <1>10. SeriesUniform'
    <2>1. ~ reopened' => ~ reopened /\ \A c \in Commands, p \in Progresses :
             Circuit!Active(c, p)' \subseteq Circuit!Active(c, p)
      BY DEF Circuit!RecoverCircuit
    <2>2. ASSUME ~ reopened', NEW c \in Commands, NEW p \in Progresses,
                 NEW i \in Circuit!Active(c, p)'
          PROVE  /\ Cardinality(Circuit!Active(c, p)') <= attempts[i].window
                 /\ \A j \in Circuit!Active(c, p)' : attempts[i].window = attempts[j].window
      <3>1. PICK before, after : before = Circuit!Active(c, p) /\ after = Circuit!Active(c, p)'
        OBVIOUS
      <3>2. after \subseteq before /\ ~ reopened /\ i \in after
        BY <2>1, <2>2, <3>1
      <3>3. IsFiniteSet(before) /\ Cardinality(before) \in Nat /\ before \subseteq 1 .. Len(attempts)
        BY <1>4, <3>1, SeriesFinite
      <3>4. Cardinality(after) <= Cardinality(before) /\ Cardinality(after) \in Nat
        BY <3>2, <3>3, FS_Subset, FS_CardinalityType
      <3>5. /\ \A o \in before : Cardinality(before) <= attempts[o].window
            /\ \A o, q \in before : attempts[o].window = attempts[q].window
        BY <2>2, <3>1, <3>2 DEF CircuitInv, SeriesUniform
      <3>6. attempts[i].window \in Nat
        BY <1>4, <3>2, <3>3, LedgerEntries, CircuitAssumption DEF Circuit!RetryConstants
      <3> QED
        BY <3>1, <3>2, <3>3, <3>4, <3>5, <3>6
    <2> QED
      BY <1>3, <2>2 DEF SeriesUniform
  <1> QED
    BY <1>3, <1>8, <1>9, <1>10 DEF CircuitInv, Circuit!HoldBacked, SlotsFit

\* The owner's other commands, and steps that are no mutation.
LEMMA OtherCircuitSteps ==
  ASSUME CircuitInv,
         \/ \E r \in Runs :
               \/ \E failed \in BOOLEAN : Circuit!ChildExit(r, failed)
               \/ Circuit!ResolveRefused(r) \/ Circuit!Journal(r) \/ Circuit!UpdateTask(r)
               \/ Circuit!UpdateRefused(r) \/ Circuit!Crash(r)
         \/ \E lease \in Leases : Circuit!Heartbeat(lease) \/ Circuit!Claim(lease)
         \/ \E p \in Progresses : Circuit!RecordProgress(p)
         \/ Circuit!RecoverExpired \/ Circuit!Release \/ Circuit!Tick
         \/ UNCHANGED Circuit!vars
  PROVE  CircuitInv'
  <1>1. time \in Nat /\ progress \in Progresses
    BY DEF CircuitInv, CircuitShapes
  <1>2. \/ /\ UNCHANGED <<attempts, recoveries, held, slots, reopened, rev, progress>>
           /\ time' = time \/ time' = time + 1
        \/ /\ UNCHANGED <<attempts, recoveries, held, reopened, time>>
           /\ rev' = rev + 1 /\ progress' \in Progresses
           /\ slots' = slots \/ slots' = {}
    BY <1>1 DEF Circuit!ChildExit, Circuit!ResolveRefused, Circuit!Journal,
       Circuit!UpdateTask, Circuit!UpdateRefused, Circuit!Crash, Circuit!Heartbeat,
       Circuit!Claim, Circuit!RecordProgress, Circuit!RecoverExpired, Circuit!Release,
       Circuit!Tick, Circuit!Mutation, Circuit!vars, Circuit!ledger, Circuit!claim
  <1>3. CASE /\ UNCHANGED <<attempts, recoveries, held, slots, reopened, rev, progress>>
             /\ time' = time \/ time' = time + 1
    <2>1. time' \in Nat
      BY <1>1, <1>3
    <2> QED
      BY <1>3, <2>1, LedgerIdle
  <1>4. CASE /\ UNCHANGED <<attempts, recoveries, held, reopened, time>>
             /\ rev' = rev + 1 /\ progress' \in Progresses
             /\ slots' = slots \/ slots' = {}
    <2>1. slots' \subseteq slots
      BY <1>4
    <2> QED
      BY <1>4, <2>1, SlotsPassed
  <1> QED
    BY <1>2, <1>3, <1>4

\* Histories, hold, series and slots agree for any number of invocations, commands and
\* fingerprints, whatever crashes, heartbeats, progress and recoveries come between the
\* mutations of a run (retry_circuit.py).
THEOREM CircuitInvariance == Circuit!Spec => []CircuitInv
  <1>1. CircuitInv /\ [Circuit!Next]_(Circuit!vars) => CircuitInv'
    BY LaunchKeeps, FailureKeeps, SuccessKeeps, RecoveryKeeps, OtherCircuitSteps
       DEF Circuit!Next, Circuit!RunStep
  <1> QED
    BY InitCircuit, <1>1, PTL DEF Circuit!Spec

\* A stored ledger validates when it is loaded again, and no series of failures without
\* durable progress outgrows its window while the recoveries that closed earlier ones
\* are on record (retry_circuit.validate, record_failure).
THEOREM LedgerSafety == Circuit!Spec => []LedgerSound
  <1>1. CircuitInv => LedgerSound
    <2> SUFFICES ASSUME CircuitInv PROVE LedgerSound
      OBVIOUS
    <2>1. Circuit!LedgerReloads
      BY DEF CircuitInv, LedgerOrdered, Circuit!LedgerReloads, Circuit!HoldBacked,
             Circuit!Active
    <2>2. Circuit!SeriesWithinWindow
      BY CircuitCardinality DEF CircuitInv, SeriesUniform, Circuit!SeriesWithinWindow
    <2> QED
      BY <2>1, <2>2 DEF LedgerSound, Circuit!LedgerSound
  <1> QED
    BY <1>1, CircuitInvariance, PTL

\* The ledger and the run that reserve and launch write.  Every variable of the circuit
\* has its next value, so such a step exists; that it is admitted is to be shown.
Launched(r, cmd, w, length) ==
    /\ slots' = {[cmd |-> cmd, progress |-> progress, window |-> w,
                  at |-> rev, expires |-> time + length]}
    /\ retired' = Circuit!RetiredAfterCleanup
    /\ wrapped' = [wrapped EXCEPT ![r] = [Circuit!Idle EXCEPT !.stage = "running",
                       !.at = rev + 1, !.deadline = time + length]]
    /\ rev' = rev + 1
    /\ UNCHANGED <<owned, until, progress, attempts, recoveries, held, time, reopened>>

\* Slots that killed runs left behind never exhaust a window: once none of them is live,
\* a command that is not held and has failures left is launched, however many elapsed
\* slots are on record.  This is CapacityReturns for every number of runs, commands and
\* windows, with the step written out that is claimed to be possible.
THEOREM CapacityWayOut ==
  ASSUME CircuitInv, NEW r \in Runs, NEW cmd \in Commands, NEW w \in Windows,
         NEW length \in Lengths,
         owned, until > time, rev < CircuitRevision, wrapped[r].stage = "idle",
         Circuit!LiveSlots = {}, cmd \notin Circuit!HeldCommands,
         Circuit!Cardinality(Circuit!Active(cmd, progress)) < w,
         Launched(r, cmd, w, length)
  PROVE  Circuit!Launch(r, cmd, w, length)
  <1>1. /\ Cardinality({}) = 0
        /\ Cardinality(Circuit!Active(cmd, progress)) \in Nat
    BY FS_EmptySet, SeriesFinite DEF CircuitInv
  <1>2. /\ {s \in Circuit!SlotsAfterCleanup : s.cmd = cmd /\ s.progress = progress} = {}
        /\ Circuit!SlotsAfterCleanup = {}
    BY DEF Circuit!SlotsAfterCleanup
  <1>3. Circuit!Used(cmd) < w
    BY <1>1, <1>2, CircuitCardinality DEF Circuit!Used
  <1>4. Circuit!Cardinality(Circuit!SlotsAfterCleanup) < MaxSlots
    BY <1>1, <1>2, CircuitCardinality, CircuitAssumption DEF Circuit!RetryConstants
  <1>5. Circuit!Mutation
    BY DEF Launched, Circuit!Mutation
  <1> QED
    BY <1>2, <1>3, <1>4, <1>5 DEF Launched, Circuit!Launch, Circuit!claim

-----------------------------------------------------------------------------
(* The evidence a task is completed on.                                      *)

\* A cycle as far as the proof needs it, and what its delta covers.
Cycles ==
    [last : {"baseline", "rescope", "delta", "explain"},
     entries : [Paths -> Done!Entry \union {None}], head : Done!Tree,
     changed : SUBSET Paths, differs : SUBSET Paths, explained : SUBSET Paths,
     length : Nat]
Covered(cycle) ==
    cycle.last \in {"delta", "explain"} => cycle.differs \subseteq cycle.changed

\* Files and paths have versions.
EvidenceShapes ==
    /\ file \in [Done!Files -> Done!Versions]
    /\ work \in Done!Tree /\ head.tree \in Done!Tree

\* A ledger belongs to a bound spec and is for a file that was there.
LedgerBound ==
    evidence # None => spec # 0 /\ evidence.cand \in Done!Binding(Candidates)

DriftCovered == drift # None => drift \in Cycles /\ Covered(drift)

EvidenceInv == EvidenceShapes /\ LedgerBound /\ DriftCovered

\* At first there is no ledger and no cycle, and everything has its first version.
LEMMA InitEvidence == Done!Init => EvidenceInv
  <1> SUFFICES ASSUME Done!Init PROVE EvidenceInv
    OBVIOUS
  <1>1. 1 \in Done!Versions
    BY EvidenceAssumption DEF Done!Versions
  <1>2. head.tree = work
    BY DEF Done!Init
  <1>3. EvidenceShapes
    BY <1>1, <1>2 DEF Done!Init, EvidenceShapes, Done!Tree
  <1> QED
    BY <1>3 DEF Done!Init, EvidenceInv, LedgerBound, DriftCovered

\* What git status shows of a path is an entry, or nothing where the worktree has what
\* was committed.
LEMMA StatusTypes ==
  ASSUME EvidenceShapes, NEW p \in Paths
  PROVE  /\ Done!Status(p) \in Done!Entry \union {None}
         /\ Done!Status(p) = None <=> work[p] = head.tree[p]
         /\ Done!Status(p) # None => Done!Status(p).content = work[p]
  <1>1. work[p] \in Done!Versions
    BY DEF EvidenceShapes, Done!Tree
  <1>2. CASE work[p] = head.tree[p]
    BY <1>2 DEF Done!Status
  <1>3. CASE work[p] # head.tree[p]
    <2>1. Done!Status(p) \in Done!Entry /\ Done!Status(p).content = work[p]
      BY <1>1, <1>3 DEF Done!Status, Done!Entry
    <2> QED
      BY <1>3, <2>1, EvidenceAssumption
  <1> QED
    BY <1>2, <1>3

\* A path whose content is another one than at the baseline is in the delta, whether it
\* was committed since or not (change_drift.delta).
LEMMA DeltaCovers ==
  ASSUME EvidenceShapes, NEW cycle \in Cycles
  PROVE  Done!Differs(cycle) \subseteq Done!Delta(cycle)
  <1> SUFFICES ASSUME NEW p \in Paths, p \in Done!Differs(cycle)
               PROVE  p \in Done!Delta(cycle)
    BY DEF Done!Differs
  <1>1. /\ work[p] # Done!Before(cycle, p)
        /\ ~ (cycle.entries[p] # None /\ work[p] = head.tree[p]
                                      /\ head.tree[p] = cycle.head[p])
    BY DEF Done!Differs
  <1>2. CASE Done!Status(p) # None
    <2>1. Done!Status(p) # cycle.entries[p]
      BY <1>1, <1>2, StatusTypes DEF Done!Before
    <2> QED
      BY <1>2, <2>1 DEF Done!Delta
  <1>3. CASE Done!Status(p) = None
    <2>1. work[p] = head.tree[p]
      BY <1>3, StatusTypes
    <2>2. head.tree[p] # cycle.head[p]
      BY <1>1, <2>1 DEF Done!Before
    <2>3. cycle.entries[p] # None => cycle.entries[p].content # work[p]
      BY <1>1 DEF Done!Before
    <2> QED
      BY <2>2, <2>3 DEF Done!Delta
  <1> QED
    BY <1>2, <1>3

\* A command leaves files and paths alone, and the cycle unless it is about drift.
LEMMA RecordsKept ==
  ASSUME EvidenceInv, UNCHANGED <<file, work, head, drift>>, LedgerBound'
  PROVE  EvidenceInv'
  BY DEF EvidenceInv, EvidenceShapes, DriftCovered, Covered

\* A ledger is written for the candidate as it is, and for a bound spec.
LEMMA LedgerSteps ==
  ASSUME EvidenceInv,
         NEW p \in Predicates, NEW k \in Candidates, NEW e \in Proofs,
         NEW class \in Done!Class,
         \/ \E reopen \in BOOLEAN : Done!AcceptPredicate(p, k, e, class, reopen)
         \/ Done!Repair(p, k, e, class)
  PROVE  EvidenceInv'
  <1>1. /\ UNCHANGED <<file, work, head, drift, spec>> /\ spec # 0 /\ file[k] # 0
        /\ evidence'.cand = Done!Taken(k)
    <2>1. CASE \E reopen \in BOOLEAN : Done!AcceptPredicate(p, k, e, class, reopen)
      BY <2>1 DEF Done!AcceptPredicate, Done!world
    <2>2. CASE Done!Repair(p, k, e, class)
      <3>1. evidence # None /\ UNCHANGED <<file, work, head, drift, spec>> /\ file[k] # 0
        BY <2>2 DEF Done!Repair, Done!world
      <3>2. PICK rows : evidence' = [cand |-> Done!Taken(k), rows |-> rows]
        BY <2>2 DEF Done!Repair
      <3> QED
        BY <3>1, <3>2 DEF EvidenceInv, LedgerBound
    <2> QED
      BY <2>1, <2>2
  <1>2. Done!Taken(k) \in Done!Binding(Candidates)
    <2>1. k \in Done!Files
      BY DEF Done!Files
    <2> QED
      BY <1>1, <2>1 DEF Done!Taken, Done!Binding, EvidenceInv, EvidenceShapes
  <1> QED
    BY <1>1, <1>2, RecordsKept DEF LedgerBound

\* A cycle opens with nothing found, and what its delta finds is what it must explain.
LEMMA DriftSteps ==
  ASSUME EvidenceInv,
         \/ Done!Baseline \/ Done!Rescope \/ Done!TakeDelta
         \/ \E ps \in SUBSET Paths : Done!Explain(ps)
  PROVE  EvidenceInv'
  <1>1. UNCHANGED <<file, work, head, evidence, spec>>
    BY DEF Done!Baseline, Done!Rescope, Done!TakeDelta, Done!Explain, Done!DriftStep,
           Done!world
  <1>2. EvidenceShapes /\ EvidenceShapes' /\ LedgerBound'
    BY <1>1 DEF EvidenceInv, EvidenceShapes, LedgerBound
  <1>3. CASE Done!Baseline
    <2>1. [p \in Paths |-> Done!Status(p)] \in [Paths -> Done!Entry \union {None}]
      BY <1>2, StatusTypes
    <2>2. drift' \in Cycles /\ drift'.last = "baseline"
      BY <1>2, <1>3, <2>1 DEF Done!Baseline, Cycles, EvidenceShapes
    <2> QED
      BY <1>2, <2>2 DEF EvidenceInv, DriftCovered, Covered
  <1>4. CASE ~ Done!Baseline
    <2>1. drift # None /\ drift \in Cycles /\ Covered(drift) /\ drift.length \in Nat
      BY <1>4 DEF Done!Rescope, Done!TakeDelta, Done!Explain, Done!Extends, EvidenceInv,
                  DriftCovered, Cycles
    <2>2. PICK longer \in Nat : longer = drift.length + 1
      BY <2>1
    <2>3. CASE Done!Rescope
      <3>1. drift' = [drift EXCEPT !.last = "rescope", !.length = longer]
        BY <2>2, <2>3 DEF Done!Rescope
      <3>2. drift' \in Cycles /\ drift'.last = "rescope"
        BY <2>1, <3>1 DEF Cycles
      <3> QED
        BY <1>2, <3>2 DEF EvidenceInv, DriftCovered, Covered
    <2>4. CASE Done!TakeDelta
      <3>1. PICK found, other : found = Done!Delta(drift) /\ other = Done!Differs(drift)
        OBVIOUS
      <3>2. other \subseteq found /\ found \subseteq Paths
        BY <1>2, <2>1, <3>1, DeltaCovers DEF Done!Delta
      <3>3. drift' = [drift EXCEPT !.last = "delta", !.length = longer,
                                   !.changed = found, !.differs = other]
        BY <2>2, <2>4, <3>1 DEF Done!TakeDelta
      <3>4. drift' \in Cycles /\ drift'.changed = found /\ drift'.differs = other
        BY <2>1, <3>2, <3>3 DEF Cycles
      <3> QED
        BY <1>2, <2>4, <3>2, <3>4, EvidenceAssumption DEF EvidenceInv, DriftCovered, Covered
    <2>5. CASE \E ps \in SUBSET Paths : Done!Explain(ps)
      <3>1. PICK ps \in SUBSET Paths : Done!Explain(ps)
        BY <2>5
      <3>2. PICK all : all = drift.explained \union ps
        OBVIOUS
      <3>3. drift' = [drift EXCEPT !.last = "explain", !.length = longer,
                                   !.explained = all]
            /\ drift.last \in {"delta", "explain"}
        BY <2>2, <3>1, <3>2 DEF Done!Explain, Done!Extends
      <3>4. drift' \in Cycles /\ drift'.changed = drift.changed
            /\ drift'.differs = drift.differs
        BY <2>1, <3>2, <3>3 DEF Cycles
      <3> QED
        BY <1>2, <2>1, <3>3, <3>4 DEF EvidenceInv, DriftCovered, Covered
    <2> QED
      BY <1>4, <2>3, <2>4, <2>5
  <1> QED
    BY <1>3, <1>4

\* The other commands write neither the ledger nor the cycle, and a bound spec stays
\* bound.
LEMMA OtherCommands ==
  ASSUME EvidenceInv,
         \/ Done!Claim \/ Done!Checkpoint \/ Done!BindSpec
         \/ \E to \in {"open", "done"} : Done!Release(to)
         \/ \E s \in saved : Done!Rollback(s)
         \/ \E class \in Done!Class : Done!Accept(class)
         \/ \E a \in Assumptions :
               \/ \E kind \in {"base", "dependency", "observation"}, material \in BOOLEAN :
                     Done!Declare(a, kind, material)
               \/ \E disposes \in BOOLEAN : Done!FollowUp(a, disposes)
  PROVE  EvidenceInv'
  <1>1. /\ UNCHANGED <<file, work, head, drift, evidence>>
        /\ spec # 0 => spec' # 0
    BY DEF Done!Claim, Done!Checkpoint, Done!BindSpec, Done!Release, Done!Rollback,
           Done!Accept, Done!Declare, Done!FollowUp, Done!AssumptionStep, Done!world,
           Done!records
  <1> QED
    BY <1>1, RecordsKept DEF EvidenceInv, LedgerBound

\* Whatever changes around the task has versions again; no record follows it.
LEMMA WorldSteps ==
  ASSUME EvidenceInv, Done!World \/ UNCHANGED Done!vars
  PROVE  EvidenceInv'
  <1>1. UNCHANGED <<spec, evidence, drift>>
    BY DEF Done!World, Done!EditFile, Done!EditSpec, Done!EditPolicy, Done!EditPath,
           Done!CommitPaths, Done!AdvanceDependency, Done!Outside, Done!records, Done!vars
  <1>2. EvidenceShapes
    BY DEF EvidenceInv
  <1>3. EvidenceShapes'
    <2>1. CASE \E r \in Done!Files, v \in Done!Versions : Done!EditFile(r, v)
      BY <1>2, <2>1 DEF Done!EditFile, EvidenceShapes
    <2>2. CASE \E p \in Paths, v \in Done!Versions : Done!EditPath(p, v)
      BY <1>2, <2>2 DEF Done!EditPath, EvidenceShapes, Done!Tree
    <2>3. CASE \E ps \in SUBSET Paths : Done!CommitPaths(ps)
      BY <1>2, <2>3 DEF Done!CommitPaths, EvidenceShapes, Done!Tree
    <2>4. CASE UNCHANGED <<file, work, head>>
      BY <1>2, <2>4 DEF EvidenceShapes
    <2> QED
      BY <2>1, <2>2, <2>3, <2>4 DEF Done!World, Done!EditSpec, Done!EditPolicy,
         Done!AdvanceDependency, Done!vars
  <1> QED
    BY <1>1, <1>3 DEF EvidenceInv, LedgerBound, DriftCovered, Covered

\* Ledger, cycle and spec agree, whatever is edited, committed, reopened, rolled back or
\* repaired in between (predicate_ledger.py, predicate_ledger_repair.py, change_drift.py).
THEOREM EvidenceInvariance == Done!Spec => []EvidenceInv
  <1>1. EvidenceInv /\ [Done!Next]_(Done!vars) => EvidenceInv'
    BY LedgerSteps, DriftSteps, OtherCommands, WorldSteps DEF Done!Next, Done!Command
  <1> QED
    BY InitEvidence, <1>1, PTL DEF Done!Spec

\* A task is closed by a release that was admitted, and by nothing else.
LEMMA ClosesAdmitted ==
  ASSUME Done!Next, Done!Closes
  PROVE  Done!DoneAdmitted
  <1>1. CASE Done!World
    BY <1>1 DEF Done!World, Done!EditFile, Done!EditSpec, Done!EditPolicy, Done!EditPath,
           Done!CommitPaths, Done!AdvanceDependency, Done!Outside, Done!Closes
  <1>2. CASE Done!Command
    BY <1>2 DEF Done!Command, Done!Closes, Done!Claim, Done!Checkpoint, Done!BindSpec,
       Done!Release, Done!Rollback, Done!Active, Done!Accept, Done!AcceptPredicate,
       Done!Repair, Done!Baseline, Done!Rescope, Done!TakeDelta, Done!Explain,
       Done!DriftStep, Done!Declare, Done!FollowUp, Done!AssumptionStep
  <1> QED
    BY <1>1, <1>2 DEF Done!Next

\* A task becomes done on current evidence for one candidate, for every predicate its
\* spec declares by then, and on assumptions that still hold (require_done_admission).
THEOREM EvidenceSafety == Done!Spec => DoneIsEvidenced
  <1>1. ASSUME EvidenceInv, Done!Next, Done!Closes
        PROVE  Done!Evidenced
    <2>1. Done!Evidence(acceptance) /\ Done!Fresh(TRUE)
      BY <1>1, ClosesAdmitted DEF Done!DoneAdmitted
    <2>2. ASSUME evidence # None
          PROVE  \E cand \in Done!Binding(Candidates) :
                    /\ Done!Current(cand)
                    /\ \A p \in specFile.predicates :
                          \E r \in evidence.rows :
                             /\ r.pass /\ r.pred = p /\ r.cand = cand
                             /\ Done!Current(r.proof)
      <3>1. evidence.cand \in Done!Binding(Candidates) /\ spec # 0
        BY <1>1, <2>2 DEF EvidenceInv, LedgerBound
      <3>2. Done!LedgerValid(evidence) /\ Done!Unmet = {}
        BY <2>1, <2>2, <3>1 DEF Done!Evidence
      <3>3. ASSUME NEW p \in specFile.predicates
            PROVE  \E r \in evidence.rows :
                      /\ r.pass /\ r.pred = p /\ r.cand = evidence.cand
                      /\ Done!Current(r.proof)
        <4>1. PICK r \in evidence.rows : r.pass /\ r.pred = p
          BY <3>2, <3>3 DEF Done!Unmet
        <4>2. r.cand = evidence.cand /\ Done!Current(r.proof)
          BY <2>2, <3>2, <4>1 DEF Done!LedgerValid
        <4> QED
          BY <4>1, <4>2
      <3> QED
        BY <2>2, <3>1, <3>2, <3>3 DEF Done!LedgerValid
    <2>3. ASSUME NEW a \in Assumptions, assumption[a] # None, assumption[a].material,
                 ~ assumption[a].disposed
          PROVE  assumption[a].binding = Done!Observed(assumption[a].kind)
      BY <2>1, <2>3 DEF Done!Fresh
    <2> QED
      BY <2>2, <2>3 DEF Done!Evidenced
  <1>2. EvidenceInv /\ [Done!Next]_(Done!vars)
           => [Done!Closes => Done!Evidenced]_(Done!vars)
    BY <1>1
  <1> QED
    BY <1>2, EvidenceInvariance, PTL DEF Done!Spec, DoneIsEvidenced, Done!DoneIsEvidenced

\* A task that took a baseline becomes done with every change of content explained,
\* committed or not (change_drift.delta, completion_error).
THEOREM DriftSafety == Done!Spec => ChangesExplained
  <1>1. ASSUME EvidenceInv, Done!Next, Done!Closes, drift # None
        PROVE  drift.differs \subseteq drift.explained
    <2>1. Done!CycleComplete(drift)
      BY <1>1, ClosesAdmitted DEF Done!DoneAdmitted
    <2> QED
      BY <1>1, <2>1 DEF Done!CycleComplete, EvidenceInv, DriftCovered, Covered
  <1>2. EvidenceInv /\ [Done!Next]_(Done!vars)
           => [Done!Closes /\ drift # None => drift.differs \subseteq drift.explained]_(Done!vars)
    BY <1>1
  <1> QED
    BY <1>2, EvidenceInvariance, PTL DEF Done!Spec, ChangesExplained, Done!ChangesExplained

=============================================================================
