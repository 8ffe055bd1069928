-------------------------- MODULE AuthorityProofs --------------------------
(***************************************************************************)
(* Both authorities implement the revision log: every behaviour of         *)
(* GitAuthority, read through its settled files, and every behaviour of    *)
(* SqliteAuthority, read through its tables, is one of RevisionLog.  What  *)
(* is derived from them keeps up: Git's head and the exported views.       *)
(***************************************************************************)
EXTENDS MCAuthorities, TLAPS

-----------------------------------------------------------------------------
(* The Git authority.                                                        *)

\* The part of the state the argument is about: the files, the snapshot and
\* the holder's change.
Files ==
    /\ treeRev \in [Tasks -> Nat] /\ treeBody \in [Tasks -> Seq(Entries)]
    /\ beforeRev \in [Tasks -> Nat] /\ beforeBody \in [Tasks -> Seq(Entries)]
    /\ lock \in Writers \cup {None} /\ stage \in Stages
    /\ touched \in SUBSET Tasks /\ entry \in Entries \cup {None}

\* The files one change after the snapshot.
AdvancedRev ==
    [t \in Tasks |-> IF t \in touched THEN beforeRev[t] + 1 ELSE beforeRev[t]]
AdvancedBody ==
    [t \in Tasks |-> IF t \in touched /\ ~ Scanning
                     THEN Append(beforeBody[t], entry) ELSE beforeBody[t]]

\* While a holder can still restore, its snapshot is the files it found, and
\* the files it wrote are one change after it.
SnapshotSound ==
    /\ lock = None => stage = "free"
    /\ stage = "loaded" => beforeRev = treeRev /\ beforeBody = treeBody
    /\ stage = "written" => treeRev = AdvancedRev /\ treeBody = AdvancedBody
    /\ stage # "free" /\ ~ Scanning => \E t \in Tasks : touched = {t}

Inv == Files /\ SnapshotSound

\* The first files have their shapes and no holder has written.
LEMMA InitInv == Init => Inv
  BY DEF Init, Inv, Files, SnapshotSound, Scanning, Stages

\* Every step keeps the shapes of the files and of the snapshot.
LEMMA StepFiles ==
  ASSUME Files, [Next]_vars
  PROVE  Files'
  <1> USE DEF Files, tree, head, before, Unlock, Stages
  <1>1. ASSUME NEW w \in Writers, NEW S \in SUBSET Tasks,
               NEW e \in Entries \cup {None}, Begin(w, S, e)
        PROVE  Files'
    BY <1>1 DEF Begin, TakeSnapshot
  <1>2. CASE Write
    <2>1. treeRev' \in [Tasks -> Nat]
      BY <1>2 DEF Write
    <2>2. treeBody' \in [Tasks -> Seq(Entries)]
      BY <1>2 DEF Write, Scanning
    <2> QED
      BY <1>2, <2>1, <2>2 DEF Write
  <1>3. CASE Restore \/ CommitTimeout
    BY <1>3 DEF Restore, CommitTimeout, PutBack
  <1>4. CASE Refuse \/ Commit \/ LeavePending \/ Finish \/ Crash
    BY <1>4 DEF Refuse, Commit, LeavePending, Finish, Crash
  <1>5. CASE UNCHANGED vars
    BY <1>5 DEF vars
  <1> QED
    BY <1>1, <1>2, <1>3, <1>4, <1>5 DEF Next, BeginMutation, BeginReconcile

\* Taking the lock takes the snapshot, writing advances the files by the one
\* change of the holder, and releasing the lock ends the holder's claim.
LEMMA StepSnapshot ==
  ASSUME Inv, [Next]_vars
  PROVE  SnapshotSound'
  <1> USE DEF Inv, Files, tree, head, before, Stages
  <1>a. None \notin Writers /\ None \notin Entries
    BY GitAssumption
  <1>1. ASSUME NEW w \in Writers, NEW t \in Tasks, NEW e \in Entries,
               BeginMutation(w, t, e)
        PROVE  SnapshotSound'
    BY <1>1, <1>a
    DEF BeginMutation, Begin, TakeSnapshot, SnapshotSound, Scanning
  <1>2. ASSUME NEW w \in Writers, NEW S \in SUBSET Tasks, BeginReconcile(w, S)
        PROVE  SnapshotSound'
    BY <1>2, <1>a
    DEF BeginReconcile, Begin, TakeSnapshot, SnapshotSound, Scanning
  <1>3. CASE Write
    <2>1. treeRev' = AdvancedRev' /\ treeBody' = AdvancedBody'
      BY <1>3 DEF Write, SnapshotSound, AdvancedRev, AdvancedBody, Scanning
    <2> QED
      BY <1>3, <2>1 DEF Write, SnapshotSound, Scanning
  <1>4. CASE Commit
    BY <1>4 DEF Commit, SnapshotSound, Scanning
  <1>5. CASE Refuse \/ Restore \/ LeavePending \/ Finish \/ CommitTimeout \/ Crash
    BY <1>5
    DEF Refuse, Restore, LeavePending, Finish, CommitTimeout, Crash, Unlock,
        SnapshotSound
  <1>6. CASE UNCHANGED vars
    BY <1>6 DEF vars, SnapshotSound, AdvancedRev, AdvancedBody, Scanning
  <1> QED
    BY <1>1, <1>2, <1>3, <1>4, <1>5, <1>6 DEF Next

\* From the snapshot to the written files is one step of the log.
LEMMA AdvanceIsLogged ==
  ASSUME Inv, stage = "written", SettledRev' = treeRev, SettledBody' = treeBody
  PROVE  Log!Next
  <1> USE DEF Inv, Files, SnapshotSound
  <1>1. SettledRev = beforeRev /\ SettledBody = beforeBody
    BY DEF SettledRev, SettledBody
  <1>2. CASE Scanning
    <2>1. SettledRev' = AdvancedRev /\ SettledBody' = beforeBody
      BY <1>2 DEF AdvancedBody
    <2>2. Log!Observe(touched)
      BY <1>1, <2>1 DEF Log!Observe, AdvancedRev
    <2> QED
      BY <2>2 DEF Log!Next
  <1>3. CASE ~ Scanning
    <2>1. PICK t \in Tasks : touched = {t}
      BY <1>3
    <2>2. entry \in Entries
      BY <1>3 DEF Scanning
    <2>3. SettledRev' = [beforeRev EXCEPT ![t] = @ + 1]
      BY <2>1 DEF AdvancedRev
    <2>4. SettledBody' = [beforeBody EXCEPT ![t] = Append(@, entry)]
      BY <1>3, <2>1 DEF AdvancedBody
    <2>5. Log!Note(t, entry)
      BY <1>1, <2>3, <2>4 DEF Log!Note
    <2> QED
      BY <2>2, <2>5 DEF Log!Next
  <1> QED
    BY <1>2, <1>3

\* A change becomes effective when the holder commits, leaves it pending or is
\* killed after writing it; no other step moves the settled files.
LEMMA StepLogs ==
  ASSUME Inv, [Next]_vars
  PROVE  [Log!Next]_<<SettledRev, SettledBody>>
  <1> USE DEF Inv, Files, tree, head, before
  <1>1. ASSUME stage = "written", Commit \/ LeavePending \/ Crash
        PROVE  Log!Next
    <2>1. SettledRev' = treeRev /\ SettledBody' = treeBody
      BY <1>1 DEF Commit, LeavePending, Crash, Unlock, SettledRev, SettledBody
    <2> QED
      BY <1>1, <2>1, AdvanceIsLogged
  <1>2. ASSUME NEW w, NEW S, NEW e, Begin(w, S, e)
        PROVE  UNCHANGED <<SettledRev, SettledBody>>
    BY <1>2 DEF Begin, SnapshotSound, SettledRev, SettledBody
  <1>3. CASE Write
    BY <1>3 DEF Write, SnapshotSound, SettledRev, SettledBody
  <1>4. CASE Restore \/ CommitTimeout
    BY <1>4 DEF Restore, CommitTimeout, PutBack, Unlock, SettledRev, SettledBody
  <1>5. CASE Refuse \/ Finish \/ (Crash /\ stage # "written")
    BY <1>5 DEF Refuse, Finish, Crash, Unlock, SettledRev, SettledBody
  <1>6. CASE UNCHANGED vars
    BY <1>6 DEF vars, SettledRev, SettledBody
  <1>7. Commit \/ LeavePending => stage = "written"
    BY DEF Commit, LeavePending
  <1> QED
    BY <1>1, <1>2, <1>3, <1>4, <1>5, <1>6, <1>7
    DEF Next, BeginMutation, BeginReconcile

\* In every reachable state the snapshot of a holder that can still restore is
\* what the files were when it took the lock.
THEOREM Invariance == Spec => []Inv
  <1>1. Inv /\ [Next]_vars => Inv'
    BY StepFiles, StepSnapshot DEF Inv
  <1> QED
    BY InitInv, <1>1, PTL DEF Spec

\* For any number of writers, tasks and crashes, even when git is killed at its
\* deadline, the Git authority never loses a note and advances a task by
\* exactly one revision per effective change.
THEOREM Linearization == Spec => Linearized
  <1>1. Init => Log!Init
    BY DEF Init, Log!Init, SettledRev, SettledBody
  <1>2. Inv /\ [Next]_vars => [Log!Next]_<<SettledRev, SettledBody>>
    BY StepLogs
  <1> QED
    BY <1>1, <1>2, Invariance, PTL DEF Spec, Linearized, Log!Spec

-----------------------------------------------------------------------------
(* Files, marker and head commit.                                            *)

HeadShape ==
    /\ headRev \in [Tasks -> Nat] /\ headBody \in [Tasks -> Seq(Entries)]
    /\ pendingRev \in [Tasks -> Nat] /\ crashes \in Nat

SettledAsHead(t) == headRev[t] = SettledRev[t] /\ headBody[t] = SettledBody[t]

\* The head commit is one the settled files have reached.
HeadReached(t) ==
    /\ headRev[t] <= SettledRev[t]
    /\ IsPrefix(headBody[t], SettledBody[t])
    /\ headRev[t] = SettledRev[t] => headBody[t] = SettledBody[t]

\* A settled file is that of the head commit or the one the marker names; a scan
\* that committed left none to the marker.
FileKnown(t) ==
    SettledAsHead(t) \/ (pendingRev[t] = SettledRev[t] /\ ~ (stage = "committed" /\ Scanning))

HeadInv ==
    /\ HeadShape
    /\ ~ timedOut => \A t \in Tasks : HeadReached(t)
    /\ crashes = 0 /\ ~ timedOut => \A t \in Tasks : FileKnown(t)

\* A sequence is a prefix of itself and of what is appended to it, and stays one.
LEMMA PrefixGrows ==
  ASSUME NEW s \in Seq(Entries), NEW u \in Seq(Entries), NEW e \in Entries
  PROVE  /\ IsPrefix(s, s)
         /\ IsPrefix(s, u) => IsPrefix(s, Append(u, e))
  <1>1. IsPrefix(s, s)
    BY DEF IsPrefix
  <1>2. ASSUME IsPrefix(s, u) PROVE IsPrefix(s, Append(u, e))
    <2>1. Len(s) <= Len(u) /\ SubSeq(s, 1, Len(s)) = SubSeq(u, 1, Len(s))
      BY <1>2 DEF IsPrefix
    <2>2. Append(u, e) \in Seq(Entries) /\ Len(Append(u, e)) = Len(u) + 1
      OBVIOUS
    <2>3. SubSeq(Append(u, e), 1, Len(s)) = SubSeq(u, 1, Len(s))
      BY <2>1, <2>2
    <2> QED
      BY <2>1, <2>2, <2>3 DEF IsPrefix
  <1> QED
    BY <1>1, <1>2

\* The first head commit holds the first files.
LEMMA InitHead == Init => HeadInv
  <1> SUFFICES ASSUME Init PROVE HeadInv
    OBVIOUS
  <1>1. HeadShape
    BY DEF Init, HeadShape
  <1>2. ASSUME NEW t \in Tasks PROVE SettledAsHead(t) /\ headBody[t] = <<>>
    BY DEF Init, SettledAsHead, SettledRev, SettledBody
  <1>3. IsPrefix(<<>>, <<>>)
    BY DEF IsPrefix
  <1>4. \A t \in Tasks : headRev[t] \in Nat
    BY <1>1 DEF HeadShape
  <1>5. \A t \in Tasks : HeadReached(t) /\ FileKnown(t)
    BY <1>2, <1>3, <1>4 DEF SettledAsHead, HeadReached, FileKnown
  <1> QED
    BY <1>1, <1>5 DEF HeadInv

\* A file that was written is the snapshot's, or one revision and at most one note
\* after it.
LEMMA WrittenFile ==
  ASSUME Inv, HeadShape, stage = "written", NEW t \in Tasks
  PROVE  /\ SettledRev[t] = beforeRev[t] /\ SettledBody[t] = beforeBody[t]
         /\ t \notin touched => treeRev[t] = beforeRev[t] /\ treeBody[t] = beforeBody[t]
         /\ t \in touched => treeRev[t] = beforeRev[t] + 1
         /\ HeadReached(t) => /\ headRev[t] <= treeRev[t]
                              /\ IsPrefix(headBody[t], treeBody[t])
                              /\ headRev[t] = treeRev[t] => headBody[t] = treeBody[t]
  <1>1. /\ Files /\ treeRev = AdvancedRev /\ treeBody = AdvancedBody
    BY DEF Inv, SnapshotSound
  <1>2. SettledRev[t] = beforeRev[t] /\ SettledBody[t] = beforeBody[t]
    BY DEF SettledRev, SettledBody
  <1>3. t \notin touched => treeRev[t] = beforeRev[t] /\ treeBody[t] = beforeBody[t]
    BY <1>1 DEF AdvancedRev, AdvancedBody
  <1>4. t \in touched => treeRev[t] = beforeRev[t] + 1
    BY <1>1 DEF AdvancedRev
  <1>5. ASSUME HeadReached(t)
        PROVE  /\ headRev[t] <= treeRev[t]
               /\ IsPrefix(headBody[t], treeBody[t])
               /\ headRev[t] = treeRev[t] => headBody[t] = treeBody[t]
    <2>1. /\ headRev[t] \in Nat /\ beforeRev[t] \in Nat /\ headRev[t] <= beforeRev[t]
          /\ headBody[t] \in Seq(Entries) /\ beforeBody[t] \in Seq(Entries)
          /\ IsPrefix(headBody[t], beforeBody[t])
          /\ headRev[t] = beforeRev[t] => headBody[t] = beforeBody[t]
      BY <1>1, <1>2, <1>5 DEF HeadReached, Files, HeadShape
    <2>2. CASE t \notin touched
      BY <1>3, <2>1, <2>2
    <2>3. CASE t \in touched
      <3>1. \/ treeBody[t] = beforeBody[t]
            \/ entry \in Entries /\ treeBody[t] = Append(beforeBody[t], entry)
        BY <1>1, <2>3 DEF AdvancedBody, Scanning, Files
      <3>2. IsPrefix(headBody[t], treeBody[t])
        BY <2>1, <3>1, PrefixGrows
      <3>3. headRev[t] < treeRev[t] /\ treeRev[t] \in Nat
        BY <1>4, <2>1, <2>3
      <3> QED
        BY <2>1, <3>2, <3>3
    <2> QED
      BY <2>2, <2>3
  <1> QED
    BY <1>2, <1>3, <1>4, <1>5

\* The head commit and the marker keep their shapes.
LEMMA StepHeadShape ==
  ASSUME Inv, HeadShape, [Next]_vars
  PROVE  HeadShape'
  <1> USE DEF HeadShape, Inv, Files, tree, head, before
  <1>1. CASE Commit \/ CommitTimeout
    BY <1>1 DEF Commit, CommitTimeout, HeadMoved
  <1>2. CASE LeavePending
    BY <1>2 DEF LeavePending
  <1>3. CASE Finish
    BY <1>3 DEF Finish, MarkerCleared
  <1>4. CASE UNCHANGED <<headRev, headBody, pendingRev>> /\ crashes' \in {crashes, crashes + 1}
    BY <1>4
  <1> QED
    BY <1>1, <1>2, <1>3, <1>4
    DEF Next, vars, BeginMutation, BeginReconcile, Begin, Refuse, Write, Restore, Crash

\* A commit covers what the holder changed and, in a scan, what the marker still
\* names: no file outside it differs from the head commit but by the marker.
LEMMA CommitKeeps ==
  ASSUME Inv, HeadInv, Commit, ~ timedOut, NEW t \in Tasks
  PROVE  HeadReached(t)' /\ (crashes = 0 => FileKnown(t)')
  <1>1. /\ stage = "written" /\ stage' = "committed"
        /\ SettledRev' = treeRev /\ SettledBody' = treeBody
        /\ UNCHANGED <<pendingRev, entry, treeRev, treeBody>>
    BY DEF Commit, SettledRev, SettledBody, tree
  <1>2. /\ treeRev[t] \in Nat /\ treeBody[t] \in Seq(Entries) /\ HeadShape
        /\ HeadReached(t) /\ (crashes = 0 => FileKnown(t))
    BY DEF Inv, Files, HeadInv
  <1>3. CASE t \in Covered
    <2>1. headRev'[t] = treeRev[t] /\ headBody'[t] = treeBody[t]
      BY <1>3 DEF Commit, HeadMoved
    <2>2. IsPrefix(treeBody[t], treeBody[t])
      BY <1>2 DEF IsPrefix
    <2> QED
      BY <1>1, <1>2, <2>1, <2>2 DEF HeadReached, FileKnown, SettledAsHead
  <1>4. CASE t \notin Covered
    <2>1. headRev'[t] = headRev[t] /\ headBody'[t] = headBody[t]
      BY <1>4 DEF Commit, HeadMoved
    <2>2. t \notin touched /\ (Scanning => pendingRev[t] # beforeRev[t])
      BY <1>4 DEF Covered, Remaining
    <2>3. /\ SettledRev[t] = treeRev[t] /\ SettledBody[t] = treeBody[t]
          /\ SettledRev[t] = beforeRev[t]
      BY <1>1, <1>2, <2>2, WrittenFile
    <2>4. HeadReached(t)'
      BY <1>1, <1>2, <2>1, <2>3 DEF HeadReached
    <2>5. ASSUME crashes = 0 PROVE FileKnown(t)'
      BY <1>1, <1>2, <2>1, <2>2, <2>3, <2>5 DEF FileKnown, SettledAsHead, Scanning
    <2> QED
      BY <2>4, <2>5
  <1> QED
    BY <1>3, <1>4

\* A written file that becomes effective without a commit was left to the marker, or
\* its holder was killed.
LEMMA EffectiveKeeps ==
  ASSUME Inv, HeadInv, ~ timedOut, NEW t \in Tasks,
         LeavePending \/ (Crash /\ stage = "written")
  PROVE  HeadReached(t)' /\ (crashes' = 0 => FileKnown(t)')
  <1>1. /\ stage = "written" /\ stage' = "free"
        /\ SettledRev' = treeRev /\ SettledBody' = treeBody
        /\ UNCHANGED <<headRev, headBody>>
    BY DEF LeavePending, Crash, Unlock, SettledRev, SettledBody, tree, head
  <1>2. HeadShape /\ HeadReached(t) /\ (crashes = 0 => FileKnown(t))
    BY DEF HeadInv
  <1>3. HeadReached(t)'
    BY <1>1, <1>2, WrittenFile DEF HeadReached
  <1>4. CASE Crash
    <2>1. crashes' # 0
      BY <1>4 DEF Crash, HeadInv, HeadShape
    <2> QED
      BY <1>3, <2>1
  <1>5. CASE LeavePending
    <2>1. CASE t \in Covered
      <3>1. pendingRev'[t] = treeRev[t]
        BY <1>5, <2>1 DEF LeavePending
      <3> QED
        BY <1>1, <1>3, <3>1 DEF FileKnown
    <2>2. CASE t \notin Covered
      <3>1. t \notin touched /\ pendingRev[t] # beforeRev[t] /\ crashes' = crashes
        BY <1>5, <2>2 DEF LeavePending, Covered, Remaining
      <3>2. /\ SettledRev[t] = treeRev[t] /\ SettledBody[t] = treeBody[t]
            /\ SettledRev[t] = beforeRev[t]
        BY <1>1, <1>2, <3>1, WrittenFile
      <3> QED
        BY <1>1, <1>2, <1>3, <3>1, <3>2 DEF FileKnown, SettledAsHead
    <2> QED
      BY <2>1, <2>2
  <1> QED
    BY <1>4, <1>5

\* Every step keeps head commit, marker and settled files in step.
LEMMA StepHead ==
  ASSUME Inv, HeadInv, [Next]_vars
  PROVE  HeadInv'
  <1>1. HeadShape'
    BY StepHeadShape DEF HeadInv
  <1>2. SUFFICES ASSUME ~ timedOut', NEW t \in Tasks
                 PROVE  HeadReached(t)' /\ (crashes' = 0 => FileKnown(t)')
    BY <1>1 DEF HeadInv
  <1>3. HeadReached(t) /\ (crashes = 0 => FileKnown(t)) /\ ~ timedOut
    BY <1>2
    DEF HeadInv, Next, vars, BeginMutation, BeginReconcile, Begin, Refuse, Write, Restore,
        Commit, LeavePending, Finish, CommitTimeout, Crash
  <1>4. CASE Commit
    BY <1>3, <1>4, CommitKeeps DEF Commit
  <1>5. CASE LeavePending \/ (Crash /\ stage = "written")
    BY <1>3, <1>5, EffectiveKeeps
  <1>6. CASE CommitTimeout
    BY <1>2, <1>6 DEF CommitTimeout
  <1>7. ASSUME UNCHANGED <<headRev, headBody, pendingRev, SettledRev, SettledBody, crashes>>,
               stage' # "committed" \/ UNCHANGED <<stage, entry>>
        PROVE  HeadReached(t)' /\ (crashes' = 0 => FileKnown(t)')
    BY <1>3, <1>7 DEF HeadReached, FileKnown, SettledAsHead, Scanning
  <1>8. ASSUME NEW w, NEW S, NEW e, Begin(w, S, e)
        PROVE  UNCHANGED <<SettledRev, SettledBody>> /\ stage' # "committed"
    BY <1>8 DEF Begin, Inv, SnapshotSound, SettledRev, SettledBody, tree
  <1>9. CASE \/ \E w \in Writers, u \in Tasks, e \in Entries : BeginMutation(w, u, e)
             \/ \E w \in Writers, S \in SUBSET Tasks : BeginReconcile(w, S)
    BY <1>7, <1>8, <1>9 DEF BeginMutation, BeginReconcile, Begin, head
  <1>10. CASE Refuse
    BY <1>7, <1>10 DEF Refuse, Unlock, SettledRev, SettledBody, tree, head
  <1>11. CASE Write
    BY <1>7, <1>11 DEF Write, Inv, SnapshotSound, SettledRev, SettledBody, head, before
  <1>12. CASE Restore
    BY <1>7, <1>12 DEF Restore, PutBack, Unlock, SettledRev, SettledBody, head
  <1>13. CASE Finish
    <2>1. /\ UNCHANGED <<headRev, headBody, SettledRev, SettledBody, crashes>>
          /\ stage = "committed" /\ (~ Scanning => UNCHANGED pendingRev)
      BY <1>13 DEF Finish, MarkerCleared, Unlock, SettledRev, SettledBody, tree, head
    <2> QED
      BY <1>3, <1>13, <2>1 DEF HeadReached, FileKnown, SettledAsHead, Finish, Unlock
  <1>14. CASE Crash /\ stage # "written"
    <2>1. /\ UNCHANGED <<headRev, headBody, SettledRev, SettledBody>> /\ crashes' # 0
      BY <1>14 DEF Crash, Unlock, SettledRev, SettledBody, tree, head, HeadInv, HeadShape
    <2> QED
      BY <1>3, <2>1 DEF HeadReached
  <1>15. CASE UNCHANGED vars
    BY <1>7, <1>15 DEF vars, SettledRev, SettledBody
  <1> QED
    BY <1>4, <1>5, <1>6, <1>9, <1>10, <1>11, <1>12, <1>13, <1>14, <1>15 DEF Next

\* For any number of writers, tasks and crashes, the head commit never runs ahead of
\* the files unless git reported a commit it made as failed, and as long as nobody was
\* killed every file the lock leaves behind is that of the head commit or exactly the
\* one the marker names.
THEOREM HeadStaysInStep == Spec => []HeadInStep
  <1>1. Inv /\ HeadInv => HeadInStep
    <2> SUFFICES ASSUME Inv, HeadInv PROVE HeadInStep
      OBVIOUS
    <2>1. HistoryWithinAuthority
      <3> SUFFICES ASSUME ~ timedOut, NEW t \in Tasks
                   PROVE  /\ headRev[t] <= treeRev[t]
                          /\ IsPrefix(headBody[t], treeBody[t])
                          /\ headRev[t] = treeRev[t] => headBody[t] = treeBody[t]
        BY DEF HistoryWithinAuthority
      <3>1. HeadReached(t) /\ HeadShape
        BY DEF HeadInv
      <3>2. CASE stage = "written"
        BY <3>1, <3>2, WrittenFile
      <3>3. CASE stage # "written"
        BY <3>1, <3>3 DEF HeadReached, SettledRev, SettledBody
      <3> QED
        BY <3>2, <3>3
    <2>2. CleanWhenFree
      <3> SUFFICES ASSUME lock = None, crashes = 0, ~ timedOut, NEW t \in Tasks
                   PROVE  AsHead(t) \/ pendingRev[t] = treeRev[t]
        BY DEF CleanWhenFree
      <3>1. stage = "free" /\ FileKnown(t)
        BY DEF Inv, SnapshotSound, HeadInv
      <3> QED
        BY <3>1 DEF FileKnown, SettledAsHead, SettledRev, SettledBody, AsHead
    <2> QED
      BY <2>1, <2>2 DEF HeadInStep
  <1>2. Inv /\ HeadInv /\ [Next]_vars => HeadInv'
    BY StepHead
  <1> QED
    BY <1>1, <1>2, InitHead, Invariance, PTL DEF Spec

-----------------------------------------------------------------------------
(* The SQLite authority.                                                     *)

\* The part of the state the argument is about: tables and requests.
Tables ==
    /\ rev \in [Tasks -> Nat] /\ body \in [Tasks -> Seq(Sqlite!Changes)]
    /\ pc \in [Writers -> Sqlite!Steps]
    /\ task \in [Writers -> Tasks] /\ change \in [Writers -> Sqlite!Changes]
    /\ expected \in [Writers -> Nat] /\ loaded \in [Writers -> Seq(Sqlite!Changes)]

TablesInv == Tables /\ Sqlite!FreshBase

\* The placeholder of an idle writer is a task.
LEMMA SomeTaskExists ==
  Sqlite!SomeTask \in Tasks
  BY SqliteAssumption DEF Sqlite!SomeTask, Sqlite!SqliteConstants

\* The initial tables have the declared shapes and no writer holds a body.
LEMMA InitTables ==
  ASSUME Sqlite!Init
  PROVE  TablesInv
  <1>1. Tables
    BY SomeTaskExists DEF Sqlite!Init, Tables, Sqlite!Steps, Sqlite!Changes
  <1>2. Sqlite!FreshBase
    BY DEF Sqlite!Init, Sqlite!FreshBase
  <1> QED
    BY <1>1, <1>2 DEF TablesInv

\* Every step keeps the shapes of the tables and of the requests.
LEMMA StepTables ==
  ASSUME Tables, [Sqlite!Next]_(Sqlite!vars)
  PROVE  Tables'
  <1> USE DEF Tables, Sqlite!Goto, Sqlite!db, Sqlite!request
  <1>a. "quiet" \in Sqlite!Changes /\ <<>> \in Seq(Sqlite!Changes)
    BY DEF Sqlite!Changes
  <1>1. ASSUME NEW w \in Writers, NEW t \in Tasks, NEW e \in Sqlite!Changes,
               NEW q \in 1 .. rev[t], Sqlite!Load(w, t, e, q)
        PROVE  Tables'
    BY <1>1 DEF Sqlite!Load, Sqlite!Steps
  <1>2. ASSUME NEW w \in Writers, Sqlite!Commit(w)
        PROVE  Tables'
    <2>1. Append(loaded[w], change[w]) \in Seq(Sqlite!Changes)
      OBVIOUS
    <2>2. body' \in [Tasks -> Seq(Sqlite!Changes)]
      BY <1>2, <2>1 DEF Sqlite!Commit
    <2>3. rev' \in [Tasks -> Nat] /\ pc' \in [Writers -> Sqlite!Steps]
      BY <1>2 DEF Sqlite!Commit, Sqlite!Steps
    <2>4. /\ task' \in [Writers -> Tasks] /\ change' \in [Writers -> Sqlite!Changes]
          /\ expected' \in [Writers -> Nat] /\ loaded' \in [Writers -> Seq(Sqlite!Changes)]
      BY <1>2, <1>a, SomeTaskExists DEF Sqlite!Commit, Sqlite!ForgetRequest
    <2> QED
      BY <2>2, <2>3, <2>4
  <1>3. ASSUME NEW w \in Writers, Sqlite!Refuse(w) \/ Sqlite!Crash(w)
        PROVE  Tables'
    <2>1. Sqlite!ForgetRequest(w) /\ UNCHANGED <<rev, body>> /\ pc' = [pc EXCEPT ![w] = "idle"]
      BY <1>3 DEF Sqlite!Refuse, Sqlite!Crash
    <2>2. /\ task' \in [Writers -> Tasks] /\ change' \in [Writers -> Sqlite!Changes]
          /\ expected' \in [Writers -> Nat] /\ loaded' \in [Writers -> Seq(Sqlite!Changes)]
      BY <2>1, <1>a, SomeTaskExists DEF Sqlite!ForgetRequest
    <2>3. pc' \in [Writers -> Sqlite!Steps]
      BY <2>1 DEF Sqlite!Steps
    <2> QED
      BY <2>1, <2>2, <2>3
  <1>4. ASSUME NEW w \in Writers, NEW S \in SUBSET Tasks, Sqlite!Observe(w, S)
        PROVE  Tables'
    BY <1>4 DEF Sqlite!Observe, Sqlite!Steps
  <1>5. ASSUME NEW w \in Writers,

                   Sqlite!Snapshot(w) \/ Sqlite!Lock(w) \/ Sqlite!LockTimeout(w) \/ Sqlite!WriteTasks(w)
                 \/ Sqlite!WriteViews(w) \/ Sqlite!Validate(w)
        PROVE  Tables'
    BY <1>5
    DEF Sqlite!Snapshot, Sqlite!Lock, Sqlite!LockTimeout, Sqlite!WriteTasks,
        Sqlite!WriteViews, Sqlite!Validate, Sqlite!Steps
  <1>6. CASE UNCHANGED Sqlite!vars
    BY <1>6 DEF Sqlite!vars
  <1> QED
    BY <1>1, <1>2, <1>3, <1>4, <1>5, <1>6 DEF Sqlite!Next, Sqlite!Step

\* Only Load gives a writer a body, and Commit and Observe move the revision
\* past every expectation it met before.
LEMMA StepFresh ==
  ASSUME TablesInv, [Sqlite!Next]_(Sqlite!vars)
  PROVE  Sqlite!FreshBase'
  <1> USE DEF TablesInv, Tables, Sqlite!FreshBase, Sqlite!Goto, Sqlite!db, Sqlite!request
  <1>1. ASSUME NEW w \in Writers, NEW t \in Tasks, NEW e \in Sqlite!Changes,
               NEW q \in 1 .. rev[t], Sqlite!Load(w, t, e, q)
        PROVE  Sqlite!FreshBase'
    BY <1>1 DEF Sqlite!Load
  <1>2. ASSUME NEW w \in Writers, Sqlite!Commit(w)
        PROVE  Sqlite!FreshBase'
    BY <1>2 DEF Sqlite!Commit, Sqlite!ForgetRequest
  <1>3. ASSUME NEW w \in Writers, Sqlite!Refuse(w) \/ Sqlite!Crash(w)
        PROVE  Sqlite!FreshBase'
    BY <1>3 DEF Sqlite!Refuse, Sqlite!Crash, Sqlite!ForgetRequest
  <1>4. ASSUME NEW w \in Writers, NEW S \in SUBSET Tasks, Sqlite!Observe(w, S)
        PROVE  Sqlite!FreshBase'
    BY <1>4 DEF Sqlite!Observe
  <1>5. ASSUME NEW w \in Writers,

                   Sqlite!Snapshot(w) \/ Sqlite!Lock(w) \/ Sqlite!LockTimeout(w) \/ Sqlite!WriteTasks(w)
                 \/ Sqlite!WriteViews(w) \/ Sqlite!Validate(w)
        PROVE  Sqlite!FreshBase'
    BY <1>5 DEF Sqlite!Snapshot, Sqlite!Lock, Sqlite!LockTimeout, Sqlite!WriteTasks,
        Sqlite!WriteViews, Sqlite!Validate
  <1>6. CASE UNCHANGED Sqlite!vars
    BY <1>6 DEF Sqlite!vars
  <1> QED
    BY <1>1, <1>2, <1>3, <1>4, <1>5, <1>6 DEF Sqlite!Next, Sqlite!Step

\* A commit that meets its expectation appends to the current body; every
\* other step but a scan leaves the tables alone.
LEMMA StepTablesLog ==
  ASSUME TablesInv, [Sqlite!Next]_(Sqlite!vars)
  PROVE  [Sqlite!Log!Next]_<<rev, body>>
  <1> USE DEF TablesInv, Tables, Sqlite!db
  <1>1. ASSUME NEW w \in Writers, Sqlite!Commit(w)
        PROVE  Sqlite!Log!Next
    <2>1. loaded[w] = body[task[w]]
      BY <1>1 DEF Sqlite!Commit, Sqlite!Fenced, Sqlite!FreshBase
    <2>2. Sqlite!Log!Note(task[w], change[w])
      BY <1>1, <2>1 DEF Sqlite!Commit, Sqlite!Log!Note
    <2> QED
      BY <2>2 DEF Sqlite!Log!Next
  <1>2. ASSUME NEW w \in Writers, NEW S \in SUBSET Tasks, Sqlite!Observe(w, S)
        PROVE  Sqlite!Log!Next
    BY <1>2 DEF Sqlite!Observe, Sqlite!Log!Next, Sqlite!Log!Observe
  <1>3. ASSUME UNCHANGED <<rev, body>>
        PROVE  [Sqlite!Log!Next]_<<rev, body>>
    BY <1>3
  <1> QED
    BY <1>1, <1>2, <1>3
    DEF Sqlite!Next, Sqlite!Step, Sqlite!vars, Sqlite!Load, Sqlite!Refuse,
        Sqlite!Snapshot, Sqlite!Lock, Sqlite!LockTimeout, Sqlite!WriteTasks,
        Sqlite!WriteViews, Sqlite!Validate, Sqlite!Crash

\* The tables and requests keep their shapes, and a request whose expectation
\* still holds is based on the current body, in every reachable state.
THEOREM TablesInvariance == Sqlite!Spec => []TablesInv
  <1>0. Sqlite!Init => TablesInv
    BY InitTables
  <1>1. TablesInv /\ [Sqlite!Next]_(Sqlite!vars) => TablesInv'
    BY StepTables, StepFresh DEF TablesInv
  <1> QED
    BY <1>0, <1>1, PTL DEF Sqlite!Spec

\* For any number of writers and tasks, the SQLite authority never loses a
\* note and advances a task by exactly one revision per accepted change.
THEOREM SqliteLinearization == Sqlite!Spec => TablesLinearized
  <1>1. Sqlite!Init => Sqlite!Log!Init
    BY DEF Sqlite!Init, Sqlite!Log!Init
  <1>a. Sqlite!Spec => []TablesInv
    BY TablesInvariance
  <1>2. TablesInv /\ [Sqlite!Next]_(Sqlite!vars) => [Sqlite!Log!Next]_<<rev, body>>
    BY StepTablesLog
  <1> QED
    BY <1>1, <1>2, <1>a, PTL DEF Sqlite!Spec, TablesLinearized, Sqlite!Linearized,
        Sqlite!Log!Spec

\* A writer that still has an export and its validation before it.
Exporting(w) == pc[w] \in {"committed", "snapped", "locked", "written", "rendered"}

\* As long as nothing failed, stale views are somebody's unfinished business.
StaleIsPending == ~ degraded => view = visible \/ \E w \in Writers : Exporting(w)

\* Every step keeps a writer answerable for stale views: a commit makes one, and only
\* the validation that finds the views current, or a reported failure, discharges it.
LEMMA StepPending ==
  ASSUME Tables, StaleIsPending, [Sqlite!Next]_(Sqlite!vars)
  PROVE  StaleIsPending'
  <1> USE DEF Tables, Sqlite!Goto, Sqlite!db, Sqlite!files
  <1>1. ASSUME NEW w \in Writers, Exporting(w)'
        PROVE  StaleIsPending'
    BY <1>1 DEF StaleIsPending
  <1>2. ASSUME NEW w \in Writers,
               Sqlite!Commit(w) \/ (\E S \in SUBSET Tasks : Sqlite!Observe(w,
                   S)) \/ Sqlite!Snapshot(w)
                 \/ Sqlite!Lock(w) \/ Sqlite!WriteTasks(w) \/ Sqlite!WriteViews(w)
        PROVE  StaleIsPending'
    <2>1. Exporting(w)'
      BY <1>2 DEF Sqlite!Commit, Sqlite!Observe, Sqlite!Snapshot, Sqlite!Lock,
          Sqlite!WriteTasks, Sqlite!WriteViews, Exporting
    <2> QED
      BY <1>1, <2>1
  <1>3. ASSUME NEW w \in Writers, Sqlite!LockTimeout(w) \/ Sqlite!Validate(w) \/ Sqlite!Crash(w)
        PROVE  StaleIsPending'
    BY <1>3 DEF Sqlite!LockTimeout, Sqlite!Validate, Sqlite!Crash, Sqlite!ViewsMatch,
        StaleIsPending
  <1>4. ASSUME NEW w \in Writers,
               \/ \E t \in Tasks, e \in Sqlite!Changes : \E q \in 1 .. rev[t] : Sqlite!Load(w, t, e, q)
               \/ Sqlite!Refuse(w)
        PROVE  StaleIsPending'
    <2>1. /\ UNCHANGED <<view, visible, degraded>> /\ ~ Exporting(w)
          /\ \A v \in Writers \ {w} : pc'[v] = pc[v]
      BY <1>4 DEF Sqlite!Load, Sqlite!Refuse, Exporting
    <2>2. \A v \in Writers : Exporting(v) => Exporting(v)'
      BY <2>1 DEF Exporting
    <2> QED
      BY <2>1, <2>2 DEF StaleIsPending
  <1>5. CASE UNCHANGED Sqlite!vars
    BY <1>5 DEF Sqlite!vars, StaleIsPending, Exporting
  <1> QED
    BY <1>2, <1>3, <1>4, <1>5 DEF Sqlite!Next, Sqlite!Step

\* For any number of writers and tasks, the views are current whenever everybody is
\* done and nobody reported a failure, however the exports overtook each other.
THEOREM ViewCurrency == Sqlite!Spec => []ViewsCurrent
  <1>1. Sqlite!Init => StaleIsPending
    BY DEF Sqlite!Init, StaleIsPending
  <1>a. Sqlite!Spec => []TablesInv
    BY TablesInvariance
  <1>2. TablesInv /\ StaleIsPending /\ [Sqlite!Next]_(Sqlite!vars) => StaleIsPending'
    BY StepPending DEF TablesInv
  <1>3. StaleIsPending => ViewsCurrent
    BY DEF StaleIsPending, ViewsCurrent, Sqlite!ViewsCurrent, Sqlite!Quiescent, Exporting
  <1> QED
    BY <1>1, <1>2, <1>3, <1>a, PTL DEF Sqlite!Spec

=============================================================================
