--------------------------- MODULE MCAuthorities ---------------------------
(* Small instances of the two authorities a project may select: task files *)
(* under Git, and SQLite tables with exported views.  A project has one of *)
(* them and they share no state, so an execution of either leaves the      *)
(* other's variables alone.                                                *)
EXTENDS GitAuthority, TLC

CONSTANT TableRevision   \* bound on a task's revision in the tables

VARIABLES rev, body, visible, fileRev, view, mutex, pc, task, change, expected, loaded,
          snapRev, snapVisible, degraded

Sqlite == INSTANCE SqliteAuthority
    WITH MaxRevision <- TableRevision, lock <- mutex, entry <- change

ASSUME SqliteAssumption == Sqlite!SqliteConstants

sqliteVars == <<rev, body, visible, fileRev, view, mutex, pc, task, change, expected,
                loaded, snapRev, snapVisible, degraded>>

MCInit == Init /\ Sqlite!Init

GitSteps    == Next /\ UNCHANGED sqliteVars
SqliteSteps == Sqlite!Next /\ UNCHANGED vars

GitSpec    == MCInit /\ [][GitSteps]_<<vars, sqliteVars>>
SqliteSpec == MCInit /\ [][SqliteSteps]_<<vars, sqliteVars>>

\* Writers and notes are interchangeable under Git: it names none of them.
GitSymmetry == Permutations(Writers) \cup Permutations(Entries)

\* Transactions implement the revision log: every accepted change of a task is its
\* next revision and loses no note, although its body is computed from a read
\* outside the transaction (mutate_sqlite).
TablesLinearized == Sqlite!Linearized

\* The views are current when everybody is done and nobody reported a failure
\* (write_sqlite_projections).
ViewsCurrent == Sqlite!ViewsCurrent

=============================================================================
