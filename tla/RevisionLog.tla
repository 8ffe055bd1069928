---------------------------- MODULE RevisionLog ----------------------------
(***************************************************************************)
(* What either storage backend promises its callers: every task has a      *)
(* revision and an append-only body, and each accepted change advances a   *)
(* task by exactly one revision, keeping all earlier notes and adding at   *)
(* most its own.  A live observation may advance several tasks at once and *)
(* adds no note.                                                           *)
(***************************************************************************)
EXTENDS Naturals, Sequences

CONSTANTS Tasks, Entries

VARIABLES rev, body

Init ==
    /\ rev = [t \in Tasks |-> 1]
    /\ body = [t \in Tasks |-> <<>>]

Note(t, e) ==
    /\ rev' = [rev EXCEPT ![t] = @ + 1]
    /\ body' = [body EXCEPT ![t] = Append(@, e)]

Observe(S) ==
    /\ rev' = [t \in Tasks |-> IF t \in S THEN rev[t] + 1 ELSE rev[t]]
    /\ UNCHANGED body

Next ==
    \/ \E t \in Tasks, e \in Entries : Note(t, e)
    \/ \E S \in SUBSET Tasks : Observe(S)

Spec == Init /\ [][Next]_<<rev, body>>

=============================================================================
