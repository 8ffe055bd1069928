--------------------------- MODULE MCRetryCircuit ---------------------------
(* Small instances of RetryCircuit.                                        *)
EXTENDS RetryCircuit, TLC

CONSTANTS r1, r2, c1, c2, p1, p2

\* Invocations, commands and fingerprints are only compared for equality.
Interchangeable ==
    Permutations(Runs) \cup Permutations(Commands) \cup Permutations(Progresses)

=============================================================================
