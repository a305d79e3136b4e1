-------------------------- MODULE MCCommandRouting --------------------------
EXTENDS CommandRouting, TLC

Symmetry == Permutations(Calls)

\* No guard reads what was sent or received so far, and neither do PendingOwned
\* and BlameOwnSession: states that differ in that only are one.
Forgetful == <<[c \in Calls |-> [call[c] EXCEPT !.got = <<>>]], inbox, pending, workers,
               session, opened, tokens, down, up, job>>

====
