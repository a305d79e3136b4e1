-------------------------- MODULE MCPoolRecovery --------------------------
(* Two kinds of starts: a quiet one, with faults, and one without faults among *)
(* the tools and the enforcer, whose callers ask for the pooled image.         *)
EXTENDS PoolRecovery, TLC

PodmanOnly == {PoolRequest, [provider |-> Podman, template |-> "custom"]}
AllPooled == [Ids -> {PoolRequest}]

MCInit == RecoveryInit /\ (quiet \/ kind \in AllPooled)
MCNext == RecoveryNext /\ (quiet \/ (faults' = 0 /\ kind' \in AllPooled))
MCSpec == MCInit /\ [][MCNext]_recoveryVars

\* Bound: the enforcer is at rest once the recovery is over.
EnforcerDuringRecovery == recovery.pc # "done" \/ expiry.todo = {}

Symmetry == Permutations(Ids) \cup Permutations(Clients)
===========================================================================
