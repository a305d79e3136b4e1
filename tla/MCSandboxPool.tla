--------------------------- MODULE MCSandboxPool ---------------------------
EXTENDS SandboxPool, TLC

PooledOnly == {PoolRequest}
AllRequests ==
  {PoolRequest, [provider |-> Podman, template |-> "custom"],
   [provider |-> "other", template |-> Image]}

\* Bound of the run with two callers: the enforcer is at rest once a call has
\* failed.
EnforcerOrFault == faults = 0 \/ expiry.todo = {}

Symmetry == Permutations(Ids) \cup Permutations(Clients)

====
