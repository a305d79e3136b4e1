--------------------------- MODULE MCSandboxTools ---------------------------
EXTENDS SandboxTools, TLC
\* One capability with a plan in the registry, one that only the adapters know.
MCConfigs ==
  [k \in Capabilities |->
     IF k = "node-build" THEN <<[manager |-> "asdf", priority |-> 1, packages |-> 0, steps |-> 2, verify |-> 1]>>
     ELSE <<>>]
\* Streams and their cancels; environments and the commands that pick them up;
\* artifacts and the host cache.
MCWorkloads == {[tools |-> {"stream", "cancel", "terminate"}, calls |-> 3],
                [tools |-> {"run", "stream", "prepare", "terminate"}, calls |-> 2],
                [tools |-> {"prepare", "artifact"}, calls |-> 2],
                [tools |-> {"run", "cancel", "file", "terminate"}, calls |-> 2]}
Symmetry == Permutations(Calls)
=============================================================================
