SPECIFICATION Spec
CONSTANTS
  Ids = {i1}
  Calls = {c1, c2, c3}
  Kinds = {"podman", "local"}
  Capabilities = {"node-build", "python-build"}
  Configs <- MCConfigs
  Digests = {d1}
  Asked = {"auto"}
  Workloads <- MCWorkloads
  MaxRestarts = 1
SYMMETRY Symmetry
INVARIANTS EnvInstalled NoStrayCancel TokensLive CancelPrompt MarkerSound
CHECK_DEADLOCK FALSE
