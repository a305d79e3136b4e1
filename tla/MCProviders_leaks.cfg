SPECIFICATION Spec
CONSTANTS
  Ids = {i1, i2}
  Calls = {c1, c2}
  Names = {"n1"}
  Kinds = {"podman", "docker", "gvisor", "firecracker", "local", "wasm"}
SYMMETRY Symmetry
CHECK_DEADLOCK FALSE
INVARIANTS NoLeftover Reclaimable KnownEverywhere PausedForSnapshot
