----------------------------- MODULE Toolchains -----------------------------
(* How sandbox_prepare chooses a plan for a capability: the TOML registry   *)
(* first, then the adapters for apt, asdf and SDKMAN.  A plan is abstracted *)
(* to the manager that carries it out and its number of steps and of        *)
(* verifications.                                                           *)
EXTENDS Naturals, Sequences

Managers == {"ca_store", "apt", "asdf", "sdkman", "brew", "nix"}
Strategies == {"auto", "system_package", "version_manager", "content_addressed"}
NoPlan == [manager |-> "none"]
\* A toolchain of the TOML registry; packages, steps and verifications are counted.
ToolchainDef == [manager : STRING, priority : Nat, packages : Nat, steps : Nat, verify : Nat]

\* Which managers a strategy of the caller admits.
accepts(strategy, m) ==
  CASE strategy = "auto" -> TRUE
    [] strategy = "system_package" -> m \in {"apt", "brew"}
    [] strategy = "version_manager" -> m \in {"asdf", "sdkman"}
    [] strategy = "content_addressed" -> m = "ca_store"

\* A manager the TOML file misspells counts as ca_store.
manager_to_type(m) == IF m \in Managers THEN m ELSE "ca_store"

----------------------------------------------------------------------------
\* The positions of the toolchains that a strategy admits; all of them when it
\* admits none.
Admissible(tcs, strategy) ==
  LET admitted == {n \in DOMAIN tcs : accepts(strategy, manager_to_type(tcs[n].manager))}
  IN IF admitted = {} THEN DOMAIN tcs ELSE admitted

\* The first of these positions in a stable sort by priority.
Foremost(tcs, positions) ==
  LET Before(n, o) == \/ tcs[n].priority < tcs[o].priority
                      \/ tcs[n].priority = tcs[o].priority /\ n <= o
  IN tcs[CHOOSE n \in positions : \A o \in positions : Before(n, o)]

\* apt updates its index and installs the packages in one go, brew takes a
\* step for each; the explicit steps of both are ignored.
into_toolchain_plan(t) ==
  [manager |-> t.manager,
   steps |-> CASE t.manager = "apt" -> IF t.packages = 0 THEN 0 ELSE 2
               [] t.manager = "brew" -> t.packages
               [] OTHER -> t.steps,
   verify |-> t.verify]

\* CapabilityRegistry.resolve: None for an unknown capability or one without toolchains.
RegistryPlan(tcs, strategy) ==
  IF tcs = <<>> THEN NoPlan ELSE into_toolchain_plan(Foremost(tcs, Admissible(tcs, strategy)))

----------------------------------------------------------------------------
\* What the adapters say they support, and what they have a plan for.
AptSupports(k) ==
  CASE k \in {"jvm-build", "node-build", "python-build"} -> "full"
    [] k \in {"rust-build", "go-build"} -> "partial"
    [] OTHER -> "none"
AptPlan(k) ==
  CASE k = "jvm-build" -> [manager |-> "apt", steps |-> 1, verify |-> 3]
    [] k \in {"node-build", "python-build"} -> [manager |-> "apt", steps |-> 1, verify |-> 2]
    [] OTHER -> NoPlan

AsdfSupports(k) ==
  IF k \in {"jvm-build", "node-build", "python-build", "ruby-build", "go-build", "rust-build"}
  THEN "full" ELSE "none"
AsdfPlan(k) ==
  CASE k = "jvm-build" -> [manager |-> "asdf", steps |-> 6, verify |-> 2]
    [] k = "node-build" -> [manager |-> "asdf", steps |-> 4, verify |-> 1]
    [] OTHER -> NoPlan

SdkmanSupports(k) == IF k \in {"jvm-build", "java-build"} THEN "full" ELSE "none"
SdkmanPlan(k) == [manager |-> "sdkman", steps |-> 3, verify |-> 2]   \* no gradle constraint

\* In the order in which sandbox_prepare registers them.
Adapters == <<"apt", "asdf", "sdkman">>
Supports(a, k) ==
  CASE a = "apt" -> AptSupports(k) [] a = "asdf" -> AsdfSupports(k) [] a = "sdkman" -> SdkmanSupports(k)
Plan(a, k) ==
  CASE a = "apt" -> AptPlan(k) [] a = "asdf" -> AsdfPlan(k) [] a = "sdkman" -> SdkmanPlan(k)

\* The first adapter with full support that the strategy admits, else the
\* first with partial support; its plan may still be an error.
ResolverPlan(k, strategy) ==
  LET With(level) == {n \in DOMAIN Adapters :
                        accepts(strategy, Adapters[n]) /\ Supports(Adapters[n], k) = level}
      able == IF With("full") # {} THEN With("full") ELSE With("partial")
  IN IF able = {} THEN NoPlan ELSE Plan(Adapters[CHOOSE n \in able : \A o \in able : n <= o], k)

=============================================================================
