------------------------- MODULE SandboxToolsProofs -------------------------
(* What the tools that work inside a sandbox promise about cancelled        *)
(* streams, prepared environments and the host cache, proved for any number *)
(* of sandboxes, calls, capabilities, digests and restarts.                 *)
EXTENDS SandboxTools, WellFoundedInduction, TLAPS

----------------------------------------------------------------------------
\* What a call remembers, by the tool it runs.
EnvRefs == Refs \cup {NoRef}
Simple == [op : {"terminate", "cancel", "file"}, i : Ids, pc : {"delete", "provider", "executor"}]
RunPcs == {"env", "start", "running", "execute", "wait", "progress"}
Runs == [op : {"run", "stream"}, i : Ids, auto : BOOLEAN, env : EnvRefs, flag : Calls, ref : EnvRefs,
         pc : RunPcs]
CopyPcs == {"cached", "tar", "write", "extract", "extracting", "tidy", "mark", "copy"}
Copies == [op : {"prepare"}, i : Ids, k : Capabilities, strategy : Asked, d : Digests,
           method : {"artifact"}, steps : {0}, verify : {0}, pc : CopyPcs]
PlanPcs == {"steps", "verify", "envs", "last"}
Plans == [op : {"prepare"}, i : Ids, k : Capabilities, strategy : Asked, d : {None},
          method : Methods, steps : Nat, verify : Nat, pc : PlanPcs]
Records == {Idle} \cup Simple \cup Runs \cup Copies \cup Plans

\* The types of the variables that the properties are about.
Typed ==
  /\ call \in [Calls -> Records]
  /\ cancel_tokens \in [Ids -> Calls \cup {None}]
  /\ flag \in [Calls -> BOOLEAN] /\ late \in [Calls -> Nat]
  /\ installed \in [Ids -> SUBSET Capabilities]
  /\ last_env_ref \in [Ids -> EnvRefs] /\ prepared_environments \subseteq Refs
  /\ catalog \in [Capabilities -> Digests \cup {None}]
  /\ tar \in [Digests -> {"none", "empty", "full"}]
  /\ whole \in [Digests -> BOOLEAN] /\ extracted \in [Digests -> BOOLEAN]

\* Streams: each reads the flag that it allocated, a set flag belongs to a
\* stream that was asked to stop, and a late chunk is the last one it takes.
OwnFlag(c) == Streaming(c) => call[c].flag = c
FlagAsked(c) == flag[c] => Streaming(c) /\ c \in asked
LateOnce(c) == late[c] = 0 \/ (late[c] = 1 /\ Streaming(c) /\ call[c].pc = "wait" /\ flag[c])
Cancels == TokensLive /\ \A c \in Calls : OwnFlag(c) /\ FlagAsked(c) /\ LateOnce(c)

\* Environments: a reference of a plan that a sandbox picks up by itself is one
\* of its own, and it has an environment only after its plan was carried out.
Own(r, i) == r[1] \in Methods => r[2] = i
Carried(r) == r[1] \in Methods /\ r[2] \in Ids /\ r[3] \in installed[r[2]]
RunsOwn(c) ==
  (call[c].op \in {"run", "stream"} /\ call[c].auto)
    => /\ Own(call[c].ref, call[c].i)
       /\ call[c].pc = "env" \/ call[c].env = NoRef \/ call[c].env[3] \in installed[call[c].i]
PlanDone(c) ==
  call[c].op = "prepare"
    => /\ call[c].pc = "verify" => call[c].steps = 0
       /\ call[c].pc \in {"verify", "envs", "last"} => call[c].k \in installed[call[c].i]
Environments ==
  /\ \A r \in prepared_environments : Carried(r)
  /\ \A i \in Ids : Own(last_env_ref[i], i)
  /\ \A c \in Calls : RunsOwn(c) /\ PlanDone(c)

\* The host cache: a digest that no two calls extract at a time is extracted by
\* one call, without a marker, from a tar that this call wrote.
ExtractPcs == {"tar", "write", "extract", "extracting", "tidy", "mark"}
Extracts(c, d) == call[c].op = "prepare" /\ call[c].d = d /\ call[c].pc \in ExtractPcs
Alone(d) == \A c, o \in Calls : (Extracts(c, d) /\ Extracts(o, d)) => c = o
Prepared(c, d) ==
  Extracts(c, d) => /\ ~ extracted[d]
                    /\ call[c].pc = "write" => tar[d] = "empty"
                    /\ call[c].pc = "extract" => tar[d] = "full"
                    /\ call[c].pc \in {"tidy", "mark"} => whole[d]
CacheOf(d) ==
  d \notin overlapped => /\ Alone(d)
                         /\ \A c \in Calls : Prepared(c, d)
                         /\ extracted[d] => whole[d]
Cache == \A d \in Digests : CacheOf(d)

----------------------------------------------------------------------------
\* The plans: what sandbox_prepare chooses has a number of steps.

\* A set of numbers that is not empty has a least one.
LEMMA Least ==
  ASSUME NEW S, S \subseteq Nat, S # {}
  PROVE  \E n \in S : \A o \in S : n <= o
<1>1. PICK x \in S : \A y \in S : ~ (<<y, x>> \in OpToRel(<, Nat))
  BY NatLessThanWellFounded, WFMin
<1>2. ASSUME NEW y \in S PROVE x <= y
  <2>1. <<y, x>> \notin OpToRel(<, Nat)
    BY <1>1
  <2>2. ~ (y < x)
    BY <2>1 DEF OpToRel
  <2> QED BY <2>2
<1> QED BY <1>2

\* A stable sort by priority has a first element.
LEMMA ForemostTyped ==
  ASSUME NEW tcs \in Seq(ToolchainDef), NEW S, S \subseteq DOMAIN tcs, S # {}
  PROVE  Foremost(tcs, S) \in ToolchainDef
<1> DEFINE Before(n, o) == \/ tcs[n].priority < tcs[o].priority
                           \/ tcs[n].priority = tcs[o].priority /\ n <= o
<1>1. DOMAIN tcs \subseteq Nat /\ \A n \in DOMAIN tcs : tcs[n] \in ToolchainDef /\ tcs[n].priority \in Nat
  <2>1. DOMAIN tcs = 1 .. Len(tcs) /\ \A n \in DOMAIN tcs : tcs[n] \in ToolchainDef
    OBVIOUS
  <2>2. \A t \in ToolchainDef : t.priority \in Nat
    BY DEF ToolchainDef
  <2> QED BY <2>1, <2>2
<1>2. PICK m \in {tcs[n].priority : n \in S} : \A o \in {tcs[n].priority : n \in S} : m <= o
  BY <1>1, Least
<1>3. PICK best \in {n \in S : tcs[n].priority = m} : \A o \in {n \in S : tcs[n].priority = m} : best <= o
  <2>1. {n \in S : tcs[n].priority = m} # {} /\ {n \in S : tcs[n].priority = m} \subseteq Nat
    BY <1>1
  <2> QED BY <2>1, Least
<1>4. best \in S /\ \A o \in S : Before(best, o)
  <2>1. best \in S /\ tcs[best].priority = m
    OBVIOUS
  <2>2. ASSUME NEW o \in S PROVE Before(best, o)
    <3>1. m <= tcs[o].priority
      BY <1>2
    <3>2. tcs[o].priority = m => best <= o
      BY <1>3
    <3>3. m \in Nat /\ tcs[o].priority \in Nat
      BY <1>1, <2>1
    <3> QED BY <2>1, <3>1, <3>2, <3>3
  <2> QED BY <2>1, <2>2
<1> HIDE DEF Before
<1>5. (CHOOSE n \in S : \A o \in S : Before(n, o)) \in S
  BY <1>4
<1>6. Foremost(tcs, S) = tcs[CHOOSE n \in S : \A o \in S : Before(n, o)]
  BY DEF Foremost, Before
<1> QED BY <1>1, <1>5, <1>6

Counted(plan) == plan = NoPlan \/ (plan.steps \in Nat /\ plan.verify \in Nat)

LEMMA RegistryCounted ==
  ASSUME NEW tcs \in Seq(ToolchainDef), NEW strategy
  PROVE  Counted(RegistryPlan(tcs, strategy))
<1>1. CASE tcs = <<>>
  BY <1>1 DEF RegistryPlan, Counted
<1>2. CASE tcs # <<>>
  <2> DEFINE S == Admissible(tcs, strategy)
  <2>1. S \subseteq DOMAIN tcs /\ S # {}
    BY <1>2 DEF Admissible
  <2> HIDE DEF S
  <2>2. PICK t \in ToolchainDef : t = Foremost(tcs, S)
    BY <2>1, ForemostTyped
  <2>3. RegistryPlan(tcs, strategy) = into_toolchain_plan(t)
    BY <1>2, <2>2 DEF RegistryPlan, S
  <2>4. t.packages \in Nat /\ t.steps \in Nat /\ t.verify \in Nat
    BY DEF ToolchainDef
  <2>5. into_toolchain_plan(t).steps \in Nat /\ into_toolchain_plan(t).verify \in Nat
    BY <2>4 DEF into_toolchain_plan
  <2> QED BY <2>3, <2>5 DEF Counted
<1> QED BY <1>1, <1>2

LEMMA ResolverCounted ==
  ASSUME NEW k, NEW strategy
  PROVE  Counted(ResolverPlan(k, strategy))
<1> DEFINE With(level) == {n \in DOMAIN Adapters :
                             accepts(strategy, Adapters[n]) /\ Supports(Adapters[n], k) = level}
           able == IF With("full") # {} THEN With("full") ELSE With("partial")
           first == CHOOSE n \in able : \A o \in able : n <= o
<1>1. \A a \in {"apt", "asdf", "sdkman"} : Counted(Plan(a, k))
  <2>1. Counted(AptPlan(k))
    BY DEF Counted, AptPlan
  <2>2. Counted(AsdfPlan(k))
    BY DEF Counted, AsdfPlan
  <2>3. Counted(SdkmanPlan(k))
    BY DEF Counted, SdkmanPlan
  <2> QED BY <2>1, <2>2, <2>3 DEF Plan
<1>2. DOMAIN Adapters = 1 .. 3 /\ \A n \in 1 .. 3 : Adapters[n] \in {"apt", "asdf", "sdkman"}
  BY DEF Adapters
<1>3. able \subseteq 1 .. 3
  BY <1>2
<1>4. ResolverPlan(k, strategy) = IF able = {} THEN NoPlan ELSE Plan(Adapters[first], k)
  BY DEF ResolverPlan
<1> HIDE DEF able
<1>5. ASSUME able # {} PROVE first \in able
  <2>1. able \subseteq Nat
    BY <1>3
  <2>2. \E n \in able : \A o \in able : n <= o
    BY <1>5, <2>1, Least
  <2> QED BY <2>2
<1> HIDE DEF first
<1>6. CASE able = {}
  BY <1>4, <1>6 DEF Counted
<1>7. CASE able # {}
  <2>1. Adapters[first] \in {"apt", "asdf", "sdkman"}
    BY <1>2, <1>3, <1>5, <1>7
  <2>2. Counted(Plan(Adapters[first], k))
    BY <1>1, <2>1, Zenon
  <2> QED BY <1>4, <1>7, <2>2
<1> QED BY <1>6, <1>7

LEMMA PlannedTyped ==
  ASSUME NEW i \in Ids, NEW k \in Capabilities, NEW strategy \in Asked
  PROVE  Planned(i, k, strategy) = Idle \/ (Planned(i, k, strategy) \in Plans /\ Planned(i, k, strategy).pc = "steps")
<1> DEFINE p == RegistryPlan(Configs[k], strategy)
           q == ResolverPlan(k, strategy)
<1>1. Counted(p)
  BY ToolsAssumption, RegistryCounted DEF ToolsAssumption
<1>2. Counted(q)
  BY ResolverCounted
<1> HIDE DEF p, q
<1>3. Planned(i, k, strategy) =
        IF p # NoPlan
        THEN [op |-> "prepare", i |-> i, k |-> k, strategy |-> strategy, d |-> None, method |-> "registry",
              steps |-> p.steps, verify |-> p.verify, pc |-> "steps"]
        ELSE IF q # NoPlan
        THEN [op |-> "prepare", i |-> i, k |-> k, strategy |-> strategy, d |-> None, method |-> "resolver",
              steps |-> q.steps, verify |-> 0, pc |-> "steps"]
        ELSE Idle
  BY DEF Planned, p, q
<1> QED BY <1>1, <1>2, <1>3 DEF Counted, Plans, PlanPcs, Methods

----------------------------------------------------------------------------
\* What a step does to the record of its call.

Others(c) == call' \in [Calls -> Records] /\ \A o \in Calls : o # c => call'[o] = call[o]

\* The tool of a call tells what it remembers.
LEMMA Sorted ==
  ASSUME Typed, NEW c \in Calls
  PROVE  /\ call[c] \in Records
         /\ call[c].op \in {"run", "stream"} => call[c] \in Runs
         /\ call[c].op = "prepare" => call[c] \in Copies \/ call[c] \in Plans
         /\ call[c].op \in {"terminate", "cancel", "file"} => call[c] \in Simple
         /\ call[c] = Idle => call[c].op = "idle"
<1>1. call[c] \in Records
  BY DEF Typed
<1>2. Idle.op = "idle" /\ \A p \in Simple : p.op \in {"terminate", "cancel", "file"}
  BY DEF Idle, Simple
<1>3. (\A p \in Runs : p.op \in {"run", "stream"}) /\ \A p \in Copies \cup Plans : p.op = "prepare"
  BY DEF Runs, Copies, Plans
<1> QED BY <1>1, <1>2, <1>3 DEF Records

LEMMA Preparation ==
  ASSUME Typed, NEW c \in Calls, call[c].op = "prepare"
  PROVE  /\ call[c].pc \in CopyPcs => call[c] \in Copies
         /\ call[c].pc \in PlanPcs => call[c] \in Plans
<1>1. (\A p \in Copies : p.pc \in CopyPcs) /\ \A p \in Plans : p.pc \in PlanPcs
  BY DEF Copies, Plans
<1>2. \A x \in CopyPcs : x \notin PlanPcs
  BY DEF CopyPcs, PlanPcs
<1> QED BY Sorted, <1>1, <1>2

LEMMA Becomes ==
  ASSUME Typed, NEW c \in Calls, NEW q \in Records, call' = [call EXCEPT ![c] = q]
  PROVE  Others(c) /\ call'[c] = q
BY DEF Typed, Others

LEMMA GoesRun ==
  ASSUME Typed, NEW c \in Calls, NEW pc \in RunPcs, call[c] \in Runs, Goto(c, pc)
  PROVE  /\ Others(c) /\ call'[c] \in Runs /\ call'[c].pc = pc /\ call'[c].op = call[c].op
         /\ call'[c].i = call[c].i /\ call'[c].flag = call[c].flag
         /\ call'[c].auto = call[c].auto /\ call'[c].env = call[c].env /\ call'[c].ref = call[c].ref
<1> DEFINE q == [call[c] EXCEPT !.pc = pc]
<1>1. call' = [call EXCEPT ![c] = q]
  BY DEF Goto
<1>2. /\ q \in Runs /\ q.pc = pc /\ q.op = call[c].op /\ q.i = call[c].i /\ q.flag = call[c].flag
      /\ q.auto = call[c].auto /\ q.env = call[c].env /\ q.ref = call[c].ref
  BY DEF Runs
<1> HIDE DEF q
<1>3. q \in Records
  BY <1>2 DEF Records
<1> QED BY <1>1, <1>2, <1>3, Becomes

LEMMA GoesCopy ==
  ASSUME Typed, NEW c \in Calls, NEW pc \in CopyPcs, call[c] \in Copies, Goto(c, pc)
  PROVE  /\ Others(c) /\ call'[c] \in Copies /\ call'[c].pc = pc /\ call'[c].op = "prepare"
         /\ call'[c].d = call[c].d
<1> DEFINE q == [call[c] EXCEPT !.pc = pc]
<1>1. call' = [call EXCEPT ![c] = q]
  BY DEF Goto
<1>2. q \in Copies /\ q.pc = pc /\ q.op = "prepare" /\ q.d = call[c].d
  BY DEF Copies
<1> HIDE DEF q
<1>3. q \in Records
  BY <1>2 DEF Records
<1> QED BY <1>1, <1>2, <1>3, Becomes

LEMMA GoesPlan ==
  ASSUME Typed, NEW c \in Calls, NEW pc \in PlanPcs, call[c] \in Plans, Goto(c, pc)
  PROVE  /\ Others(c) /\ call'[c] \in Plans /\ call'[c].pc = pc /\ call'[c].op = "prepare"
         /\ call'[c].i = call[c].i /\ call'[c].k = call[c].k
         /\ call'[c].method = call[c].method /\ call'[c].steps = call[c].steps
<1> DEFINE q == [call[c] EXCEPT !.pc = pc]
<1>1. call' = [call EXCEPT ![c] = q]
  BY DEF Goto
<1>2. /\ q \in Plans /\ q.pc = pc /\ q.op = "prepare" /\ q.i = call[c].i /\ q.k = call[c].k
      /\ q.method = call[c].method /\ q.steps = call[c].steps
  BY DEF Plans
<1> HIDE DEF q
<1>3. q \in Records
  BY <1>2 DEF Records
<1> QED BY <1>1, <1>2, <1>3, Becomes

LEMMA Answers ==
  ASSUME Typed, NEW c \in Calls, Answer(c)
  PROVE  Others(c) /\ call'[c] = Idle /\ call'[c].op = "idle"
<1>1. Idle \in Records /\ Idle.op = "idle"
  BY DEF Records, Idle
<1>2. call' = [call EXCEPT ![c] = Idle]
  BY DEF Answer
<1> QED BY <1>1, <1>2, Becomes

LEMMA Falls ==
  ASSUME Typed, NEW c \in Calls, call[c] \in Copies, FallBack(c)
  PROVE  /\ Others(c)
         /\ \/ call'[c] = Idle /\ call'[c].op = "idle"
            \/ call'[c] \in Plans /\ call'[c].op = "prepare" /\ call'[c].pc = "steps"
<1>1. PICK q : q = Planned(call[c].i, call[c].k, call[c].strategy)
  OBVIOUS
<1>2. call[c].i \in Ids /\ call[c].k \in Capabilities /\ call[c].strategy \in Asked
  BY DEF Copies
<1>3. q = Idle \/ (q \in Plans /\ q.pc = "steps")
  BY <1>1, <1>2, PlannedTyped
<1>4. q \in Records
  BY <1>3 DEF Records
<1>5. call' = [call EXCEPT ![c] = q]
  BY <1>1 DEF FallBack
<1>6. Others(c) /\ call'[c] = q
  BY <1>4, <1>5, Becomes
<1>7. Idle.op = "idle" /\ \A x \in Plans : x.op = "prepare"
  BY DEF Idle, Plans
<1> QED BY <1>3, <1>6, <1>7

----------------------------------------------------------------------------
\* What a step that leaves the variables of a part alone keeps of it.

LEMMA CancelsKept ==
  ASSUME Typed, Cancels, NEW c \in Calls, Others(c), ~ Streaming(c), ~ Streaming(c)', UNCHANGED cancelVars
  PROVE  Cancels'
<1>1. \A o \in Calls : Streaming(o)' <=> Streaming(o)
  BY DEF Others, Streaming
<1>2. \A o \in Calls : Streaming(o) => call'[o] = call[o]
  BY DEF Others
<1>3. TokensLive'
  BY <1>1, <1>2 DEF Cancels, TokensLive, cancelVars, Typed
<1>4. \A o \in Calls : OwnFlag(o)'
  BY <1>1, <1>2 DEF Cancels, OwnFlag
<1>5. \A o \in Calls : FlagAsked(o)'
  BY <1>1 DEF Cancels, FlagAsked, cancelVars
<1>6. \A o \in Calls : LateOnce(o)'
  BY <1>1, <1>2 DEF Cancels, LateOnce, cancelVars
<1> QED BY <1>3, <1>4, <1>5, <1>6 DEF Cancels

LEMMA EnvironmentsKept ==
  ASSUME Environments, NEW c \in Calls, Others(c), RunsOwn(c)', PlanDone(c)', UNCHANGED envVars
  PROVE  Environments'
<1>1. (\A r \in prepared_environments : Carried(r))'
  BY DEF Environments, Carried, envVars
<1>2. (\A i \in Ids : Own(last_env_ref[i], i))'
  BY DEF Environments, envVars
<1>3. ASSUME NEW o \in Calls PROVE RunsOwn(o)' /\ PlanDone(o)'
  <2>1. CASE o # c
    <3>1. call'[o] = call[o] /\ RunsOwn(o) /\ PlanDone(o) /\ installed' = installed
      BY <2>1 DEF Others, Environments, envVars
    <3> QED BY <3>1 DEF RunsOwn, PlanDone
  <2> QED BY <2>1
<1> QED BY <1>1, <1>2, <1>3 DEF Environments

LEMMA CacheLeft ==
  ASSUME Cache, NEW c \in Calls, Others(c), \A d \in Digests : ~ Extracts(c, d)', UNCHANGED cacheVars
  PROVE  Cache'
<1> SUFFICES ASSUME NEW d \in Digests, d \notin overlapped
             PROVE  Alone(d)' /\ (\A o \in Calls : Prepared(o, d)') /\ (extracted'[d] => whole'[d])
  BY DEF Cache, CacheOf, cacheVars
<1>1. Alone(d) /\ (\A o \in Calls : Prepared(o, d)) /\ (extracted[d] => whole[d])
  BY DEF Cache, CacheOf
<1>2. \A o \in Calls : Extracts(o, d)' => Extracts(o, d) /\ call'[o] = call[o]
  BY DEF Others, Extracts
<1>3. Alone(d)'
  BY <1>1, <1>2 DEF Alone
<1>4. \A o \in Calls : Prepared(o, d)'
  BY <1>1, <1>2 DEF Prepared, cacheVars
<1> QED BY <1>1, <1>3, <1>4 DEF cacheVars

----------------------------------------------------------------------------
\* The inductive invariant.
Safe == Typed /\ Cancels /\ Environments /\ Cache

LEMMA InitSafe == Init => Safe
<1> SUFFICES ASSUME Init PROVE Safe
  OBVIOUS
<1> USE DEF Init
<1>1. \A c \in Calls : call[c].op = "idle"
  BY DEF Idle
<1>2. Typed
  <2>1. Idle \in Records /\ NoRef \in EnvRefs
    BY DEF Records, EnvRefs
  <2> QED BY <2>1 DEF Typed
<1>3. Cancels
  <2>1. TokensLive
    BY DEF TokensLive
  <2>2. ASSUME NEW c \in Calls PROVE OwnFlag(c) /\ FlagAsked(c) /\ LateOnce(c)
    BY <1>1 DEF OwnFlag, FlagAsked, LateOnce, Streaming
  <2> QED BY <2>1, <2>2 DEF Cancels
<1>4. Environments
  <2>1. \A i \in Ids : Own(last_env_ref[i], i)
    BY DEF Own, NoRef, Methods
  <2>2. ASSUME NEW c \in Calls PROVE RunsOwn(c) /\ PlanDone(c)
    BY <1>1 DEF RunsOwn, PlanDone
  <2> QED BY <2>1, <2>2 DEF Environments
<1>5. Cache
  BY <1>1 DEF Cache, CacheOf, Alone, Prepared, Extracts
<1> QED BY <1>2, <1>3, <1>4, <1>5 DEF Safe

\* Steps that no call takes part in.
LEMMA StillSafe ==
  ASSUME Safe, UNCHANGED <<envVars, cancelVars, cacheVars, call>>,
         catalog' \in [Capabilities -> Digests \cup {None}]
  PROVE  Safe'
<1>1. Typed'
  BY DEF Safe, Typed, envVars, cancelVars, cacheVars
<1>2. Cancels'
  <2>1. \A c : (Streaming(c) <=> Streaming(c)')
    BY DEF Streaming
  <2>2. TokensLive'
    BY <2>1 DEF Safe, Cancels, TokensLive, cancelVars
  <2>3. ASSUME NEW c \in Calls PROVE OwnFlag(c)' /\ FlagAsked(c)' /\ LateOnce(c)'
    BY <2>1 DEF Safe, Cancels, OwnFlag, FlagAsked, LateOnce, cancelVars
  <2> QED BY <2>2, <2>3 DEF Cancels
<1>3. Environments'
  BY DEF Safe, Environments, envVars, Carried, RunsOwn, PlanDone
<1>4. Cache'
  BY DEF Safe, Cache, CacheOf, Alone, Prepared, Extracts, cacheVars
<1> QED BY <1>1, <1>2, <1>3, <1>4 DEF Safe

\* Steps of a call that is no stream and touches neither flags, environments
\* nor the cache.
LEMMA QuietSafe ==
  ASSUME Safe, NEW c \in Calls, Others(c), ~ Streaming(c),
         call'[c].op \notin {"run", "stream"},
         call'[c].op = "prepare" => call'[c].pc \in {"cached", "steps"},
         UNCHANGED <<envVars, cancelVars, cacheVars, catalog>>
  PROVE  Safe'
<1>1. Typed'
  BY DEF Safe, Typed, envVars, cancelVars, cacheVars, Others
<1>2. ~ Streaming(c)' /\ RunsOwn(c)' /\ PlanDone(c)'
  BY DEF Streaming, RunsOwn, PlanDone
<1>3. \A d \in Digests : ~ Extracts(c, d)'
  BY DEF Extracts, ExtractPcs
<1> QED BY <1>1, <1>2, <1>3, CancelsKept, EnvironmentsKept, CacheLeft DEF Safe

LEMMA AnswerSafe ==
  ASSUME Safe, NEW c \in Calls, Answer(c), ~ Streaming(c), UNCHANGED <<envVars, cancelVars, cacheVars, catalog>>
  PROVE  Safe'
<1>1. Others(c) /\ call'[c].op = "idle"
  BY Answers DEF Safe
<1> QED BY <1>1, QuietSafe

LEMMA FallSafe ==
  ASSUME Safe, NEW c \in Calls, call[c] \in Copies, FallBack(c), UNCHANGED <<envVars, cancelVars, cacheVars, catalog>>
  PROVE  Safe'
<1>1. ~ Streaming(c)
  BY DEF Copies, Streaming
<1>2. Others(c) /\ (call'[c].op = "idle" \/ (call'[c].op = "prepare" /\ call'[c].pc = "steps"))
  BY Falls DEF Safe
<1> QED BY <1>1, <1>2, QuietSafe

\* The calls of tools.
LEMMA SimpleCallSafe ==
  ASSUME Safe, NEW c \in Calls, NEW q \in Simple, call[c] = Idle, call' = [call EXCEPT ![c] = q],
         UNCHANGED <<envVars, cancelVars, cacheVars, catalog>>
  PROVE  Safe'
<1>1. q \in Records /\ q.op \in {"terminate", "cancel", "file"}
  BY DEF Records, Simple
<1>2. Others(c) /\ call'[c] = q
  BY <1>1, Becomes DEF Safe
<1>3. ~ Streaming(c)
  BY DEF Streaming, Idle
<1> QED BY <1>1, <1>2, <1>3, QuietSafe

LEMMA TerminateCallSafe ==
  ASSUME Safe, NEW c \in Calls, NEW i \in Ids, TerminateCall(c, i)
  PROVE  Safe'
<1>1. [op |-> "terminate", i |-> i, pc |-> "delete"] \in Simple
  BY DEF Simple
<1> QED BY <1>1, SimpleCallSafe DEF TerminateCall, Starts

LEMMA FileToolSafe ==
  ASSUME Safe, NEW c \in Calls, NEW i \in Ids, FileTool(c, i) \/ SyncCall(c, i)
  PROVE  Safe'
<1>1. [op |-> "file", i |-> i, pc |-> "executor"] \in Simple
  BY DEF Simple
<1> QED BY <1>1, SimpleCallSafe DEF FileTool, SyncCall, Starts

LEMMA PrepareCallSafe ==
  ASSUME Safe, NEW c \in Calls, NEW i \in Ids, PrepareCall(c, i)
  PROVE  Safe'
<1>1. PICK k \in Capabilities, strategy \in Asked :
        call' = [call EXCEPT ![c] =
                  IF catalog[k] = None THEN Planned(i, k, strategy)
                  ELSE [op |-> "prepare", i |-> i, k |-> k, strategy |-> strategy, d |-> catalog[k],
                        method |-> "artifact", steps |-> 0, verify |-> 0, pc |-> "cached"]]
  BY DEF PrepareCall
<1>2. call[c] = Idle /\ UNCHANGED <<envVars, cancelVars, cacheVars, catalog>>
  BY DEF PrepareCall, Starts
<1>3. ~ Streaming(c)
  BY <1>2 DEF Streaming, Idle
<1> DEFINE q == IF catalog[k] = None THEN Planned(i, k, strategy)
                ELSE [op |-> "prepare", i |-> i, k |-> k, strategy |-> strategy, d |-> catalog[k],
                      method |-> "artifact", steps |-> 0, verify |-> 0, pc |-> "cached"]
<1>4. /\ q \in Records /\ q.op \in {"idle", "prepare"}
      /\ q.op = "prepare" => q.pc \in {"cached", "steps"}
  <2>1. CASE catalog[k] = None
    <3>1. q = Idle \/ (q \in Plans /\ q.pc = "steps")
      BY <2>1, PlannedTyped
    <3>2. Idle.op = "idle" /\ Idle \in Records /\ \A p \in Plans : p.op = "prepare" /\ p \in Records
      BY DEF Idle, Plans, Records
    <3> QED BY <3>1, <3>2
  <2>2. CASE catalog[k] # None
    <3>1. catalog[k] \in Digests
      BY <2>2 DEF Safe, Typed
    <3>2. q \in Copies /\ q.op = "prepare" /\ q.pc = "cached"
      BY <2>2, <3>1 DEF Copies, CopyPcs
    <3> QED BY <3>2 DEF Records
  <2> QED BY <2>1, <2>2
<1> HIDE DEF q
<1>5. call' = [call EXCEPT ![c] = q]
  BY <1>1 DEF q
<1>6. Others(c) /\ call'[c] = q
  BY <1>4, <1>5, Becomes DEF Safe
<1> QED BY <1>2, <1>3, <1>4, <1>6, QuietSafe

\* Steps that only end a call.
LEMMA EndSafe ==
  ASSUME Safe, NEW c \in Calls,
         TerminateDelete(c) \/ RunEnd(c) \/ CancelProvider(c) \/ FileDone(c)
  PROVE  Safe'
<1>1. ~ Streaming(c)
  BY DEF TerminateDelete, RunEnd, CancelProvider, FileDone, Streaming
<1>2. Answer(c) /\ UNCHANGED <<envVars, cancelVars, cacheVars, catalog>>
  BY DEF TerminateDelete, RunEnd, CancelProvider, FileDone, sandboxVars
<1> QED BY <1>1, <1>2, AnswerSafe

----------------------------------------------------------------------------
\* Commands and streams.

\* The environments and the cache over a step of a command or a stream.
LEMMA RunKeeps ==
  ASSUME Safe, NEW c \in Calls, Others(c), call'[c].op \in {"run", "stream"}, RunsOwn(c)',
         UNCHANGED <<envVars, cacheVars>>
  PROVE  Environments' /\ Cache'
<1>1. PlanDone(c)' /\ \A d \in Digests : ~ Extracts(c, d)'
  BY DEF PlanDone, Extracts
<1> QED BY <1>1, EnvironmentsKept, CacheLeft DEF Safe

LEMMA RunSafe ==
  ASSUME Safe, NEW c \in Calls, Others(c), call'[c].op \in {"run", "stream"}, RunsOwn(c)',
         ~ Streaming(c), ~ Streaming(c)', UNCHANGED <<envVars, cancelVars, cacheVars, catalog>>
  PROVE  Safe'
<1>1. Typed'
  BY DEF Safe, Typed, envVars, cancelVars, cacheVars, Others
<1> QED BY <1>1, RunKeeps, CancelsKept DEF Safe

\* A step forward of a command or a stream keeps what it runs in.
LEMMA GoesOwn ==
  ASSUME Safe, NEW c \in Calls, call[c] \in Runs, NEW pc \in RunPcs, call[c].pc # "env", Goto(c, pc),
         installed' = installed
  PROVE  RunsOwn(c)'
<1>1. RunsOwn(c)
  BY DEF Safe, Environments
<1>2. /\ call'[c].op = call[c].op /\ call'[c].i = call[c].i /\ call'[c].auto = call[c].auto
      /\ call'[c].env = call[c].env /\ call'[c].ref = call[c].ref
  BY GoesRun DEF Safe
<1> QED BY <1>1, <1>2 DEF RunsOwn

LEMMA RunCallSafe ==
  ASSUME Safe, NEW c \in Calls, NEW i \in Ids, RunCall(c, i)
  PROVE  Safe'
<1>1. PICK op \in {"run", "stream"}, given \in {NoRef} \cup prepared_environments :
        /\ Starts(c, op)
        /\ call' = [call EXCEPT ![c] =
                  [op |-> op, i |-> i, auto |-> given = NoRef, env |-> NoRef, flag |-> c,
                   ref |-> IF given # NoRef THEN given ELSE last_env_ref[i], pc |-> "env"]]
  BY DEF RunCall
<1>2. PICK ref : ref = IF given # NoRef THEN given ELSE last_env_ref[i]
  OBVIOUS
<1> DEFINE q == [op |-> op, i |-> i, auto |-> given = NoRef, env |-> NoRef, flag |-> c,
                 ref |-> ref, pc |-> "env"]
<1>3. ref \in EnvRefs
  BY <1>2 DEF Safe, Typed, EnvRefs
<1>4. q \in Runs /\ q.op = op /\ q.i = i /\ q.pc = "env" /\ q.ref = ref /\ (q.auto <=> given = NoRef)
  BY <1>3 DEF Runs, RunPcs, EnvRefs
<1>5. call' = [call EXCEPT ![c] = q]
  BY <1>1, <1>2
<1> HIDE DEF q
<1>6. Others(c) /\ call'[c] = q
  BY <1>4, <1>5, Becomes DEF Safe, Records
<1>7. RunsOwn(c)'
  <2>1. given = NoRef => Own(ref, i)
    BY <1>2 DEF Safe, Environments
  <2> QED BY <1>4, <1>6, <2>1 DEF RunsOwn
<1>8. ~ Streaming(c) /\ ~ Streaming(c)'
  BY <1>1, <1>4, <1>6 DEF Streaming, Starts, Idle
<1> QED BY <1>4, <1>6, <1>7, <1>8, RunSafe DEF RunCall

LEMMA RunEnvSafe ==
  ASSUME Safe, NEW c \in Calls, RunEnv(c)
  PROVE  Safe'
<1>1. call[c] \in Runs /\ call[c].pc = "env"
  BY Sorted DEF RunEnv, Safe
<1>2. PICK env : env = IF call[c].ref \in prepared_environments THEN call[c].ref ELSE NoRef
  OBVIOUS
<1> DEFINE p == [call[c] EXCEPT !.env = env]
           q == [p EXCEPT !.pc = "start"]
<1>3. env \in EnvRefs
  BY <1>1, <1>2 DEF Runs, EnvRefs
<1>4. /\ p \in Runs /\ p.op = call[c].op /\ p.i = call[c].i /\ p.auto = call[c].auto
      /\ p.env = env /\ p.ref = call[c].ref
  BY <1>1, <1>3 DEF Runs
<1>5. call' = [call EXCEPT ![c] = q]
  BY <1>2 DEF RunEnv
<1> HIDE DEF p
<1>6. /\ q \in Runs /\ q.op = call[c].op /\ q.i = call[c].i /\ q.auto = call[c].auto
      /\ q.env = env /\ q.ref = call[c].ref /\ q.pc = "start"
  BY <1>4 DEF Runs, RunPcs
<1> HIDE DEF q
<1>7. Others(c) /\ call'[c] = q
  BY <1>5, <1>6, Becomes DEF Safe, Records
<1>8. UNCHANGED <<envVars, cancelVars, cacheVars, catalog>> /\ call[c].op \in {"run", "stream"}
  BY DEF RunEnv
<1>9. RunsOwn(c)'
  <2>1. RunsOwn(c) /\ \A r \in prepared_environments : Carried(r)
    BY DEF Safe, Environments
  <2>2. ASSUME call[c].auto PROVE Own(call[c].ref, call[c].i) /\ (env = NoRef \/ env[3] \in installed[call[c].i])
    <3>1. Own(call[c].ref, call[c].i)
      BY <1>8, <2>1, <2>2 DEF RunsOwn
    <3>2. env = NoRef \/ (env = call[c].ref /\ Carried(env))
      BY <1>2, <2>1
    <3> QED BY <3>1, <3>2 DEF Own, Carried
  <2>3. installed' = installed
    BY <1>8 DEF envVars
  <2> QED BY <1>6, <1>7, <2>2, <2>3 DEF RunsOwn
<1>10. ~ Streaming(c) /\ ~ Streaming(c)'
  BY <1>1, <1>6, <1>7 DEF Streaming
<1> QED BY <1>6, <1>7, <1>8, <1>9, <1>10, RunSafe

LEMMA RunStartSafe ==
  ASSUME Safe, NEW c \in Calls, RunStart(c)
  PROVE  Safe'
<1>1. call[c] \in Runs /\ call[c].pc = "start" /\ call[c].op = "run"
  BY Sorted DEF RunStart, Safe
<1>2. UNCHANGED <<envVars, cancelVars, cacheVars, catalog>> /\ (Goto(c, "running") \/ Answer(c))
  BY DEF RunStart
<1>3. ~ Streaming(c)
  BY <1>1 DEF Streaming
<1>4. CASE Answer(c)
  BY <1>2, <1>3, <1>4, AnswerSafe
<1>5. CASE Goto(c, "running")
  <2>1. "running" \in RunPcs
    BY DEF RunPcs
  <2>2. Others(c) /\ call'[c].op = "run"
    BY <1>1, <1>5, <2>1, GoesRun DEF Safe
  <2>3. RunsOwn(c)'
    BY <1>1, <1>2, <1>5, <2>1, GoesOwn DEF envVars
  <2>4. ~ Streaming(c)'
    BY <2>2 DEF Streaming
  <2> QED BY <1>2, <1>3, <2>2, <2>3, <2>4, RunSafe
<1> QED BY <1>2, <1>4, <1>5

\* A stream registers a flag of its own.
LEMMA StreamRegisterSafe ==
  ASSUME Safe, NEW c \in Calls, StreamRegister(c)
  PROVE  Safe'
<1>1. call[c] \in Runs /\ call[c].pc = "start" /\ call[c].op = "stream"
  BY Sorted DEF StreamRegister, Safe
<1>2. PICK i \in Ids : i = call[c].i
  BY <1>1 DEF Runs
<1>3. /\ cancel_tokens' = [cancel_tokens EXCEPT ![i] = c] /\ flag' = [flag EXCEPT ![c] = FALSE]
      /\ asked' = asked \ {c} /\ late' = [late EXCEPT ![c] = 0]
      /\ UNCHANGED <<envVars, cacheVars, catalog>>
  BY <1>2 DEF StreamRegister, NewFlag
<1> DEFINE p == [call[c] EXCEPT !.flag = c]
           q == [p EXCEPT !.pc = "execute"]
<1>4. /\ p \in Runs /\ p.op = "stream" /\ p.i = i /\ p.auto = call[c].auto
      /\ p.env = call[c].env /\ p.ref = call[c].ref /\ p.flag = c
  BY <1>1, <1>2 DEF Runs
<1>5. call' = [call EXCEPT ![c] = q]
  BY DEF StreamRegister, NewFlag
<1> HIDE DEF p
<1>6. /\ q \in Runs /\ q.op = "stream" /\ q.i = i /\ q.auto = call[c].auto
      /\ q.env = call[c].env /\ q.ref = call[c].ref /\ q.pc = "execute" /\ q.flag = c
  BY <1>4 DEF Runs, RunPcs
<1> HIDE DEF q
<1>7. Others(c) /\ call'[c] = q
  BY <1>5, <1>6, Becomes DEF Safe, Records
<1>8. Typed'
  BY <1>3, <1>7 DEF Safe, Typed, envVars, cacheVars, Others
<1>9. RunsOwn(c)'
  <2>1. RunsOwn(c) /\ installed' = installed
    BY <1>3 DEF Safe, Environments, envVars
  <2> QED BY <1>1, <1>2, <1>6, <1>7, <2>1 DEF RunsOwn
<1>10. Environments' /\ Cache'
  BY <1>3, <1>6, <1>7, <1>9, RunKeeps
<1>11. ~ Streaming(c) /\ Streaming(c)' /\ \A o \in Calls : o # c => (Streaming(o)' <=> Streaming(o))
  BY <1>1, <1>6, <1>7 DEF Streaming, Others
<1>12. TokensLive'
  <2> SUFFICES ASSUME NEW j \in Ids, cancel_tokens'[j] # None
               PROVE  (Streaming(cancel_tokens[j]) /\ call[cancel_tokens[j]].i = j)'
    BY DEF TokensLive
  <2>1. CASE j = i
    BY <1>3, <1>6, <1>7, <1>11, <2>1 DEF Safe, Typed, Streaming
  <2>2. CASE j # i
    <3>1. PICK t \in Calls : t = cancel_tokens[j] /\ t = cancel_tokens'[j]
      BY <1>3, <2>2 DEF Safe, Typed
    <3>2. Streaming(t) /\ call[t].i = j
      BY <3>1 DEF Safe, Cancels, TokensLive
    <3> QED BY <1>7, <1>11, <3>1, <3>2 DEF Others, Streaming
  <2> QED BY <2>1, <2>2
<1>13. ASSUME NEW o \in Calls PROVE OwnFlag(o)' /\ FlagAsked(o)' /\ LateOnce(o)'
  <2>1. CASE o = c
    BY <1>3, <1>6, <1>7, <2>1 DEF Safe, Typed, OwnFlag, FlagAsked, LateOnce
  <2>2. CASE o # c
    <3>1. OwnFlag(o) /\ FlagAsked(o) /\ LateOnce(o)
      BY DEF Safe, Cancels
    <3>2. flag'[o] = flag[o] /\ late'[o] = late[o] /\ (o \in asked' <=> o \in asked) /\ call'[o] = call[o]
      BY <1>3, <1>7, <2>2 DEF Safe, Typed, Others
    <3> QED BY <1>11, <2>2, <3>1, <3>2 DEF OwnFlag, FlagAsked, LateOnce
  <2> QED BY <2>1, <2>2
<1> QED BY <1>8, <1>10, <1>12, <1>13 DEF Safe, Cancels

\* A stream that ends takes the token of its sandbox with it.
LEMMA EndStreamSafe ==
  ASSUME Safe, NEW c \in Calls, call[c] \in Runs, EndStream(c, Unregister(call[c].i)),
         UNCHANGED <<envVars, cacheVars, catalog>>
  PROVE  Safe'
<1>1. PICK i \in Ids : i = call[c].i
  BY DEF Runs
<1>2. /\ cancel_tokens' = [cancel_tokens EXCEPT ![i] = None] /\ flag' = [flag EXCEPT ![c] = FALSE]
      /\ asked' = asked \ {c} /\ late' = [late EXCEPT ![c] = 0] /\ Answer(c)
  BY <1>1 DEF EndStream, Unregister
<1>3. Others(c) /\ call'[c].op = "idle"
  BY <1>2, Answers DEF Safe
<1>4. Typed'
  BY <1>2, <1>3 DEF Safe, Typed, envVars, cacheVars, Others
<1>5. RunsOwn(c)' /\ PlanDone(c)' /\ (\A d \in Digests : ~ Extracts(c, d)') /\ ~ Streaming(c)'
  BY <1>3 DEF RunsOwn, PlanDone, Extracts, Streaming
<1>6. Environments' /\ Cache'
  BY <1>3, <1>5, EnvironmentsKept, CacheLeft DEF Safe
<1>7. \A o \in Calls : o # c => (Streaming(o)' <=> Streaming(o))
  BY <1>3 DEF Streaming, Others
<1>8. TokensLive'
  <2> SUFFICES ASSUME NEW j \in Ids, cancel_tokens'[j] # None
               PROVE  (Streaming(cancel_tokens[j]) /\ call[cancel_tokens[j]].i = j)'
    BY DEF TokensLive
  <2>1. j # i
    BY <1>2 DEF Safe, Typed
  <2>2. PICK t \in Calls : t = cancel_tokens[j] /\ t = cancel_tokens'[j]
    BY <1>2, <2>1 DEF Safe, Typed
  <2>3. Streaming(t) /\ call[t].i = j
    BY <2>2 DEF Safe, Cancels, TokensLive
  <2>4. t # c
    BY <1>1, <2>1, <2>3
  <2> QED BY <1>3, <1>7, <2>2, <2>3, <2>4 DEF Others, Streaming
<1>9. ASSUME NEW o \in Calls PROVE OwnFlag(o)' /\ FlagAsked(o)' /\ LateOnce(o)'
  <2>1. CASE o = c
    BY <1>2, <1>5, <2>1 DEF Safe, Typed, OwnFlag, FlagAsked, LateOnce
  <2>2. CASE o # c
    <3>1. OwnFlag(o) /\ FlagAsked(o) /\ LateOnce(o)
      BY DEF Safe, Cancels
    <3>2. flag'[o] = flag[o] /\ late'[o] = late[o] /\ (o \in asked' <=> o \in asked) /\ call'[o] = call[o]
      BY <1>2, <1>3, <2>2 DEF Safe, Typed, Others
    <3> QED BY <1>7, <2>2, <3>1, <3>2 DEF OwnFlag, FlagAsked, LateOnce
  <2> QED BY <2>1, <2>2
<1> QED BY <1>4, <1>6, <1>8, <1>9 DEF Safe, Cancels

\* A stream that goes on, with the count of its late chunks.
LEMMA StreamGoesSafe ==
  ASSUME Safe, NEW c \in Calls, Streaming(c), call[c] \in Runs, NEW pc \in {"wait", "progress"}, Goto(c, pc),
         UNCHANGED <<cancel_tokens, flag, asked, envVars, cacheVars, catalog>>,
         late' \in [Calls -> Nat], \A o \in Calls : o # c => late'[o] = late[o],
         late'[c] = 0 \/ (late'[c] = 1 /\ pc = "wait" /\ flag[c])
  PROVE  Safe'
<1>1. pc \in RunPcs /\ call[c].pc # "env" /\ call[c].op = "stream"
  BY DEF RunPcs, Streaming
<1>2. /\ Others(c) /\ call'[c].pc = pc /\ call'[c].op = "stream" /\ call'[c].i = call[c].i
      /\ call'[c].flag = call[c].flag
  BY <1>1, GoesRun DEF Safe
<1>3. Typed'
  BY <1>2 DEF Safe, Typed, envVars, cacheVars, Others
<1>4. RunsOwn(c)'
  BY <1>1, GoesOwn DEF envVars
<1>5. Environments' /\ Cache'
  BY <1>2, <1>4, RunKeeps
<1>6. \A o \in Calls : Streaming(o)' <=> Streaming(o)
  BY <1>2 DEF Streaming, Others
<1>7. TokensLive'
  <2> SUFFICES ASSUME NEW j \in Ids, cancel_tokens'[j] # None
               PROVE  (Streaming(cancel_tokens[j]) /\ call[cancel_tokens[j]].i = j)'
    BY DEF TokensLive
  <2>1. PICK t \in Calls : t = cancel_tokens[j] /\ t = cancel_tokens'[j]
    BY DEF Safe, Typed
  <2>2. Streaming(t) /\ call[t].i = j
    BY <2>1 DEF Safe, Cancels, TokensLive
  <2> QED BY <1>2, <1>6, <2>1, <2>2 DEF Others, Streaming
<1>8. ASSUME NEW o \in Calls PROVE OwnFlag(o)' /\ FlagAsked(o)' /\ LateOnce(o)'
  <2>1. OwnFlag(o) /\ FlagAsked(o) /\ LateOnce(o)
    BY DEF Safe, Cancels
  <2>2. CASE o = c
    BY <1>2, <1>6, <2>1, <2>2 DEF OwnFlag, FlagAsked, LateOnce
  <2>3. CASE o # c
    <3>1. late'[o] = late[o] /\ call'[o] = call[o]
      BY <1>2, <2>3 DEF Others
    <3> QED BY <1>6, <2>1, <3>1 DEF OwnFlag, FlagAsked, LateOnce
  <2> QED BY <2>2, <2>3
<1> QED BY <1>3, <1>5, <1>7, <1>8 DEF Safe, Cancels

LEMMA StreamStepSafe ==
  ASSUME Safe, NEW c \in Calls,
         StreamExecute(c) \/ StreamChunk(c) \/ StreamTake(c) \/ StreamEnd(c)
  PROVE  Safe'
<1>1. Streaming(c) /\ call[c].op = "stream"
  BY DEF StreamExecute, StreamChunk, StreamTake, StreamEnd, Streaming
<1>2. call[c] \in Runs
  BY <1>1, Sorted DEF Safe
<1>3. call[c].flag = c /\ LateOnce(c) /\ late \in [Calls -> Nat]
  BY <1>1 DEF Safe, Cancels, OwnFlag, Typed
<1>4. UNCHANGED <<envVars, cacheVars, catalog>>
  BY DEF StreamExecute, StreamChunk, StreamTake, StreamEnd
<1>5. CASE EndStream(c, Unregister(call[c].i))
  BY <1>2, <1>4, <1>5, EndStreamSafe
<1>6. CASE StreamExecute(c) /\ Goto(c, "wait") /\ UNCHANGED cancelVars
  <2>1. late'[c] = 0 /\ \A o \in Calls : late'[o] = late[o]
    BY <1>3, <1>6 DEF StreamExecute, LateOnce, cancelVars
  <2> QED BY <1>1, <1>2, <1>3, <1>4, <1>6, <2>1, StreamGoesSafe DEF cancelVars
<1>7. CASE StreamChunk(c) /\ Goto(c, "progress") /\ UNCHANGED cancelVars /\ ~ Cancelled(c)
  <2>1. late'[c] = 0 /\ \A o \in Calls : late'[o] = late[o]
    BY <1>3, <1>7 DEF StreamChunk, LateOnce, cancelVars, Cancelled
  <2> QED BY <1>1, <1>2, <1>3, <1>4, <1>7, <2>1, StreamGoesSafe DEF cancelVars
<1>8. CASE StreamTake(c)
  <2>1. late[c] = 0
    BY <1>3, <1>8 DEF StreamTake, LateOnce
  <2>2. late' = [late EXCEPT ![c] = IF flag[c] THEN late[c] + 1 ELSE late[c]]
    BY <1>3, <1>8 DEF StreamTake
  <2>3. /\ late' \in [Calls -> Nat] /\ (\A o \in Calls : o # c => late'[o] = late[o])
        /\ (late'[c] = 0 \/ (late'[c] = 1 /\ flag[c]))
    BY <1>3, <2>1, <2>2
  <2>4. Goto(c, "wait") /\ UNCHANGED <<cancel_tokens, flag, asked>>
    BY <1>8 DEF StreamTake
  <2> QED BY <1>1, <1>2, <1>4, <2>3, <2>4, StreamGoesSafe
<1> QED BY <1>5, <1>6, <1>7, <1>8 DEF StreamExecute, StreamChunk, StreamEnd

\* sandbox_cancel sets the flag of a stream that it finds running.
LEMMA CancelCallSafe ==
  ASSUME Safe, NEW c \in Calls, NEW i \in Ids, CancelCall(c, i)
  PROVE  Safe'
<1>1. PICK q \in Simple : q.op = "cancel" /\ call' = [call EXCEPT ![c] = q]
  BY DEF CancelCall, Simple
<1>2. Others(c) /\ call'[c] = q
  BY <1>1, Becomes DEF Safe, Records
<1>3. call[c] = Idle /\ UNCHANGED <<envVars, cancel_tokens, late, cacheVars, catalog>>
  BY DEF CancelCall, Starts
<1>4. /\ flag' = IF cancel_tokens[i] = None THEN flag ELSE [flag EXCEPT ![cancel_tokens[i]] = TRUE]
      /\ asked' = asked \cup {s \in Calls : Streaming(s) /\ call[s].i = i}
  BY DEF CancelCall
<1>5. ~ Streaming(c) /\ ~ Streaming(c)'
  BY <1>1, <1>2, <1>3 DEF Streaming, Idle
<1>6. Typed'
  BY <1>2, <1>3, <1>4 DEF Safe, Typed, Others, envVars, cacheVars
<1>7. RunsOwn(c)' /\ PlanDone(c)' /\ \A d \in Digests : ~ Extracts(c, d)'
  BY <1>1, <1>2 DEF RunsOwn, PlanDone, Extracts
<1>8. Environments' /\ Cache'
  BY <1>2, <1>3, <1>7, EnvironmentsKept, CacheLeft DEF Safe
<1>9. \A o \in Calls : (Streaming(o)' <=> Streaming(o)) /\ (Streaming(o) => call'[o] = call[o])
  BY <1>2, <1>5 DEF Streaming, Others
<1>10. TokensLive'
  <2> SUFFICES ASSUME NEW j \in Ids, cancel_tokens'[j] # None
               PROVE  (Streaming(cancel_tokens[j]) /\ call[cancel_tokens[j]].i = j)'
    BY DEF TokensLive
  <2>1. PICK t \in Calls : t = cancel_tokens[j] /\ t = cancel_tokens'[j]
    BY <1>3 DEF Safe, Typed
  <2>2. Streaming(t) /\ call[t].i = j
    BY <1>3, <2>1 DEF Safe, Cancels, TokensLive
  <2> QED BY <1>9, <2>1, <2>2 DEF Streaming
<1>11. ASSUME NEW o \in Calls PROVE OwnFlag(o)' /\ FlagAsked(o)' /\ LateOnce(o)'
  <2>1. OwnFlag(o) /\ FlagAsked(o) /\ LateOnce(o)
    BY DEF Safe, Cancels
  <2>2. flag[o] => flag'[o]
    BY <1>4 DEF Safe, Typed
  <2>3. flag'[o] => Streaming(o) /\ o \in asked'
    <3>1. CASE flag[o]
      BY <1>4, <2>1, <3>1 DEF FlagAsked
    <3>2. CASE flag'[o] /\ ~ flag[o]
      <4>1. cancel_tokens[i] # None /\ cancel_tokens[i] = o
        BY <1>4, <3>2 DEF Safe, Typed
      <4>2. Streaming(o) /\ call[o].i = i
        BY <4>1 DEF Safe, Cancels, TokensLive
      <4> QED BY <1>4, <4>2
    <3> QED BY <3>1, <3>2
  <2> QED BY <1>3, <1>9, <2>1, <2>2, <2>3 DEF OwnFlag, FlagAsked, LateOnce
<1> QED BY <1>6, <1>8, <1>10, <1>11 DEF Safe, Cancels

----------------------------------------------------------------------------
\* The host cache.

\* A digest that the step of a call leaves alone, and that it does not extract after it.
LEMMA CacheElsewhere ==
  ASSUME Cache, NEW c \in Calls, Others(c), NEW d \in Digests, ~ Extracts(c, d)',
         tar'[d] = tar[d], whole'[d] = whole[d], extracted'[d] = extracted[d],
         d \in overlapped => d \in overlapped'
  PROVE  CacheOf(d)'
<1> SUFFICES ASSUME d \notin overlapped'
             PROVE  Alone(d)' /\ (\A o \in Calls : Prepared(o, d)') /\ (extracted'[d] => whole'[d])
  BY DEF CacheOf
<1>1. Alone(d) /\ (\A o \in Calls : Prepared(o, d)) /\ (extracted[d] => whole[d])
  BY DEF Cache, CacheOf
<1>2. \A o \in Calls : Extracts(o, d)' => Extracts(o, d) /\ call'[o] = call[o]
  BY DEF Others, Extracts
<1>3. Alone(d)'
  BY <1>1, <1>2 DEF Alone
<1>4. \A o \in Calls : Prepared(o, d)'
  BY <1>1, <1>2 DEF Prepared
<1> QED BY <1>1, <1>3, <1>4

\* The digest that a call extracts: no other call does, unless they overlap.
LEMMA CacheHere ==
  ASSUME Cache, NEW c \in Calls, Others(c), NEW d \in Digests, Extracts(c, d), overlapped' = overlapped,
         d \notin overlapped => Prepared(c, d)' /\ (extracted'[d] => whole'[d])
  PROVE  CacheOf(d)'
<1> SUFFICES ASSUME d \notin overlapped
             PROVE  Alone(d)' /\ (\A o \in Calls : Prepared(o, d)') /\ (extracted'[d] => whole'[d])
  BY DEF CacheOf
<1>1. \A o \in Calls : Extracts(o, d)' => o = c
  BY DEF Cache, CacheOf, Alone, Others, Extracts
<1>2. \A o \in Calls : Prepared(o, d)'
  BY <1>1 DEF Prepared
<1> QED BY <1>1, <1>2 DEF Alone

\* The parts that a step of ensure_host_cache leaves alone.
LEMMA CopyKeeps ==
  ASSUME Safe, NEW c \in Calls, call[c] \in Copies, Others(c), call'[c].op \notin {"run", "stream"},
         call'[c].op = "prepare" => call'[c].pc \notin {"verify", "envs", "last"},
         UNCHANGED <<envVars, cancelVars>>
  PROVE  Cancels' /\ Environments'
<1>1. RunsOwn(c)' /\ PlanDone(c)' /\ ~ Streaming(c)'
  BY DEF RunsOwn, PlanDone, Streaming
<1>2. ~ Streaming(c)
  BY DEF Copies, Streaming
<1> QED BY <1>1, <1>2, CancelsKept, EnvironmentsKept DEF Safe

LEMMA CopyGoes ==
  ASSUME Safe, NEW c \in Calls, NEW pc \in CopyPcs, call[c] \in Copies, Goto(c, pc),
         UNCHANGED <<envVars, cancelVars>>
  PROVE  /\ Others(c) /\ call'[c].op = "prepare" /\ call'[c].pc = pc /\ call'[c].d = call[c].d
         /\ Cancels' /\ Environments'
<1>1. Others(c) /\ call'[c].op = "prepare" /\ call'[c].pc = pc /\ call'[c].d = call[c].d
  BY GoesCopy DEF Safe
<1>2. pc \notin {"verify", "envs", "last"}
  BY DEF CopyPcs
<1> QED BY <1>1, <1>2, CopyKeeps

LEMMA CacheCheckSafe ==
  ASSUME Safe, NEW c \in Calls, CacheCheck(c)
  PROVE  Safe'
<1>1. call[c] \in Copies /\ call[c].pc = "cached"
  BY Preparation DEF CacheCheck, Preparing, Safe, CopyPcs
<1>2. PICK d \in Digests : d = call[c].d
  BY <1>1 DEF Copies
<1>3. UNCHANGED <<envVars, cancelVars, tar, whole, extracted, catalog>>
  BY DEF CacheCheck
<1>4. CASE extracted[d]
  <2>1. Goto(c, "copy") /\ overlapped' = overlapped /\ "copy" \in CopyPcs
    BY <1>2, <1>4 DEF CacheCheck, CopyPcs
  <2>2. Others(c) /\ call'[c].pc = "copy" /\ Cancels' /\ Environments'
    BY <1>1, <1>3, <2>1, CopyGoes
  <2>3. \A e \in Digests : ~ Extracts(c, e)'
    BY <2>2 DEF Extracts, ExtractPcs
  <2>4. Cache'
    BY <1>3, <2>1, <2>2, <2>3, CacheLeft DEF Safe, cacheVars
  <2>5. Typed'
    BY <1>3, <2>1, <2>2 DEF Safe, Typed, Others, envVars, cancelVars
  <2> QED BY <2>2, <2>4, <2>5 DEF Safe
<1>5. CASE ~ extracted[d]
  <2>1. Goto(c, "tar") /\ "tar" \in CopyPcs
    BY <1>2, <1>5 DEF CacheCheck, CopyPcs, Uncached
  <2>2. overlapped' = IF Extracting(d) # {} THEN overlapped \cup {d} ELSE overlapped
    BY <1>2, <1>5 DEF CacheCheck
  <2>3. Others(c) /\ call'[c].pc = "tar" /\ call'[c].d = d /\ Cancels' /\ Environments'
    BY <1>1, <1>2, <1>3, <2>1, CopyGoes
  <2>4. ASSUME NEW e \in Digests PROVE CacheOf(e)'
    <3>1. CASE e # d
      <4>1. ~ Extracts(c, e)' /\ (e \in overlapped => e \in overlapped')
        BY <2>2, <2>3, <3>1 DEF Extracts
      <4> QED BY <1>3, <2>3, <4>1, CacheElsewhere DEF Safe
    <3>2. CASE e = d /\ Extracting(d) # {}
      BY <2>2, <3>2 DEF CacheOf
    <3>3. CASE e = d /\ Extracting(d) = {}
      <4>1. \A o \in Calls : ~ Extracts(o, d)
        BY <3>3 DEF Extracting, Extracts, ExtractPcs
      <4>2. \A o \in Calls : Extracts(o, d)' => o = c
        BY <2>3, <4>1 DEF Extracts, Others
      <4>3. \A o \in Calls : Prepared(o, d)'
        BY <1>3, <1>5, <2>3, <4>2 DEF Prepared
      <4> QED BY <1>3, <1>5, <3>3, <4>2, <4>3 DEF CacheOf, Alone
    <3> QED BY <3>1, <3>2, <3>3
  <2>5. Typed'
    BY <1>3, <2>3 DEF Safe, Typed, Others, envVars, cancelVars
  <2> QED BY <2>3, <2>4, <2>5 DEF Safe, Cache
<1> QED BY <1>4, <1>5

\* One step of the extraction of d by c: only the cache of d changes.
LEMMA ExtractSafe ==
  ASSUME Safe, NEW c \in Calls, NEW d \in Digests, Extracts(c, d), NEW pc \in CopyPcs, Goto(c, pc),
         UNCHANGED <<envVars, cancelVars, overlapped, catalog>>,
         tar' \in [Digests -> {"none", "empty", "full"}],
         whole' \in [Digests -> BOOLEAN], extracted' \in [Digests -> BOOLEAN],
         \A e \in Digests : e # d => tar'[e] = tar[e] /\ whole'[e] = whole[e] /\ extracted'[e] = extracted[e],
         pc = "copy" \/ ~ extracted'[d] \/ d \in overlapped,
         d \notin overlapped => /\ pc = "write" => tar'[d] = "empty"
                                /\ pc = "extract" => tar'[d] = "full"
                                /\ pc \in {"tidy", "mark"} => whole'[d]
                                /\ extracted'[d] => whole'[d]
  PROVE  Safe'
<1>1. call[c] \in Copies /\ call[c].d = d
  BY Preparation DEF Safe, Extracts, ExtractPcs, CopyPcs
<1>2. Others(c) /\ call'[c].pc = pc /\ call'[c].d = d /\ Cancels' /\ Environments'
  BY <1>1, CopyGoes
<1>3. ASSUME NEW e \in Digests PROVE CacheOf(e)'
  <2>1. CASE e # d
    <3>1. ~ Extracts(c, e)'
      BY <1>2, <2>1 DEF Extracts
    <3> QED BY <1>2, <2>1, <3>1, CacheElsewhere DEF Safe
  <2>2. CASE e = d
    <3>1. d \notin overlapped => Prepared(c, d)'
      BY <1>2 DEF Prepared, Extracts, ExtractPcs
    <3> QED BY <1>2, <2>2, <3>1, CacheHere DEF Safe
  <2> QED BY <2>1, <2>2
<1>4. Typed'
  BY <1>2 DEF Safe, Typed, Others, envVars, cancelVars
<1> QED BY <1>2, <1>3, <1>4 DEF Safe, Cache

LEMMA TarSafe ==
  ASSUME Safe, NEW c \in Calls,
         FetchFails(c) \/ TarOpen(c) \/ TarWrite(c) \/ TarExtract(c) \/ TarExtracted(c)
           \/ TarRemove(c) \/ Mark(c)
  PROVE  Safe'
<1>1. call[c].op = "prepare" /\ call[c].pc \in ExtractPcs /\ call[c] \in Copies
  <2>1. call[c].op = "prepare" /\ call[c].pc \in ExtractPcs
    BY DEF FetchFails, TarOpen, TarWrite, TarExtract, TarExtracted, TarRemove, Mark,
         Preparing, ExtractPcs
  <2>2. call[c].pc \in CopyPcs
    BY <2>1 DEF ExtractPcs, CopyPcs
  <2> QED BY <2>1, <2>2, Preparation DEF Safe
<1>2. PICK d \in Digests : d = call[c].d
  BY <1>1 DEF Copies
<1>3. Extracts(c, d)
  BY <1>1, <1>2 DEF Extracts
<1>4. UNCHANGED <<envVars, cancelVars, overlapped, catalog>>
  BY DEF FetchFails, TarOpen, TarWrite, TarExtract, TarExtracted, TarRemove, Mark,
         cacheVars
<1>5. /\ tar \in [Digests -> {"none", "empty", "full"}] /\ whole \in [Digests -> BOOLEAN]
      /\ extracted \in [Digests -> BOOLEAN]
  BY DEF Safe, Typed
<1>6. d \notin overlapped => Prepared(c, d) /\ ~ extracted[d] /\ \A o \in Calls : Extracts(o, d) => o = c
  BY <1>3 DEF Safe, Cache, CacheOf, Prepared, Alone
<1>7. {"write", "extract", "extracting", "tidy", "mark", "copy"} \subseteq CopyPcs
  BY DEF CopyPcs
<1>8. CASE FallBack(c) /\ UNCHANGED <<tar, whole, extracted>>
  BY <1>1, <1>4, <1>8, FallSafe DEF cacheVars
<1>9. CASE TarOpen(c)
  <2>1. tar' = [tar EXCEPT ![d] = "empty"] /\ Goto(c, "write") /\ UNCHANGED <<whole, extracted>>
    BY <1>2, <1>9 DEF TarOpen
  <2>2. /\ tar' \in [Digests -> {"none", "empty", "full"}] /\ tar'[d] = "empty"
        /\ \A e \in Digests : e # d => tar'[e] = tar[e]
    BY <1>5, <2>1
  <2> QED BY <1>3, <1>4, <1>5, <1>6, <1>7, <2>1, <2>2, ExtractSafe
<1>10. CASE TarWrite(c) /\ Goto(c, "extract") /\ tar' = [tar EXCEPT ![d] = IF tar[d] = "none" THEN "none" ELSE "full"]
  <2>1. UNCHANGED <<whole, extracted>> /\ call[c].pc = "write"
    BY <1>10 DEF TarWrite, Preparing
  <2>2. /\ tar' \in [Digests -> {"none", "empty", "full"}] /\ (d \notin overlapped => tar'[d] = "full")
        /\ \A e \in Digests : e # d => tar'[e] = tar[e]
    BY <1>3, <1>5, <1>6, <1>10, <2>1 DEF Prepared
  <2> QED BY <1>3, <1>4, <1>5, <1>6, <1>7, <1>10, <2>1, <2>2, ExtractSafe
<1>11. CASE TarExtract(c) /\ tar[d] = "empty"
  <2>1. Goto(c, "tidy") /\ UNCHANGED <<tar, whole, extracted>> /\ call[c].pc = "extract"
    BY <1>2, <1>11 DEF TarExtract, Preparing
  <2>2. d \in overlapped
    BY <1>3, <1>6, <1>11, <2>1 DEF Prepared
  <2> QED BY <1>3, <1>4, <1>5, <1>7, <2>1, <2>2, ExtractSafe
<1>12. CASE TarExtract(c) /\ tar[d] = "full"
  <2>1. Goto(c, "extracting") /\ UNCHANGED <<tar, extracted>> /\ whole' = [whole EXCEPT ![d] = FALSE]
    BY <1>2, <1>12 DEF TarExtract
  <2>2. whole' \in [Digests -> BOOLEAN] /\ \A e \in Digests : e # d => whole'[e] = whole[e]
    BY <1>5, <2>1
  <2> QED BY <1>3, <1>4, <1>5, <1>6, <1>7, <2>1, <2>2, ExtractSafe
<1>13. CASE TarExtracted(c) /\ Goto(c, "tidy")
            /\ whole' = [whole EXCEPT ![d] = \A o \in Extracting(d) \ {c} : call[o].pc # "extracting"]
  <2>1. UNCHANGED <<tar, extracted>>
    BY <1>13 DEF TarExtracted
  <2>2. d \notin overlapped => \A o \in Extracting(d) \ {c} : call[o].pc # "extracting"
    BY <1>6 DEF Extracting, Extracts, ExtractPcs
  <2>3. /\ whole' \in [Digests -> BOOLEAN] /\ (d \notin overlapped => whole'[d])
        /\ \A e \in Digests : e # d => whole'[e] = whole[e]
    BY <1>5, <1>13, <2>2
  <2> QED BY <1>3, <1>4, <1>5, <1>6, <1>7, <1>13, <2>1, <2>3, ExtractSafe
<1>14. CASE Mark(c)
  <2>1. /\ extracted' = [extracted EXCEPT ![d] = TRUE] \/ UNCHANGED extracted
        /\ Goto(c, "copy") /\ UNCHANGED <<tar, whole>> /\ call[c].pc = "mark"
    BY <1>2, <1>14 DEF Mark, Preparing
  <2>2. /\ extracted' \in [Digests -> BOOLEAN]
        /\ \A e \in Digests : e # d => extracted'[e] = extracted[e]
    BY <1>5, <2>1
  <2>3. d \notin overlapped => whole[d]
    BY <1>3, <1>6, <2>1 DEF Prepared
  <2> QED BY <1>3, <1>4, <1>5, <1>7, <2>1, <2>2, <2>3, ExtractSafe
<1>15. CASE FetchFails(c)
  BY <1>8, <1>15 DEF FetchFails, cacheVars
<1>16. CASE TarWrite(c)
  BY <1>2, <1>8, <1>10, <1>16 DEF TarWrite
<1>17. CASE TarExtract(c)
  <2>1. tar[d] \in {"none", "empty", "full"}
    BY <1>5
  <2>2. CASE tar[d] = "none"
    BY <1>2, <1>8, <1>17, <2>2 DEF TarExtract
  <2> QED BY <1>11, <1>12, <1>17, <2>1, <2>2
<1>18. CASE TarExtracted(c)
  BY <1>2, <1>8, <1>13, <1>18 DEF TarExtracted
<1>19. CASE TarRemove(c)
  <2>1. /\ tar' = [tar EXCEPT ![d] = "none"] \/ UNCHANGED tar
        /\ Goto(c, "mark") /\ UNCHANGED <<whole, extracted>> /\ call[c].pc = "tidy"
    BY <1>2, <1>19 DEF TarRemove, Preparing
  <2>2. /\ tar' \in [Digests -> {"none", "empty", "full"}]
        /\ \A e \in Digests : e # d => tar'[e] = tar[e]
    BY <1>5, <2>1
  <2>3. d \notin overlapped => whole[d]
    BY <1>3, <1>6, <2>1 DEF Prepared
  <2> QED BY <1>3, <1>4, <1>5, <1>6, <1>7, <2>1, <2>2, <2>3, ExtractSafe
<1> QED BY <1>9, <1>14, <1>15, <1>16, <1>17, <1>18, <1>19

----------------------------------------------------------------------------
\* Environments.

\* A capability is added to what is installed, or nothing is: what the other
\* calls and the references rely on stays.
LEMMA InstallKeeps ==
  ASSUME Safe, NEW c \in Calls, Others(c), RunsOwn(c)', PlanDone(c)',
         \A i \in Ids : installed[i] \subseteq installed'[i],
         UNCHANGED <<last_env_ref, prepared_environments>>
  PROVE  Environments'
<1>1. (\A r \in prepared_environments : Carried(r))'
  BY DEF Safe, Environments, Carried
<1>2. (\A i \in Ids : Own(last_env_ref[i], i))'
  BY DEF Safe, Environments
<1>3. ASSUME NEW o \in Calls, o # c PROVE RunsOwn(o)' /\ PlanDone(o)'
  <2>1. call'[o] = call[o] /\ RunsOwn(o) /\ PlanDone(o)
    BY <1>3 DEF Others, Safe, Environments
  <2>2. call[o].op \in {"run", "stream"} => call[o].i \in Ids
    BY Sorted DEF Safe, Runs
  <2>3. call[o].op = "prepare" => call[o].i \in Ids
    BY Sorted DEF Safe, Copies, Plans
  <2> QED BY <2>1, <2>2, <2>3 DEF RunsOwn, PlanDone
<1> QED BY <1>1, <1>2, <1>3 DEF Environments

\* A step of a plan neither streams nor extracts.
LEMMA PlanKeeps ==
  ASSUME Safe, NEW c \in Calls, call[c] \in Plans \/ call[c].pc = "copy", call[c].op = "prepare", Others(c),
         call'[c].op = "idle" \/ call'[c].pc \in PlanPcs, call'[c].op \notin {"run", "stream"},
         UNCHANGED <<cancelVars, cacheVars>>
  PROVE  Cancels' /\ Cache'
<1>1. ~ Streaming(c) /\ ~ Streaming(c)'
  BY DEF Streaming
<1>2. \A d \in Digests : ~ Extracts(c, d)'
  BY DEF Extracts, ExtractPcs, PlanPcs
<1> QED BY <1>1, <1>2, CancelsKept, CacheLeft DEF Safe

LEMMA MaterializeSafe ==
  ASSUME Safe, NEW c \in Calls, Materialize(c)
  PROVE  Safe'
<1>1. call[c].op = "prepare" /\ call[c].pc = "copy" /\ call[c] \in Copies
  BY Preparation DEF Materialize, Preparing, Safe, CopyPcs
<1>2. UNCHANGED <<installed, prepared_environments, cancelVars, cacheVars, catalog>>
  BY DEF Materialize
<1>3. CASE FallBack(c) /\ UNCHANGED last_env_ref
  BY <1>1, <1>2, <1>3, FallSafe DEF envVars
<1>4. CASE Answer(c) /\ last_env_ref' = [last_env_ref EXCEPT ![call[c].i] = Materialized(call[c].d)]
  <2>1. Others(c) /\ call'[c].op = "idle"
    BY <1>4, Answers DEF Safe
  <2>2. Cancels' /\ Cache'
    BY <1>1, <1>2, <2>1, PlanKeeps
  <2>3. PICK i \in Ids : i = call[c].i
    BY <1>1 DEF Copies
  <2>a. PICK m : m = Materialized(call[c].d)
    OBVIOUS
  <2>4. m \in EnvRefs /\ m[1] = "materialized"
    BY <1>1, <2>a DEF Copies, Materialized, EnvRefs, Refs
  <2>5. Typed'
    BY <1>2, <1>4, <2>1, <2>3, <2>a, <2>4 DEF Safe, Typed, Others, cancelVars, cacheVars
  <2>6. (\A r \in prepared_environments : Carried(r))'
    BY <1>2 DEF Safe, Environments, Carried
  <2>7. \A j \in Ids : Own(last_env_ref'[j], j)
    <3>1. Own(m, i)
      BY <2>4 DEF Own, Methods
    <3>2. \A j \in Ids : Own(last_env_ref[j], j) /\ last_env_ref'[j] = IF j = i THEN m ELSE last_env_ref[j]
      BY <1>4, <2>3, <2>a DEF Safe, Typed, Environments
    <3> QED BY <3>1, <3>2
  <2>8. ASSUME NEW o \in Calls PROVE RunsOwn(o)' /\ PlanDone(o)'
    <3>1. CASE o = c
      BY <2>1, <3>1 DEF RunsOwn, PlanDone
    <3>2. CASE o # c
      BY <1>2, <2>1, <3>2 DEF Safe, Environments, Others, RunsOwn, PlanDone
    <3> QED BY <3>1, <3>2
  <2> QED BY <2>2, <2>5, <2>6, <2>7, <2>8 DEF Safe, Environments
<1> QED BY <1>3, <1>4 DEF Materialize

LEMMA PlanStepSafe ==
  ASSUME Safe, NEW c \in Calls, PlanStep(c)
  PROVE  Safe'
<1>1. call[c].op = "prepare" /\ call[c].pc \in {"steps", "verify"} /\ call[c] \in Plans
  BY Preparation DEF PlanStep, Safe, PlanPcs
<1>2. UNCHANGED <<last_env_ref, prepared_environments, cancelVars, cacheVars, catalog>>
  BY DEF PlanStep
<1>3. CASE Answer(c) /\ UNCHANGED installed
  <2>1. ~ Streaming(c)
    BY <1>1 DEF Streaming
  <2> QED BY <1>2, <1>3, <2>1, AnswerSafe DEF envVars
<1> DEFINE p == call[c]
           steps == IF p.pc = "steps" /\ p.steps > 0 THEN p.steps - 1 ELSE p.steps
           verify == IF p.pc = "verify" /\ p.verify > 0 THEN p.verify - 1 ELSE p.verify
           one == [p EXCEPT !.steps = steps]
           left == [one EXCEPT !.verify = verify]
           q == [left EXCEPT !.pc = AfterPlan(left)]
<1>4. steps \in Nat /\ verify \in Nat
  BY <1>1 DEF Plans
<1>5. CASE /\ call' = [call EXCEPT ![c] = q]
           /\ installed' = IF left.steps = 0 THEN [installed EXCEPT ![p.i] = @ \cup {p.k}] ELSE installed
  <2> HIDE DEF steps, verify
  <2>1. one \in Plans /\ one.steps = steps /\ one.i = p.i /\ one.k = p.k
    BY <1>1, <1>4 DEF Plans
  <2> HIDE DEF one
  <2>2. left \in Plans /\ left.steps = steps /\ left.i = p.i /\ left.k = p.k
    BY <1>4, <2>1 DEF Plans
  <2> HIDE DEF left
  <2>3. AfterPlan(left) \in {"steps", "verify", "envs"} /\ (AfterPlan(left) # "steps" => steps = 0)
    BY <1>4, <2>2 DEF AfterPlan
  <2>4. q \in Plans /\ q.op = "prepare" /\ q.pc = AfterPlan(left) /\ q.steps = steps /\ q.i = p.i /\ q.k = p.k
    BY <2>2, <2>3 DEF Plans, PlanPcs
  <2> HIDE DEF q
  <2>5. Others(c) /\ call'[c] = q
    BY <1>5, <2>4, Becomes DEF Safe, Records
  <2>6. Cancels' /\ Cache'
    <3>1. q.pc \in PlanPcs
      BY <2>3, <2>4 DEF PlanPcs
    <3> QED BY <1>1, <1>2, <2>4, <2>5, <3>1, PlanKeeps
  <2>7. PICK i \in Ids, k \in Capabilities : i = p.i /\ k = p.k
    BY <1>1 DEF Plans
  <2>8. /\ installed' \in [Ids -> SUBSET Capabilities] /\ \A j \in Ids : installed[j] \subseteq installed'[j]
        /\ steps = 0 => k \in installed'[i]
    BY <1>5, <2>2, <2>7 DEF Safe, Typed
  <2>9. Typed'
    BY <1>2, <2>5, <2>8 DEF Safe, Typed, Others, cancelVars, cacheVars
  <2>10. RunsOwn(c)' /\ PlanDone(c)'
    BY <2>3, <2>4, <2>5, <2>7, <2>8 DEF RunsOwn, PlanDone
  <2>11. Environments'
    BY <1>2, <2>5, <2>8, <2>10, InstallKeeps
  <2> QED BY <2>6, <2>9, <2>11 DEF Safe
<1> QED BY <1>3, <1>5 DEF PlanStep

LEMMA PrepareEnvSafe ==
  ASSUME Safe, NEW c \in Calls, PrepareEnv(c)
  PROVE  Safe'
<1>1. call[c].op = "prepare" /\ call[c].pc = "envs" /\ call[c] \in Plans
  BY Preparation DEF PrepareEnv, Preparing, Safe, PlanPcs
<1>2. PICK m \in Methods, i \in Ids, k \in Capabilities : m = call[c].method /\ i = call[c].i /\ k = call[c].k
  BY <1>1 DEF Plans
<1>3. PICK r : r = Ref(m, i, k)
  OBVIOUS
<1>4. r \in Refs /\ r[1] = m /\ r[2] = i /\ r[3] = k
  BY <1>3 DEF Ref, Refs
<1>5. /\ prepared_environments' = prepared_environments \cup {r} /\ Goto(c, "last") /\ "last" \in PlanPcs
      /\ UNCHANGED <<installed, last_env_ref, cancelVars, cacheVars, catalog>>
  BY <1>2, <1>3 DEF PrepareEnv, PlanPcs
<1>6. /\ Others(c) /\ call'[c].pc = "last" /\ call'[c].op = "prepare" /\ call'[c].i = i /\ call'[c].k = k
  BY <1>1, <1>2, <1>5, GoesPlan DEF Safe
<1>7. Cancels' /\ Cache'
  BY <1>1, <1>5, <1>6, PlanKeeps
<1>8. Typed'
  BY <1>4, <1>5, <1>6 DEF Safe, Typed, Others, cancelVars, cacheVars
<1>9. k \in installed[i]
  BY <1>1, <1>2 DEF Safe, Environments, PlanDone
<1>10. (\A x \in prepared_environments : Carried(x))'
  <2>1. Carried(r)'
    BY <1>4, <1>5, <1>9 DEF Carried
  <2>2. \A x \in prepared_environments : Carried(x)'
    BY <1>5 DEF Safe, Environments, Carried
  <2> QED BY <1>5, <2>1, <2>2
<1>11. (\A j \in Ids : Own(last_env_ref[j], j))'
  BY <1>5 DEF Safe, Environments
<1>12. ASSUME NEW o \in Calls PROVE RunsOwn(o)' /\ PlanDone(o)'
  <2>1. CASE o = c
    BY <1>5, <1>6, <1>9, <2>1 DEF RunsOwn, PlanDone
  <2>2. CASE o # c
    BY <1>5, <1>6, <2>2 DEF Safe, Environments, Others, RunsOwn, PlanDone
  <2> QED BY <2>1, <2>2
<1> QED BY <1>7, <1>8, <1>10, <1>11, <1>12 DEF Safe, Environments

LEMMA PrepareRefSafe ==
  ASSUME Safe, NEW c \in Calls, PrepareRef(c)
  PROVE  Safe'
<1>1. call[c].op = "prepare" /\ call[c].pc = "last" /\ call[c] \in Plans
  BY Preparation DEF PrepareRef, Preparing, Safe, PlanPcs
<1>2. PICK m \in Methods, i \in Ids, k \in Capabilities : m = call[c].method /\ i = call[c].i /\ k = call[c].k
  BY <1>1 DEF Plans
<1>3. PICK r : r = Ref(m, i, k)
  OBVIOUS
<1>4. r \in EnvRefs /\ Own(r, i)
  BY <1>3 DEF Ref, Refs, EnvRefs, Own
<1>5. /\ last_env_ref' = [last_env_ref EXCEPT ![i] = r] /\ Answer(c)
      /\ UNCHANGED <<installed, prepared_environments, cancelVars, cacheVars, catalog>>
  BY <1>2, <1>3 DEF PrepareRef
<1>6. Others(c) /\ call'[c].op = "idle"
  BY <1>5, Answers DEF Safe
<1>7. Cancels' /\ Cache'
  BY <1>1, <1>5, <1>6, PlanKeeps
<1>8. Typed'
  BY <1>4, <1>5, <1>6 DEF Safe, Typed, Others, cancelVars, cacheVars
<1>9. (\A x \in prepared_environments : Carried(x))'
  BY <1>5 DEF Safe, Environments, Carried
<1>10. \A j \in Ids : Own(last_env_ref'[j], j)
  <2>1. \A j \in Ids : Own(last_env_ref[j], j) /\ last_env_ref'[j] = IF j = i THEN r ELSE last_env_ref[j]
    BY <1>5 DEF Safe, Typed, Environments
  <2> QED BY <1>4, <2>1
<1>11. ASSUME NEW o \in Calls PROVE RunsOwn(o)' /\ PlanDone(o)'
  <2>1. CASE o = c
    BY <1>6, <2>1 DEF RunsOwn, PlanDone
  <2>2. CASE o # c
    BY <1>5, <1>6, <2>2 DEF Safe, Environments, Others, RunsOwn, PlanDone
  <2> QED BY <2>1, <2>2
<1> QED BY <1>7, <1>8, <1>9, <1>10, <1>11 DEF Safe, Environments

\* The gateway starts again: no call is left, and of the digests those stay
\* marked whose artifact is whole.
LEMMA RestartSafe == ASSUME Safe, Restart PROVE Safe'
<1>1. /\ call' = [c \in Calls |-> Idle] /\ UNCHANGED <<installed, cacheVars>>
      /\ last_env_ref' = [i \in Ids |-> NoRef] /\ prepared_environments' = {}
      /\ cancel_tokens' = [i \in Ids |-> None]
      /\ late' = [c \in Calls |-> 0] /\ flag' = [c \in Calls |-> FALSE]
      /\ catalog' = [k \in Capabilities |-> None]
  BY DEF Restart
<1>2. \A c \in Calls : call'[c].op = "idle"
  BY <1>1 DEF Idle
<1>3. Typed'
  <2>1. Idle \in Records /\ NoRef \in EnvRefs
    BY DEF Records, EnvRefs
  <2> QED BY <1>1, <2>1 DEF Safe, Typed, cacheVars
<1>4. Cancels'
  <2>1. TokensLive'
    BY <1>1 DEF TokensLive
  <2>2. ASSUME NEW c \in Calls PROVE OwnFlag(c)' /\ FlagAsked(c)' /\ LateOnce(c)'
    BY <1>1, <1>2 DEF OwnFlag, FlagAsked, LateOnce, Streaming
  <2> QED BY <2>1, <2>2 DEF Cancels
<1>5. Environments'
  <2>1. \A i \in Ids : Own(last_env_ref'[i], i)
    BY <1>1 DEF Own, NoRef, Methods
  <2>2. ASSUME NEW c \in Calls PROVE RunsOwn(c)' /\ PlanDone(c)'
    BY <1>2 DEF RunsOwn, PlanDone
  <2> QED BY <1>1, <2>1, <2>2 DEF Environments
<1>6. Cache'
  BY <1>1, <1>2 DEF Safe, Cache, CacheOf, Alone, Prepared, Extracts, cacheVars
<1> QED BY <1>3, <1>4, <1>5, <1>6 DEF Safe

LEMMA NextSafe == Safe /\ [Next]_vars => Safe'
<1> SUFFICES ASSUME Safe, [Next]_vars PROVE Safe'
  OBVIOUS
<1>0. catalog \in [Capabilities -> Digests \cup {None}]
  BY DEF Safe, Typed
<1>1. ASSUME NEW i \in Ids, Create(i) \/ WorkerChanges(i) \/ Expire(i) PROVE Safe'
  BY <1>0, <1>1, StillSafe DEF Create, WorkerChanges, Expire
<1>2. ASSUME NEW c \in Calls, ToolStep(c) PROVE Safe'
  BY <1>2, EndSafe, RunEnvSafe, RunStartSafe, StreamRegisterSafe, StreamStepSafe, CacheCheckSafe, TarSafe,
     MaterializeSafe, PlanStepSafe, PrepareEnvSafe, PrepareRefSafe DEF ToolStep
<1>3. ASSUME NEW c \in Calls, NEW i \in Ids, ToolCall(c, i) PROVE Safe'
  BY <1>3, RunCallSafe, CancelCallSafe, PrepareCallSafe, TerminateCallSafe, FileToolSafe
     DEF ToolCall, WriteFile, ReadFile, ListFiles
<1>4. ASSUME NEW k \in Capabilities, NEW d \in Digests, RegisterArtifact(k, d) PROVE Safe'
  BY <1>0, <1>4, StillSafe DEF RegisterArtifact
<1>5. CASE Restart
  BY <1>5, RestartSafe
<1>6. CASE UNCHANGED vars
  BY <1>0, <1>6, StillSafe DEF vars
<1> QED BY <1>1, <1>2, <1>3, <1>4, <1>5, <1>6 DEF Next

LEMMA SafeAlways == Spec => []Safe
BY InitSafe, NextSafe, PTL DEF Spec

----------------------------------------------------------------------------
\* What is proved of the tools.

\* cancel_tokens names running streams of its sandbox only, however many streams of one sandbox
\* register, end and unregister by key, and over cancels and restarts.
THEOREM TokensNameStreams == Spec => []TokensLive
<1>1. Safe => TokensLive
  BY DEF Safe, Cancels
<1> QED BY <1>1, SafeAlways, PTL

\* sandbox_cancel never reaches a stream that was not running when it was called: the flag that a
\* stream reads is its own.
THEOREM CancelsAreMeant == Spec => []NoStrayCancel
<1>1. Safe => NoStrayCancel
  BY DEF Safe, Cancels, NoStrayCancel, OwnFlag, FlagAsked, Cancelled
<1> QED BY <1>1, SafeAlways, PTL

\* A stream whose flag is set takes at most the chunk that it was dealing with.
THEOREM CancelsAreSwift == Spec => []CancelPrompt
<1>1. Safe => CancelPrompt
  BY DEF Safe, Cancels, CancelPrompt, LateOnce
<1> QED BY <1>1, SafeAlways, PTL

\* A command that picks up the environment of its sandbox by itself runs where the plan of that
\* environment was carried out, whatever other calls prepare meanwhile.
THEOREM EnvironmentsExist == Spec => []EnvInstalled
<1>1. Safe => EnvInstalled
  BY DEF Safe, Environments, RunsOwn, EnvInstalled
<1> QED BY <1>1, SafeAlways, PTL

\* The marker .extracted of the host cache stands for a whole artifact, over failures of every
\* step and restarts between them, for every digest that no two calls extracted at a time.
THEOREM MarkersAreTrue == Spec => []MarkerSound
<1>1. Safe => MarkerSound
  BY DEF Safe, Cache, CacheOf, MarkerSound
<1> QED BY <1>1, SafeAlways, PTL

=============================================================================
