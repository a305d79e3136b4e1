---------------------------- MODULE SandboxTools ----------------------------
(* The tools of the gateway that work inside a sandbox: running commands    *)
(* and streams, cancelling them, preparing an environment, file operations  *)
(* and sync, as they interleave at their awaits.  The gateway runs without  *)
(* a pool here; the pool has its own module.                                *)
EXTENDS Toolchains, FiniteSets

CONSTANTS Ids,          \* sandbox ids
          Calls,        \* tool calls in progress
          Kinds,        \* providers that are configured
          Capabilities, \* capabilities that callers ask for
          Configs,      \* Configs[k]: toolchains of k in the TOML registry
          Digests,      \* digests of artifacts
          Asked,        \* strategies that callers ask for
          Workloads,    \* the tools that callers of one behaviour use, and how many calls at a time
          MaxRestarts   \* bound on restarts of the gateway

ASSUME ToolsAssumption ==
  /\ Kinds \subseteq {"podman", "docker", "gvisor", "firecracker", "local", "wasm"}
  /\ \A k \in Capabilities : Configs[k] \in Seq(ToolchainDef)
  /\ MaxRestarts \in Nat

VARIABLES kind,         \* kind[i]: provider of sandbox i
          row,          \* row[i]: its row in the table
          alive,        \* alive[i]: its container, VM or workspace exists
          worker,       \* worker[i]: a worker is connected for it
          installed,    \* installed[i]: capabilities whose plan was carried out in it
          last_env_ref, \* last_env_ref[i]: the reference that commands pick up by themselves
          prepared_environments, \* references with an environment
          cancel_tokens,\* cancel_tokens[i]: the flag registered for i
          flag,         \* flag[c]: the flag that the stream of call c allocated
          catalog,      \* catalog[k]: digest of the artifact that provides k
          tar,          \* tar[d]: artifact.tar in the host cache
          whole,        \* whole[d]: the cache holds every file of the artifact
          extracted,    \* extracted[d]: the marker .extracted is there
          call,         \* call[c]: what call c is doing
          asked,        \* calls whose stream was asked to stop (history)
          late,         \* late[c]: chunks taken after its flag was set (history)
          overlapped,   \* digests that two calls extracted at the same time (history)
          workload,     \* the workload of this behaviour
          restarts
sandboxVars == <<kind, row, alive, worker, workload>>
envVars == <<installed, last_env_ref, prepared_environments>>
cancelVars == <<cancel_tokens, flag, asked, late>>
cacheVars == <<tar, whole, extracted, overlapped>>
vars == <<sandboxVars, envVars, cancelVars, cacheVars, catalog, call, restarts>>

None == "None"
Idle == [op |-> "idle"]
Methods == {"registry", "resolver"}
Ref(method, i, k) == <<method, i, k>>
Materialized(d) == <<"materialized", d>>
NoRef == <<"none">>
Refs == (Methods \X Ids \X Capabilities) \cup ({"materialized"} \X Digests)

----------------------------------------------------------------------------
\* The executors: who can take a command now.

\* The command goes to the worker or is refused with WorkerNotConnected.
PodmanExecutor(i) == worker[i]
DockerExecutor(i) == worker[i]
GvisorExecutor(i) == worker[i]
FirecrackerExecutor(i) == worker[i]
\* The command runs on the host, in the directory of the sandbox.
LocalExecutor(i) == alive[i]
WasmExecutor(i) == alive[i]
Executes(i) ==
  CASE kind[i] = "podman" -> PodmanExecutor(i)
    [] kind[i] = "docker" -> DockerExecutor(i)
    [] kind[i] = "gvisor" -> GvisorExecutor(i)
    [] kind[i] = "firecracker" -> FirecrackerExecutor(i)
    [] kind[i] = "local" -> LocalExecutor(i)
    [] kind[i] = "wasm" -> WasmExecutor(i)

\* Upload of a directory into the container; the other providers refuse.
CopiesTo(i) == kind[i] \in {"podman", "docker"} /\ alive[i]

\* RunCommandUseCase and the use case for streams: the row must be there and active.
RunnableRow(i) == row[i] = "active"
StreamableRow(i) == row[i] = "active"
FileRow(i) == row[i] = "active"

----------------------------------------------------------------------------
\* Mutants: definitions of this module with a bug put in.
SharedFlag(c, i) == IF cancel_tokens[i] # None THEN cancel_tokens[i] ELSE c
KeepsToken(i) == cancel_tokens
IgnoresFlag(c) == FALSE
MarksFirst == "mark"
SkipsPlan(p) == "envs"

----------------------------------------------------------------------------
Init ==
  /\ kind \in [Ids -> Kinds] /\ workload \in Workloads
  /\ row = [i \in Ids |-> "new"]
  /\ alive = [i \in Ids |-> FALSE] /\ worker = [i \in Ids |-> FALSE]
  /\ installed = [i \in Ids |-> {}]
  /\ last_env_ref = [i \in Ids |-> NoRef] /\ prepared_environments = {}
  /\ cancel_tokens = [i \in Ids |-> None]
  /\ flag = [c \in Calls |-> FALSE]
  /\ asked = {} /\ late = [c \in Calls |-> 0]
  /\ catalog = [k \in Capabilities |-> None]
  /\ tar = [d \in Digests |-> "none"]
  /\ whole = [d \in Digests |-> FALSE] /\ extracted = [d \in Digests |-> FALSE]
  /\ overlapped = {}
  /\ call = [c \in Calls |-> Idle]
  /\ restarts = 0

\* A caller begins a call of a tool.
Starts(c, tool) ==
  /\ call[c] = Idle /\ tool \in workload.tools
  /\ Cardinality({o \in Calls : call[o] # Idle}) < workload.calls
Goto(c, pc) == call' = [call EXCEPT ![c].pc = pc]
Answer(c) == call' = [call EXCEPT ![c] = Idle]
\* A stream is over: its flag is dropped with it.
EndStream(c, tokens) ==
  /\ Answer(c)
  /\ cancel_tokens' = tokens
  /\ flag' = [flag EXCEPT ![c] = FALSE]
  /\ asked' = asked \ {c} /\ late' = [late EXCEPT ![c] = 0]

----------------------------------------------------------------------------
\* Sandboxes come and go: other modules have the details.

Create(i) ==
  /\ row[i] = "new"
  /\ row' = [row EXCEPT ![i] = "active"]
  /\ alive' = [alive EXCEPT ![i] = TRUE]
  /\ worker' = [worker EXCEPT ![i] = kind[i] \notin {"local", "wasm"}]
  /\ UNCHANGED <<kind, workload, envVars, cancelVars, cacheVars, catalog, call, restarts>>

\* The worker loses its session and comes back.
WorkerChanges(i) ==
  /\ alive[i] /\ kind[i] \notin {"local", "wasm"}
  /\ worker' = [worker EXCEPT ![i] = ~ @]
  /\ UNCHANGED <<kind, workload, row, alive, envVars, cancelVars, cacheVars, catalog, call, restarts>>

\* The expiration enforcer removes the container and marks the row.
Expire(i) ==
  /\ row[i] = "active"
  /\ row' = [row EXCEPT ![i] = "ended"]
  /\ alive' = [alive EXCEPT ![i] = FALSE] /\ worker' = [worker EXCEPT ![i] = FALSE]
  /\ UNCHANGED <<kind, workload, envVars, cancelVars, cacheVars, catalog, call, restarts>>

\* TerminateSandboxUseCase: the row, then the provider, which removes the
\* container or fails and leaves the row.
TerminateCall(c, i) ==
  /\ Starts(c, "terminate") /\ row[i] \in {"active", "ended"}
  /\ alive' = [alive EXCEPT ![i] = FALSE] /\ worker' = [worker EXCEPT ![i] = FALSE]
  /\ call' = [call EXCEPT ![c] = [op |-> "terminate", i |-> i, pc |-> "delete"]]
  /\ UNCHANGED <<kind, workload, row, envVars, cancelVars, cacheVars, catalog, restarts>>
TerminateDelete(c) ==
  /\ call[c].op = "terminate" /\ call[c].pc = "delete"
  /\ row' = [row EXCEPT ![call[c].i] = "deleted"]
  /\ Answer(c)
  /\ UNCHANGED <<kind, workload, alive, worker, envVars, cancelVars, cacheVars, catalog, restarts>>

----------------------------------------------------------------------------
\* sandbox_run and sandbox_run_stream.

\* The reference is the caller's or the one last prepared for the sandbox.
RunCall(c, i) ==
  /\ \E op \in {"run", "stream"}, given \in {NoRef} \cup prepared_environments :
       /\ Starts(c, op)
       /\ call' = [call EXCEPT ![c] =
                 [op |-> op, i |-> i, auto |-> given = NoRef, env |-> NoRef, flag |-> c,
                  ref |-> IF given # NoRef THEN given ELSE last_env_ref[i], pc |-> "env"]]
  /\ UNCHANGED <<sandboxVars, envVars, cancelVars, cacheVars, catalog, restarts>>

\* A reference without an environment is passed over silently.
RunEnv(c) ==
  /\ call[c].op \in {"run", "stream"} /\ call[c].pc = "env"
  /\ call' = [call EXCEPT ![c].env = IF call[c].ref \in prepared_environments THEN call[c].ref ELSE NoRef,
                          ![c].pc = "start"]
  /\ UNCHANGED <<sandboxVars, envVars, cancelVars, cacheVars, catalog, restarts>>

RunStart(c) ==
  /\ call[c].op = "run" /\ call[c].pc = "start"
  /\ IF RunnableRow(call[c].i) /\ Executes(call[c].i) THEN Goto(c, "running") ELSE Answer(c)
  /\ UNCHANGED <<sandboxVars, envVars, cancelVars, cacheVars, catalog, restarts>>
RunEnd(c) ==
  /\ call[c].op = "run" /\ call[c].pc = "running"
  /\ Answer(c)
  /\ UNCHANGED <<sandboxVars, envVars, cancelVars, cacheVars, catalog, restarts>>

\* The flag of a stream is allocated for it and replaces whatever flag is
\* registered for the sandbox.
NewFlag(c, i) == c
StreamRegister(c) ==
  LET i == call[c].i IN
  /\ call[c].op = "stream" /\ call[c].pc = "start"
  /\ cancel_tokens' = [cancel_tokens EXCEPT ![i] = NewFlag(c, i)]
  /\ flag' = [flag EXCEPT ![c] = FALSE]
  /\ asked' = asked \ {c} /\ late' = [late EXCEPT ![c] = 0]
  /\ call' = [call EXCEPT ![c].flag = NewFlag(c, i), ![c].pc = "execute"]
  /\ UNCHANGED <<sandboxVars, envVars, cacheVars, catalog, restarts>>

\* The token of the sandbox is removed by key, whoever registered it.
Unregister(i) == [cancel_tokens EXCEPT ![i] = None]

StreamExecute(c) ==
  LET i == call[c].i IN
  /\ call[c].op = "stream" /\ call[c].pc = "execute"
  /\ IF StreamableRow(i) /\ Executes(i)
     THEN Goto(c, "wait") /\ UNCHANGED cancelVars
     ELSE EndStream(c, Unregister(i))
  /\ UNCHANGED <<sandboxVars, envVars, cacheVars, catalog, restarts>>

\* A chunk arrives: the flag is read before anything else is done with it.
Cancelled(c) == flag[call[c].flag]
StreamChunk(c) ==
  /\ call[c].op = "stream" /\ call[c].pc = "wait"
  /\ IF Cancelled(c)
     THEN EndStream(c, Unregister(call[c].i))
     ELSE Goto(c, "progress") /\ UNCHANGED cancelVars
  /\ UNCHANGED <<sandboxVars, envVars, cacheVars, catalog, restarts>>
\* After the notification of progress the chunk is taken.
StreamTake(c) ==
  /\ call[c].op = "stream" /\ call[c].pc = "progress"
  /\ late' = [late EXCEPT ![c] = IF flag[call[c].flag] THEN @ + 1 ELSE @]
  /\ Goto(c, "wait")
  /\ UNCHANGED <<sandboxVars, envVars, cancel_tokens, flag, asked, cacheVars, catalog, restarts>>
\* The stream ends by itself.
StreamEnd(c) ==
  /\ call[c].op = "stream" /\ call[c].pc = "wait"
  /\ EndStream(c, Unregister(call[c].i))
  /\ UNCHANGED <<sandboxVars, envVars, cacheVars, catalog, restarts>>

Streaming(c) == call[c].op = "stream" /\ call[c].pc \in {"execute", "wait", "progress"}

\* sandbox_cancel sets the registered flag and then asks the provider.
CancelCall(c, i) ==
  /\ Starts(c, "cancel")
  /\ flag' = IF cancel_tokens[i] = None THEN flag ELSE [flag EXCEPT ![cancel_tokens[i]] = TRUE]
  /\ asked' = asked \cup {s \in Calls : Streaming(s) /\ call[s].i = i}
  /\ call' = [call EXCEPT ![c] = [op |-> "cancel", i |-> i, pc |-> "provider"]]
  /\ UNCHANGED <<sandboxVars, envVars, cancel_tokens, late, cacheVars, catalog, restarts>>
\* podman ends the container of the command; the other providers do nothing.
CancelProvider(c) ==
  LET i == call[c].i  kills == kind[i] = "podman" /\ alive[i] IN
  /\ call[c].op = "cancel" /\ call[c].pc = "provider"
  /\ alive' = [alive EXCEPT ![i] = @ /\ ~ kills]
  /\ worker' = [worker EXCEPT ![i] = @ /\ ~ kills]
  /\ Answer(c)
  /\ UNCHANGED <<kind, workload, row, envVars, cancelVars, cacheVars, catalog, restarts>>

----------------------------------------------------------------------------
\* Files: each tool is the use case and one call of the executor.
FileTool(c, i) ==
  /\ Starts(c, "file") /\ FileRow(i) /\ Executes(i)
  /\ call' = [call EXCEPT ![c] = [op |-> "file", i |-> i, pc |-> "executor"]]
  /\ UNCHANGED <<sandboxVars, envVars, cancelVars, cacheVars, catalog, restarts>>
WriteFile(c, i) == FileTool(c, i)
ReadFile(c, i) == FileTool(c, i)
ListFiles(c, i) == FileTool(c, i)

\* sandbox_sync looks the sandbox up and asks whether it is alive; the copy
\* runs later, with podman's command line, whatever the provider.
SyncCall(c, i) ==
  /\ Starts(c, "file") /\ row[i] \in {"active", "ended"} /\ alive[i]
  /\ call' = [call EXCEPT ![c] = [op |-> "file", i |-> i, pc |-> "executor"]]
  /\ UNCHANGED <<sandboxVars, envVars, cancelVars, cacheVars, catalog, restarts>>

FileDone(c) ==
  /\ call[c].op = "file"
  /\ Answer(c)
  /\ UNCHANGED <<sandboxVars, envVars, cancelVars, cacheVars, catalog, restarts>>

----------------------------------------------------------------------------
\* sandbox_prepare and the artifact catalog.

RegisterArtifact(k, d) ==
  /\ "artifact" \in workload.tools
  /\ catalog' = [catalog EXCEPT ![k] = d]
  /\ UNCHANGED <<sandboxVars, envVars, cancelVars, cacheVars, call, restarts>>

\* Without an artifact: the plan of the registry, else the one of the resolver.
Planned(i, k, strategy) ==
  LET p == RegistryPlan(Configs[k], strategy)
      q == ResolverPlan(k, strategy)
      Call(m, plan) == [op |-> "prepare", i |-> i, k |-> k, strategy |-> strategy, d |-> None, method |-> m,
                        steps |-> plan.steps, verify |-> IF m = "registry" THEN plan.verify ELSE 0, pc |-> "steps"]
  IN IF p # NoPlan THEN Call("registry", p) ELSE IF q # NoPlan THEN Call("resolver", q) ELSE Idle

PrepareCall(c, i) ==
  /\ Starts(c, "prepare")
  /\ \E k \in Capabilities, strategy \in Asked :
       call' = [call EXCEPT ![c] =
                 IF catalog[k] = None THEN Planned(i, k, strategy)
                 ELSE [op |-> "prepare", i |-> i, k |-> k, strategy |-> strategy, d |-> catalog[k],
                       method |-> "artifact", steps |-> 0, verify |-> 0, pc |-> "cached"]]
  /\ UNCHANGED <<sandboxVars, envVars, cancelVars, cacheVars, catalog, restarts>>

Preparing(c, pc) == call[c].op = "prepare" /\ call[c].pc = pc
\* A failure of the materializer sends the call to the plans.
FallBack(c) == call' = [call EXCEPT ![c] = Planned(call[c].i, call[c].k, call[c].strategy)]

\* ensure_host_cache, await by await: the marker, the fetch, the tar, the extraction.
Extracting(d) == {c \in Calls : call[c].op = "prepare" /\ call[c].d = d
                                /\ call[c].pc \in {"tar", "write", "extract", "extracting", "tidy", "mark"}}
Uncached == "tar"     \* fetch and extract before the marker is written
CacheCheck(c) ==
  LET d == call[c].d IN
  /\ Preparing(c, "cached")
  /\ Goto(c, IF extracted[d] THEN "copy" ELSE Uncached)
  /\ overlapped' = IF ~ extracted[d] /\ Extracting(d) # {} THEN overlapped \cup {d} ELSE overlapped
  /\ UNCHANGED <<sandboxVars, envVars, cancelVars, tar, whole, extracted, catalog, restarts>>

\* The artifact is not in the store, or the directory cannot be made.
FetchFails(c) ==
  /\ Preparing(c, "tar") /\ FallBack(c)
  /\ UNCHANGED <<sandboxVars, envVars, cancelVars, cacheVars, catalog, restarts>>
\* The file is truncated, then written.
TarOpen(c) ==
  /\ Preparing(c, "tar")
  /\ tar' = [tar EXCEPT ![call[c].d] = "empty"]
  /\ Goto(c, "write")
  /\ UNCHANGED <<sandboxVars, envVars, cancelVars, whole, extracted, overlapped, catalog, restarts>>
TarWrite(c) ==
  /\ Preparing(c, "write")
  /\ \/ tar' = [tar EXCEPT ![call[c].d] = IF @ = "none" THEN "none" ELSE "full"] /\ Goto(c, "extract")
     \/ UNCHANGED tar /\ FallBack(c)
  /\ UNCHANGED <<sandboxVars, envVars, cancelVars, whole, extracted, overlapped, catalog, restarts>>

\* tar fails on a missing file, finds nothing in an empty one, and otherwise
\* replaces the files of the cache one by one.
TarExtract(c) ==
  LET d == call[c].d IN
  /\ Preparing(c, "extract")
  /\ CASE tar[d] = "none" -> FallBack(c) /\ UNCHANGED whole
       [] tar[d] = "empty" -> Goto(c, "tidy") /\ UNCHANGED whole
       [] tar[d] = "full" -> Goto(c, "extracting") /\ whole' = [whole EXCEPT ![d] = FALSE]
  /\ UNCHANGED <<sandboxVars, envVars, cancelVars, tar, extracted, overlapped, catalog, restarts>>
TarExtracted(c) ==
  LET d == call[c].d IN
  /\ Preparing(c, "extracting")
  /\ \/ whole' = [whole EXCEPT ![d] = \A o \in Extracting(d) \ {c} : call[o].pc # "extracting"]
        /\ Goto(c, "tidy")
     \/ UNCHANGED whole /\ FallBack(c)      \* the archive is damaged or the disk is full
  /\ UNCHANGED <<sandboxVars, envVars, cancelVars, tar, extracted, overlapped, catalog, restarts>>
\* The tar is removed and the marker written; the errors of both are ignored.
TarRemove(c) ==
  /\ Preparing(c, "tidy")
  /\ tar' = [tar EXCEPT ![call[c].d] = "none"] \/ UNCHANGED tar
  /\ Goto(c, "mark")
  /\ UNCHANGED <<sandboxVars, envVars, cancelVars, whole, extracted, overlapped, catalog, restarts>>
Mark(c) ==
  /\ Preparing(c, "mark")
  /\ extracted' = [extracted EXCEPT ![call[c].d] = TRUE] \/ UNCHANGED extracted
  /\ Goto(c, "copy")
  /\ UNCHANGED <<sandboxVars, envVars, cancelVars, tar, whole, overlapped, catalog, restarts>>

\* The copy and the verification in the sandbox; the reference is recorded,
\* but no environment is stored under it.
Materialize(c) ==
  LET i == call[c].i  d == call[c].d IN
  /\ Preparing(c, "copy")
  /\ \/ /\ CopiesTo(i)
        /\ last_env_ref' = [last_env_ref EXCEPT ![i] = Materialized(d)]
        /\ Answer(c)
     \/ UNCHANGED last_env_ref /\ FallBack(c)
  /\ UNCHANGED <<sandboxVars, installed, prepared_environments, cancelVars, cacheVars, catalog, restarts>>

\* The steps of a plan and its verifications, one command each; the first that fails ends the call.
AfterPlan(p) == IF p.steps > 0 THEN "steps" ELSE IF p.verify > 0 THEN "verify" ELSE "envs"
PlanStep(c) ==
  LET p == call[c]  left == [p EXCEPT !.steps = IF p.pc = "steps" /\ @ > 0 THEN @ - 1 ELSE @,
                                      !.verify = IF p.pc = "verify" /\ @ > 0 THEN @ - 1 ELSE @] IN
  /\ p.op = "prepare" /\ p.pc \in {"steps", "verify"}
  /\ \/ /\ Executes(p.i) \/ (p.steps = 0 /\ p.pc = "steps")
        /\ call' = [call EXCEPT ![c] = [left EXCEPT !.pc = AfterPlan(left)]]
        /\ installed' = IF left.steps = 0 THEN [installed EXCEPT ![p.i] = @ \cup {p.k}] ELSE installed
     \/ UNCHANGED installed /\ Answer(c)
  /\ UNCHANGED <<sandboxVars, last_env_ref, prepared_environments, cancelVars, cacheVars, catalog, restarts>>
PrepareEnv(c) ==
  /\ Preparing(c, "envs")
  /\ prepared_environments' = prepared_environments \cup {Ref(call[c].method, call[c].i, call[c].k)}
  /\ Goto(c, "last")
  /\ UNCHANGED <<sandboxVars, installed, last_env_ref, cancelVars, cacheVars, catalog, restarts>>
PrepareRef(c) ==
  /\ Preparing(c, "last")
  /\ last_env_ref' = [last_env_ref EXCEPT ![call[c].i] = Ref(call[c].method, call[c].i, call[c].k)]
  /\ Answer(c)
  /\ UNCHANGED <<sandboxVars, installed, prepared_environments, cancelVars, cacheVars, catalog, restarts>>

\* The gateway dies and starts again: the table, the sandboxes and the host
\* cache are what is left.
Restart ==
  /\ restarts < MaxRestarts
  /\ restarts' = restarts + 1
  /\ call' = [c \in Calls |-> Idle]
  /\ last_env_ref' = [i \in Ids |-> NoRef] /\ prepared_environments' = {}
  /\ cancel_tokens' = [i \in Ids |-> None]
  /\ asked' = {} /\ late' = [c \in Calls |-> 0] /\ flag' = [c \in Calls |-> FALSE]
  /\ catalog' = [k \in Capabilities |-> None]
  /\ worker' = [i \in Ids |-> FALSE]
  /\ UNCHANGED <<kind, workload, row, alive, installed, cacheVars>>

ToolCall(c, i) ==
  \/ RunCall(c, i) \/ CancelCall(c, i) \/ PrepareCall(c, i) \/ TerminateCall(c, i)
  \/ WriteFile(c, i) \/ ReadFile(c, i) \/ ListFiles(c, i) \/ SyncCall(c, i)
ToolStep(c) ==
  \/ TerminateDelete(c)
  \/ RunEnv(c) \/ RunStart(c) \/ RunEnd(c)
  \/ StreamRegister(c) \/ StreamExecute(c) \/ StreamChunk(c) \/ StreamTake(c) \/ StreamEnd(c)
  \/ CancelProvider(c) \/ FileDone(c)
  \/ CacheCheck(c) \/ FetchFails(c) \/ TarOpen(c) \/ TarWrite(c) \/ TarExtract(c) \/ TarExtracted(c)
  \/ TarRemove(c) \/ Mark(c) \/ Materialize(c) \/ PlanStep(c) \/ PrepareEnv(c) \/ PrepareRef(c)
Next ==
  \/ \E i \in Ids : Create(i) \/ WorkerChanges(i) \/ Expire(i)
  \/ \E c \in Calls : ToolStep(c) \/ \E i \in Ids : ToolCall(c, i)
  \/ \E k \in Capabilities, d \in Digests : RegisterArtifact(k, d)
  \/ Restart
Spec == Init /\ [][Next]_vars

----------------------------------------------------------------------------
\* Properties

\* sandbox_prepare and sandbox_run: a command that picked up its environment by itself runs in a
\* sandbox in which the plan behind that environment was carried out to its last step.
EnvInstalled ==
  \A c \in Calls :
    (/\ call[c].op \in {"run", "stream"} /\ call[c].pc \in {"running", "wait", "progress"}
     /\ call[c].auto /\ call[c].env # NoRef)
      => call[c].env[3] \in installed[call[c].i]

\* sandbox_run_stream: a stream whose flag is set was running when sandbox_cancel was called for
\* its sandbox; a cancel never reaches a later stream.
NoStrayCancel == \A c \in Calls : (Streaming(c) /\ Cancelled(c)) => c \in asked

\* cancel_tokens names running streams only: whichever way a stream ends, no token stays behind
\* that a later cancel would set for nobody.
TokensLive == \A i \in Ids : cancel_tokens[i] # None => Streaming(cancel_tokens[i]) /\ call[cancel_tokens[i]].i = i

\* Once its flag is set, a stream takes at most the one chunk it was already dealing with.
CancelPrompt == \A c \in Calls : late[c] <= 1

\* PodmanOptimizedMaterializer: a marker .extracted stands for a whole artifact, over failures and
\* restarts of the gateway, unless two calls extracted the same digest at the same time.
MarkerSound == \A d \in Digests : (extracted[d] /\ d \notin overlapped) => whole[d]

=============================================================================
