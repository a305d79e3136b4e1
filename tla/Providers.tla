----------------------------- MODULE Providers -----------------------------
(* The sandbox providers: what create, terminate, snapshots and cancel do   *)
(* to the host, to the provider's own maps and to its state machine, await  *)
(* by await, and what is left behind when one of their steps fails.         *)
(*                                                                          *)
(* Every call on the host may fail.  A sandbox id is a UUID, so it is given *)
(* to one create only.  Whether the network backend or the router is        *)
(* willing is up to the environment.                                        *)
EXTENDS Naturals, Sequences, FiniteSets

CONSTANTS Ids,      \* sandbox ids
          Calls,    \* calls in progress
          Names,    \* names of snapshots
          Kinds     \* the providers that are configured

ASSUME KindsAssumption ==
  Kinds \subseteq {"podman", "docker", "gvisor", "firecracker", "local", "wasm"}

VARIABLES kind,     \* kind[i]: the provider that sandbox i belongs to
          host,     \* host[i]: what exists outside the provider's memory
          entry,    \* entry[i]: the provider's map names i
          fsm,      \* fsm[i]: its entry in the state machine
          alive,    \* alive[i]: its process or container runs
          paused,   \* paused[i]: its VM is paused
          image,    \* image[n]: the sandbox whose snapshot is called n
          call,     \* call[c]: the call c and the await it is in
          created,  \* ids that a create has returned
          ended,    \* ids on which a terminate returned Ok
          spoiled,  \* ids for which a removal was refused, or undone by a snapshot
          tried,    \* ids on which a terminate was called
          stuck     \* ids whose snapshot failed half way
vars == <<kind, host, entry, fsm, alive, paused, image, call, created, ended, spoiled, tried, stuck>>

None == "None"
Idle == [op |-> "idle"]
Ops == {"create", "terminate", "snapshot", "cancel"}
Containers == {"podman", "docker"}
HasFsm == {"gvisor", "firecracker", "local"}

----------------------------------------------------------------------------
\* Mutants: the definitions below with a bug put in.
FirecrackerTerminateKeepsTap == <<"kill", "undir">>
FirecrackerSnapshotNoResume == <<"mkdir", "pause", "write">>
RegistersNoVm(k) == CASE k = "gvisor" -> "run" [] k = "firecracker" -> "never" [] OTHER -> "sandbox"
MapsLate(k) == CASE k = "gvisor" -> "connected" [] k = "firecracker" -> "boot" [] OTHER -> "sandbox"

----------------------------------------------------------------------------
\* The steps of create for each provider.

\* docker.create_container, start_container and the exec of the worker; podman alike.
ContainerCreate == <<"container", "start", "worker">>

\* Validation, bundle, the runsc process with map and state machine, the wait
\* for the container, the worker and the wait for its connection.
GVisorCreate == <<"image", "bundle", "run", "started", "connected">>

\* The directory comes before every check.
FirecrackerPrepare == <<"dir", "binary", "image", "rootfs", "tap">>
FirecrackerBoot == <<"spawn", "socket", "configure", "boot">>
\* start_via_serial runs its command through the worker it is about to start: it
\* succeeds only when the guest has brought one up by itself.
FirecrackerFinish == <<"connected", "register">>

LocalCreate == <<"workspace", "sandbox">>
WasmCreate == <<"vfs", "sandbox">>

CreateSteps(k) ==
  CASE k \in Containers -> ContainerCreate
    [] k = "gvisor" -> GVisorCreate
    [] k = "firecracker" -> FirecrackerPrepare \o FirecrackerBoot \o FirecrackerFinish
    [] k = "local" -> LocalCreate
    [] k = "wasm" -> WasmCreate

\* The steps of terminate.
ContainerTerminate == <<"remove">>
GVisorTerminate == <<"kill", "delete", "unbundle">>
FirecrackerTerminate == <<"kill", "teardown", "undir">>
LocalTerminate == <<"unworkspace", "forget">>
WasmTerminate == <<"unvfs", "forget">>

TerminateSteps(k) ==
  CASE k \in Containers -> ContainerTerminate
    [] k = "gvisor" -> GVisorTerminate
    [] k = "firecracker" -> FirecrackerTerminate
    [] k = "local" -> LocalTerminate
    [] k = "wasm" -> WasmTerminate

\* Pause, snapshot and resume of a VM; a container is committed in one call.
FirecrackerSnapshot == <<"mkdir", "pause", "write", "resume">>
ContainerSnapshot == <<"commit">>

\* What a step of create leaves on the host, and what one of terminate removes.
Gives(s) ==
  CASE s \in {"container", "bundle", "dir", "tap", "workspace", "vfs"} -> {s}
    [] s = "run" -> {"process", "container"}
    [] s = "spawn" -> {"process"}
    [] OTHER -> {}
Frees(s) ==
  CASE s = "kill" -> {"process"}
    [] s \in {"remove", "delete"} -> {"container"}
    [] s = "teardown" -> {"tap"}
    [] s = "undir" -> {"dir"}
    [] s = "unbundle" -> {"bundle"}
    [] s = "unworkspace" -> {"workspace"}
    [] s = "unvfs" -> {"vfs"}
    [] OTHER -> {}

\* The calls behind the steps that can fail.
ApiRequests == {"configure"}          \* of Firecracker's API socket
BootWaits == {"socket", "boot"}       \* wait_for_socket, wait_for_boot
BinaryChecks == {"binary"}            \* verify_worker_binary
ImageChecks == {"image"}              \* OciImage::validate, SquashfsImage::validate
RootfsCopies == {"bundle", "rootfs"}  \* RootfsManager
NetworkSetup == {"tap"}               \* TapNetworkBackend::setup
WorkerStarts == {"worker"}            \* an exec in the container
WorkerWaits == {"started", "connected"}
RuntimeCalls == {"container", "start", "run", "spawn", "dir", "workspace"}
Fallible == UNION {ApiRequests, BootWaits, BinaryChecks, ImageChecks, RootfsCopies,
                   NetworkSetup, WorkerStarts, WorkerWaits, RuntimeCalls}
\* Steps that can fail after they have left something: copy_dir and
\* inject_worker fail in a bundle directory that exists by then.
Partial == {"bundle"}
\* Steps whose errors are logged and forgotten.  A local provider with cleanup
\* switched off leaves the workspace in the same way.
Lenient == {"delete", "teardown", "undir", "unbundle", "unworkspace"}
\* Steps whose errors end the terminate: the container's removal, and the
\* teardown of a network backend that has one.
Strict == {"remove", "teardown"}

\* The step of create that enters i into the map, and into the state machine.
Maps(k) == CASE k = "gvisor" -> "run" [] k = "firecracker" -> "spawn" [] OTHER -> "sandbox"
Registers(k) == CASE k = "gvisor" -> "run" [] k = "firecracker" -> "register" [] OTHER -> "sandbox"
\* The step of terminate that takes it out again.
Unmaps == {"kill", "forget"}
Unregisters == {"delete", "teardown", "forget"}
\* What state_machine.remove leaves of an entry.
Removed == None
Starts == {"start", "run", "spawn", "workspace", "vfs"}
Stops == {"kill", "remove", "unworkspace", "unvfs"}

----------------------------------------------------------------------------

Init ==
  /\ kind \in [Ids -> Kinds]
  /\ host = [i \in Ids |-> {}]
  /\ entry = [i \in Ids |-> FALSE]
  /\ fsm = [i \in Ids |-> None]
  /\ alive = [i \in Ids |-> FALSE]
  /\ paused = [i \in Ids |-> FALSE]
  /\ image = [n \in Names |-> None]
  /\ call = [c \in Calls |-> Idle]
  /\ created = {} /\ ended = {} /\ spoiled = {} /\ tried = {} /\ stuck = {}

On(i, ops) == \E c \in Calls : call[c] # Idle /\ call[c].id = i /\ call[c].op \in ops
Unused(i) == ~On(i, Ops) /\ host[i] = {} /\ i \notin created \cup ended

Begin(c, r) == call[c] = Idle /\ call' = [call EXCEPT ![c] = r]
Step(c, op, steps) == call[c] # Idle /\ call[c].op = op /\ call[c].at \in DOMAIN steps
Advance(c, steps) ==
  call' = [call EXCEPT ![c] = IF call[c].at = Len(steps) THEN Idle
                              ELSE [call[c] EXCEPT !.at = call[c].at + 1]]
Return(c) == call' = [call EXCEPT ![c] = Idle]

\* create(id): the tools draw a fresh id.
CreateBegin(c, i) ==
  /\ Unused(i)
  /\ Begin(c, [op |-> "create", id |-> i, at |-> 1])
  /\ UNCHANGED <<kind, host, entry, fsm, alive, paused, image, created, ended, spoiled, tried, stuck>>

CreateStep(c) ==
  LET i == call[c].id
      k == kind[i]
      steps == CreateSteps(k)
      s == steps[call[c].at]
  IN /\ Step(c, "create", steps)
     /\ s \in {"socket", "configure", "boot", "started"} => alive[i]
     /\ host' = [host EXCEPT ![i] = @ \cup Gives(s)]
     /\ entry' = [entry EXCEPT ![i] = @ \/ (k \notin Containers /\ s = Maps(k))]
     /\ fsm' = [fsm EXCEPT ![i] = IF k \in HasFsm /\ s = Registers(k) THEN "Running" ELSE @]
     /\ alive' = [alive EXCEPT ![i] = @ \/ s \in Starts]
     /\ created' = IF call[c].at = Len(steps) THEN created \cup {i} ELSE created
     /\ Advance(c, steps)
     /\ UNCHANGED <<kind, paused, image, ended, spoiled, tried, stuck>>

\* An error of a step is returned as it is: nothing is undone.
CreateFails(c) ==
  LET i == call[c].id
      steps == CreateSteps(kind[i])
      s == steps[call[c].at]
  IN /\ Step(c, "create", steps)
     /\ s \in Fallible
     /\ \/ UNCHANGED host
        \/ s \in Partial /\ host' = [host EXCEPT ![i] = @ \cup Gives(s)]
     /\ Return(c)
     /\ UNCHANGED <<kind, entry, fsm, alive, paused, image, created, ended, spoiled, tried, stuck>>

\* terminate(id), of an id that was created; also of one that is gone.
\* bundle: the directory that the map's entry named.
TerminateBegin(c, i) ==
  /\ i \in created
  /\ Begin(c, [op |-> "terminate", id |-> i, at |-> 1, bundle |-> FALSE])
  /\ tried' = tried \cup {i}
  /\ UNCHANGED <<kind, host, entry, fsm, alive, paused, image, created, ended, spoiled, stuck>>

TerminateStep(c) ==
  LET i == call[c].id
      steps == TerminateSteps(kind[i])
      s == steps[call[c].at]
      gone == IF s = "unbundle" /\ ~call[c].bundle THEN {} ELSE Frees(s)
  IN /\ Step(c, "terminate", steps)
     /\ s = "remove" => "container" \in host[i]
     /\ \/ host' = [host EXCEPT ![i] = @ \ gone] /\ UNCHANGED spoiled
        \/ /\ s \in Lenient /\ gone \cap host[i] # {}
           /\ spoiled' = spoiled \cup {i} /\ UNCHANGED host
     /\ entry' = [entry EXCEPT ![i] = @ /\ s \notin Unmaps]
     /\ fsm' = [fsm EXCEPT ![i] = IF s \in Unregisters THEN Removed ELSE @]
     /\ alive' = [alive EXCEPT ![i] = @ /\ s \notin Stops]
     /\ paused' = [paused EXCEPT ![i] = @ /\ s # "kill"]
     /\ ended' = IF call[c].at = Len(steps) THEN ended \cup {i} ELSE ended
     /\ call' = [call EXCEPT ![c] =
                   IF call[c].at = Len(steps) THEN Idle
                   ELSE [call[c] EXCEPT !.at = call[c].at + 1,
                           !.bundle = call[c].bundle \/ (s = "kill" /\ entry[i])]]
     /\ UNCHANGED <<kind, image, created, tried, stuck>>

\* Removing a container that is not there is an error as well.
TerminateFails(c) ==
  LET i == call[c].id
      steps == TerminateSteps(kind[i])
      s == steps[call[c].at]
  IN /\ Step(c, "terminate", steps)
     /\ s \in Strict
     /\ fsm' = [fsm EXCEPT ![i] = IF s \in Unregisters THEN Removed ELSE @]
     /\ Return(c)
     /\ UNCHANGED <<kind, host, entry, alive, paused, image, created, ended, spoiled, tried, stuck>>

\* create_snapshot(id, name): the tool does not look whether id still exists.
SnapshotSteps(k) == IF k = "firecracker" THEN FirecrackerSnapshot ELSE ContainerSnapshot

SnapshotBegin(c, i, n) ==
  /\ i \in created /\ kind[i] \in Containers \cup {"firecracker"}
  /\ Begin(c, [op |-> "snapshot", id |-> i, at |-> 1, name |-> n])
  /\ UNCHANGED <<kind, host, entry, fsm, alive, paused, image, created, ended, spoiled, tried, stuck>>

SnapshotStep(c) ==
  LET i == call[c].id
      steps == SnapshotSteps(kind[i])
      s == steps[call[c].at]
  IN /\ Step(c, "snapshot", steps)
     /\ s \in {"pause", "write", "resume"} => alive[i]
     /\ s = "write" => paused[i]
     /\ s = "commit" => "container" \in host[i]
     /\ host' = [host EXCEPT ![i] = IF s = "mkdir" THEN @ \cup {"dir"} ELSE @]
     /\ spoiled' = IF s = "mkdir" /\ (i \in ended \/ On(i, {"terminate"}))
                     THEN spoiled \cup {i} ELSE spoiled
     /\ paused' = [paused EXCEPT ![i] = (@ \/ s = "pause") /\ s # "resume"]
     /\ image' = IF s = "commit" THEN [image EXCEPT ![call[c].name] = i] ELSE image
     /\ Advance(c, steps)
     /\ UNCHANGED <<kind, entry, fsm, alive, created, ended, tried, stuck>>

\* An error from pause to resume returns without the resume.  A request whose
\* answer could not be read may have taken effect.
SnapshotFails(c) ==
  LET i == call[c].id
      steps == SnapshotSteps(kind[i])
      s == steps[call[c].at]
  IN /\ Step(c, "snapshot", steps)
     /\ \/ UNCHANGED paused
        \/ s = "pause" /\ alive[i] /\ paused' = [paused EXCEPT ![i] = TRUE]
        \/ s = "resume" /\ paused' = [paused EXCEPT ![i] = FALSE]
     /\ stuck' = IF s \in {"pause", "write", "resume"} THEN stuck \cup {i} ELSE stuck
     /\ Return(c)
     /\ UNCHANGED <<kind, host, entry, fsm, alive, image, created, ended, spoiled, tried>>

\* restore_snapshot: a container of the snapshot's image under a new id, and no
\* worker in it; or the error of either call.
Restore(n, j) ==
  /\ image[n] # None /\ Unused(j) /\ kind[j] \in Containers
  /\ \/ /\ host' = [host EXCEPT ![j] = {"container"}]
        /\ alive' = [alive EXCEPT ![j] = TRUE]
        /\ created' = created \cup {j}
     \/ host' = [host EXCEPT ![j] = {"container"}] /\ UNCHANGED <<alive, created>>
  /\ UNCHANGED <<kind, entry, fsm, paused, image, call, ended, spoiled, tried, stuck>>

DeleteSnapshot(n) ==
  /\ image[n] # None
  /\ image' = [image EXCEPT ![n] = None]
  /\ UNCHANGED <<kind, host, entry, fsm, alive, paused, call, created, ended, spoiled, tried, stuck>>

\* PodmanProvider::cancel_command: SIGTERM to the container's first process, and
\* SIGKILL when it is still there after the grace period.
CancelBegin(c, i) ==
  /\ i \in created /\ kind[i] = "podman" /\ alive[i]
  /\ Begin(c, [op |-> "cancel", id |-> i, at |-> 1])
  /\ \E a \in BOOLEAN : alive' = [alive EXCEPT ![i] = a]
  /\ UNCHANGED <<kind, host, entry, fsm, paused, image, created, ended, spoiled, tried, stuck>>

CancelKill(c) ==
  /\ Step(c, "cancel", <<"kill">>)
  /\ \E a \in BOOLEAN : alive' = [alive EXCEPT ![call[c].id] = @ /\ a]
  /\ Return(c)
  /\ UNCHANGED <<kind, host, entry, fsm, paused, image, created, ended, spoiled, tried, stuck>>

\* The process in a sandbox ends by itself.
Exit(i) ==
  /\ alive[i] /\ kind[i] \notin {"local", "wasm"}
  /\ alive' = [alive EXCEPT ![i] = FALSE]
  /\ paused' = [paused EXCEPT ![i] = FALSE]
  /\ UNCHANGED <<kind, host, entry, fsm, image, call, created, ended, spoiled, tried, stuck>>

Next ==
  \/ \E c \in Calls : \/ CreateStep(c) \/ CreateFails(c)
                      \/ TerminateStep(c) \/ TerminateFails(c)
                      \/ SnapshotStep(c) \/ SnapshotFails(c)
                      \/ CancelKill(c)
                      \/ \E i \in Ids : \/ CreateBegin(c, i) \/ TerminateBegin(c, i)
                                        \/ CancelBegin(c, i)
                                        \/ \E n \in Names : SnapshotBegin(c, i, n)
  \/ \E n \in Names : DeleteSnapshot(n) \/ \E j \in Ids : Restore(n, j)
  \/ \E i \in Ids : Exit(i)

Spec == Init /\ [][Next]_vars

----------------------------------------------------------------------------
\* What the queries answer.  list_sandboxes: what the runtime lists, or the
\* state machine's ids that the map knows too.
ContainerListed(i) == "container" \in host[i]
GVisorListed(i) == fsm[i] # None /\ entry[i]
FirecrackerListed(i) == fsm[i] # None /\ entry[i]
Listed(i) ==
  CASE kind[i] \in Containers -> ContainerListed(i)
    [] kind[i] = "gvisor" -> GVisorListed(i)
    [] kind[i] = "firecracker" -> FirecrackerListed(i)
    [] kind[i] = "local" -> fsm[i] # None /\ entry[i]
    [] kind[i] = "wasm" -> entry[i]

\* get_info: found or NotFound.
ContainerInformed(i) == "container" \in host[i]
GVisorInformed(i) == entry[i]
FirecrackerInformed(i) == entry[i]
LocalInformed(i) == fsm[i] # None /\ entry[i]
Informed(i) ==
  CASE kind[i] \in Containers -> ContainerInformed(i)
    [] kind[i] = "gvisor" -> GVisorInformed(i)
    [] kind[i] = "firecracker" -> FirecrackerInformed(i)
    [] kind[i] = "local" -> LocalInformed(i)
    [] kind[i] = "wasm" -> entry[i]

\* is_alive: the state machine's verdict first, then the process.
ContainerAlive(i) == "container" \in host[i] /\ alive[i]
GVisorAlive(i) == fsm[i] \notin {"Stopped", "Failed"} /\ alive[i]
FirecrackerAlive(i) ==
  fsm[i] \notin {"Stopped", "Failed"} /\ "dir" \in host[i] /\ entry[i] /\ alive[i]
LocalAlive(i) == fsm[i] = "Running" \/ (fsm[i] = None /\ entry[i])
IsAlive(i) ==
  CASE kind[i] \in Containers -> ContainerAlive(i)
    [] kind[i] = "gvisor" -> GVisorAlive(i)
    [] kind[i] = "firecracker" -> FirecrackerAlive(i)
    [] kind[i] = "local" -> LocalAlive(i)
    [] kind[i] = "wasm" -> entry[i]

----------------------------------------------------------------------------
\* After a terminate that returned Ok nothing of the sandbox is left, in the
\* provider's maps or on the host, whatever other terminate or snapshot ran beside it;
\* unless the host refused a removal whose error the code ignores, or a late
\* snapshot made the directory again.
NoLeftover ==
  \A i \in ended \ spoiled :
    ~On(i, Ops) => host[i] = {} /\ ~entry[i] /\ fsm[i] = None /\ ~alive[i]

\* What a failed create left behind could still be removed by a terminate, with
\* one exception: a bundle whose runsc process was never started.
Reclaims(i) ==
  (UNION {Frees(s) : s \in {TerminateSteps(kind[i])[n] : n \in DOMAIN TerminateSteps(kind[i])}})
    \ (IF entry[i] THEN {} ELSE {"process", "bundle"})
Reclaimable ==
  \A i \in Ids \ (spoiled \cup created) :
    host[i] \ Reclaims(i) \subseteq (IF kind[i] = "gvisor" /\ ~entry[i] THEN {"bundle"} ELSE {})

\* A sandbox that was handed out and that nobody terminates is found by
\* list_sandboxes and by get_info, and is_alive tells whether its process runs.
KnownEverywhere ==
  \A i \in created \ tried :
    Listed(i) /\ Informed(i) /\ (IsAlive(i) <=> alive[i])

\* A VM is paused only while a snapshot of it is taken, or after one failed
\* half way.
PausedForSnapshot ==
  \A i \in Ids \ stuck : paused[i] => On(i, {"snapshot"})
============================================================================
