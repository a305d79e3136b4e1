---------------------------- MODULE PoolRecovery ----------------------------
(***************************************************************************)
(* A gateway that starts where another one ended: the containers and the   *)
(* rows are what a crash or an earlier life left behind.  main() first     *)
(* reconciles the table with podman (sync_from_provider), then spawns      *)
(* start(), whose recover_active_sandboxes fills the queue while the tools *)
(* and the expiration enforcer already run; the refill task comes last.    *)
(***************************************************************************)
EXTENDS SandboxPool

VARIABLES
  recovery,   \* main() and start(): position, the runtime's list, work left
  exited,     \* containers that exist and do not run
  quiet       \* constant: nothing happens but the start itself

recoveryVars == <<vars, recovery, exited, quiet>>

Running(i) == Removable(i) /\ i \notin exited
Registered(i) == kind[i].template = Image

Booting == [pc |-> "sync", seen |-> {}, todo |-> {}, id |-> None]

RecoveryInit ==
  /\ queue = <<>> /\ guard = "free"
  /\ box \in [Ids -> {"none", "up"}]
  /\ kind \in [Ids -> Requests]
  /\ row \in [Ids -> Statuses \cup {"none"}]
  /\ exited \in SUBSET {i \in Ids : box[i] = "up"}
  /\ out = {} /\ leaked = {} /\ faults = 0
  /\ total_idle = 0 /\ total_active = 0 /\ permits = MaxTotal
  /\ client = [c \in Clients |-> Idle]
  /\ task = Waiting /\ shutdown = FALSE
  /\ expiry = [todo |-> {}, id |-> None]
  /\ recovery = Booting /\ quiet \in BOOLEAN

------------------------------------------------------------------------------
\* sync_from_provider, under the lock of the table: running rows without a
\* container become stopped, then each container without a row gets one, with
\* the status of the entity list_sandboxes builds.  There is no transaction.
Absent == {i \in Ids : row[i] = "running" /\ ~Removable(i)}
Unknown == {i \in Ids : Removable(i) /\ row[i] = "none"}

Synced(stop, new) ==
  [i \in Ids |-> CASE i \in stop -> "stopped"
                   [] i \in new -> "pending"
                   [] OTHER -> row[i]]

Sync ==
  /\ recovery.pc = "sync"
  /\ \/ row' = Synced(Absent, Unknown) /\ UNCHANGED faults
     \/ /\ Fault
        /\ \/ \E stop \in SUBSET Absent : row' = Synced(stop, {})
           \/ \E new \in SUBSET Unknown : row' = Synced(Absent, new)
  /\ recovery' = [recovery EXCEPT !.pc = "list"]

\* recover_active_sandboxes: podman's running containers, once, at the start.
List ==
  /\ recovery.pc = "list"
  /\ \/ /\ recovery' = [recovery EXCEPT !.pc = "each",
                          !.seen = {i \in Ids : Running(i)},
                          !.todo = {i \in Ids : Running(i)}]
        /\ UNCHANGED faults
     \/ Fault /\ recovery' = [recovery EXCEPT !.pc = "done"]
  /\ UNCHANGED row

\* Phase 1: the row of a listed container; an image that is not pooled is
\* skipped, an error of the table too.
Find(i) ==
  /\ recovery.pc = "each" /\ i \in recovery.todo
  /\ \/ /\ Registered(i)
        /\ recovery' = [recovery EXCEPT !.todo = @ \ {i}, !.id = i,
                          !.pc = CASE row[i] = "none" -> "save"
                                   [] row[i] = "pending" -> "mark"
                                   [] OTHER -> "push"]
        /\ UNCHANGED faults
     \/ /\ ~Registered(i) /\ UNCHANGED faults
        /\ recovery' = [recovery EXCEPT !.todo = @ \ {i}]
     \/ /\ Registered(i) /\ Fault
        /\ recovery' = [recovery EXCEPT !.todo = @ \ {i}]
  /\ UNCHANGED row

\* mark_running() of what was read, and the update, whose failure is ignored.
Mark ==
  /\ recovery.pc = "mark"
  /\ Update(recovery.id, "running")
  /\ recovery' = [recovery EXCEPT !.pc = "push"]

SaveListed ==
  /\ recovery.pc = "save"
  /\ \/ /\ row[recovery.id] = "none" /\ UNCHANGED faults
        /\ row' = [row EXCEPT ![recovery.id] = "pending"]
        /\ recovery' = [recovery EXCEPT !.pc = "push"]
     \/ /\ \/ row[recovery.id] # "none" /\ UNCHANGED faults
           \/ row[recovery.id] = "none" /\ Fault
        /\ recovery' = [recovery EXCEPT !.pc = "each", !.id = None]
        /\ UNCHANGED row

\* The entity of the runtime's list goes into the queue, if there is room.
Reintegrate ==
  /\ recovery.pc = "push" /\ guard = "free"
  /\ \/ /\ Room
        /\ queue' = Pushed(recovery.id, "pending")
        /\ total_idle' = Plus(total_idle, 1)
     \/ ~Room /\ UNCHANGED <<queue, total_idle>>
  /\ recovery' = [recovery EXCEPT !.pc = "each", !.id = None]

\* Mutant: find_active selects the running rows only.
FindRunning ==
  /\ recovery.pc = "each" /\ recovery.todo = {}
  /\ recovery' = [recovery EXCEPT !.pc = "orphans",
          !.todo = {i \in Ids : row[i] = "running"} \ recovery.seen]
  /\ UNCHANGED <<row, faults>>

\* Phase 2: the active rows, of every provider, that podman's list lacks.
FindActive ==
  /\ recovery.pc = "each" /\ recovery.todo = {}
  /\ \/ /\ recovery' = [recovery EXCEPT !.pc = "orphans",
              !.todo = {i \in Ids : row[i] \in Active} \ recovery.seen]
        /\ UNCHANGED faults
     \/ Fault /\ recovery' = [recovery EXCEPT !.pc = "done"]
  /\ UNCHANGED row

\* terminate() of the row that was read, and its update.
Orphan(i) ==
  /\ recovery.pc = "orphans" /\ i \in recovery.todo
  /\ Update(i, "stopped")
  /\ recovery' = [recovery EXCEPT !.todo = @ \ {i}]

\* start() goes on and spawns the refill task.
RecoveryDone ==
  /\ recovery.pc = "orphans" /\ recovery.todo = {}
  /\ recovery' = [recovery EXCEPT !.pc = "done"]
  /\ UNCHANGED <<row, faults>>

RecoveryStep ==
  /\ task.pc # "stopped"
  /\ \/ /\ \/ Sync \/ List \/ Mark \/ SaveListed \/ FindActive \/ RecoveryDone
           \/ \E i \in Ids : Find(i) \/ Orphan(i)
        /\ UNCHANGED <<queue, total_idle>>
     \/ Reintegrate /\ UNCHANGED <<row, faults>>
  /\ UNCHANGED <<guard, box, kind, out, total_active, permits, client, task,
                 shutdown, expiry, leaked, exited>>

\* The tools and the enforcer run once main() is past sync_from_provider, the
\* refill task once the recovery is over.  stop() before that finds no task to
\* wait for.
Serve ==
  /\ recovery.pc # "sync"
  /\ Gateway(out)
  /\ recovery.pc = "done" \/ task' = task \/ task'.stopping
  /\ exited' = {i \in exited : box'[i] = "up"}
  /\ UNCHANGED recovery

\* A start that nothing else disturbs, or one among the tools and the enforcer.
RecoveryNext ==
  /\ \/ RecoveryStep
     \/ ~quiet /\ Serve
     \/ Exited /\ UNCHANGED <<recovery, exited>>
     \/ quiet /\ recovery.pc = "done" /\ UNCHANGED <<vars, recovery, exited>>
  /\ UNCHANGED quiet
RecoverySpec == RecoveryInit /\ [][RecoveryNext]_recoveryVars

------------------------------------------------------------------------------
\* Whatever an earlier gateway left behind, a start that nothing disturbs ends
\* with table, runtime and queue in step: a running container has a row, an
\* active row has a running container, the queue holds running containers of
\* the image only, each once, and leaves one out only when it is full.
Warm == {i \in Ids : Running(i) /\ Registered(i)}
QuietlyReconciled ==
  (quiet /\ recovery.pc = "done" /\ faults = 0) =>
    /\ \A i \in Ids : Running(i) => row[i] # "none"
    /\ \A i \in Ids : row[i] \in Active => Running(i)
    /\ Queued \subseteq Warm /\ Cardinality(Queued) = Len(queue)
    /\ Room => Queued = Warm

\* What the recovery shares among callers is confined to the containers that
\* its list of the runtime named: every other id is queued at most once, and
\* not while a caller or a call holds it.
SharingConfined ==
  \A i \in Ids \ recovery.seen :
    /\ \A j, k \in 1..Len(queue) :
         (queue[j].id = i /\ queue[k].id = i) => j = k
    /\ i \in Queued => i \notin out \cup InFlight
    /\ ~(i \in out /\ i \in InFlight)

==============================================================================
