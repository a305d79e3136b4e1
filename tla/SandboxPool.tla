----------------------------- MODULE SandboxPool -----------------------------
(***************************************************************************)
(* The warm pool of sandboxes of the gateway: SandboxPoolManager           *)
(* (pool/manager.rs), the gateway tools that call it (sandbox_create and   *)
(* sandbox_terminate, with the create use case they fall back to), and the *)
(* expiration enforcer of main.rs.  They share the container runtime and   *)
(* the SQLite sandbox table.                                               *)
(*                                                                         *)
(* Every await of the code ends a step: the step runs the code since the   *)
(* previous await and the effect of the call it waits for.  The pool has   *)
(* the one queue that main.rs registers, that of the gateway's image.      *)
(***************************************************************************)
EXTENDS Integers, Sequences, FiniteSets

CONSTANTS
  Ids,        \* sandbox ids; an id nothing refers to any more is drawn again
  Clients,    \* concurrent MCP tool calls
  Requests,   \* what sandbox_create may be asked for: provider and template
  MinIdle,    \* PoolConfig.min_idle
  MaxIdle,    \* PoolConfig.max_idle
  MaxTotal,   \* PoolConfig.max_total, the permits of the semaphore
  MaxFaults,  \* bound: calls to the runtime or the table that may fail
  Word,       \* 2^64: the counters are AtomicUsize and wrap
  None        \* no sandbox, no request

Podman == "podman"
Image == "image"
PoolRequest == [provider |-> Podman, template |-> Image]

ASSUME RequestsAssumption ==
  Requests \subseteq [provider : {Podman, "other"},
                     template : {Image, "custom"}]
ASSUME NoneAssumption == None \notin Ids /\ None \notin Requests
ASSUME BoundsAssumption ==
  /\ MinIdle \in Nat /\ MaxIdle \in Nat /\ MaxTotal \in Nat
  /\ MaxFaults \in Nat
  /\ Word \in Nat /\ 2 * MaxIdle < Word
ASSUME ClientsAssumption ==
  IsFiniteSet(Clients) /\ "task" \notin Clients /\ "free" \notin Clients

VARIABLES
  queue,        \* PoolQueue.entries: warm sandboxes, oldest first
  guard,        \* who holds the DashMap guard of the queue across an await
  box,          \* the runtimes: does the container of an id exist?
  kind,         \* the request a container was created for
  row,          \* the SQLite table: the status of an id's row, or "none"
  out,          \* ids that a caller was given and has not handed back
  total_idle, total_active,
  permits,      \* free permits of the semaphore
  client,       \* one record per tool call in flight
  task,         \* the refill task, and stop() once it has ended
  shutdown,     \* stop() was called: the oneshot is sent
  expiry,       \* the expiration enforcer
  leaked,       \* history: ids on which a runtime or a table call failed
  faults        \* failed calls so far

vars == <<queue, guard, box, kind, row, out, total_idle, total_active, permits,
          client, task, shutdown, expiry, leaked, faults>>
counters == <<total_idle, total_active>>

Statuses == {"pending", "running", "stopped"}
Active == {"pending", "running"}   \* what find_expired and find_active select
Entries == [id : Ids, status : Statuses, old : BOOLEAN]
ClientPCs == {"idle", "lookup", "update", "permit", "create", "save",
              "direct_create", "direct_save", "terminate", "push",
              "direct_find", "direct_terminate", "direct_delete"}
TaskPCs == {"wait", "evict", "delete", "settle", "refill", "fill", "create",
            "save", "stopped"}
Calls == [pc : ClientPCs, req : Requests \cup {None}, id : Ids \cup {None},
          status : Statuses]
Tasks == [pc : TaskPCs, batch : Seq(Ids), evicted : Nat, id : Ids \cup {None},
          stopping : BOOLEAN]

Idle == [pc |-> "idle", req |-> None, id |-> None, status |-> "stopped"]
Waiting == [pc |-> "wait", batch |-> <<>>, evicted |-> 0, id |-> None,
            stopping |-> FALSE]

------------------------------------------------------------------------------
\* Arithmetic of AtomicUsize: fetch_add and fetch_sub wrap.
Plus(x, n) == IF x + n < Word THEN x + n ELSE x + n - Word
Minus(x, n) == IF x >= n THEN x - n ELSE x - n + Word

Queued == {queue[k].id : k \in 1..Len(queue)}
Batched == {task.batch[k] : k \in 1..Len(task.batch)}
InFlight == {client[c].id : c \in Clients} \cup Batched \cup {task.id}

\* SandboxId::generate(): a UUID that nothing refers to.
Fresh(i) ==
  /\ box[i] = "none" /\ row[i] = "none"
  /\ i \notin Queued \cup InFlight \cup out \cup expiry.todo

Fault == faults < MaxFaults /\ faults' = faults + 1

\* PodmanProvider.terminate removes the container.  It fails when there is none
\* or it is another runtime's, and may fail with the container left behind.
Removable(i) == box[i] = "up" /\ kind[i].provider = Podman
Terminate(i) ==
  \/ /\ Removable(i)
     /\ box' = [box EXCEPT ![i] = "none"]
     /\ UNCHANGED <<leaked, faults>>
  \/ ~Removable(i) /\ UNCHANGED <<box, leaked, faults>>
  \/ Removable(i) /\ Fault /\ leaked' = leaked \cup {i} /\ UNCHANGED box

\* PodmanProvider.create: the container of a fresh id.  A late failure (start,
\* worker injection) leaves it behind without telling the caller its id.
Launch(i, r) ==
  /\ Fresh(i)
  /\ box' = [box EXCEPT ![i] = "up"]
  /\ kind' = [kind EXCEPT ![i] = r]
Create(i, r) == Launch(i, r) /\ leaked' = leaked \ {i} /\ UNCHANGED faults
CreateFails(r) ==
  \/ /\ \A i \in Ids : ~Fresh(i)      \* Ids bounds what the host has room for
     /\ UNCHANGED <<box, kind, leaked, faults>>
  \/ Fault /\ UNCHANGED <<box, kind, leaked>>
  \/ Fault /\ \E i \in Ids : Launch(i, r) /\ leaked' = leaked \cup {i}

\* The table.  update and delete leave an absent row absent, and the pool
\* ignores their failures.  save fails on a row that exists.
Update(i, s) ==
  \/ row[i] # "none" /\ row' = [row EXCEPT ![i] = s] /\ UNCHANGED faults
  \/ row[i] = "none" /\ UNCHANGED <<row, faults>>
  \/ row[i] # "none" /\ Fault /\ UNCHANGED row
Delete(i) ==
  \/ row' = [row EXCEPT ![i] = "none"] /\ UNCHANGED faults
  \/ row[i] # "none" /\ Fault /\ UNCHANGED row
Save(i) ==
  row[i] = "none" /\ row' = [row EXCEPT ![i] = "running"] /\ UNCHANGED faults
SaveFails(i) ==
  /\ \/ row[i] # "none" /\ UNCHANGED faults
     \/ row[i] = "none" /\ Fault
  /\ leaked' = leaked \cup {i}
  /\ UNCHANGED row

\* A permit is dropped with the guard that acquire() or try_acquire() returned.
\* Mutant: a permit that is forgotten (OwnedSemaphorePermit::forget).
ReleaseForgotten == UNCHANGED permits
Release == permits' = permits + 1

\* PoolQueue::checkout and PoolQueue::checkin.
\* Mutant: front() instead of pop_front().
PeekFront == queue
PopFront == Tail(queue)
Room == Len(queue) < MaxIdle
\* Mutant: push_front() instead of push_back().
PushedFront(i, s) == <<[id |-> i, status |-> s, old |-> FALSE]>> \o queue
Pushed(i, s) == Append(queue, [id |-> i, status |-> s, old |-> FALSE])

------------------------------------------------------------------------------
Init ==
  /\ queue = <<>> /\ guard = "free"
  /\ box = [i \in Ids |-> "none"]
  /\ kind = [i \in Ids |-> PoolRequest]
  /\ row = [i \in Ids |-> "none"]
  /\ out = {} /\ leaked = {} /\ faults = 0
  /\ total_idle = 0 /\ total_active = 0 /\ permits = MaxTotal
  /\ client = [c \in Clients |-> Idle]
  /\ task = Waiting /\ shutdown = FALSE
  /\ expiry = [todo |-> {}, id |-> None]

At(c, pc) == client[c].pc = pc
Await(c, pc, id, status) ==
  client' = [client EXCEPT ![c] = [pc |-> pc, req |-> client[c].req,
                                   id |-> id, status |-> status]]
Goto(c, pc) == Await(c, pc, client[c].id, client[c].status)
Reply(c) == client' = [client EXCEPT ![c] = Idle]

\* sandbox_create enters the pool for podman requests only.
CreateCall(c, r) ==
  /\ At(c, "idle")
  /\ client' = [client EXCEPT ![c] =
       [pc |-> IF r.provider = Podman THEN "lookup" ELSE "direct_create",
        req |-> r, id |-> None, status |-> "stopped"]]
  /\ UNCHANGED <<queue, guard, box, kind, row, out, counters, permits, task,
                 shutdown, expiry, leaked, faults>>

\* checkout, pool hit: pop the oldest entry, count it, keep the queue's guard
\* while the row is rewritten from the entry.
CheckoutWarm(c) ==
  /\ At(c, "lookup") /\ client[c].req.template = Image
  /\ guard = "free" /\ queue # <<>>
  /\ queue' = PopFront
  /\ total_idle' = Minus(total_idle, 1)
  /\ total_active' = Plus(total_active, 1)
  /\ guard' = c
  /\ Await(c, "update", Head(queue).id, Head(queue).status)
  /\ UNCHANGED <<box, kind, row, out, permits, task, shutdown, expiry,
                 leaked, faults>>

CheckoutUpdate(c) ==
  /\ At(c, "update")
  /\ Update(client[c].id, client[c].status)
  /\ guard' = "free"
  /\ out' = out \cup {client[c].id}
  /\ Reply(c)
  /\ UNCHANGED <<queue, box, kind, counters, permits, task, shutdown, expiry,
                 leaked>>

\* checkout, pool miss: queue for a permit and create.
CheckoutMiss(c) ==
  /\ At(c, "lookup")
  /\ \/ client[c].req.template # Image
     \/ guard = "free" /\ queue = <<>>
  /\ Goto(c, "permit")
  /\ UNCHANGED <<queue, guard, box, kind, row, out, counters, permits, task,
                 shutdown, expiry, leaked, faults>>

\* Mutant: a checkout leaves the last permit to the refill task.
CheckoutAcquireYields(c) ==
  /\ At(c, "permit") /\ permits > 1
  /\ permits' = permits - 1
  /\ Goto(c, "create")
  /\ UNCHANGED <<queue, guard, box, kind, row, out, counters, task, shutdown,
                 expiry, leaked, faults>>

CheckoutAcquire(c) ==
  /\ At(c, "permit") /\ permits > 0
  /\ permits' = permits - 1
  /\ Goto(c, "create")
  /\ UNCHANGED <<queue, guard, box, kind, row, out, counters, task, shutdown,
                 expiry, leaked, faults>>

CheckoutCreate(c) ==
  /\ At(c, "create")
  /\ \/ \E i \in Ids :
          /\ Create(i, client[c].req)
          /\ Await(c, "save", i, client[c].status)
          /\ UNCHANGED permits
     \/ /\ CreateFails(client[c].req)
        /\ Release
        /\ Goto(c, "direct_create")
  /\ UNCHANGED <<queue, guard, row, out, counters, task, shutdown, expiry>>

\* The permit is dropped here whatever happened; a failed save leaves the
\* container behind.  sandbox_create then retries without the pool.
CheckoutSave(c) ==
  /\ At(c, "save")
  /\ Release
  /\ \/ /\ Save(client[c].id)
        /\ total_active' = Plus(total_active, 1)
        /\ out' = out \cup {client[c].id}
        /\ Reply(c)
        /\ UNCHANGED leaked
     \/ /\ Await(c, "direct_create", None, client[c].status)
        /\ SaveFails(client[c].id)
        /\ UNCHANGED <<total_active, out>>
  /\ UNCHANGED <<queue, guard, box, kind, total_idle, task, shutdown, expiry>>

\* CreateSandboxUseCase: no permit, no counter.
DirectCreate(c) ==
  /\ At(c, "direct_create")
  /\ \/ \E i \in Ids :
          /\ Create(i, client[c].req)
          /\ Await(c, "direct_save", i, client[c].status)
     \/ CreateFails(client[c].req) /\ Reply(c)
  /\ UNCHANGED <<queue, guard, row, out, counters, permits, task, shutdown,
                 expiry>>

DirectSave(c) ==
  /\ At(c, "direct_save")
  /\ \/ /\ Save(client[c].id)
        /\ out' = out \cup {client[c].id}
        /\ UNCHANGED leaked
     \/ SaveFails(client[c].id) /\ UNCHANGED out
  /\ Reply(c)
  /\ UNCHANGED <<queue, guard, box, kind, counters, permits, task, shutdown,
                 expiry>>

\* sandbox_terminate calls checkin for every sandbox whose row exists; with no
\* row both checkin and the terminate use case answer NotFound.  When the table
\* fails checkin, the tool goes on to the use case.
CheckinFind(c, i) ==
  /\ At(c, "idle") /\ row[i] # "none"
  /\ out' = out \ {i}
  /\ \/ Await(c, "terminate", i, row[i]) /\ UNCHANGED faults
     \/ Await(c, "direct_find", i, row[i]) /\ Fault
  /\ UNCHANGED <<queue, guard, box, kind, row, counters, permits, task,
                 shutdown, expiry, leaked>>

CheckinTerminate(c) ==
  /\ At(c, "terminate")
  /\ Terminate(client[c].id)
  /\ Goto(c, "push")
  /\ UNCHANGED <<queue, guard, kind, row, out, counters, permits, task,
                 shutdown, expiry>>

\* The entry that was read before the terminate goes back into the queue.
CheckinPush(c) ==
  /\ At(c, "push")
  /\ total_active' = Minus(total_active, 1)
  /\ \/ /\ kind[client[c].id].template = Image
        /\ guard = "free" /\ Room
        /\ queue' = Pushed(client[c].id, client[c].status)
        /\ total_idle' = Plus(total_idle, 1)
     \/ /\ kind[client[c].id].template = Image => guard = "free" /\ ~Room
        /\ UNCHANGED <<queue, total_idle>>
  /\ Reply(c)
  /\ UNCHANGED <<guard, box, kind, row, out, permits, task, shutdown, expiry,
                 leaked, faults>>

\* TerminateSandboxUseCase reads the row, whose provider removes the container.
DirectFind(c) ==
  /\ At(c, "direct_find")
  /\ \/ /\ row[client[c].id] # "none"
        /\ Await(c, "direct_terminate", client[c].id, row[client[c].id])
        /\ UNCHANGED <<leaked, faults>>
     \/ /\ \/ row[client[c].id] = "none" /\ UNCHANGED faults
           \/ row[client[c].id] # "none" /\ Fault
        /\ leaked' = leaked \cup {client[c].id}
        /\ Reply(c)
  /\ UNCHANGED <<queue, guard, box, kind, row, out, counters, permits, task,
                 shutdown, expiry>>

\* A failed removal ends the call, and so does a row that is stopped already.
DirectTerminate(c) ==
  /\ At(c, "direct_terminate")
  /\ \/ /\ box[client[c].id] = "up"
        /\ box' = [box EXCEPT ![client[c].id] = "none"]
        /\ \/ client[c].status \in Active /\ Goto(c, "direct_delete")
           \/ client[c].status \notin Active /\ Reply(c)
        /\ UNCHANGED <<leaked, faults>>
     \/ /\ box[client[c].id] = "none" /\ Reply(c)
        /\ UNCHANGED <<box, leaked, faults>>
     \/ /\ box[client[c].id] = "up" /\ Reply(c)
        /\ Fault /\ leaked' = leaked \cup {client[c].id} /\ UNCHANGED box
  /\ UNCHANGED <<queue, guard, kind, row, out, counters, permits, task,
                 shutdown, expiry>>

DirectDelete(c) ==
  /\ At(c, "direct_delete")
  /\ Delete(client[c].id)
  /\ Reply(c)
  /\ UNCHANGED <<queue, guard, box, kind, out, counters, permits, task,
                 shutdown, expiry, leaked>>

------------------------------------------------------------------------------
\* An entry has been idle for longer than idle_timeout_ms.  Entries are pushed
\* at the back with the current instant, so the oldest come of age first.
Age ==
  /\ \E k \in 1..Len(queue) :
       /\ ~queue[k].old /\ \A j \in 1..(k-1) : queue[j].old
       /\ queue' = [queue EXCEPT ![k].old = TRUE]
  /\ UNCHANGED <<guard, box, kind, row, out, counters, permits, client, task,
                 shutdown, expiry, leaked, faults>>

\* The first pass of refill_and_evict, and the sweep of stop() once the refill
\* task has seen the shutdown signal: evict_idle under the queue's guard.
EvictIdle(stopping) ==
  /\ task.pc = "wait" /\ guard = "free"
  /\ stopping => shutdown
  /\ guard' = "task"
  /\ \E n \in 0..Len(queue) :
       /\ \A k \in 1..Len(queue) : queue[k].old <=> k <= n
       /\ queue' = SubSeq(queue, n + 1, Len(queue))
       /\ task' = [task EXCEPT !.pc = "evict", !.stopping = stopping,
                               !.batch = [k \in 1..n |-> queue[k].id]]
  /\ UNCHANGED <<box, kind, row, out, counters, permits, client, shutdown,
                 expiry, leaked, faults>>

\* Mutant: the evicted sandbox is dropped from the queue and the table only.
EvictTerminateSkipped ==
  /\ task.pc = "evict" /\ task.batch # <<>>
  /\ task' = [task EXCEPT !.pc = "delete"]
  /\ UNCHANGED <<queue, guard, box, kind, row, out, counters, permits, client,
                 shutdown, expiry, leaked, faults>>

EvictTerminate ==
  /\ task.pc = "evict" /\ task.batch # <<>>
  /\ Terminate(Head(task.batch))
  /\ task' = [task EXCEPT !.pc = "delete"]
  /\ UNCHANGED <<queue, guard, kind, row, out, counters, permits, client,
                 shutdown, expiry>>

EvictDelete ==
  /\ task.pc = "delete"
  /\ Delete(Head(task.batch))
  /\ task' = [task EXCEPT !.pc = "evict", !.batch = Tail(task.batch),
                          !.evicted = task.evicted + 1]
  /\ UNCHANGED <<queue, guard, box, kind, out, counters, permits, client,
                 shutdown, expiry, leaked>>

\* The loop ends and drops the guard; what it evicted is still counted.
EvictDone ==
  /\ task.pc = "evict" /\ task.batch = <<>>
  /\ guard' = "free"
  /\ task' = [task EXCEPT !.pc = "settle"]
  /\ UNCHANGED <<queue, box, kind, row, out, counters, permits, client,
                 shutdown, expiry, leaked, faults>>

\* Mutant: the evicted entries stay in total_idle.
EvictSettleSkipped ==
  /\ task.pc = "settle" /\ ~task.stopping
  /\ task' = [task EXCEPT !.pc = "refill", !.evicted = 0]
  /\ UNCHANGED <<queue, guard, box, kind, row, out, counters, permits, client,
                 shutdown, expiry, leaked, faults>>

\* The evicted entries leave total_idle in one fetch_sub after the loop.  The
\* guard is free: a checkin or a checkout may have counted in between.
EvictSettle ==
  /\ task.pc = "settle" /\ ~task.stopping
  /\ total_idle' = Minus(total_idle, task.evicted)
  /\ task' = [task EXCEPT !.pc = "refill", !.evicted = 0]
  /\ UNCHANGED <<queue, guard, box, kind, row, out, total_active, permits,
                 client, shutdown, expiry, leaked, faults>>

\* stop() zeroes the counters and main() returns: the process ends.
StopDone ==
  /\ task.pc = "settle" /\ task.stopping
  /\ total_idle' = 0 /\ total_active' = 0
  /\ task' = [task EXCEPT !.pc = "stopped", !.evicted = 0]
  /\ UNCHANGED <<queue, guard, box, kind, row, out, permits, client, shutdown,
                 expiry, leaked, faults>>

\* The second pass keeps the guard for the whole while loop.
FillBegin ==
  /\ task.pc = "refill" /\ guard = "free"
  /\ guard' = "task"
  /\ task' = [task EXCEPT !.pc = "fill"]
  /\ UNCHANGED <<queue, box, kind, row, out, counters, permits, client,
                 shutdown, expiry, leaked, faults>>

NeedsRefill == Len(queue) < MinIdle

FillAcquire ==
  /\ task.pc = "fill" /\ NeedsRefill /\ permits > 0
  /\ permits' = permits - 1
  /\ task' = [task EXCEPT !.pc = "create"]
  /\ UNCHANGED <<queue, guard, box, kind, row, out, counters, client, shutdown,
                 expiry, leaked, faults>>

FillEnd ==
  /\ task.pc = "fill" /\ (~NeedsRefill \/ permits = 0)
  /\ guard' = "free"
  /\ task' = Waiting
  /\ UNCHANGED <<queue, box, kind, row, out, counters, permits, client,
                 shutdown, expiry, leaked, faults>>

\* Mutant: a failed creation is retried at once instead of leaving the loop.
FillCreateRetries ==
  /\ task.pc = "create"
  /\ \/ \E i \in Ids :
          /\ Create(i, PoolRequest)
          /\ task' = [task EXCEPT !.pc = "save", !.id = i]
          /\ UNCHANGED permits
     \/ /\ CreateFails(PoolRequest)
        /\ Release
        /\ task' = [task EXCEPT !.pc = "fill"]
  /\ UNCHANGED <<queue, guard, row, out, counters, client, shutdown, expiry>>

\* create_sandbox; a failure leaves the while loop.
FillCreate ==
  /\ task.pc = "create"
  /\ \/ \E i \in Ids :
          /\ Create(i, PoolRequest)
          /\ task' = [task EXCEPT !.pc = "save", !.id = i]
          /\ UNCHANGED <<guard, permits>>
     \/ /\ CreateFails(PoolRequest)
        /\ guard' = "free" /\ Release
        /\ task' = Waiting
  /\ UNCHANGED <<queue, row, out, counters, client, shutdown, expiry>>

\* After the save: into the queue, or, when min_idle exceeds max_idle, off the
\* loop with a terminate of a newly generated id that removes nothing.
FillSave ==
  /\ task.pc = "save"
  /\ Release
  /\ \/ /\ Save(task.id) /\ Room
        /\ queue' = Pushed(task.id, "running")
        /\ total_idle' = Plus(total_idle, 1)
        /\ task' = [task EXCEPT !.pc = "fill", !.id = None]
        /\ UNCHANGED <<guard, leaked>>
     \/ /\ Save(task.id) /\ ~Room
        /\ guard' = "free" /\ task' = Waiting
        /\ UNCHANGED <<queue, total_idle, leaked>>
     \/ /\ SaveFails(task.id)
        /\ guard' = "free" /\ task' = Waiting
        /\ UNCHANGED <<queue, total_idle>>
  /\ UNCHANGED <<box, kind, out, total_active, client, shutdown, expiry>>

Stop ==
  /\ ~shutdown /\ shutdown' = TRUE
  /\ UNCHANGED <<queue, guard, box, kind, row, out, counters, permits, client,
                 task, expiry, leaked, faults>>

------------------------------------------------------------------------------
\* The expiration enforcer reads the expired rows, then handles each in turn:
\* a terminate by podman, whatever the row's provider, and a stale write back.
ExpiryScan ==
  /\ expiry.todo = {}
  /\ \E s \in SUBSET {i \in Ids : row[i] \in Active} \ {{}} :
       expiry' = [expiry EXCEPT !.todo = s]
  /\ UNCHANGED <<queue, guard, box, kind, row, out, counters, permits, client,
                 task, shutdown, leaked, faults>>

ExpiryTerminate(i) ==
  /\ i \in expiry.todo /\ expiry.id = None
  /\ \/ /\ Removable(i)
        /\ box' = [box EXCEPT ![i] = "none"]
        /\ expiry' = [expiry EXCEPT !.id = i]
        /\ UNCHANGED faults
     \/ /\ IF Removable(i) THEN Fault ELSE UNCHANGED faults
        /\ expiry' = [expiry EXCEPT !.todo = @ \ {i}]
        /\ UNCHANGED box
  /\ UNCHANGED <<queue, guard, kind, row, out, counters, permits, client, task,
                 shutdown, leaked>>

ExpiryUpdate ==
  /\ expiry.id # None
  /\ Update(expiry.id, "stopped")
  /\ expiry' = [todo |-> expiry.todo \ {expiry.id}, id |-> None]
  /\ UNCHANGED <<queue, guard, box, kind, out, counters, permits, client, task,
                 shutdown, leaked>>

------------------------------------------------------------------------------
ClientStep(c) ==
  \/ CheckoutWarm(c) \/ CheckoutUpdate(c) \/ CheckoutMiss(c)
  \/ CheckoutAcquire(c) \/ CheckoutCreate(c) \/ CheckoutSave(c)
  \/ DirectCreate(c) \/ DirectSave(c) \/ CheckinTerminate(c) \/ CheckinPush(c)
  \/ DirectFind(c) \/ DirectTerminate(c) \/ DirectDelete(c)

TaskStep ==
  \/ \E stopping \in BOOLEAN : EvictIdle(stopping)
  \/ EvictTerminate \/ EvictDelete \/ EvictDone \/ EvictSettle \/ StopDone
  \/ FillBegin \/ FillAcquire \/ FillEnd \/ FillCreate \/ FillSave

ExpiryStep ==
  ExpiryScan \/ (\E i \in Ids : ExpiryTerminate(i)) \/ ExpiryUpdate

\* The gateway with callers that may terminate the ids in Returnable.
Gateway(Returnable) ==
  /\ task.pc # "stopped"
  /\ \/ \E c \in Clients :
          \/ \E r \in Requests : CreateCall(c, r)
          \/ \E i \in Returnable : CheckinFind(c, i)
          \/ ClientStep(c)
     \/ TaskStep \/ ExpiryStep \/ Age \/ Stop

\* main() has returned.
Exited == task.pc = "stopped" /\ UNCHANGED vars

\* Any id can be named in a sandbox_terminate, a second time too.
Next == Gateway(Ids) \/ Exited
Spec == Init /\ [][Next]_vars

\* Callers that hand back only what they were given, and once.
StrictNext == Gateway(out) \/ Exited
StrictSpec == Init /\ [][StrictNext]_vars

------------------------------------------------------------------------------
\* Every call in flight and the refill task keep running: each await returns,
\* tokio's semaphore is first come first served, the guard is free between two
\* refill ticks, and select! draws among its ready branches at random, so a
\* sent shutdown signal is not passed over forever.
Fairness ==
  /\ \A c \in Clients : SF_vars(task.pc # "stopped" /\ ClientStep(c))
  /\ SF_vars(task.pc # "stopped" /\ TaskStep)
  /\ SF_vars(task.pc # "stopped" /\ EvictIdle(TRUE))
FairSpec == StrictSpec /\ Fairness

------------------------------------------------------------------------------
\* Types; the counters stay in the range of a usize.
RuntimeOK ==
  /\ box \in [Ids -> {"none", "up"}]
  /\ kind \in [Ids -> Requests \cup {PoolRequest}]
  /\ leaked \in SUBSET Ids /\ faults \in Nat
TableOK == row \in [Ids -> Statuses \cup {"none"}]
PoolOK ==
  /\ queue \in Seq(Entries) /\ guard \in Clients \cup {"task", "free"}
  /\ total_idle \in 0..(Word - 1) /\ total_active \in 0..(Word - 1)
  /\ permits \in Nat
CallsOK == client \in [Clients -> Calls] /\ out \in SUBSET Ids
TaskOK == task \in Tasks /\ shutdown \in BOOLEAN
ExpiryOK == expiry \in [todo : SUBSET Ids, id : Ids \cup {None}]
TypeOK == RuntimeOK /\ TableOK /\ PoolOK /\ CallsOK /\ TaskOK /\ ExpiryOK

\* Every permit is free or held by one creation in progress, on every error
\* path of checkout and of the refill loop: at most max_total creations run at
\* once and none is ever lost.
Creating == {c \in Clients : client[c].pc \in {"create", "save"}}
TaskCreating == IF task.pc \in {"create", "save"} THEN 1 ELSE 0
PermitsConserved == permits + Cardinality(Creating) + TaskCreating = MaxTotal

\* total_idle is the length of the queue plus the evictions under way, which
\* refill_and_evict subtracts only after its loop, when the guard is free again
\* and others count: no interleaving of checkout, checkin, refill and eviction
\* makes it drift, and what it counts above the queue's max_idle is what that
\* subtraction takes off, so it never wraps.  (stop() zeroes it as the process
\* ends.)
IdleCounterExact ==
  task.pc # "stopped" =>
    /\ total_idle = Len(queue) + Len(task.batch) + task.evicted
    /\ Len(queue) + Len(task.batch) <= MaxIdle /\ task.evicted <= MaxIdle
    /\ guard = "task" => total_idle <= MaxIdle

\* A podman container that exists is in the queue, with a caller, or in the
\* hands of a call: the pool and the tools forget none, unless a call to the
\* runtime or the table failed on it.
NoForgottenContainer ==
  \A i \in Ids :
    Removable(i) => i \in Queued \cup out \cup InFlight \cup leaked

\* Callers that hand back what they were given, once, never share a sandbox: an
\* id is queued at most once and not while a caller or a call holds it.
NoSharing ==
  /\ \A j, k \in 1..Len(queue) : queue[j].id = queue[k].id => j = k
  /\ Queued \cap (out \cup InFlight) = {}
  /\ out \cap InFlight = {}

\* The shelf of WarmPool: the ids of the queue, and what a call, the eviction or
\* the refill has in hand.
IdsOf(q) == [k \in 1..Len(q) |-> q[k].id]
Held == InFlight \ {None}
Shelf == INSTANCE WarmPool WITH warm <- IdsOf(queue), lent <- out, held <- Held

\* Callers that hand back what they were given see a first-in first-out shelf of
\* at most max_idle sandboxes: every checkout, checkin, refill, eviction and failed
\* call, step by step between its awaits, is a step of WarmPool or changes nothing
\* there.
LendsFromShelf == Shelf!Spec

\* Every tool call is answered, unless the gateway exits.
CallsAnswered ==
  \A c \in Clients : ~At(c, "idle") ~> (At(c, "idle") \/ task.pc = "stopped")

\* stop() returns: the refill task always reaches its select! again.
StopReturns == shutdown ~> task.pc = "stopped"

==============================================================================
