-------------------------- MODULE PoolRecoveryProofs --------------------------
(* What the start of a gateway keeps, for every state an earlier gateway may  *)
(* have left behind: the types and the idle counter, and the confinement of   *)
(* what the recovery shares.                                                  *)
EXTENDS PoolRecovery, SandboxPoolProofs

USE NoneAssumption

RecoveryPCs == {"sync", "list", "each", "mark", "save", "push", "orphans", "done"}

\* The recovery works on the containers of its list, until it turns to the
\* rows that the list lacks.
Listed ==
  /\ recovery \in [pc : RecoveryPCs, seen : SUBSET Ids, todo : SUBSET Ids, id : Ids \cup {None}]
  /\ recovery.pc \in {"mark", "save", "push"} => recovery.id \in recovery.seen /\ recovery.todo \subseteq recovery.seen
  /\ recovery.pc = "each" => recovery.todo \subseteq recovery.seen
  /\ recovery.pc \in {"sync", "list"} => recovery.seen = {}

Confined == \A i \in Ids \ recovery.seen : Single(i)

LEMMA RecoveryInitial == RecoveryInit => Typed /\ Counted /\ Listed /\ Confined
<1> SUFFICES ASSUME RecoveryInit PROVE Typed /\ Counted /\ Listed /\ Confined
  OBVIOUS
<1>1. queue \in Seq(Entries) /\ <<>> \in Seq(Ids)
  BY EmptySeq DEF RecoveryInit
<1>2. RuntimeOK /\ TableOK
  BY DEF RuntimeOK, TableOK, RecoveryInit
<1>3. PoolOK
  BY <1>1, BoundsAssumption DEF PoolOK, RecoveryInit
<1>4. CallsOK /\ CallsHold
  BY DEF CallsOK, CallsHold, CallHolds, RecoveryInit, Idle, Calls, ClientPCs, Statuses
<1>5. TaskOK /\ TaskHolds
  BY <1>1 DEF TaskOK, TaskHolds, RecoveryInit, Tasks, Waiting, TaskPCs
<1>6. ExpiryOK
  BY DEF ExpiryOK, RecoveryInit
<1>7. Typed
  BY <1>2, <1>3, <1>4, <1>5, <1>6 DEF Typed, TypeOK
<1>8. Counted
  BY BoundsAssumption, ClientsAssumption DEF Counted, RecoveryInit, IdleCounterExact, GuardHolder, At, Idle, Waiting
<1>9. Listed
  BY DEF Listed, RecoveryInit, Booting, RecoveryPCs
<1>10. ASSUME NEW i \in Ids PROVE Single(i)
  <2>1. ~ InQueue(i) /\ QueuedOnce(i) /\ i \notin out
    BY DEF RecoveryInit, InQueue, QueuedOnce
  <2>2. ~ InCall(i) /\ CalledOnce(i)
    BY DEF RecoveryInit, Idle, InCall, CalledOnce
  <2>3. ~ InBatch(i) /\ BatchedOnce(i)
    BY DEF RecoveryInit, Waiting, InBatch, BatchedOnce
  <2>4. ~ InTask(i)
    BY DEF RecoveryInit, Waiting, InTask
  <2> QED BY <2>1, <2>2, <2>3, <2>4 DEF Single
<1> QED BY <1>7, <1>8, <1>9, <1>10 DEF Confined

------------------------------------------------------------------------------
(* The recovery's own steps.                                                 *)

LEMMA RecoveryListed ==
  ASSUME Typed, Listed, RecoveryStep PROVE Listed'
<1> DEFINE Records == [pc : RecoveryPCs, seen : SUBSET Ids, todo : SUBSET Ids, id : Ids \cup {None}]
<1>0. recovery \in Records
  BY DEF Listed
<1>1. CASE Sync
  BY <1>1 DEF Sync, Listed, RecoveryPCs
<1>2. CASE List
  BY <1>2, ZenonT(40) DEF List, Listed, RecoveryPCs
<1>3. ASSUME NEW i \in Ids, Find(i) PROVE Listed'
  <2>1. recovery.pc = "each" /\ i \in recovery.todo /\ i \in recovery.seen
    BY <1>3 DEF Find, Listed
  <2>2. CASE recovery' = [recovery EXCEPT !.todo = recovery.todo \ {i}]
    BY <2>1, <2>2 DEF Listed, RecoveryPCs
  <2>3. CASE \E p \in {"save", "mark", "push"} : recovery' = [recovery EXCEPT !.todo = recovery.todo \ {i}, !.id = i, !.pc = p]
    BY <2>1, <2>3 DEF Listed, RecoveryPCs
  <2>4. \E p \in {"save", "mark", "push"} : p = CASE row[i] = "none" -> "save" [] row[i] = "pending" -> "mark" [] OTHER -> "push"
    OBVIOUS
  <2> QED BY <1>3, <2>2, <2>3, <2>4 DEF Find
<1>4. CASE Mark \/ SaveListed
  BY <1>4 DEF Mark, SaveListed, Listed, RecoveryPCs
<1>5. CASE Reintegrate
  BY <1>5 DEF Reintegrate, Listed, RecoveryPCs
<1>6. CASE FindActive \/ RecoveryDone
  BY <1>6, ZenonT(40) DEF FindActive, RecoveryDone, Listed, RecoveryPCs
<1>7. ASSUME NEW i \in Ids, Orphan(i) PROVE Listed'
  BY <1>7 DEF Orphan, Listed, RecoveryPCs
<1> QED BY <1>1, <1>2, <1>3, <1>4, <1>5, <1>6, <1>7 DEF RecoveryStep

LEMMA RecoveryRows ==
  ASSUME Typed, Listed, RecoveryStep PROVE TableOK' /\ RuntimeOK'
<1>0. TableOK /\ RuntimeOK /\ UNCHANGED <<box, kind, leaked>> /\ row \in [Ids -> Statuses \cup {"none"}]
  BY DEF Typed, TypeOK, RecoveryStep, TableOK
<1>1. ASSUME Fault \/ UNCHANGED faults, row' \in [Ids -> Statuses \cup {"none"}] PROVE TableOK' /\ RuntimeOK'
  BY <1>0, <1>1 DEF TableOK, RuntimeOK, Fault
<1>2. \A i : {i} \subseteq Ids => \A s \in Statuses : Update(i, s) => TableOK' /\ RuntimeOK'
  BY <1>0 DEF Update, TableOK, RuntimeOK, Fault
<1>3. CASE Sync
  <2>1. \A stop, new : Synced(stop, new) \in [Ids -> Statuses \cup {"none"}]
    BY <1>0 DEF Synced, Statuses
  <2> QED BY <1>1, <1>3, <2>1 DEF Sync
<1>4. CASE UNCHANGED row /\ (Fault \/ UNCHANGED faults)
  BY <1>0, <1>1, <1>4
<1>5. CASE Mark
  BY <1>2, <1>5 DEF Mark, Listed, Statuses
<1>6. CASE SaveListed
  BY <1>0, <1>1, <1>6 DEF SaveListed, Statuses
<1>7. ASSUME NEW i \in Ids, Orphan(i) PROVE TableOK' /\ RuntimeOK'
  BY <1>2, <1>7 DEF Orphan, Statuses
<1> QED BY <1>3, <1>4, <1>5, <1>6, <1>7 DEF RecoveryStep, List, Find, FindActive, RecoveryDone

\* The queue grows by a listed container, under its guard, or stays.
LEMMA RecoveryQueue ==
  ASSUME Typed, Counted, Listed, RecoveryStep
  PROVE  \/ UNCHANGED <<queue, total_idle>>
         \/ /\ guard = "free" /\ Room /\ recovery.id \in recovery.seen
            /\ queue' = Pushed(recovery.id, "pending") /\ total_idle' = Plus(total_idle, 1)
BY DEF RecoveryStep, Reintegrate, Listed

LEMMA RecoveryCounts ==
  ASSUME Typed, Counted, Listed, RecoveryStep
  PROVE  Typed' /\ Counted'
<1>0. UNCHANGED <<guard, total_active, permits, client, out, task, shutdown, expiry>>
  BY DEF RecoveryStep
<1>1. PoolOK /\ CallsOK /\ CallsHold /\ TaskOK /\ TaskHolds /\ ExpiryOK /\ IdleCounterExact /\ GuardHolder
  BY DEF Typed, TypeOK, Counted
<1>2. CASE UNCHANGED <<queue, total_idle>>
  <2>1. PoolOK'
    BY <1>0, <1>1, <1>2 DEF PoolOK
  <2>2. Counted'
    BY <1>0, <1>2 DEF Counted, IdleCounterExact, GuardHolder, At
  <2> QED BY <1>0, <1>1, <2>1, <2>2, RecoveryRows
          DEF Typed, TypeOK, CallsOK, CallsHold, TaskOK, TaskHolds, ExpiryOK
<1>3. CASE /\ guard = "free" /\ Room /\ recovery.id \in recovery.seen
           /\ queue' = Pushed(recovery.id, "pending") /\ total_idle' = Plus(total_idle, 1)
  <2>1. [id |-> recovery.id, status |-> "pending", old |-> FALSE] \in Entries /\ queue \in Seq(Entries)
    BY <1>1, <1>3 DEF Listed, Entries, Statuses, PoolOK
  <2>2. queue' \in Seq(Entries) /\ Len(queue') = Len(queue) + 1 /\ Len(queue) \in Nat
    BY <1>3, <2>1, AppendProperties, LenProperties DEF Pushed
  <2>3. guard # "task" /\ task.batch = <<>> /\ task.evicted \in Nat
    BY <1>1, <1>3 DEF GuardHolder, Counted, TaskOK, Tasks
  <2>4. task.pc # "stopped"
    BY DEF RecoveryStep
  <2>5. total_idle = Len(queue) + task.evicted /\ Len(queue) < MaxIdle /\ task.evicted <= MaxIdle
    BY <1>1, <1>3, <2>2, <2>3, <2>4 DEF IdleCounterExact, Room
  <2>6. total_idle' = Len(queue') + task.evicted
    BY <1>3, <2>2, <2>3, <2>5, BoundsAssumption DEF Plus
  <2>7. PoolOK'
    BY <1>0, <1>1, <2>2, <2>3, <2>5, <2>6, BoundsAssumption DEF PoolOK
  <2>8. Counted'
    <3>1. IdleCounterExact'
      BY <1>0, <2>2, <2>3, <2>5, <2>6, BoundsAssumption DEF IdleCounterExact
    <3> QED BY <1>0, <3>1 DEF Counted, GuardHolder, At
  <2> QED BY <1>0, <1>1, <2>7, <2>8, RecoveryRows
          DEF Typed, TypeOK, CallsOK, CallsHold, TaskOK, TaskHolds, ExpiryOK
<1> QED BY <1>2, <1>3, RecoveryQueue

\* Only List changes what the recovery has seen, and only what it has seen is
\* put into the queue.
LEMMA RecoveryConfines ==
  ASSUME Typed, Counted, Listed, Confined, RecoveryStep
  PROVE  Confined'
<1>1. recovery \in [pc : RecoveryPCs, seen : SUBSET Ids, todo : SUBSET Ids, id : Ids \cup {None}]
  BY DEF Listed
<1>2. recovery.seen \subseteq recovery'.seen \/ List
  BY <1>1 DEF RecoveryStep, Sync, Mark, SaveListed, FindActive, RecoveryDone, Find, Orphan, Reintegrate
<1>3. UNCHANGED <<client, out, task>> /\ queue \in Seq(Entries)
  BY DEF RecoveryStep, Typed, TypeOK, PoolOK
<1>4. ASSUME NEW i \in Ids, i \notin recovery.seen, Single(i) PROVE Single(i)'
  <2>1. (InQueue(i)' <=> InQueue(i)) /\ QueuedOnce(i)'
    <3>1. CASE UNCHANGED queue
      BY <1>4, <3>1, QueueSame DEF Single
    <3>2. CASE recovery.id \in recovery.seen /\ queue' = Pushed(recovery.id, "pending")
      BY <1>3, <1>4, <3>2, QueuePushes DEF Single
    <3> QED BY <3>1, <3>2, RecoveryQueue
  <2> QED BY <1>3, <1>4, <2>1, CallSame, TaskSame DEF Single
<1>5. CASE recovery.seen \subseteq recovery'.seen
  BY <1>4, <1>5 DEF Confined
<1>6. CASE List
  <2>1. recovery.seen = {}
    BY <1>6 DEF List, Listed
  <2> QED BY <1>4, <2>1 DEF Confined
<1> QED BY <1>2, <1>5, <1>6

\* A step of the gateway while the recovery runs.
LEMMA ServeConfines ==
  ASSUME Typed, Counted, Listed, Confined, Serve
  PROVE  Listed' /\ Confined' /\ [Next]_vars
<1>1. UNCHANGED recovery /\ Gateway(out) /\ out \subseteq Ids
  BY DEF Serve, Typed, TypeOK, CallsOK
<1>2. [Next]_vars
  BY <1>1 DEF Next, Gateway
<1>3. Confined'
  BY <1>1, GatewaySingle DEF Confined
<1> QED BY <1>1, <1>2, <1>3 DEF Listed

LEMMA RecoveryInductive ==
  Typed /\ Counted /\ Listed /\ Confined /\ [RecoveryNext]_recoveryVars
    => Typed' /\ Counted' /\ Listed' /\ Confined'
<1> SUFFICES ASSUME Typed, Counted, Listed, Confined, [RecoveryNext]_recoveryVars
             PROVE  Typed' /\ Counted' /\ Listed' /\ Confined'
  OBVIOUS
<1>1. CASE RecoveryStep
  BY <1>1, RecoveryListed, RecoveryCounts, RecoveryConfines
<1>2. CASE Serve
  BY <1>2, ServeConfines, Inductive
<1>3. CASE UNCHANGED <<vars, recovery>>
  <2>1. Typed' /\ Counted'
    BY <1>3, Inductive
  <2>2. Listed' /\ Confined'
    BY <1>3, OthersSingle DEF Listed, Confined
  <2> QED BY <2>1, <2>2
<1> QED BY <1>1, <1>2, <1>3 DEF RecoveryNext, Exited, recoveryVars

\* Whatever an earlier gateway left behind and however the tools interleave
\* with recover_active_sandboxes, an id that the recovery's list does not name
\* is queued at most once and not while a caller or a call holds it.
THEOREM RecoverySharingConfined == RecoverySpec => []SharingConfined
<1>1. Confined => SharingConfined
  <2> SUFFICES ASSUME Confined, NEW i \in Ids \ recovery.seen
               PROVE  /\ \A j, k \in 1..Len(queue) : (queue[j].id = i /\ queue[k].id = i) => j = k
                      /\ i \in Queued => i \notin out \cup InFlight
                      /\ ~ (i \in out /\ i \in InFlight)
    BY DEF SharingConfined
  <2>1. Single(i)
    BY DEF Confined
  <2> QED BY <2>1, InPlaces DEF Single, QueuedOnce
<1> QED BY <1>1, RecoveryInitial, RecoveryInductive, PTL DEF RecoverySpec

\* total_idle stays exact while recover_active_sandboxes fills the queue among
\* the checkouts and checkins of the tools.
THEOREM RecoveryCountsExactly == RecoverySpec => []IdleCounterExact
<1>1. Counted => IdleCounterExact
  BY DEF Counted
<1> QED BY <1>1, RecoveryInitial, RecoveryInductive, PTL DEF RecoverySpec

------------------------------------------------------------------------------
(* A start that nothing disturbs and in which no call fails.                 *)

\* After sync_from_provider every container has a row; phase 1 then moves the
\* listed containers into the queue, phase 2 stops the active rows that have
\* no running container.
RowsSynced == recovery.pc # "sync" => \A i \in Ids : Removable(i) => row[i] # "none"
ListTrue ==
  /\ recovery.pc \notin {"sync", "list"} => recovery.seen = {i \in Ids : Running(i)}
  /\ recovery.pc \in {"sync", "list"} => queue = <<>>
InHand(i) == recovery.pc \in {"mark", "push"} /\ i = recovery.id
Ahead(i) == recovery.pc \in {"each", "mark", "push"} /\ i \in recovery.todo
QueueWarm ==
  /\ \A i : InQueue(i) => i \in Warm /\ ~ InHand(i) /\ ~ Ahead(i)
  /\ \A i \in Ids : InHand(i) => i \in Warm /\ ~ Ahead(i)
  /\ IsFiniteSet(Queued) /\ Cardinality(Queued) = Len(queue)
  /\ Room /\ recovery.pc \notin {"sync", "list"} => \A i \in Warm : InQueue(i) \/ InHand(i) \/ Ahead(i)
OrphansFound ==
  /\ recovery.pc # "save"
  /\ recovery.pc = "orphans" => \A i \in Ids : row[i] \in Active => i \in recovery.seen \cup recovery.todo
  /\ recovery.pc = "done" => \A i \in Ids : row[i] \in Active => i \in recovery.seen
Agreed == RowsSynced /\ ListTrue /\ QueueWarm /\ OrphansFound
QuietlyAgreed == (quiet /\ faults = 0) => Agreed

\* Without a failed call, a step of the recovery keeps rows, list and queue in
\* agreement.
LEMMA RecoveryAgrees ==
  ASSUME Typed, Counted, Listed, Agreed, RecoveryStep, faults' = 0
  PROVE  Agreed'
<1>0. /\ recovery \in [pc : RecoveryPCs, seen : SUBSET Ids, todo : SUBSET Ids, id : Ids \cup {None}]
      /\ RowsSynced /\ ListTrue /\ QueueWarm /\ OrphansFound
      /\ queue \in Seq(Entries) /\ row \in [Ids -> Statuses \cup {"none"}] /\ faults \in Nat
  BY DEF Listed, Agreed, Typed, TypeOK, PoolOK, TableOK, RuntimeOK
<1>1. ~ Fault
  BY <1>0 DEF Fault
<1>2. /\ \A i : (Removable(i)' <=> Removable(i)) /\ (Running(i)' <=> Running(i)) /\ (Registered(i)' <=> Registered(i))
      /\ Warm' = Warm
  BY DEF RecoveryStep, Removable, Running, Registered, Warm
<1>3. UNCHANGED queue => /\ \A i : InQueue(i)' <=> InQueue(i)
                         /\ Queued' = Queued /\ (Room' <=> Room)
  BY DEF InQueue, Queued, Room
<1>4. CASE Sync
  <2>1. recovery'.pc = "list" /\ UNCHANGED queue /\ recovery.pc = "sync" /\ row' = Synced(Absent, Unknown)
    BY <1>0, <1>1, <1>4 DEF Sync, RecoveryStep, Reintegrate
  <2>2. RowsSynced'
    <3> SUFFICES ASSUME NEW i \in Ids, Removable(i) PROVE row'[i] # "none"
      BY <1>2 DEF RowsSynced
    <3> QED BY <2>1 DEF Synced, Absent, Unknown
  <2>3. QueueWarm'
    BY <1>0, <1>2, <1>3, <2>1 DEF QueueWarm, InHand, Ahead
  <2> QED BY <1>0, <2>1, <2>2, <2>3 DEF Agreed, ListTrue, OrphansFound
<1>5. CASE List
  <2>1. /\ recovery'.pc = "each" /\ UNCHANGED <<queue, row>> /\ recovery.pc = "list"
        /\ recovery'.seen = {i \in Ids : Running(i)} /\ recovery'.todo = {i \in Ids : Running(i)}
    BY <1>0, <1>1, <1>5 DEF List, RecoveryStep, Reintegrate
  <2>2. \A i : ~ InQueue(i)
    BY <1>0, <2>1 DEF ListTrue, InQueue
  <2>3. QueueWarm'
    BY <1>0, <1>2, <1>3, <2>1, <2>2 DEF QueueWarm, InHand, Ahead, Warm
  <2> QED BY <1>0, <1>2, <2>1, <2>3 DEF Agreed, RowsSynced, ListTrue, OrphansFound
<1>6. ASSUME NEW i \in Ids, Find(i) PROVE Agreed'
  <2>1. /\ UNCHANGED <<queue, row>> /\ recovery.pc = "each" /\ i \in recovery.todo
        /\ recovery'.seen = recovery.seen /\ recovery'.todo = recovery.todo \ {i}
    BY <1>0, <1>6 DEF Find, RecoveryStep, Reintegrate
  <2>2. Running(i) /\ row[i] # "none"
    BY <1>0, <2>1 DEF Listed, ListTrue, RowsSynced, Running
  <2>3. CASE Registered(i)
    <3>1. recovery'.id = i /\ recovery'.pc \in {"mark", "push"}
      BY <1>0, <1>1, <1>6, <2>2, <2>3 DEF Find
    <3>2. i \in Warm
      BY <2>2, <2>3 DEF Warm
    <3>3. QueueWarm'
      BY <1>0, <1>2, <1>3, <2>1, <3>1, <3>2 DEF QueueWarm, InHand, Ahead
    <3> QED BY <1>0, <1>2, <2>1, <3>1, <3>3 DEF Agreed, RowsSynced, ListTrue, OrphansFound
  <2>4. CASE ~ Registered(i)
    <3>1. recovery'.pc = "each" /\ recovery'.id = recovery.id
      BY <1>0, <1>6, <2>1, <2>4 DEF Find
    <3>2. i \notin Warm
      BY <2>4 DEF Warm
    <3>3. QueueWarm'
      BY <1>0, <1>2, <1>3, <2>1, <3>1, <3>2 DEF QueueWarm, InHand, Ahead
    <3> QED BY <1>0, <1>2, <2>1, <3>1, <3>3 DEF Agreed, RowsSynced, ListTrue, OrphansFound
  <2> QED BY <2>3, <2>4
<1>7. CASE Mark
  <2>1. /\ UNCHANGED queue /\ recovery.pc = "mark" /\ recovery'.pc = "push" /\ recovery'.seen = recovery.seen
        /\ recovery'.todo = recovery.todo /\ recovery'.id = recovery.id
    BY <1>0, <1>7 DEF Mark, RecoveryStep, Reintegrate
  <2>2. \A i \in Ids : row[i] # "none" => row'[i] # "none"
    BY <1>0, <1>7 DEF Mark, Update
  <2>3. QueueWarm'
    BY <1>0, <1>2, <1>3, <2>1 DEF QueueWarm, InHand, Ahead
  <2> QED BY <1>0, <1>2, <2>1, <2>2, <2>3 DEF Agreed, RowsSynced, ListTrue, OrphansFound
<1>8. ~ SaveListed
  BY <1>0 DEF SaveListed, OrphansFound
<1>9. CASE Reintegrate
  <2>1. /\ recovery.pc = "push" /\ recovery'.pc = "each" /\ recovery'.seen = recovery.seen
        /\ recovery'.todo = recovery.todo /\ UNCHANGED row /\ recovery.id \in Ids
    BY <1>0, <1>9 DEF Reintegrate, RecoveryStep, Listed, Sync, List, Mark, SaveListed, FindActive, RecoveryDone, Find, Orphan
  <2>2. CASE UNCHANGED queue /\ ~ Room
    <3>1. QueueWarm'
      BY <1>0, <1>2, <1>3, <2>1, <2>2 DEF QueueWarm, InHand, Ahead
    <3> QED BY <1>0, <1>2, <2>1, <2>2, <3>1 DEF Agreed, RowsSynced, ListTrue, OrphansFound
  <2>3. CASE Room /\ queue' = Pushed(recovery.id, "pending")
    <3>1. \A i : InQueue(i)' <=> (InQueue(i) \/ i = recovery.id)
      BY <1>0, <2>3, QueuePushes
    <3>2. InHand(recovery.id) /\ recovery.id \in Warm /\ ~ Ahead(recovery.id) /\ ~ InQueue(recovery.id)
      BY <1>0, <2>1 DEF QueueWarm, InHand
    <3>3. Queued' = Queued \cup {recovery.id} /\ recovery.id \notin Queued
      <4>1. \A i : i \in Queued' <=> InQueue(i)'
        BY DEF Queued, InQueue
      <4> QED BY <3>1, <3>2, <4>1, InPlaces
    <3>4. IsFiniteSet(Queued') /\ Cardinality(Queued') = Cardinality(Queued) + 1
      BY <1>0, <3>3, FS_AddElement DEF QueueWarm
    <3>5. Len(queue') = Len(queue) + 1
      <4>1. [id |-> recovery.id, status |-> "pending", old |-> FALSE] \in Entries
        BY <2>1 DEF Entries, Statuses
      <4> QED BY <1>0, <2>3, <4>1, AppendProperties DEF Pushed
    <3>6. \A i : (~ InHand(i)') /\ (Ahead(i)' <=> Ahead(i))
      BY <2>1 DEF InHand, Ahead
    <3>7. \A i : InHand(i) => i = recovery.id
      BY DEF InHand
    <3>8. (\A i \in Warm : InQueue(i) \/ InHand(i) \/ Ahead(i)) => \A i \in Warm : InQueue(i)' \/ Ahead(i)'
      BY <3>1, <3>6, <3>7
    <3>9. QueueWarm'
      BY <1>0, <1>2, <2>1, <2>3, <3>1, <3>2, <3>4, <3>5, <3>6, <3>8 DEF QueueWarm
    <3> QED BY <1>0, <1>2, <2>1, <3>9 DEF Agreed, RowsSynced, ListTrue, OrphansFound
  <2> QED BY <1>9, <2>2, <2>3 DEF Reintegrate
<1>10. CASE FindActive
  <2>1. /\ UNCHANGED <<queue, row>> /\ recovery.pc = "each" /\ recovery.todo = {} /\ recovery'.pc = "orphans"
        /\ recovery'.seen = recovery.seen /\ recovery'.todo = {i \in Ids : row[i] \in Active} \ recovery.seen
    BY <1>0, <1>1, <1>10 DEF FindActive, RecoveryStep, Reintegrate
  <2>2. QueueWarm'
    BY <1>0, <1>2, <1>3, <2>1 DEF QueueWarm, InHand, Ahead
  <2> QED BY <1>0, <1>2, <2>1, <2>2 DEF Agreed, RowsSynced, ListTrue, OrphansFound
<1>11. ASSUME NEW i \in Ids, Orphan(i) PROVE Agreed'
  <2>1. /\ UNCHANGED queue /\ recovery.pc = "orphans" /\ recovery'.pc = "orphans"
        /\ recovery'.seen = recovery.seen /\ recovery'.todo = recovery.todo \ {i}
    BY <1>0, <1>11 DEF Orphan, RecoveryStep, Reintegrate
  <2>2. /\ \A j \in Ids : (row[j] # "none" => row'[j] # "none") /\ (j # i => row'[j] = row[j])
        /\ row'[i] \notin Active
    BY <1>0, <1>1, <1>11 DEF Orphan, Update, Active
  <2>3. QueueWarm'
    BY <1>0, <1>2, <1>3, <2>1 DEF QueueWarm, InHand, Ahead
  <2>4. OrphansFound'
    BY <1>0, <2>1, <2>2 DEF OrphansFound
  <2> QED BY <1>0, <1>2, <2>1, <2>2, <2>3, <2>4 DEF Agreed, RowsSynced, ListTrue
<1>12. CASE RecoveryDone
  <2>1. /\ UNCHANGED <<queue, row>> /\ recovery.pc = "orphans" /\ recovery.todo = {} /\ recovery'.pc = "done"
        /\ recovery'.seen = recovery.seen
    BY <1>0, <1>12 DEF RecoveryDone, RecoveryStep, Reintegrate
  <2>2. QueueWarm'
    BY <1>0, <1>2, <1>3, <2>1 DEF QueueWarm, InHand, Ahead
  <2> QED BY <1>0, <1>2, <2>1, <2>2 DEF Agreed, RowsSynced, ListTrue, OrphansFound
<1> QED BY <1>4, <1>5, <1>6, <1>7, <1>8, <1>9, <1>10, <1>11, <1>12 DEF RecoveryStep

\* Whatever an earlier gateway left behind, when nothing disturbs the start and
\* no call fails, sync_from_provider and recover_active_sandboxes bring table,
\* runtime and queue in step.
THEOREM StartReconciles == RecoverySpec => []QuietlyReconciled
<1>1. RecoveryInit => Agreed
  <2> SUFFICES ASSUME RecoveryInit PROVE Agreed
    OBVIOUS
  <2>1. recovery.pc = "sync" /\ queue = <<>> /\ recovery.todo = {}
    BY DEF RecoveryInit, Booting
  <2>2. Queued = {} /\ \A i : ~ InQueue(i)
    BY <2>1 DEF Queued, InQueue
  <2>3. QueueWarm
    BY <2>1, <2>2, FS_EmptySet DEF QueueWarm, InHand, Ahead
  <2> QED BY <2>1, <2>3 DEF Agreed, RowsSynced, ListTrue, OrphansFound
<1>2. Typed /\ Counted /\ Listed /\ QuietlyAgreed /\ [RecoveryNext]_recoveryVars => QuietlyAgreed'
  <2> SUFFICES ASSUME Typed, Counted, Listed, QuietlyAgreed, [RecoveryNext]_recoveryVars, quiet', faults' = 0
               PROVE  Agreed'
    BY DEF QuietlyAgreed
  <2>1. quiet /\ (RecoveryStep \/ UNCHANGED <<vars, recovery, exited>>)
    BY DEF RecoveryNext, recoveryVars, Exited
  <2>2. CASE RecoveryStep
    <3>1. faults' = faults \/ Fault
      BY <2>2 DEF RecoveryStep, Sync, List, Mark, SaveListed, FindActive, RecoveryDone, Find, Orphan, Update, Reintegrate
    <3>2. faults = 0
      BY <3>1 DEF Fault, Typed, TypeOK, RuntimeOK
    <3> QED BY <2>1, <2>2, <3>2, RecoveryAgrees DEF QuietlyAgreed
  <2>3. CASE UNCHANGED <<vars, recovery, exited>>
    BY <2>1, <2>3 DEF QuietlyAgreed, Agreed, RowsSynced, ListTrue, QueueWarm, OrphansFound, InHand, Ahead, InQueue,
                      Queued, Room, Warm, Running, Registered, Removable, vars
  <2> QED BY <2>1, <2>2, <2>3
<1>3. Listed /\ QuietlyAgreed => QuietlyReconciled
  <2> SUFFICES ASSUME Listed, Agreed, recovery.pc = "done"
               PROVE  /\ \A i \in Ids : Running(i) => row[i] # "none"
                      /\ \A i \in Ids : row[i] \in Active => Running(i)
                      /\ Queued \subseteq Warm /\ Cardinality(Queued) = Len(queue)
                      /\ Room => Queued = Warm
    BY DEF QuietlyAgreed, QuietlyReconciled
  <2>1. \A i \in Ids : Running(i) => row[i] # "none"
    BY DEF Agreed, RowsSynced, Running
  <2>2. \A i \in Ids : row[i] \in Active => Running(i)
    BY DEF Agreed, OrphansFound, ListTrue
  <2>3. Queued \subseteq Warm /\ Cardinality(Queued) = Len(queue)
    BY InPlaces DEF Agreed, QueueWarm
  <2>4. Room => Queued = Warm
    BY <2>3, InPlaces DEF Agreed, QueueWarm, InHand, Ahead
  <2> QED BY <2>1, <2>2, <2>3, <2>4
<1>4. RecoveryInit => QuietlyAgreed
  BY <1>1 DEF QuietlyAgreed
<1> QED BY <1>2, <1>3, <1>4, RecoveryInitial, RecoveryInductive, PTL DEF RecoverySpec
==============================================================================
