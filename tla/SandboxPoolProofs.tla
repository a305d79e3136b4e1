-------------------------- MODULE SandboxPoolProofs --------------------------
(***************************************************************************)
(* Theorems about SandboxPool, for every set of ids and callers and every  *)
(* configuration of the pool.                                              *)
(***************************************************************************)
EXTENDS SandboxPool, SequenceTheorems, FiniteSetTheorems, TLAPS

\* What a call or the task carries at each of its awaits.
CallHolds(x) ==
  /\ x.pc \in {"update", "save", "direct_save", "terminate", "push",
               "direct_find", "direct_terminate", "direct_delete"}
       => x.id \in Ids
  /\ x.pc \in {"lookup", "permit", "create", "save", "direct_create"}
       => x.req \in Requests
CallsHold == \A c \in Clients : CallHolds(client[c])
TaskHolds ==
  /\ task.pc = "save" => task.id \in Ids
  /\ task.pc = "delete" => task.batch # <<>>

Typed == TypeOK /\ CallsHold /\ TaskHolds

\* The guard of the queue has one holder, and that is the call or the task
\* which is at an await inside the guard's scope.
GuardHolder ==
  /\ \A c \in Clients : guard = c <=> At(c, "update")
  /\ guard = "task" <=>
       task.pc \in {"evict", "delete", "fill", "create", "save"}

\* The counter's invariant is inductive with the guard's: while the task is in
\* the eviction pass nobody else touches the queue; once it has dropped the
\* guard it has nothing in its batch, and once it has settled the counter it
\* has nothing left to subtract.
Counted ==
  /\ IdleCounterExact /\ GuardHolder
  /\ task.pc \notin {"evict", "delete"} => task.batch = <<>>
  /\ task.pc \notin {"evict", "delete", "settle"} => task.evicted = 0


USE BoundsAssumption, RequestsAssumption, ClientsAssumption, NoneAssumption

------------------------------------------------------------------------------
(* The helpers keep the types of what they assign.                          *)

\* PodmanProvider.create and terminate keep the runtime's state well typed.
LEMMA RuntimeTyped ==
  ASSUME RuntimeOK
  PROVE  /\ \A i \in Ids : Terminate(i) /\ UNCHANGED kind => RuntimeOK'
         /\ \A r \in Requests \cup {PoolRequest} :
              /\ CreateFails(r) => RuntimeOK'
              /\ \A i \in Ids : Create(i, r) => RuntimeOK'
<1>1. ASSUME NEW i \in Ids, Terminate(i), UNCHANGED kind
      PROVE  RuntimeOK'
  BY <1>1 DEF RuntimeOK, Terminate, Fault
<1>2. ASSUME NEW r \in Requests \cup {PoolRequest}, CreateFails(r)
      PROVE  RuntimeOK'
  <2>1. CASE UNCHANGED <<box, kind, leaked, faults>> BY <2>1 DEF RuntimeOK
  <2>2. CASE Fault /\ UNCHANGED <<box, kind, leaked>>
    BY <2>2 DEF RuntimeOK, Fault
  <2>3. ASSUME NEW i \in Ids, Fault, Launch(i, r), leaked' = leaked \cup {i}
        PROVE  RuntimeOK'
    BY <2>3 DEF RuntimeOK, Launch, Fault
  <2>4. QED BY <1>2, <2>1, <2>2, <2>3 DEF CreateFails
<1>3. ASSUME NEW r \in Requests \cup {PoolRequest}, NEW i \in Ids, Create(i, r)
      PROVE  RuntimeOK'
  BY <1>3 DEF RuntimeOK, Create, Launch
<1>4. QED BY <1>1, <1>2, <1>3

\* The table operations keep the rows well typed, and count their failures.
LEMMA TableTyped ==
  ASSUME TableOK, RuntimeOK, NEW i \in Ids, UNCHANGED <<box, kind>>
  PROVE  /\ \A s \in Statuses :
              Update(i, s) /\ UNCHANGED leaked => TableOK' /\ RuntimeOK'
         /\ Delete(i) /\ UNCHANGED leaked => TableOK' /\ RuntimeOK'
         /\ Save(i) /\ UNCHANGED leaked => TableOK' /\ RuntimeOK'
         /\ SaveFails(i) => TableOK' /\ RuntimeOK'
<1>1. ASSUME NEW s \in Statuses, Update(i, s), UNCHANGED leaked
      PROVE  TableOK' /\ RuntimeOK'
  BY <1>1 DEF TableOK, RuntimeOK, Update, Fault
<1>2. ASSUME Delete(i), UNCHANGED leaked PROVE TableOK' /\ RuntimeOK'
  BY <1>2 DEF TableOK, RuntimeOK, Delete, Fault
<1>3. ASSUME Save(i), UNCHANGED leaked PROVE TableOK' /\ RuntimeOK'
  BY <1>3 DEF TableOK, RuntimeOK, Save, Statuses
<1>4. ASSUME SaveFails(i) PROVE TableOK' /\ RuntimeOK'
  BY <1>4 DEF TableOK, RuntimeOK, SaveFails, Fault
<1>5. QED BY <1>1, <1>2, <1>3, <1>4

\* A call that goes on to an await with an id and a request it may hold.
LEMMA AwaitTyped ==
  ASSUME CallsOK, CallsHold, NEW c \in Clients, NEW pc \in ClientPCs,
         NEW id \in Ids \cup {None}, NEW s \in Statuses,
         Await(c, pc, id, s), out' \in SUBSET Ids,
         CallHolds([pc |-> pc, req |-> client[c].req, id |-> id, status |-> s])
  PROVE  CallsOK' /\ CallsHold'
BY DEF CallsOK, CallsHold, Await, Calls, CallHolds

\* A call that answers.
LEMMA ReplyTyped ==
  ASSUME CallsOK, CallsHold, NEW c \in Clients, Reply(c), out' \in SUBSET Ids
  PROVE  CallsOK' /\ CallsHold'
BY DEF CallsOK, CallsHold, CallHolds, Reply, Idle, Calls, ClientPCs, Statuses

------------------------------------------------------------------------------
(* Type correctness: one step per action, and under it the parts it changes. *)

\* The initial state is well typed.
LEMMA InitTyped == Init => Typed
<1> SUFFICES ASSUME Init PROVE Typed OBVIOUS
<1>1. queue \in Seq(Entries) /\ <<>> \in Seq(Ids) BY EmptySeq DEF Init
<1>2. RuntimeOK BY DEF RuntimeOK, Init
<1>3. TableOK BY DEF TableOK, Init
<1>4. PoolOK BY <1>1 DEF PoolOK, Init
<1>5. CallsOK /\ CallsHold
  BY DEF CallsOK, CallsHold, CallHolds, Init, Idle, Calls, ClientPCs, Statuses
<1>6. TaskOK BY <1>1 DEF TaskOK, Init, Tasks, Waiting, TaskPCs
<1>7. TaskHolds BY DEF TaskHolds, Init, Waiting
<1>8. ExpiryOK BY DEF ExpiryOK, Init
<1>9. QED BY <1>2, <1>3, <1>4, <1>5, <1>6, <1>7, <1>8 DEF Typed, TypeOK

\* sandbox_create and sandbox_terminate start, and every step of a call in
\* flight, in well-typed states lead to well-typed states.
LEMMA CallsTyped ==
  ASSUME Typed, NEW c \in Clients,
         \/ \E r \in Requests : CreateCall(c, r)
         \/ \E i \in Ids : CheckinFind(c, i)
         \/ ClientStep(c)
  PROVE  Typed'
<1> USE DEF Typed, TypeOK
<1>0. /\ client[c].id \in Ids \cup {None} /\ client[c].status \in Statuses
      /\ CallHolds(client[c])
  BY DEF CallsOK, CallsHold, Calls
<1>1. ASSUME NEW r \in Requests, CreateCall(c, r) PROVE Typed'
  <2>1. CallsOK' /\ CallsHold'
    BY <1>1 DEF CreateCall, CallsOK, CallsHold, CallHolds, Calls, ClientPCs,
                Statuses
  <2>2. RuntimeOK' /\ TableOK' /\ PoolOK' /\ TaskOK' /\ TaskHolds' /\ ExpiryOK'
    BY <1>1 DEF CreateCall, counters, RuntimeOK, TableOK, PoolOK, TaskOK,
                TaskHolds, ExpiryOK
  <2>3. QED BY <2>1, <2>2
<1>2. ASSUME NEW i \in Ids, CheckinFind(c, i) PROVE Typed'
  <2>1. row[i] \in Statuses BY <1>2 DEF CheckinFind, TableOK
  <2>2. CallsOK' /\ CallsHold'
    BY <1>2, <2>1, AwaitTyped DEF CheckinFind, CallHolds, ClientPCs, CallsOK
  <2>3. RuntimeOK' /\ TableOK' /\ PoolOK' /\ TaskOK' /\ TaskHolds' /\ ExpiryOK'
    BY <1>2 DEF CheckinFind, Fault, counters, RuntimeOK, TableOK, PoolOK, TaskOK,
                TaskHolds, ExpiryOK
  <2>4. QED BY <2>2, <2>3
<1>3. CASE CheckoutWarm(c)
  <2>1. Head(queue) \in Entries /\ Tail(queue) \in Seq(Entries)
    BY <1>3, HeadTailProperties DEF CheckoutWarm, PoolOK
  <2>2. PoolOK'
    <3>1. total_idle' \in 0..(Word - 1) /\ total_active' \in 0..(Word - 1)
      BY <1>3 DEF CheckoutWarm, PoolOK, Plus, Minus
    <3>2. QED BY <1>3, <2>1, <3>1 DEF CheckoutWarm, PoolOK, PopFront
  <2>3. CallsOK' /\ CallsHold'
    BY <1>3, <2>1, AwaitTyped DEF CheckoutWarm, Entries, CallHolds, ClientPCs,
                                  CallsOK
  <2>4. RuntimeOK' /\ TableOK' /\ TaskOK' /\ TaskHolds' /\ ExpiryOK'
    BY <1>3 DEF CheckoutWarm, RuntimeOK, TableOK, TaskOK, TaskHolds, ExpiryOK
  <2>5. QED BY <2>2, <2>3, <2>4
<1>4. CASE CheckoutUpdate(c)
  <2>1. client[c].id \in Ids BY <1>0, <1>4 DEF CheckoutUpdate, At, CallHolds
  <2>2. RuntimeOK' /\ TableOK'
    BY <1>0, <1>4, <2>1, TableTyped DEF CheckoutUpdate
  <2>3. CallsOK' /\ CallsHold'
    BY <1>4, <2>1, ReplyTyped DEF CheckoutUpdate, CallsOK
  <2>4. PoolOK' /\ TaskOK' /\ TaskHolds' /\ ExpiryOK'
    BY <1>4 DEF CheckoutUpdate, counters, PoolOK, TaskOK, TaskHolds, ExpiryOK
  <2>5. QED BY <2>2, <2>3, <2>4
<1>5. CASE CheckoutMiss(c)
  <2>1. CallsOK' /\ CallsHold'
    BY <1>0, <1>5, AwaitTyped
    DEF CheckoutMiss, At, Goto, CallHolds, ClientPCs, CallsOK
  <2>2. RuntimeOK' /\ TableOK' /\ PoolOK' /\ TaskOK' /\ TaskHolds' /\ ExpiryOK'
    BY <1>5 DEF CheckoutMiss, counters, RuntimeOK, TableOK, PoolOK, TaskOK,
                TaskHolds, ExpiryOK
  <2>3. QED BY <2>1, <2>2
<1>6. CASE CheckoutAcquire(c)
  <2>1. CallsOK' /\ CallsHold'
    BY <1>0, <1>6, AwaitTyped
    DEF CheckoutAcquire, At, Goto, CallHolds, ClientPCs, CallsOK
  <2>2. RuntimeOK' /\ TableOK' /\ PoolOK' /\ TaskOK' /\ TaskHolds' /\ ExpiryOK'
    BY <1>6 DEF CheckoutAcquire, counters, RuntimeOK, TableOK, PoolOK, TaskOK,
                TaskHolds, ExpiryOK
  <2>3. QED BY <2>1, <2>2
<1>7. CASE CheckoutCreate(c)
  <2>1. client[c].req \in Requests BY <1>0, <1>7 DEF CheckoutCreate, At, CallHolds
  <2>2. RuntimeOK' BY <1>7, <2>1, RuntimeTyped DEF CheckoutCreate
  <2>3. PoolOK' BY <1>7 DEF CheckoutCreate, Release, PoolOK, counters
  <2>4. CallsOK' /\ CallsHold'
    BY <1>0, <1>7, <2>1, AwaitTyped
    DEF CheckoutCreate, Goto, CallHolds, ClientPCs, CallsOK
  <2>5. TableOK' /\ TaskOK' /\ TaskHolds' /\ ExpiryOK'
    BY <1>7 DEF CheckoutCreate, TableOK, TaskOK, TaskHolds, ExpiryOK
  <2>6. QED BY <2>2, <2>3, <2>4, <2>5
<1>8. CASE CheckoutSave(c)
  <2>1. client[c].id \in Ids BY <1>0, <1>8 DEF CheckoutSave, At, CallHolds
  <2>2. RuntimeOK' /\ TableOK' BY <1>8, <2>1, TableTyped DEF CheckoutSave
  <2>3. PoolOK'
    BY <1>8 DEF CheckoutSave, Release, PoolOK, Plus
  <2>4. CallsOK' /\ CallsHold'
    <3>1. CASE Reply(c) /\ out' = out \cup {client[c].id}
      BY <2>1, <3>1, ReplyTyped DEF CallsOK
    <3>2. CASE Await(c, "direct_create", None, client[c].status)
               /\ UNCHANGED out
      <4>1. client[c].req \in Requests BY <1>8, <1>0 DEF CheckoutSave, At, CallHolds
      <4>2. QED BY <1>0, <3>2, <4>1, AwaitTyped DEF CallHolds, ClientPCs, CallsOK
    <3>3. QED BY <1>8, <3>1, <3>2 DEF CheckoutSave
  <2>5. TaskOK' /\ TaskHolds' /\ ExpiryOK'
    BY <1>8 DEF CheckoutSave, TaskOK, TaskHolds, ExpiryOK
  <2>6. QED BY <2>2, <2>3, <2>4, <2>5
<1>9. CASE DirectCreate(c)
  <2>1. client[c].req \in Requests BY <1>0, <1>9 DEF DirectCreate, At, CallHolds
  <2>2. RuntimeOK' BY <1>9, <2>1, RuntimeTyped DEF DirectCreate
  <2>3. CallsOK' /\ CallsHold'
    BY <1>0, <1>9, <2>1, AwaitTyped, ReplyTyped
    DEF DirectCreate, CallHolds, ClientPCs, CallsOK
  <2>4. TableOK' /\ PoolOK' /\ TaskOK' /\ TaskHolds' /\ ExpiryOK'
    BY <1>9 DEF DirectCreate, TableOK, PoolOK, counters, TaskOK, TaskHolds,
                ExpiryOK
  <2>5. QED BY <2>2, <2>3, <2>4
<1>10. CASE DirectSave(c)
  <2>1. client[c].id \in Ids BY <1>0, <1>10 DEF DirectSave, At, CallHolds
  <2>2. RuntimeOK' /\ TableOK' BY <1>10, <2>1, TableTyped DEF DirectSave
  <2>3. CallsOK' /\ CallsHold'
    BY <1>10, <2>1, ReplyTyped DEF DirectSave, CallsOK
  <2>4. PoolOK' /\ TaskOK' /\ TaskHolds' /\ ExpiryOK'
    BY <1>10 DEF DirectSave, PoolOK, counters, TaskOK, TaskHolds, ExpiryOK
  <2>5. QED BY <2>2, <2>3, <2>4
<1>11. CASE CheckinTerminate(c)
  <2>1. client[c].id \in Ids BY <1>0, <1>11 DEF CheckinTerminate, At, CallHolds
  <2>2. RuntimeOK' BY <1>11, <2>1, RuntimeTyped DEF CheckinTerminate
  <2>3. CallsOK' /\ CallsHold'
    BY <1>0, <1>11, <2>1, AwaitTyped
    DEF CheckinTerminate, Goto, CallHolds, ClientPCs, CallsOK
  <2>4. TableOK' /\ PoolOK' /\ TaskOK' /\ TaskHolds' /\ ExpiryOK'
    BY <1>11 DEF CheckinTerminate, TableOK, PoolOK, counters, TaskOK, TaskHolds,
                 ExpiryOK
  <2>5. QED BY <2>2, <2>3, <2>4
<1>12. CASE CheckinPush(c)
  <2>1. client[c].id \in Ids BY <1>0, <1>12 DEF CheckinPush, At, CallHolds
  <2>2. Pushed(client[c].id, client[c].status) \in Seq(Entries)
    BY <1>0, <2>1, AppendProperties DEF Pushed, Entries, PoolOK
  <2>3. PoolOK'
    BY <1>12, <2>2 DEF CheckinPush, PoolOK, Plus, Minus
  <2>4. CallsOK' /\ CallsHold'
    BY <1>12, ReplyTyped DEF CheckinPush, CallsOK
  <2>5. RuntimeOK' /\ TableOK' /\ TaskOK' /\ TaskHolds' /\ ExpiryOK'
    BY <1>12 DEF CheckinPush, RuntimeOK, TableOK, TaskOK, TaskHolds, ExpiryOK
  <2>6. QED BY <2>3, <2>4, <2>5
<1>13. CASE DirectFind(c)
  <2>1. client[c].id \in Ids BY <1>0, <1>13 DEF DirectFind, At, CallHolds
  <2>2. RuntimeOK' BY <1>13, <2>1 DEF DirectFind, RuntimeOK, Fault
  <2>3. CallsOK' /\ CallsHold'
    <3>1. CASE Reply(c)
      BY <1>13, <3>1, ReplyTyped DEF DirectFind, CallsOK
    <3>2. CASE /\ row[client[c].id] # "none"
               /\ Await(c, "direct_terminate", client[c].id, row[client[c].id])
      <4>1. row[client[c].id] \in Statuses BY <2>1, <3>2 DEF TableOK
      <4>2. QED
        BY <1>13, <2>1, <3>2, <4>1, AwaitTyped
        DEF DirectFind, CallHolds, ClientPCs, CallsOK
    <3>3. QED BY <1>13, <3>1, <3>2 DEF DirectFind
  <2>4. TableOK' /\ PoolOK' /\ TaskOK' /\ TaskHolds' /\ ExpiryOK'
    BY <1>13 DEF DirectFind, TableOK, PoolOK, counters, TaskOK, TaskHolds,
                 ExpiryOK
  <2>5. QED BY <2>2, <2>3, <2>4
<1>14. CASE DirectTerminate(c)
  <2>1. client[c].id \in Ids BY <1>0, <1>14 DEF DirectTerminate, At, CallHolds
  <2>2. RuntimeOK' BY <1>14, <2>1 DEF DirectTerminate, RuntimeOK, Fault
  <2>3. CallsOK' /\ CallsHold'
    <3>1. CASE Reply(c)
      BY <1>14, <3>1, ReplyTyped DEF DirectTerminate, CallsOK
    <3>2. CASE Goto(c, "direct_delete")
      BY <1>0, <1>14, <2>1, <3>2, AwaitTyped
      DEF DirectTerminate, Goto, CallHolds, ClientPCs, CallsOK
    <3>3. QED BY <1>14, <3>1, <3>2 DEF DirectTerminate
  <2>4. TableOK' /\ PoolOK' /\ TaskOK' /\ TaskHolds' /\ ExpiryOK'
    BY <1>14 DEF DirectTerminate, TableOK, PoolOK, counters, TaskOK, TaskHolds,
                 ExpiryOK
  <2>5. QED BY <2>2, <2>3, <2>4
<1>15. CASE DirectDelete(c)
  <2>1. client[c].id \in Ids BY <1>0, <1>15 DEF DirectDelete, At, CallHolds
  <2>2. RuntimeOK' /\ TableOK' BY <1>15, <2>1, TableTyped DEF DirectDelete
  <2>3. CallsOK' /\ CallsHold'
    BY <1>15, ReplyTyped DEF DirectDelete, CallsOK
  <2>4. PoolOK' /\ TaskOK' /\ TaskHolds' /\ ExpiryOK'
    BY <1>15 DEF DirectDelete, PoolOK, counters, TaskOK, TaskHolds, ExpiryOK
  <2>5. QED BY <2>2, <2>3, <2>4
<1>16. QED
  BY <1>1, <1>2, <1>3, <1>4, <1>5, <1>6, <1>7, <1>8, <1>9, <1>10, <1>11, <1>12,
     <1>13, <1>14, <1>15
  DEF ClientStep

\* So do the steps of the refill task and of stop().
LEMMA TaskTyped ==
  ASSUME Typed, Counted, TaskStep
  PROVE  Typed'
<1> USE DEF Typed, TypeOK
<1>1. ASSUME NEW stopping \in BOOLEAN, EvictIdle(stopping) PROVE Typed'
  <2>1. PICK n \in 0..Len(queue) :
          /\ queue' = SubSeq(queue, n + 1, Len(queue))
          /\ task' = [task EXCEPT !.pc = "evict", !.stopping = stopping,
                                  !.batch = [k \in 1..n |-> queue[k].id]]
    BY <1>1 DEF EvictIdle
  <2>2. \A k \in 1..Len(queue) : queue[k] \in Entries
    BY ElementOfSeq DEF PoolOK
  <2>3. queue' \in Seq(Entries)
    BY <2>1, <2>2, SubSeqProperties, LenProperties, SMTT(20) DEF PoolOK
  <2>4. [k \in 1..n |-> queue[k].id] \in Seq(Ids)
    <3>1. n \in Nat /\ \A k \in 1..n : queue[k].id \in Ids
      BY <2>2, LenProperties DEF Entries, PoolOK
    <3>2. [k \in 1..n |-> queue[k].id] \in [1..n -> Ids] BY <3>1
    <3>3. QED BY <3>1, <3>2, SeqDef
  <2>5. PoolOK' BY <1>1, <2>3 DEF EvictIdle, PoolOK, counters
  <2>6. TaskOK' /\ TaskHolds'
    BY <1>1, <2>1, <2>4 DEF EvictIdle, TaskOK, TaskHolds, Tasks, TaskPCs
  <2>7. RuntimeOK' /\ TableOK' /\ CallsOK' /\ CallsHold' /\ ExpiryOK'
    BY <1>1 DEF EvictIdle, RuntimeOK, TableOK, CallsOK, CallsHold, ExpiryOK
  <2>8. QED BY <2>5, <2>6, <2>7
<1>2. CASE EvictTerminate
  <2>1. Head(task.batch) \in Ids
    BY <1>2, HeadTailProperties DEF EvictTerminate, TaskOK, Tasks
  <2>2. RuntimeOK' BY <1>2, <2>1, RuntimeTyped DEF EvictTerminate
  <2>3. TaskOK' /\ TaskHolds'
    BY <1>2 DEF EvictTerminate, TaskOK, TaskHolds, Tasks, TaskPCs
  <2>4. TableOK' /\ PoolOK' /\ CallsOK' /\ CallsHold' /\ ExpiryOK'
    BY <1>2 DEF EvictTerminate, TableOK, PoolOK, counters, CallsOK, CallsHold,
                ExpiryOK
  <2>5. QED BY <2>2, <2>3, <2>4
<1>3. CASE EvictDelete
  <2>1. Head(task.batch) \in Ids /\ Tail(task.batch) \in Seq(Ids)
    BY <1>3, HeadTailProperties DEF EvictDelete, TaskOK, TaskHolds, Tasks
  <2>2. RuntimeOK' /\ TableOK' BY <1>3, <2>1, TableTyped DEF EvictDelete
  <2>3. TaskOK' /\ TaskHolds'
    <3>0. task' = [pc |-> "evict", batch |-> Tail(task.batch),
                   evicted |-> task.evicted + 1, id |-> task.id,
                   stopping |-> task.stopping]
      BY <1>3 DEF EvictDelete, TaskOK, Tasks
    <3>1. task' \in Tasks
      BY <2>1, <3>0 DEF TaskOK, Tasks, TaskPCs
    <3>2. QED BY <1>3, <3>1 DEF EvictDelete, TaskOK, TaskHolds, Tasks
  <2>4. PoolOK' /\ CallsOK' /\ CallsHold' /\ ExpiryOK'
    BY <1>3 DEF EvictDelete, PoolOK, counters, CallsOK, CallsHold, ExpiryOK
  <2>5. QED BY <2>2, <2>3, <2>4
<1>4. CASE EvictSettle
  <2>1. PoolOK'
    <3>1. task.evicted \in Nat /\ Len(task.batch) \in Nat /\ Len(queue) \in Nat
      BY LenProperties DEF TaskOK, Tasks, PoolOK
    <3>2. task.evicted <= total_idle
      BY <1>4, <3>1 DEF EvictSettle, Counted, IdleCounterExact
    <3>3. total_idle' = Minus(total_idle, task.evicted) /\ total_idle \in 0..Word - 1
      BY <1>4 DEF EvictSettle, PoolOK
    <3>4. total_idle' \in 0..Word - 1 BY <3>1, <3>2, <3>3 DEF Minus
    <3>5. QED BY <1>4, <3>4 DEF EvictSettle, PoolOK
  <2>2. TaskOK' /\ TaskHolds'
    BY <1>4 DEF EvictSettle, TaskOK, TaskHolds, Tasks, TaskPCs
  <2>3. RuntimeOK' /\ TableOK' /\ CallsOK' /\ CallsHold' /\ ExpiryOK'
    BY <1>4 DEF EvictSettle, RuntimeOK, TableOK, CallsOK, CallsHold, ExpiryOK
  <2>4. QED BY <2>1, <2>2, <2>3
<1>5. CASE StopDone
  <2>1. PoolOK' BY <1>5 DEF StopDone, PoolOK
  <2>2. TaskOK' /\ TaskHolds'
    BY <1>5 DEF StopDone, TaskOK, TaskHolds, Tasks, TaskPCs
  <2>3. RuntimeOK' /\ TableOK' /\ CallsOK' /\ CallsHold' /\ ExpiryOK'
    BY <1>5 DEF StopDone, RuntimeOK, TableOK, CallsOK, CallsHold, ExpiryOK
  <2>4. QED BY <2>1, <2>2, <2>3
<1>6. CASE EvictDone \/ FillBegin \/ FillAcquire
  <2>1. PoolOK' BY <1>6 DEF EvictDone, FillBegin, FillAcquire, PoolOK, counters
  <2>2. TaskOK' /\ TaskHolds'
    BY <1>6
    DEF EvictDone, FillBegin, FillAcquire, TaskOK, TaskHolds, Tasks, TaskPCs
  <2>3. RuntimeOK' /\ TableOK' /\ CallsOK' /\ CallsHold' /\ ExpiryOK'
    BY <1>6 DEF EvictDone, FillBegin, FillAcquire, RuntimeOK, TableOK, CallsOK,
                CallsHold, ExpiryOK
  <2>4. QED BY <2>1, <2>2, <2>3
<1>7. Waiting \in Tasks
  <2>1. <<>> \in Seq(Ids) BY EmptySeq
  <2>2. QED BY <2>1 DEF Waiting, Tasks, TaskPCs
<1>8. CASE FillEnd
  <2>1. PoolOK' BY <1>8 DEF FillEnd, PoolOK, counters
  <2>2. TaskOK' /\ TaskHolds'
    BY <1>7, <1>8 DEF FillEnd, TaskOK, TaskHolds, Waiting
  <2>3. RuntimeOK' /\ TableOK' /\ CallsOK' /\ CallsHold' /\ ExpiryOK'
    BY <1>8 DEF FillEnd, RuntimeOK, TableOK, CallsOK, CallsHold, ExpiryOK
  <2>4. QED BY <2>1, <2>2, <2>3
<1>9. CASE FillCreate
  <2>1. RuntimeOK' BY <1>9, RuntimeTyped DEF FillCreate
  <2>2. PoolOK'
    <3>1. permits' \in Nat
      <4>1. permits' \in {permits, permits + 1} BY <1>9 DEF FillCreate, Release
      <4>2. QED BY <4>1 DEF PoolOK
    <3>2. guard' \in Clients \cup {"task", "free"} BY <1>9 DEF FillCreate, PoolOK
    <3>3. QED BY <1>9, <3>1, <3>2 DEF FillCreate, PoolOK, counters
  <2>3. TaskOK' /\ TaskHolds'
    <3>1. CASE task' = Waiting
      BY <1>7, <1>9, <3>1 DEF FillCreate, TaskOK, TaskHolds, Waiting
    <3>2. CASE \E i \in Ids : task' = [task EXCEPT !.pc = "save", !.id = i]
      BY <1>9, <3>2 DEF FillCreate, TaskOK, TaskHolds, Tasks, TaskPCs
    <3>3. QED BY <1>9, <3>1, <3>2 DEF FillCreate
  <2>4. TableOK' /\ CallsOK' /\ CallsHold' /\ ExpiryOK'
    BY <1>9 DEF FillCreate, TableOK, CallsOK, CallsHold, ExpiryOK
  <2>5. QED BY <2>1, <2>2, <2>3, <2>4
<1>10. CASE FillSave
  <2>1. task.id \in Ids BY <1>10 DEF FillSave, TaskHolds
  <2>2. RuntimeOK' /\ TableOK' BY <1>10, <2>1, TableTyped DEF FillSave
  <2>3. Pushed(task.id, "running") \in Seq(Entries)
    BY <2>1, AppendProperties DEF Pushed, Entries, PoolOK, Statuses
  <2>4. PoolOK'
    <3>1. total_idle' \in 0..(Word - 1) /\ permits' \in Nat
      BY <1>10, SMTT(20) DEF FillSave, PoolOK, Plus, Release
    <3>2. QED BY <1>10, <2>3, <3>1 DEF FillSave, PoolOK
  <2>5. TaskOK' /\ TaskHolds'
    <3>1. CASE task' = Waiting
      BY <1>7, <1>10, <3>1 DEF FillSave, TaskOK, TaskHolds, Waiting
    <3>2. CASE task' = [task EXCEPT !.pc = "fill", !.id = None]
      BY <1>10, <3>2 DEF FillSave, TaskOK, TaskHolds, Tasks, TaskPCs
    <3>3. QED BY <1>10, <3>1, <3>2 DEF FillSave
  <2>6. CallsOK' /\ CallsHold' /\ ExpiryOK'
    BY <1>10 DEF FillSave, CallsOK, CallsHold, ExpiryOK
  <2>7. QED BY <2>2, <2>4, <2>5, <2>6
<1>11. QED
  BY <1>1, <1>2, <1>3, <1>4, <1>5, <1>6, <1>8, <1>9, <1>10 DEF TaskStep

\* And the remaining steps: the enforcer's, the passing of time, the signal.
LEMMA OthersTyped ==
  ASSUME Typed, ExpiryStep \/ Age \/ Stop \/ UNCHANGED vars
  PROVE  Typed'
<1> USE DEF Typed, TypeOK
<1>1. CASE ExpiryScan
  <2>1. ExpiryOK' BY <1>1 DEF ExpiryScan, ExpiryOK
  <2>2. /\ RuntimeOK' /\ TableOK' /\ PoolOK' /\ CallsOK' /\ CallsHold'
        /\ TaskOK' /\ TaskHolds'
    BY <1>1 DEF ExpiryScan, RuntimeOK, TableOK, PoolOK, counters, CallsOK,
                CallsHold, TaskOK, TaskHolds
  <2>3. QED BY <2>1, <2>2
<1>2. ASSUME NEW i \in Ids, ExpiryTerminate(i) PROVE Typed'
  <2>1. ExpiryOK' BY <1>2 DEF ExpiryTerminate, ExpiryOK
  <2>2. RuntimeOK' BY <1>2 DEF ExpiryTerminate, RuntimeOK, Fault
  <2>3. /\ TableOK' /\ PoolOK' /\ CallsOK' /\ CallsHold'
        /\ TaskOK' /\ TaskHolds'
    BY <1>2 DEF ExpiryTerminate, TableOK, PoolOK, counters, CallsOK, CallsHold,
                TaskOK, TaskHolds
  <2>4. QED BY <2>1, <2>2, <2>3
<1>3. CASE ExpiryUpdate
  <2>1. expiry.id \in Ids BY <1>3 DEF ExpiryUpdate, ExpiryOK
  <2>2. ExpiryOK' BY <1>3 DEF ExpiryUpdate, ExpiryOK
  <2>3. RuntimeOK' /\ TableOK'
    BY <1>3, <2>1, TableTyped DEF ExpiryUpdate, Statuses
  <2>4. PoolOK' /\ CallsOK' /\ CallsHold' /\ TaskOK' /\ TaskHolds'
    BY <1>3 DEF ExpiryUpdate, PoolOK, counters, CallsOK, CallsHold, TaskOK,
                TaskHolds
  <2>5. QED BY <2>2, <2>3, <2>4
<1>4. CASE Age
  <2>1. PICK k \in 1..Len(queue) : queue' = [queue EXCEPT ![k].old = TRUE]
    BY <1>4 DEF Age
  <2>2. queue[k] \in Entries BY ElementOfSeq DEF PoolOK
  <2>3. [queue[k] EXCEPT !.old = TRUE] \in Entries BY <2>2 DEF Entries
  <2>4. queue' = [queue EXCEPT ![k] = [queue[k] EXCEPT !.old = TRUE]] BY <2>1
  <2>5. queue' \in Seq(Entries) BY <2>3, <2>4, ExceptSeq DEF PoolOK
  <2>6. PoolOK' BY <1>4, <2>5 DEF Age, PoolOK, counters
  <2>7. /\ RuntimeOK' /\ TableOK' /\ CallsOK' /\ CallsHold' /\ TaskOK'
        /\ TaskHolds' /\ ExpiryOK'
    BY <1>4 DEF Age, RuntimeOK, TableOK, CallsOK, CallsHold, TaskOK, TaskHolds,
                ExpiryOK
  <2>8. QED BY <2>6, <2>7
<1>5. CASE Stop \/ UNCHANGED vars
  BY <1>5 DEF Stop, vars, counters, RuntimeOK, TableOK, PoolOK, CallsOK,
              CallsHold, TaskOK, TaskHolds, ExpiryOK
<1>6. QED BY <1>1, <1>2, <1>3, <1>4, <1>5 DEF ExpiryStep

\* Type correctness of the pool: rows, queue entries, permits and the data a
\* call carries from one await to the next are what the code's types say.
LEMMA NextTyped == Typed /\ Counted /\ [Next]_vars => Typed'
BY CallsTyped, TaskTyped, OthersTyped DEF Next, Gateway, Exited

------------------------------------------------------------------------------
(* The idle counter.                                                        *)

\* Initially nothing is queued, evicted or guarded.
LEMMA InitCounted == Init => Counted
BY EmptySeq DEF Init, Counted, IdleCounterExact, GuardHolder, Idle, Waiting, At

\* Calls count what they push and pop, and only while the guard is free.
LEMMA CallsCounted ==
  ASSUME Typed, Counted, task.pc # "stopped", NEW c \in Clients,
         \/ \E r \in Requests : CreateCall(c, r)
         \/ \E i \in Ids : CheckinFind(c, i)
         \/ ClientStep(c)
  PROVE  Counted'
<1> USE DEF Typed, TypeOK
<1>0. /\ client \in [Clients -> Calls] /\ queue \in Seq(Entries)
      /\ Len(queue) \in Nat /\ guard \in Clients \cup {"task", "free"}
      /\ total_idle \in Int /\ task.evicted \in Nat
      /\ \A d \in Clients : d # "task" /\ d # "free"
  BY LenProperties DEF CallsOK, PoolOK, TaskOK, Tasks
<1>1. CASE CheckoutWarm(c)
  <2>1. Len(Tail(queue)) = Len(queue) - 1 /\ Len(queue) > 0
    BY <1>0, <1>1, HeadTailProperties, EmptySeq DEF CheckoutWarm
  <2>2. task.batch = <<>> /\ total_idle = Len(queue) + task.evicted
    BY <1>0, <1>1, EmptySeq DEF CheckoutWarm, Counted, GuardHolder, IdleCounterExact
  <2>3. total_idle' = total_idle - 1
    <3>1. total_idle' = Minus(total_idle, 1) BY <1>1 DEF CheckoutWarm
    <3>2. QED BY <1>0, <2>1, <2>2, <3>1 DEF Minus
  <2>4. IdleCounterExact'
    <3> HIDE DEF Typed, TypeOK
    <3>1. task' = task /\ queue' = Tail(queue) /\ guard' = c
      BY <1>1 DEF CheckoutWarm, PopFront
    <3>2. Len(task.batch) = 0 BY <2>2, EmptySeq
    <3>3. Len(queue) \in Nat /\ task.evicted \in Nat /\ c # "task" BY <1>0
    <3>4. Len(queue) <= MaxIdle /\ task.evicted <= MaxIdle
      BY <3>2, <3>3 DEF Counted, IdleCounterExact
    <3>5. Len(queue') = Len(queue) - 1 BY <2>1, <3>1
    <3>6. task'.evicted = task.evicted /\ Len(task'.batch) = 0 BY <3>1, <3>2
    <3>7. total_idle' = Len(queue') + Len(task'.batch) + task'.evicted
      BY <2>2, <2>3, <3>3, <3>5, <3>6
    <3>8. Len(queue') + Len(task'.batch) <= MaxIdle /\ task'.evicted <= MaxIdle
      BY <3>3, <3>4, <3>5, <3>6
    <3>9. guard' # "task" BY <3>1, <3>3
    <3>10. QED BY <3>7, <3>8, <3>9 DEF IdleCounterExact
  <2>5. GuardHolder'
    BY <1>0, <1>1 DEF CheckoutWarm, Counted, GuardHolder, At, Await, Calls
  <2>6. QED BY <1>1, <2>4, <2>5 DEF CheckoutWarm, Counted
<1>2. CASE CheckoutUpdate(c)
  <2>1. GuardHolder'
    BY <1>0, <1>2
    DEF CheckoutUpdate, Counted, GuardHolder, At, Reply, Idle, Calls
  <2>2. QED BY <1>2, <2>1 DEF CheckoutUpdate, Counted, IdleCounterExact, counters
<1>3. CASE CheckinPush(c)
  <2>1. GuardHolder'
    BY <1>0, <1>3 DEF CheckinPush, Counted, GuardHolder, At, Reply, Idle, Calls
  <2>2. CASE UNCHANGED <<queue, total_idle>>
    BY <1>3, <2>1, <2>2 DEF CheckinPush, Counted, IdleCounterExact
  <2>3. CASE /\ guard = "free" /\ Room
             /\ queue' = Pushed(client[c].id, client[c].status)
             /\ total_idle' = Plus(total_idle, 1)
    <3>1. Len(queue') = Len(queue) + 1
      <4>1. client[c] \in Calls /\ client[c].id \in Ids
        BY <1>0, <1>3 DEF CheckinPush, CallsHold, CallHolds, At
      <4>2. [id |-> client[c].id, status |-> client[c].status, old |-> FALSE]
              \in Entries
        BY <4>1 DEF Entries, Calls
      <4>3. QED BY <1>0, <2>3, <4>2, AppendProperties DEF Pushed
    <3> HIDE DEF Typed, TypeOK
    <3>2. Len(queue) \in Nat /\ task.evicted \in Nat BY <1>0
    <3>3. task.batch = <<>> BY <2>3 DEF Counted, GuardHolder
    <3>4. Len(task.batch) = 0 BY <3>3, EmptySeq
    <3>5. total_idle = Len(queue) + task.evicted /\ task.evicted <= MaxIdle
      BY <3>2, <3>4 DEF Counted, IdleCounterExact
    <3>6. Len(queue) + 1 <= MaxIdle BY <2>3, <3>2 DEF Room
    <3>7. total_idle' = Plus(total_idle, 1) BY <2>3
    <3>8. total_idle' = total_idle + 1 BY <3>2, <3>5, <3>6, <3>7 DEF Plus
    <3>9. task' = task /\ guard' = guard BY <1>3 DEF CheckinPush
    <3>10. guard' # "task" BY <2>3, <3>9
    <3>a. task'.evicted = task.evicted /\ Len(task'.batch) = 0 BY <3>4, <3>9
    <3>b. total_idle' = Len(queue') + Len(task'.batch) + task'.evicted
      BY <3>1, <3>2, <3>5, <3>8, <3>a
    <3>c. Len(queue') + Len(task'.batch) <= MaxIdle /\ task'.evicted <= MaxIdle
      BY <3>1, <3>2, <3>5, <3>6, <3>a
    <3>11. IdleCounterExact' BY <3>10, <3>b, <3>c DEF IdleCounterExact
    <3>12. QED BY <1>3, <2>1, <3>11 DEF CheckinPush, Counted
  <2>4. QED BY <1>3, <2>2, <2>3 DEF CheckinPush
<1>4. ASSUME UNCHANGED <<queue, guard, total_idle, task>>,
             client[c].pc # "update", client'[c].pc # "update",
             \A d \in Clients \ {c} : client'[d] = client[d]
      PROVE  Counted'
  BY <1>4 DEF Counted, IdleCounterExact, GuardHolder, At
<1>5. ASSUME NEW r \in Requests, CreateCall(c, r) PROVE Counted'
  BY <1>0, <1>4, <1>5 DEF CreateCall, At, counters
<1>6. ASSUME NEW i \in Ids, CheckinFind(c, i) PROVE Counted'
  BY <1>0, <1>4, <1>6 DEF CheckinFind, At, Await, counters
<1>a. CASE DirectFind(c)
  BY <1>0, <1>4, <1>a DEF DirectFind, At, Await, Reply, Idle, counters
<1>b. CASE DirectTerminate(c)
  BY <1>0, <1>4, <1>b DEF DirectTerminate, At, Goto, Await, Reply, Idle, counters
<1>c. CASE DirectDelete(c)
  BY <1>0, <1>4, <1>c DEF DirectDelete, At, Reply, Idle, counters
<1>7. CASE CheckoutMiss(c) \/ CheckoutAcquire(c)
  BY <1>0, <1>4, <1>7 DEF CheckoutMiss, CheckoutAcquire, At, Goto, Await, counters
<1>8. CASE CheckoutCreate(c)
  BY <1>0, <1>4, <1>8 DEF CheckoutCreate, At, Goto, Await, counters
<1>9. CASE CheckoutSave(c)
  BY <1>0, <1>4, <1>9 DEF CheckoutSave, At, Await, Reply, Idle
<1>10. CASE DirectCreate(c)
  BY <1>0, <1>4, <1>10 DEF DirectCreate, At, Await, Reply, Idle, counters
<1>11. CASE DirectSave(c)
  BY <1>0, <1>4, <1>11 DEF DirectSave, At, Reply, Idle, counters
<1>12. CASE CheckinTerminate(c)
  BY <1>0, <1>4, <1>12 DEF CheckinTerminate, At, Goto, Await, counters
<1>13. QED
  BY <1>1, <1>2, <1>3, <1>5, <1>6, <1>7, <1>8, <1>9, <1>10, <1>11, <1>12, <1>a,
     <1>b, <1>c
  DEF ClientStep

\* The task moves entries from the queue to its batch, counts them one by one,
\* and settles the counter after it has given the guard back.
LEMMA TaskCounted ==
  ASSUME Typed, Counted, task.pc # "stopped", TaskStep
  PROVE  Counted'
<1> USE DEF Typed, TypeOK
<1>0. /\ queue \in Seq(Entries) /\ Len(queue) \in Nat /\ total_idle \in Int
      /\ task \in Tasks /\ task.batch \in Seq(Ids) /\ task.evicted \in Nat
      /\ Len(task.batch) \in Nat
  BY LenProperties DEF PoolOK, TaskOK, Tasks
<1>a. \A c \in Clients : c # "task" /\ c # "free" OBVIOUS
<1>1. ASSUME NEW stopping \in BOOLEAN, EvictIdle(stopping) PROVE Counted'
  <2>1. PICK n \in 0..Len(queue) :
          /\ queue' = SubSeq(queue, n + 1, Len(queue))
          /\ task' = [task EXCEPT !.pc = "evict", !.stopping = stopping,
                                  !.batch = [k \in 1..n |-> queue[k].id]]
    BY <1>1 DEF EvictIdle
  <2>2. n \in Nat /\ \A k \in 1..Len(queue) : queue[k] \in Entries
    BY <1>0, ElementOfSeq
  <2>3. Len(queue') = Len(queue) - n
    BY <1>0, <2>1, <2>2, SubSeqProperties, SMTT(20)
  <2>4. Len(task'.batch) = n
    <3>1. [k \in 1..n |-> queue[k].id] \in [1..n -> Ids]
      BY <1>0, <2>2 DEF Entries
    <3>2. task'.batch = [k \in 1..n |-> queue[k].id] BY <1>0, <2>1 DEF Tasks
    <3>3. QED BY <2>2, <3>1, <3>2
  <2>5. task'.pc = "evict" /\ task'.evicted = task.evicted
    BY <1>0, <2>1 DEF Tasks
  <2>6. task.batch = <<>> /\ task.evicted = 0 /\ total_idle = Len(queue)
    BY <1>0, <1>1, EmptySeq, SMTT(20) DEF EvictIdle, Counted, IdleCounterExact
  <2>7. IdleCounterExact'
    BY <1>0, <1>1, <2>2, <2>3, <2>4, <2>5, <2>6, SMTT(20)
    DEF EvictIdle, counters, Counted, IdleCounterExact
  <2>8. GuardHolder'
    BY <1>1, <1>a, <2>5 DEF EvictIdle, Counted, GuardHolder, At
  <2>9. QED BY <2>5, <2>7, <2>8 DEF Counted
<1>2. CASE EvictTerminate
  <2>1. /\ task'.pc = "delete" /\ task'.batch = task.batch
        /\ task'.evicted = task.evicted
    BY <1>0, <1>2 DEF EvictTerminate, Tasks
  <2>2. QED
    BY <1>2, <2>1
    DEF EvictTerminate, Counted, IdleCounterExact, GuardHolder, At, counters
<1>3. CASE EvictDelete
  <2>1. /\ task'.pc = "evict" /\ task'.batch = Tail(task.batch)
        /\ task'.evicted = task.evicted + 1
    BY <1>0, <1>3 DEF EvictDelete, Tasks
  <2>2. Len(Tail(task.batch)) = Len(task.batch) - 1
    BY <1>0, <1>3, HeadTailProperties DEF EvictDelete, TaskHolds
  <2>3. IdleCounterExact'
    <3>1. UNCHANGED <<queue, total_idle>> /\ guard = "task"
      BY <1>3 DEF EvictDelete, counters, Counted, GuardHolder
    <3>2. Len(queue) + Len(task.batch) + task.evicted <= MaxIdle
      BY <3>1 DEF Counted, IdleCounterExact
    <3>3. QED
      BY <1>0, <2>1, <2>2, <3>1, <3>2, SMTT(20) DEF Counted, IdleCounterExact
  <2>4. GuardHolder' BY <1>3, <2>1 DEF EvictDelete, Counted, GuardHolder, At
  <2>5. QED BY <2>1, <2>3, <2>4 DEF Counted
<1>4. CASE EvictSettle
  <2>1. task'.pc = "refill" /\ task'.batch = task.batch /\ task'.evicted = 0
    BY <1>0, <1>4 DEF EvictSettle, Tasks
  <2>2. /\ task.batch = <<>> /\ total_idle = Len(queue) + task.evicted
        /\ Len(queue) <= MaxIdle
    BY <1>0, <1>4, EmptySeq DEF EvictSettle, Counted, IdleCounterExact
  <2>3. total_idle' = Len(queue) BY <1>0, <1>4, <2>2 DEF EvictSettle, Minus
  <2>4. IdleCounterExact'
    BY <1>0, <1>4, <2>1, <2>2, <2>3, EmptySeq DEF EvictSettle, IdleCounterExact
  <2>5. GuardHolder' BY <1>4, <2>1 DEF EvictSettle, Counted, GuardHolder, At
  <2>6. QED BY <2>1, <2>2, <2>4, <2>5 DEF Counted
<1>b. CASE EvictDone
  <2>1. /\ task'.pc = "settle" /\ task'.batch = task.batch /\ task.batch = <<>>
        /\ task'.evicted = task.evicted
    BY <1>0, <1>b DEF EvictDone, Tasks
  <2>2. IdleCounterExact'
    BY <1>b, <2>1 DEF EvictDone, Counted, IdleCounterExact, counters
  <2>3. GuardHolder' BY <1>b, <1>a, <2>1 DEF EvictDone, Counted, GuardHolder, At
  <2>4. QED BY <2>1, <2>2, <2>3 DEF Counted
<1>5. CASE StopDone
  <2>1. task'.pc = "stopped" /\ task'.batch = <<>> /\ task'.evicted = 0
    BY <1>0, <1>5 DEF StopDone, Tasks, Counted
  <2>2. QED
    BY <1>5, <1>a, <2>1
    DEF StopDone, Counted, IdleCounterExact, GuardHolder, At
<1>6. CASE FillBegin
  <2>1. task'.pc = "fill" /\ task'.batch = task.batch /\ task'.evicted = task.evicted
    BY <1>0, <1>6 DEF FillBegin, Tasks
  <2>2. task.batch = <<>> /\ task.evicted = 0 /\ total_idle <= MaxIdle
    BY <1>0, <1>6, EmptySeq DEF FillBegin, Counted, IdleCounterExact
  <2>3. IdleCounterExact'
    BY <1>6, <2>1, <2>2 DEF FillBegin, Counted, IdleCounterExact, counters
  <2>4. GuardHolder' BY <1>6, <1>a, <2>1 DEF FillBegin, Counted, GuardHolder, At
  <2>5. QED BY <2>1, <2>2, <2>3, <2>4 DEF Counted
<1>7. CASE FillAcquire
  <2>1. /\ task'.pc = "create" /\ task'.batch = task.batch
        /\ task'.evicted = task.evicted
    BY <1>0, <1>7 DEF FillAcquire, Tasks
  <2>2. QED
    BY <1>7, <2>1
    DEF FillAcquire, Counted, IdleCounterExact, GuardHolder, At, counters
<1>8. ASSUME task.pc \in {"fill", "create", "save"}, task' = Waiting,
             guard' = "free", UNCHANGED <<queue, total_idle, client>>
      PROVE  Counted'
  <2>1. task'.pc = "wait" /\ task'.batch = <<>> /\ task'.evicted = 0
    BY <1>8 DEF Waiting
  <2>2. IdleCounterExact'
    BY <1>0, <1>8, <2>1, EmptySeq DEF Counted, IdleCounterExact
  <2>3. GuardHolder' BY <1>8, <1>a, <2>1 DEF Counted, GuardHolder, At
  <2>4. QED BY <2>1, <2>2, <2>3 DEF Counted
<1>9. CASE FillEnd BY <1>8, <1>9 DEF FillEnd, counters
<1>10. CASE FillCreate
  <2>1. CASE task' = Waiting /\ guard' = "free"
    BY <1>8, <1>10, <2>1 DEF FillCreate, counters
  <2>2. ASSUME NEW i \in Ids, task' = [task EXCEPT !.pc = "save", !.id = i],
               UNCHANGED guard
        PROVE  Counted'
    <3>1. /\ task'.pc = "save" /\ task'.batch = task.batch
          /\ task'.evicted = task.evicted
      BY <1>0, <2>2 DEF Tasks
    <3>2. QED
      BY <1>10, <2>2, <3>1
      DEF FillCreate, Counted, IdleCounterExact, GuardHolder, At, counters
  <2>3. QED BY <1>10, <2>1, <2>2 DEF FillCreate
<1>11. CASE FillSave
  <2>1. CASE task' = Waiting /\ guard' = "free" /\ UNCHANGED <<queue, total_idle>>
    BY <1>8, <1>11, <2>1 DEF FillSave
  <2>2. CASE /\ Room /\ queue' = Pushed(task.id, "running")
             /\ total_idle' = Plus(total_idle, 1)
             /\ task' = [task EXCEPT !.pc = "fill", !.id = None]
             /\ UNCHANGED guard
    <3>1. Len(queue') = Len(queue) + 1
      <4>1. [id |-> task.id, status |-> "running", old |-> FALSE] \in Entries
        BY <1>11 DEF FillSave, TaskHolds, Entries, Statuses
      <4>2. QED BY <1>0, <2>2, <4>1, AppendProperties DEF Pushed
    <3>2. task.batch = <<>> /\ task.evicted = 0 /\ total_idle = Len(queue)
      BY <1>0, <1>11, EmptySeq DEF FillSave, Counted, IdleCounterExact
    <3>3. total_idle' = total_idle + 1 /\ total_idle' <= MaxIdle
      BY <1>0, <2>2, <3>2 DEF Plus, Room
    <3>4. task'.pc = "fill" /\ task'.batch = <<>> /\ task'.evicted = 0
      BY <1>0, <2>2, <3>2 DEF Tasks
    <3>5. IdleCounterExact'
      BY <1>0, <3>1, <3>2, <3>3, <3>4, EmptySeq DEF IdleCounterExact
    <3>6. GuardHolder'
      BY <1>11, <2>2, <3>4 DEF FillSave, Counted, GuardHolder, At
    <3>7. QED BY <3>4, <3>5, <3>6 DEF Counted
  <2>3. QED BY <1>11, <2>1, <2>2 DEF FillSave
<1>12. QED
  BY <1>1, <1>2, <1>3, <1>4, <1>5, <1>6, <1>7, <1>9, <1>10, <1>11, <1>b
  DEF TaskStep

\* The enforcer, time and the shutdown signal leave queue lengths alone.
LEMMA OthersCounted ==
  ASSUME Typed, Counted, ExpiryStep \/ Age \/ Stop \/ UNCHANGED vars
  PROVE  Counted'
<1>1. CASE Age
  <2>1. Len(queue') = Len(queue)
    <3>1. PICK k \in 1..Len(queue) : queue' = [queue EXCEPT ![k].old = TRUE]
      BY <1>1 DEF Age
    <3>2. queue \in Seq(Entries) BY DEF Typed, TypeOK, PoolOK
    <3>3. queue[k] \in Entries BY <3>2, ElementOfSeq
    <3>4. [queue[k] EXCEPT !.old = TRUE] \in Entries BY <3>3 DEF Entries
    <3>5. queue' = [queue EXCEPT ![k] = [queue[k] EXCEPT !.old = TRUE]] BY <3>1
    <3>6. QED BY <3>2, <3>4, <3>5, ExceptSeq
  <2>2. QED
    BY <1>1, <2>1
    DEF Age, Counted, IdleCounterExact, GuardHolder, At, counters
<1>2. CASE ExpiryStep \/ Stop \/ UNCHANGED vars
  <2>1. UNCHANGED <<queue, guard, total_idle, client, task>>
    BY <1>2 DEF ExpiryStep, ExpiryScan, ExpiryTerminate, ExpiryUpdate, Stop,
                vars, counters
  <2>2. QED BY <2>1 DEF Counted, IdleCounterExact, GuardHolder, At
<1>3. QED BY <1>1, <1>2

\* Together: the inductive invariant of the pool.
LEMMA Inductive ==
  /\ Init => Typed /\ Counted
  /\ Typed /\ Counted /\ [Next]_vars => Typed' /\ Counted'
<1>1. Typed /\ Counted /\ [Next]_vars => Counted'
  BY CallsCounted, TaskCounted, OthersCounted DEF Next, Gateway, Exited
<1>2. QED BY <1>1, InitTyped, InitCounted, NextTyped

\* Type correctness of the pool: rows, queue entries, permits and the data a
\* call carries from one await to the next are what the code's types say, and
\* the two counters stay in the range of a usize.
THEOREM TypeCorrect == Spec => []TypeOK
<1>1. Typed => TypeOK BY DEF Typed
<1>2. QED BY <1>1, Inductive, PTL DEF Spec

\* total_idle never drifts from the queue and never wraps, however checkout,
\* checkin, refill, eviction and the failures of their calls interleave.
THEOREM IdleCounterCorrect == Spec => []IdleCounterExact
<1>1. Counted => IdleCounterExact BY DEF Counted
<1>2. QED BY <1>1, Inductive, PTL DEF Spec

------------------------------------------------------------------------------
(* The semaphore's permits.                                                 *)

\* A step of one call changes the number of creations by that call alone.
LEMMA CreatingStep ==
  ASSUME NEW c \in Clients, \A d \in Clients \ {c} : client'[d] = client[d]
  PROVE  /\ Cardinality(Creating) \in Nat /\ Cardinality(Creating') \in Nat
         /\ c \in Creating /\ c \notin Creating' =>
              Cardinality(Creating') = Cardinality(Creating) - 1
         /\ c \notin Creating /\ c \in Creating' =>
              Cardinality(Creating') = Cardinality(Creating) + 1
         /\ (c \in Creating <=> c \in Creating') =>
              Cardinality(Creating') = Cardinality(Creating)
<1>1. IsFiniteSet(Creating) /\ IsFiniteSet(Creating')
  <2>1. Creating \in SUBSET Clients /\ Creating' \in SUBSET Clients
    BY DEF Creating
  <2>2. QED BY <2>1, FS_Subset
<1>2. \A d \in Clients \ {c} : d \in Creating <=> d \in Creating'
  BY DEF Creating
<1>3. Creating \subseteq Clients /\ Creating' \subseteq Clients BY DEF Creating
<1>4. CASE c \in Creating /\ c \notin Creating'
  <2>1. Creating' = Creating \ {c} BY <1>2, <1>3, <1>4
  <2>2. QED BY <1>1, <1>4, <2>1, FS_RemoveElement, FS_CardinalityType
<1>5. CASE c \notin Creating /\ c \in Creating'
  <2>1. Creating' = Creating \cup {c} BY <1>2, <1>3, <1>5
  <2>2. QED BY <1>1, <1>5, <2>1, FS_AddElement, FS_CardinalityType
<1>6. CASE c \in Creating <=> c \in Creating'
  <2>1. Creating' = Creating BY <1>2, <1>3, <1>6
  <2>2. QED BY <1>1, <1>6, <2>1, FS_CardinalityType
<1>7. QED BY <1>4, <1>5, <1>6

\* A call acquires its permit before it creates and drops it on every way out.
LEMMA CallsConserve ==
  ASSUME Typed, PermitsConserved, NEW c \in Clients,
         \/ \E r \in Requests : CreateCall(c, r)
         \/ \E i \in Ids : CheckinFind(c, i)
         \/ ClientStep(c)
  PROVE  PermitsConserved'
<1>0. client \in [Clients -> Calls] /\ permits \in Nat
  BY DEF Typed, TypeOK, CallsOK, PoolOK
<1>1. /\ UNCHANGED task
      /\ \A d \in Clients \ {c} : client'[d] = client[d]
      /\ \/ c \notin Creating /\ c \in Creating' /\ permits' = permits - 1
         \/ c \in Creating /\ c \notin Creating' /\ permits' = permits + 1
         \/ (c \in Creating <=> c \in Creating') /\ permits' = permits
  <2>1. ASSUME NEW r \in Requests, CreateCall(c, r) PROVE <1>1
    BY <1>0, <2>1 DEF CreateCall, At, Creating
  <2>2. ASSUME NEW i \in Ids, CheckinFind(c, i) PROVE <1>1
    BY <1>0, <2>2 DEF CheckinFind, At, Await, Creating
  <2>3. CASE CheckoutWarm(c)
    BY <1>0, <2>3 DEF CheckoutWarm, At, Await, Creating
  <2>4. CASE CheckoutUpdate(c)
    BY <1>0, <2>4 DEF CheckoutUpdate, At, Reply, Idle, Creating
  <2>5. CASE CheckoutMiss(c)
    BY <1>0, <2>5 DEF CheckoutMiss, At, Goto, Await, Creating
  <2>6. CASE CheckoutAcquire(c)
    BY <1>0, <2>6 DEF CheckoutAcquire, At, Goto, Await, Creating
  <2>7. CASE CheckoutCreate(c)
    BY <1>0, <2>7 DEF CheckoutCreate, At, Goto, Await, Release, Creating
  <2>8. CASE CheckoutSave(c)
    BY <1>0, <2>8 DEF CheckoutSave, At, Await, Reply, Idle, Release, Creating
  <2>9. CASE DirectCreate(c)
    BY <1>0, <2>9 DEF DirectCreate, At, Await, Reply, Idle, Creating
  <2>10. CASE DirectSave(c)
    BY <1>0, <2>10 DEF DirectSave, At, Reply, Idle, Creating
  <2>11. CASE CheckinTerminate(c)
    BY <1>0, <2>11 DEF CheckinTerminate, At, Goto, Await, Creating
  <2>12. CASE CheckinPush(c)
    BY <1>0, <2>12 DEF CheckinPush, At, Reply, Idle, Creating
  <2>13. CASE DirectFind(c)
    BY <1>0, <2>13 DEF DirectFind, At, Await, Reply, Idle, Creating
  <2>14. CASE DirectTerminate(c)
    BY <1>0, <2>14 DEF DirectTerminate, At, Goto, Await, Reply, Idle, Creating
  <2>15. CASE DirectDelete(c)
    BY <1>0, <2>15 DEF DirectDelete, At, Reply, Idle, Creating
  <2>16. QED
    BY <2>1, <2>2, <2>3, <2>4, <2>5, <2>6, <2>7, <2>8, <2>9, <2>10, <2>11, <2>12,
       <2>13, <2>14, <2>15
    DEF ClientStep
<1>2. TaskCreating' = TaskCreating /\ TaskCreating \in {0, 1}
  BY <1>1 DEF TaskCreating
<1>3. QED BY <1>0, <1>1, <1>2, CreatingStep DEF PermitsConserved

\* The refill loop holds one permit per creation.
LEMMA TaskConserves ==
  ASSUME Typed, PermitsConserved, TaskStep
  PROVE  PermitsConserved'
<1>0. task \in Tasks /\ permits \in Nat /\ TaskCreating \in {0, 1}
  BY DEF Typed, TypeOK, TaskOK, PoolOK, TaskCreating
<1>1. Creating' = Creating /\ Cardinality(Creating) \in Nat
  <2>1. UNCHANGED client
    BY DEF TaskStep, EvictIdle, EvictTerminate, EvictDelete, EvictDone, EvictSettle, StopDone,
           FillBegin, FillAcquire, FillEnd, FillCreate, FillSave
  <2>2. Creating \in SUBSET Clients BY DEF Creating
  <2>3. QED BY <2>1, <2>2, FS_Subset, FS_CardinalityType DEF Creating
<1>2. permits' + TaskCreating' = permits + TaskCreating
  <2>1. ASSUME NEW stopping \in BOOLEAN, EvictIdle(stopping) PROVE <1>2
    <3>1. PICK n \in 0..Len(queue) :
            task' = [task EXCEPT !.pc = "evict", !.stopping = stopping,
                                 !.batch = [k \in 1..n |-> queue[k].id]]
      BY <2>1 DEF EvictIdle
    <3>2. task'.pc = "evict" BY <1>0, <3>1 DEF Tasks
    <3>3. QED BY <1>0, <2>1, <3>2 DEF EvictIdle, TaskCreating
  <2>2. CASE EvictTerminate
    BY <1>0, <2>2 DEF EvictTerminate, TaskCreating, Tasks
  <2>3. CASE EvictDelete
    BY <1>0, <2>3 DEF EvictDelete, TaskCreating, Tasks
  <2>4. CASE EvictDone \/ EvictSettle
    BY <1>0, <2>4 DEF EvictDone, EvictSettle, TaskCreating, Tasks
  <2>5. CASE StopDone
    BY <1>0, <2>5 DEF StopDone, TaskCreating, Tasks
  <2>6. CASE FillBegin
    BY <1>0, <2>6 DEF FillBegin, TaskCreating, Tasks
  <2>7. CASE FillAcquire
    <3>1. task.pc = "fill" /\ task'.pc = "create" /\ permits' = permits - 1
      BY <1>0, <2>7 DEF FillAcquire, Tasks
    <3>2. QED BY <1>0, <3>1 DEF TaskCreating
  <2>8. CASE FillEnd
    BY <1>0, <2>8 DEF FillEnd, TaskCreating, Waiting
  <2>9. CASE FillCreate
    <3>1. /\ task.pc = "create"
          /\ \/ task' = Waiting /\ permits' = permits + 1
             \/ /\ permits' = permits
                /\ \E i \in Ids : task' = [task EXCEPT !.pc = "save", !.id = i]
      BY <2>9 DEF FillCreate, Release
    <3>2. CASE task' = Waiting /\ permits' = permits + 1
      <4>1. task'.pc = "wait" BY <3>2 DEF Waiting
      <4>2. QED BY <1>0, <3>1, <3>2, <4>1 DEF TaskCreating
    <3>3. CASE /\ permits' = permits
               /\ \E i \in Ids : task' = [task EXCEPT !.pc = "save", !.id = i]
      <4>1. task'.pc = "save" BY <1>0, <3>3 DEF Tasks
      <4>2. QED BY <1>0, <3>1, <3>3, <4>1 DEF TaskCreating
    <3>4. QED BY <3>1, <3>2, <3>3
  <2>10. CASE FillSave
    <3>1. /\ task.pc = "save" /\ permits' = permits + 1
          /\ \/ task' = Waiting
             \/ task' = [task EXCEPT !.pc = "fill", !.id = None]
      BY <2>10 DEF FillSave, Release
    <3>2. task' = Waiting => task'.pc = "wait" BY DEF Waiting
    <3>3. task' = [task EXCEPT !.pc = "fill", !.id = None] => task'.pc = "fill"
      BY <1>0 DEF Tasks
    <3>4. QED BY <1>0, <3>1, <3>2, <3>3 DEF TaskCreating
  <2>11. QED
    BY <2>1, <2>2, <2>3, <2>4, <2>5, <2>6, <2>7, <2>8, <2>9, <2>10 DEF TaskStep
<1>3. TaskCreating' \in {0, 1} /\ permits' \in Int
  <2>1. TaskCreating' \in {0, 1} BY DEF TaskCreating
  <2>2. FillAcquire => permits' \in Int BY <1>0 DEF FillAcquire
  <2>3. FillCreate => permits' \in Int
    <3>1. FillCreate => permits' = permits \/ permits' = permits + 1
      BY Zenon DEF FillCreate, Release
    <3>2. QED BY <1>0, <3>1
  <2>4. FillSave => permits' \in Int BY <1>0 DEF FillSave, Release
  <2>5. UNCHANGED permits => permits' \in Int BY <1>0
  <2>6. \A stopping : EvictIdle(stopping) => UNCHANGED permits BY DEF EvictIdle
  <2>7. EvictTerminate \/ EvictDelete \/ EvictDone \/ EvictSettle \/ StopDone => UNCHANGED permits
    BY DEF EvictTerminate, EvictDelete, EvictDone, EvictSettle, StopDone
  <2>8. FillBegin \/ FillEnd => UNCHANGED permits BY DEF FillBegin, FillEnd
  <2>9. QED
    BY <2>1, <2>2, <2>3, <2>4, <2>5, <2>6, <2>7, <2>8 DEF TaskStep
<1>4. permits' + Cardinality(Creating) + TaskCreating' = MaxTotal
  <2>1. PICK q \in Int, u \in Int : q = permits' /\ u = TaskCreating' BY <1>3
  <2>2. PICK p \in Int, t \in Int, n \in Int :
          p = permits /\ t = TaskCreating /\ n = Cardinality(Creating)
    BY <1>0, <1>1
  <2>3. p + n + t = MaxTotal BY <2>2 DEF PermitsConserved
  <2>4. q + u = p + t BY <1>2, <2>1, <2>2
  <2>5. q + n + u = MaxTotal BY <2>3, <2>4
  <2>6. QED BY <2>1, <2>2, <2>5
<1>5. Cardinality(Creating)' = Cardinality(Creating) BY <1>1
<1>6. QED BY <1>4, <1>5 DEF PermitsConserved

\* No permit is lost or duplicated: at most max_total sandbox creations are
\* under way at any time, whatever fails.
THEOREM PermitsCorrect == Spec => []PermitsConserved
<1>1. Init => PermitsConserved
  <2> SUFFICES ASSUME Init PROVE PermitsConserved OBVIOUS
  <2>1. Creating = {} BY DEF Init, Creating, Idle
  <2>2. QED BY <2>1, FS_EmptySet DEF Init, PermitsConserved, TaskCreating, Waiting
<1>2. Typed /\ PermitsConserved /\ [Next]_vars => PermitsConserved'
  <2> SUFFICES ASSUME Typed, PermitsConserved, [Next]_vars PROVE PermitsConserved'
    OBVIOUS
  <2>1. CASE UNCHANGED <<permits, client, task>>
    BY <2>1 DEF PermitsConserved, Creating, TaskCreating
  <2>2. CASE ExpiryStep \/ Age \/ Stop \/ UNCHANGED vars
    BY <2>1, <2>2 DEF ExpiryStep, ExpiryScan, ExpiryTerminate, ExpiryUpdate, Age,
                      Stop, vars
  <2>3. QED BY <2>2, CallsConserve, TaskConserves DEF Next, Gateway, Exited
<1>3. QED BY <1>1, <1>2, Inductive, PTL DEF Spec

\* A call waits for the queue's guard or for a permit, the task for the guard
\* only: its try_acquire() does not wait.
Blocked(c) ==
  \/ client[c].pc \in {"lookup", "push"} /\ guard # "free"
  \/ At(c, "permit") /\ permits = 0
TaskBlocked == task.pc \in {"wait", "refill"} /\ guard # "free"

\* Somebody who holds what others wait for, and waits for none of it.
CallRuns(c) == client[c].pc \in {"update", "create", "save"} /\ ~Blocked(c)
TaskRuns ==
  task.pc \in {"evict", "delete", "fill", "create", "save"} /\ ~TaskBlocked
NoCircularWait ==
  /\ \A c \in Clients : Blocked(c) => (\E d \in Clients : CallRuns(d)) \/ TaskRuns
  /\ TaskBlocked => \E d \in Clients : CallRuns(d)

\* The pool never waits for itself.  checkout keeps the DashMap guard over an await
\* of the table, the refill task keeps it over whole creations with a permit in
\* hand, and checkouts queue for permits: whenever one of them waits, the guard or
\* the permit it waits for is with somebody who waits for neither.  Only max_total
\* = 0 lets every checkout wait for ever.
THEOREM PoolHasNoCircularWait == MaxTotal > 0 => (Spec => []NoCircularWait)
<1>1. SUFFICES ASSUME MaxTotal > 0 PROVE Spec => []NoCircularWait OBVIOUS
<1>2. Typed /\ Counted /\ PermitsConserved => NoCircularWait
  <2> SUFFICES ASSUME Typed, Counted, PermitsConserved PROVE NoCircularWait OBVIOUS
  <2>1. guard # "free" => (\E d \in Clients : CallRuns(d)) \/ TaskRuns
    BY DEF Typed, TypeOK, PoolOK, Counted, GuardHolder, CallRuns, TaskRuns, Blocked,
           TaskBlocked, At
  <2>2. permits = 0 => (\E d \in Clients : CallRuns(d)) \/ TaskRuns
    <3> SUFFICES ASSUME permits = 0, TaskCreating = 0 PROVE \E d \in Clients : CallRuns(d)
      BY DEF TaskCreating, TaskRuns, TaskBlocked
    <3>1. Cardinality(Creating) # 0 BY <1>1 DEF PermitsConserved
    <3>2. Creating # {} BY <3>1, FS_EmptySet
    <3>3. QED BY <3>2 DEF Creating, CallRuns, Blocked, At
  <2>3. TaskBlocked => \E d \in Clients : CallRuns(d)
    BY DEF Typed, TypeOK, PoolOK, Counted, GuardHolder, CallRuns, Blocked,
           TaskBlocked, At
  <2>4. QED BY <2>1, <2>2, <2>3 DEF NoCircularWait, Blocked
<1>3. QED BY <1>2, Inductive, PermitsCorrect, PTL DEF Spec

------------------------------------------------------------------------------
(* Who holds a sandbox of the warm pool: the queue, a caller, a tool call in  *)
(* flight, the batch of an eviction or the refill task.  Callers that hand    *)
(* back what they were given never share a sandbox, and no container is       *)
(* forgotten.                                                                 *)

USE NoneAssumption

InQueue(i) == \E k \in 1..Len(queue) : queue[k].id = i
InBatch(i) == \E k \in 1..Len(task.batch) : task.batch[k] = i
InCall(i) == \E c \in Clients : client[c].id = i
InTask(i) == task.id = i

QueuedOnce(i) == \A j, k \in 1..Len(queue) : (queue[j].id = i /\ queue[k].id = i) => j = k
BatchedOnce(i) == \A j, k \in 1..Len(task.batch) : (task.batch[j] = i /\ task.batch[k] = i) => j = k
CalledOnce(i) == \A c, d \in Clients : (client[c].id = i /\ client[d].id = i) => c = d

\* A sandbox has one holder.
Single(i) ==
  /\ QueuedOnce(i) /\ BatchedOnce(i) /\ CalledOnce(i)
  /\ InQueue(i) => ~ (i \in out \/ InCall(i) \/ InBatch(i) \/ InTask(i))
  /\ i \in out => ~ (InCall(i) \/ InBatch(i) \/ InTask(i))
  /\ InCall(i) => ~ (InBatch(i) \/ InTask(i))
  /\ InBatch(i) => ~ InTask(i)

------------------------------------------------------------------------------
(* What the operations on the queue, the calls and the batch do to the       *)
(* holders of one id.                                                        *)

LEMMA InPlaces ==
  /\ \A i : i \in Queued <=> InQueue(i)
  /\ \A i : i \in InFlight <=> (InCall(i) \/ InBatch(i) \/ InTask(i))
BY DEF Queued, InQueue, InFlight, InCall, InBatch, InTask, Batched

LEMMA QueueSame ==
  ASSUME UNCHANGED queue, NEW i
  PROVE  (InQueue(i)' <=> InQueue(i)) /\ (QueuedOnce(i)' <=> QueuedOnce(i))
BY DEF InQueue, QueuedOnce

LEMMA CallSame ==
  ASSUME UNCHANGED client, NEW i
  PROVE  (InCall(i)' <=> InCall(i)) /\ (CalledOnce(i)' <=> CalledOnce(i))
BY DEF InCall, CalledOnce

LEMMA BatchSame ==
  ASSUME task'.batch = task.batch, NEW i
  PROVE  (InBatch(i)' <=> InBatch(i)) /\ (BatchedOnce(i)' <=> BatchedOnce(i))
BY DEF InBatch, BatchedOnce

LEMMA TaskSame ==
  ASSUME UNCHANGED task, NEW i
  PROVE  (InBatch(i)' <=> InBatch(i)) /\ (BatchedOnce(i)' <=> BatchedOnce(i)) /\ (InTask(i)' <=> InTask(i))
BY DEF InBatch, BatchedOnce, InTask

\* checkout takes the front of the queue.
LEMMA QueuePops ==
  ASSUME queue \in Seq(Entries), queue # <<>>, queue' = Tail(queue), NEW i
  PROVE  /\ InQueue(Head(queue).id)
         /\ InQueue(i)' => InQueue(i)
         /\ InQueue(i) => InQueue(i)' \/ Head(queue).id = i
         /\ QueuedOnce(i) => QueuedOnce(i)'
         /\ QueuedOnce(i) /\ Head(queue).id = i => ~ InQueue(i)'
<1>1. Len(queue) \in Nat /\ Len(queue) >= 1 /\ Len(queue') = Len(queue) - 1 /\ Head(queue) = queue[1]
  BY HeadTailProperties, LenProperties, EmptySeq
<1>2. \A k \in 1..Len(queue') : queue'[k] = queue[k + 1] /\ k + 1 \in 1..Len(queue)
  BY <1>1, HeadTailProperties
<1>3. 1 \in 1..Len(queue) /\ \A k \in 1..Len(queue) : k # 1 => k - 1 \in 1..Len(queue') /\ (k - 1) + 1 = k
  BY <1>1
<1>4. InQueue(Head(queue).id)
  BY <1>1, <1>3 DEF InQueue
<1>5. InQueue(i)' => InQueue(i)
  BY <1>2 DEF InQueue
<1>6. InQueue(i) => InQueue(i)' \/ Head(queue).id = i
  <2> SUFFICES ASSUME NEW k \in 1..Len(queue), queue[k].id = i, k # 1 PROVE InQueue(i)'
    BY <1>1 DEF InQueue
  <2>1. queue'[k - 1] = queue[k] /\ k - 1 \in 1..Len(queue')
    BY <1>2, <1>3
  <2> QED BY <2>1 DEF InQueue
<1>7. QueuedOnce(i) => QueuedOnce(i)'
  <2> SUFFICES ASSUME QueuedOnce(i), NEW j \in 1..Len(queue'), NEW k \in 1..Len(queue'),
                      queue'[j].id = i, queue'[k].id = i
               PROVE  j = k
    BY DEF QueuedOnce
  <2>1. j + 1 = k + 1
    BY <1>2 DEF QueuedOnce
  <2> QED BY <2>1, <1>1
<1>8. ASSUME QueuedOnce(i), Head(queue).id = i, InQueue(i)' PROVE FALSE
  <2>1. PICK k \in 1..Len(queue') : queue'[k].id = i
    BY <1>8 DEF InQueue
  <2>2. k + 1 = 1
    BY <1>1, <1>2, <1>3, <1>8, <2>1 DEF QueuedOnce
  <2> QED BY <1>1, <2>2
<1> QED BY <1>4, <1>5, <1>6, <1>7, <1>8

\* checkin and the refill task append.
LEMMA QueuePushes ==
  ASSUME queue \in Seq(Entries), NEW x, NEW s, queue' = Pushed(x, s), NEW i
  PROVE  /\ InQueue(i)' <=> (InQueue(i) \/ i = x)
         /\ QueuedOnce(i) /\ (i = x => ~ InQueue(i)) => QueuedOnce(i)'
<1> DEFINE e == [id |-> x, status |-> s, old |-> FALSE]
<1>1. queue' = Append(queue, e) /\ e.id = x
  BY DEF Pushed
<1> HIDE DEF e
<1>2. Len(queue) \in Nat /\ Len(queue') = Len(queue) + 1
  BY <1>1, AppendProperties, LenProperties
<1>3. (\A k \in 1..Len(queue) : queue'[k] = queue[k]) /\ queue'[Len(queue) + 1] = e
  BY <1>1, AppendProperties
<1>4. \A k : k \in 1..Len(queue') <=> (k \in 1..Len(queue) \/ k = Len(queue) + 1)
  BY <1>2
<1>5. InQueue(i)' <=> (InQueue(i) \/ i = x)
  BY <1>1, <1>3, <1>4 DEF InQueue
<1>6. ASSUME QueuedOnce(i), i = x => ~ InQueue(i),
             NEW j \in 1..Len(queue'), NEW k \in 1..Len(queue'), queue'[j].id = i, queue'[k].id = i
      PROVE  j = k
  <2>1. CASE j \in 1..Len(queue) /\ k \in 1..Len(queue)
    BY <1>3, <1>6, <2>1 DEF QueuedOnce
  <2>2. CASE j = Len(queue) + 1 /\ k \in 1..Len(queue)
    BY <1>1, <1>3, <1>6, <2>2 DEF InQueue
  <2>3. CASE k = Len(queue) + 1 /\ j \in 1..Len(queue)
    BY <1>1, <1>3, <1>6, <2>3 DEF InQueue
  <2> QED BY <1>4, <2>1, <2>2, <2>3
<1>7. QueuedOnce(i) /\ (i = x => ~ InQueue(i)) => QueuedOnce(i)'
  BY <1>6 DEF QueuedOnce
<1> QED BY <1>5, <1>7

\* A call goes on with another id, or with none.
LEMMA CallTakes ==
  ASSUME CallsOK, NEW c \in Clients, NEW r, client' = [client EXCEPT ![c] = r], NEW i
  PROVE  /\ InCall(i)' => InCall(i) \/ r.id = i
         /\ r.id = i => InCall(i)'
         /\ InCall(i) => InCall(i)' \/ client[c].id = i
         /\ CalledOnce(i) /\ client[c].id = i /\ r.id # i => ~ InCall(i)'
         /\ CalledOnce(i) /\ (r.id = i => ~ InCall(i) \/ client[c].id = i) => CalledOnce(i)'
<1>1. client'[c] = r /\ \A d \in Clients : d # c => client'[d] = client[d]
  BY DEF CallsOK
<1> QED BY <1>1 DEF InCall, CalledOnce

\* An eviction splits the queue.
LEMMA QueueSplits ==
  ASSUME queue \in Seq(Entries), NEW n \in 0..Len(queue), queue' = SubSeq(queue, n + 1, Len(queue)),
         task'.batch = [k \in 1..n |-> queue[k].id], NEW i
  PROVE  /\ InQueue(i) <=> (InQueue(i)' \/ InBatch(i)')
         /\ QueuedOnce(i) => QueuedOnce(i)' /\ BatchedOnce(i)' /\ ~ (InQueue(i)' /\ InBatch(i)')
         /\ InBatch(i)' <=> \E k \in 1..n : queue[k].id = i
<1>1. Len(queue) \in Nat /\ Len(queue') = Len(queue) - n
  BY SubSeqProperties, LenProperties
<1>2. \A k \in 1..Len(queue') : queue'[k] = queue[n + k] /\ n + k \in 1..Len(queue) /\ n + k \notin 1..n
  <2>1. \A k \in 1..Len(queue') : queue'[k] = queue[(n + 1) + k - 1]
    BY <1>1, SubSeqProperties
  <2> QED BY <1>1, <2>1
<1>3. Len(task'.batch) = n /\ \A k \in 1..n : task'.batch[k] = queue[k].id /\ k \in 1..Len(queue)
  <2>1. n \in Nat
    BY <1>1
  <2>2. task'.batch \in Seq({queue[k].id : k \in 1..n})
    <3>1. task'.batch \in [1..n -> {queue[k].id : k \in 1..n}]
      OBVIOUS
    <3>2. PICK S : S = {queue[k].id : k \in 1..n}
      OBVIOUS
    <3>3. task'.batch \in UNION {[1..k -> S] : k \in Nat}
      BY <2>1, <3>1, <3>2
    <3>4. Seq(S) = UNION {[1..k -> S] : k \in Nat}
      BY SeqDef, Zenon
    <3>5. task'.batch \in Seq(S)
      BY <3>3, <3>4, Zenon
    <3> QED BY <3>2, <3>5
  <2>3. DOMAIN task'.batch = 1..n
    OBVIOUS
  <2>4. Len(task'.batch) = n
    BY <2>1, <2>2, <2>3, LenProperties
  <2> QED BY <1>1, <2>4
<1>4. \A k \in 1..Len(queue) : k \in 1..n \/ (k - n \in 1..Len(queue') /\ n + (k - n) = k)
  BY <1>1
<1>5. InBatch(i)' <=> \E k \in 1..n : queue[k].id = i
  BY <1>3 DEF InBatch
<1>6. InQueue(i)' => \E k \in 1..Len(queue) : k \notin 1..n /\ queue[k].id = i
  BY <1>2 DEF InQueue
<1>7. InQueue(i) <=> (InQueue(i)' \/ InBatch(i)')
  <2>1. ASSUME NEW k \in 1..Len(queue), queue[k].id = i PROVE InQueue(i)' \/ InBatch(i)'
    <3>1. CASE k \in 1..n
      BY <1>5, <2>1, <3>1
    <3>2. CASE k \notin 1..n
      <4>1. k - n \in 1..Len(queue') /\ queue'[k - n] = queue[k]
        BY <1>2, <1>4, <3>2
      <4> QED BY <2>1, <4>1 DEF InQueue
    <3> QED BY <3>1, <3>2
  <2>2. InQueue(i)' \/ InBatch(i)' => InQueue(i)
    BY <1>3, <1>5, <1>6 DEF InQueue
  <2> QED BY <2>1, <2>2 DEF InQueue
<1>8. ASSUME QueuedOnce(i) PROVE QueuedOnce(i)' /\ BatchedOnce(i)' /\ ~ (InQueue(i)' /\ InBatch(i)')
  <2>1. QueuedOnce(i)'
    <3> SUFFICES ASSUME NEW j \in 1..Len(queue'), NEW k \in 1..Len(queue'), queue'[j].id = i, queue'[k].id = i
                 PROVE  j = k
      BY DEF QueuedOnce
    <3>1. n + j = n + k
      BY <1>2, <1>8 DEF QueuedOnce
    <3> QED BY <1>1, <3>1
  <2>2. BatchedOnce(i)'
    BY <1>3, <1>8 DEF BatchedOnce, QueuedOnce
  <2>3. ~ (InQueue(i)' /\ InBatch(i)')
    BY <1>3, <1>5, <1>6, <1>8 DEF QueuedOnce
  <2> QED BY <2>1, <2>2, <2>3
<1> QED BY <1>5, <1>7, <1>8

\* An evicted sandbox leaves the batch.
LEMMA BatchPops ==
  ASSUME task.batch \in Seq(Ids), task.batch # <<>>, task'.batch = Tail(task.batch), NEW i
  PROVE  /\ InBatch(i)' => InBatch(i)
         /\ InBatch(i) => InBatch(i)' \/ Head(task.batch) = i
         /\ BatchedOnce(i) => BatchedOnce(i)'
         /\ InBatch(Head(task.batch))
         /\ BatchedOnce(i) /\ Head(task.batch) = i => ~ InBatch(i)'
<1> DEFINE b == task.batch
<1>1. Len(b) \in Nat /\ Len(b) >= 1 /\ Len(task'.batch) = Len(b) - 1 /\ Head(b) = b[1]
  BY HeadTailProperties, LenProperties, EmptySeq
<1>2. \A k \in 1..Len(task'.batch) : task'.batch[k] = b[k + 1] /\ k + 1 \in 1..Len(b)
  BY <1>1, HeadTailProperties
<1>3. \A k \in 1..Len(b) : k # 1 => k - 1 \in 1..Len(task'.batch) /\ (k - 1) + 1 = k
  BY <1>1
<1>4. InBatch(i)' => InBatch(i)
  BY <1>2 DEF InBatch
<1>5. InBatch(i) => InBatch(i)' \/ Head(b) = i
  <2> SUFFICES ASSUME NEW k \in 1..Len(b), b[k] = i, k # 1 PROVE InBatch(i)'
    BY <1>1 DEF InBatch
  <2>1. task'.batch[k - 1] = b[k] /\ k - 1 \in 1..Len(task'.batch)
    BY <1>2, <1>3
  <2> QED BY <2>1 DEF InBatch
<1>6. BatchedOnce(i) => BatchedOnce(i)'
  <2> SUFFICES ASSUME BatchedOnce(i), NEW j \in 1..Len(task'.batch), NEW k \in 1..Len(task'.batch),
                      task'.batch[j] = i, task'.batch[k] = i
               PROVE  j = k
    BY DEF BatchedOnce
  <2>1. j + 1 = k + 1
    BY <1>2 DEF BatchedOnce
  <2> QED BY <1>1, <2>1
<1>7. 1 \in 1..Len(b) /\ InBatch(Head(b))
  BY <1>1 DEF InBatch
<1>8. ASSUME BatchedOnce(i), Head(b) = i, InBatch(i)' PROVE FALSE
  <2>1. PICK k \in 1..Len(task'.batch) : task'.batch[k] = i
    BY <1>8 DEF InBatch
  <2>2. k + 1 = 1
    BY <1>1, <1>2, <1>7, <1>8, <2>1 DEF BatchedOnce
  <2> QED BY <1>1, <2>2
<1> QED BY <1>4, <1>5, <1>6, <1>7, <1>8

\* Entries of the queue come of age.
LEMMA QueueAges ==
  ASSUME queue \in Seq(Entries), Age
  PROVE  /\ Len(queue') = Len(queue)
         /\ \A i : (InQueue(i)' <=> InQueue(i)) /\ (QueuedOnce(i)' <=> QueuedOnce(i))
<1>1. PICK n \in 1..Len(queue) : queue' = [queue EXCEPT ![n].old = TRUE]
  BY DEF Age
<1>2. \A k \in 1..Len(queue) : queue[k] \in Entries
  BY ElementOfSeq
<1>3. PICK q \in Entries : q = queue[n]
  BY <1>2
<1> DEFINE e == [q EXCEPT !.old = TRUE]
<1>4. e.id = q.id /\ e \in Entries
  BY DEF Entries
<1>5. queue' = [queue EXCEPT ![n] = e]
  BY <1>1, <1>3
<1> HIDE DEF e
<1>6. Len(queue') = Len(queue) /\ \A k \in 1..Len(queue) : queue'[k].id = queue[k].id
  BY <1>3, <1>4, <1>5, ExceptSeq
<1> QED BY <1>6 DEF InQueue, QueuedOnce

\* An id that SandboxId::generate() draws has no holder.
LEMMA FreshHasNone ==
  ASSUME NEW i, Fresh(i)
  PROVE  ~ (InQueue(i) \/ i \in out \/ InCall(i) \/ InBatch(i) \/ InTask(i))
BY InPlaces DEF Fresh

------------------------------------------------------------------------------
(* Every step of the gateway keeps a sandbox with one holder, when a caller  *)
(* that hands it back was given it.                                          *)

\* A call goes on to its next await.
LEMMA AwaitShape ==
  ASSUME NEW c, NEW pc, NEW id, NEW s, Await(c, pc, id, s)
  PROVE  \E x : client' = [client EXCEPT ![c] = x] /\ x.pc = pc /\ x.id = id
<1> DEFINE y == [pc |-> pc, req |-> client[c].req, id |-> id, status |-> s]
<1>1. client' = [client EXCEPT ![c] = y] /\ y.pc = pc /\ y.id = id
  BY DEF Await
<1> HIDE DEF y
<1> QED BY <1>1

\* sandbox_terminate without the pool keeps its id or answers.
LEMMA DirectShape ==
  ASSUME NEW c, DirectFind(c) \/ DirectTerminate(c) \/ DirectDelete(c)
  PROVE  \E x : /\ client' = [client EXCEPT ![c] = x]
                /\ \/ x.pc \in {"direct_terminate", "direct_delete"} /\ x.id = client[c].id
                   \/ x.pc = "idle" /\ x.id = None
<1>1. Reply(c) => client' = [client EXCEPT ![c] = Idle] /\ Idle.pc = "idle" /\ Idle.id = None
  BY DEF Reply, Idle
<1>2. \A s : Await(c, "direct_terminate", client[c].id, s)
        => \E x : client' = [client EXCEPT ![c] = x] /\ x.pc = "direct_terminate" /\ x.id = client[c].id
  BY AwaitShape
<1>3. Goto(c, "direct_delete")
        => \E x : client' = [client EXCEPT ![c] = x] /\ x.pc = "direct_delete" /\ x.id = client[c].id
  BY AwaitShape DEF Goto
<1>4. CASE DirectFind(c) BY <1>1, <1>2, <1>4 DEF DirectFind
<1>5. CASE DirectTerminate(c) BY <1>1, <1>3, <1>5 DEF DirectTerminate
<1>6. CASE DirectDelete(c) BY <1>1, <1>6 DEF DirectDelete
<1> QED BY <1>4, <1>5, <1>6

\* A call keeps its sandbox, or lets go of it.
LEMMA CallKeeps ==
  ASSUME Typed, NEW i \in Ids, Single(i), UNCHANGED <<queue, out, task>>,
         NEW c \in Clients, NEW r, client' = [client EXCEPT ![c] = r],
         r.id = client[c].id \/ r.id = None
  PROVE  Single(i)'
<1>1. CallsOK /\ (r.id = i => client[c].id = i)
  BY DEF Typed, TypeOK
<1>2. InCall(i)' => InCall(i)
  BY <1>1, CallTakes DEF InCall
<1>3. CalledOnce(i)'
  BY <1>1, CallTakes DEF Single
<1> QED BY <1>2, <1>3, QueueSame, TaskSame DEF Single

\* A call gets a sandbox that nobody holds.
LEMMA CallFetches ==
  ASSUME Typed, NEW i \in Ids, Single(i), UNCHANGED <<queue, out, task>>,
         NEW c \in Clients, NEW r, client' = [client EXCEPT ![c] = r], Fresh(r.id)
  PROVE  Single(i)'
<1>1. CallsOK
  BY DEF Typed, TypeOK
<1>2. CASE r.id = i
  <2>1. CalledOnce(i)' /\ ~ (InQueue(i) \/ i \in out \/ InBatch(i) \/ InTask(i))
    BY <1>1, <1>2, CallTakes, FreshHasNone DEF Single
  <2> QED BY <2>1, QueueSame, TaskSame DEF Single
<1>3. CASE r.id # i
  <2>1. CalledOnce(i)' /\ (InCall(i)' => InCall(i))
    BY <1>1, <1>3, CallTakes DEF Single
  <2> QED BY <2>1, QueueSame, TaskSame DEF Single
<1> QED BY <1>2, <1>3

\* A call answers and gives its sandbox to the caller.
LEMMA CallGives ==
  ASSUME Typed, NEW i \in Ids, Single(i), UNCHANGED <<queue, task>>,
         NEW c \in Clients, Reply(c), out' = out \cup {client[c].id}
  PROVE  Single(i)'
<1>1. CallsOK /\ client' = [client EXCEPT ![c] = Idle] /\ Idle.id = None
  BY DEF Typed, TypeOK, Reply, Idle
<1>2. CalledOnce(i)' /\ (InCall(i)' => InCall(i)) /\ (client[c].id = i => ~ InCall(i)')
  BY <1>1, CallTakes DEF Single
<1>3. client[c].id = i => InCall(i)
  BY DEF InCall
<1> QED BY <1>2, <1>3, QueueSame, TaskSame DEF Single

\* sandbox_create and sandbox_terminate start, and every step of a call.
LEMMA CallsSingle ==
  ASSUME Typed, NEW i \in Ids, Single(i), NEW c \in Clients,
         \/ \E r \in Requests : CreateCall(c, r)
         \/ \E j \in Ids : CheckinFind(c, j) /\ (j = i => i \in out)
         \/ ClientStep(c)
  PROVE  Single(i)'
<1>0. CallsOK /\ queue \in Seq(Entries)
  BY DEF Typed, TypeOK, PoolOK
<1>1. ASSUME NEW r \in Requests, CreateCall(c, r) PROVE Single(i)'
  <2> DEFINE p == IF r.provider = Podman THEN "lookup" ELSE "direct_create"
             y == [pc |-> p, req |-> r, id |-> None, status |-> "stopped"]
  <2>0. client' = [client EXCEPT ![c] = y] /\ y.id = None
    BY <1>1 DEF CreateCall
  <2> HIDE DEF y
  <2>1. PICK x : client' = [client EXCEPT ![c] = x] /\ x.id = None
    BY <2>0
  <2>2. UNCHANGED <<queue, out, task>>
    BY <1>1 DEF CreateCall
  <2> QED BY <2>1, <2>2, CallKeeps
<1>2. ASSUME NEW j \in Ids, CheckinFind(c, j), j = i => i \in out PROVE Single(i)'
  <2>1. PICK x : client' = [client EXCEPT ![c] = x] /\ x.id = j
    BY <1>2, AwaitShape DEF CheckinFind
  <2>2. UNCHANGED <<queue, task>> /\ out' = out \ {j}
    BY <1>2 DEF CheckinFind
  <2>3. CASE j = i
    <3>1. CalledOnce(i)' /\ ~ (InQueue(i) \/ InBatch(i) \/ InTask(i)) /\ i \notin out'
      BY <1>0, <1>2, <2>1, <2>2, <2>3, CallTakes DEF Single
    <3> QED BY <2>2, <3>1, QueueSame, TaskSame DEF Single
  <2>4. CASE j # i
    <3>1. CalledOnce(i)' /\ (InCall(i)' => InCall(i)) /\ (i \in out' => i \in out)
      BY <1>0, <2>1, <2>2, <2>4, CallTakes DEF Single
    <3> QED BY <2>2, <3>1, QueueSame, TaskSame DEF Single
  <2> QED BY <2>3, <2>4
<1>3. CASE CheckoutWarm(c)
  <2>1. PICK x : client' = [client EXCEPT ![c] = x] /\ x.id = Head(queue).id
    BY <1>3, AwaitShape DEF CheckoutWarm
  <2>2. UNCHANGED <<out, task>> /\ queue # <<>> /\ queue' = Tail(queue)
    BY <1>3 DEF CheckoutWarm, PopFront
  <2>3. /\ QueuedOnce(i)' /\ (InQueue(i)' => InQueue(i))
        /\ Head(queue).id = i => InQueue(i) /\ ~ InQueue(i)'
    BY <1>0, <2>2, QueuePops DEF Single
  <2>4. CalledOnce(i)' /\ (InCall(i)' => InCall(i) \/ Head(queue).id = i)
    BY <1>0, <2>1, <2>3, CallTakes DEF Single
  <2> QED BY <2>2, <2>3, <2>4, TaskSame DEF Single
<1>4. CASE CheckoutUpdate(c)
  BY <1>4, CallGives DEF CheckoutUpdate
<1>5. CASE CheckoutMiss(c) \/ CheckoutAcquire(c) \/ CheckinTerminate(c)
  <2>1. PICK x : client' = [client EXCEPT ![c] = x] /\ x.id = client[c].id
    BY <1>5 DEF CheckoutMiss, CheckoutAcquire, CheckinTerminate, Goto, Await
  <2>2. UNCHANGED <<queue, out, task>>
    BY <1>5 DEF CheckoutMiss, CheckoutAcquire, CheckinTerminate
  <2> QED BY <2>1, <2>2, CallKeeps
<1>6. CASE CheckoutCreate(c) \/ DirectCreate(c)
  <2>1. UNCHANGED <<queue, out, task>>
    BY <1>6 DEF CheckoutCreate, DirectCreate
  <2>2. PICK x : client' = [client EXCEPT ![c] = x] /\ (x.id = client[c].id \/ x.id = None \/ Fresh(x.id))
    BY <1>6 DEF CheckoutCreate, DirectCreate, Goto, Await, Reply, Idle, Create, Launch
  <2> QED BY <2>1, <2>2, CallKeeps, CallFetches
<1>7. CASE CheckoutSave(c) \/ DirectSave(c)
  <2>1. UNCHANGED <<queue, task>>
    BY <1>7 DEF CheckoutSave, DirectSave
  <2>2. CASE Reply(c) /\ out' = out \cup {client[c].id}
    BY <2>1, <2>2, CallGives
  <2>3. CASE out' = out /\ \E x : client' = [client EXCEPT ![c] = x] /\ x.id = None
    BY <2>1, <2>3, CallKeeps
  <2>4. \/ Reply(c) /\ out' = out \cup {client[c].id}
        \/ out' = out /\ (Reply(c) \/ Await(c, "direct_create", None, client[c].status))
    BY <1>7 DEF CheckoutSave, DirectSave
  <2>5. Idle.id = None /\ [pc |-> "direct_create", req |-> client[c].req, id |-> None, status |-> client[c].status].id = None
    BY DEF Idle
  <2>6. Reply(c) \/ Await(c, "direct_create", None, client[c].status) => \E x : client' = [client EXCEPT ![c] = x] /\ x.id = None
    BY <2>5, Zenon DEF Reply, Await
  <2> QED BY <2>2, <2>3, <2>4, <2>6
<1>8. CASE CheckinPush(c)
  <2>1. client' = [client EXCEPT ![c] = Idle] /\ Idle.id = None /\ UNCHANGED <<out, task>>
    BY <1>8 DEF CheckinPush, Reply, Idle
  <2>2. CASE UNCHANGED queue
    BY <2>1, <2>2, CallKeeps
  <2>3. CASE queue' = Pushed(client[c].id, client[c].status)
    <3>1. InQueue(i)' => InQueue(i) \/ i = client[c].id
      BY <1>0, <2>3, QueuePushes
    <3>2. i = client[c].id => InCall(i)
      BY DEF InCall
    <3>3. QueuedOnce(i)'
      BY <1>0, <2>3, <3>2, QueuePushes DEF Single
    <3>4. CalledOnce(i)' /\ (InCall(i)' => InCall(i)) /\ (client[c].id = i => ~ InCall(i)')
      BY <1>0, <2>1, CallTakes DEF Single
    <3> QED BY <2>1, <3>1, <3>2, <3>3, <3>4, TaskSame DEF Single
  <2> QED BY <1>8, <2>2, <2>3 DEF CheckinPush
<1>9. CASE DirectFind(c) \/ DirectTerminate(c) \/ DirectDelete(c)
  <2>1. PICK x : client' = [client EXCEPT ![c] = x] /\ (x.id = client[c].id \/ x.id = None)
    BY <1>9, DirectShape
  <2>2. UNCHANGED <<queue, out, task>>
    BY <1>9 DEF DirectFind, DirectTerminate, DirectDelete
  <2> QED BY <2>1, <2>2, CallKeeps
<1> QED BY <1>1, <1>2, <1>3, <1>4, <1>5, <1>6, <1>7, <1>8, <1>9 DEF ClientStep

\* The refill task's steps.
LEMMA TaskSingle ==
  ASSUME Typed, Counted, NEW i \in Ids, Single(i), TaskStep
  PROVE  Single(i)'
<1>0. queue \in Seq(Entries) /\ task \in Tasks /\ task.batch \in Seq(Ids)
  BY DEF Typed, TypeOK, PoolOK, TaskOK, Tasks
<1>1. ASSUME NEW s \in BOOLEAN, EvictIdle(s) PROVE Single(i)'
  <2>1. PICK n \in 0..Len(queue) :
          /\ queue' = SubSeq(queue, n + 1, Len(queue))
          /\ task' = [task EXCEPT !.pc = "evict", !.stopping = s, !.batch = [k \in 1..n |-> queue[k].id]]
    BY <1>1 DEF EvictIdle
  <2>2. task'.batch = [k \in 1..n |-> queue[k].id] /\ task'.id = task.id
    BY <1>0, <2>1 DEF Tasks
  <2>3. UNCHANGED <<out, client>>
    BY <1>1 DEF EvictIdle
  <2>4. (InQueue(i) <=> (InQueue(i)' \/ InBatch(i)')) /\ QueuedOnce(i)' /\ BatchedOnce(i)' /\ ~ (InQueue(i)' /\ InBatch(i)')
    BY <1>0, <2>1, <2>2, QueueSplits DEF Single
  <2>5. InTask(i)' <=> InTask(i)
    BY <2>2 DEF InTask
  <2> QED BY <2>3, <2>4, <2>5, CallSame DEF Single
<1>2. CASE EvictTerminate \/ EvictDone \/ EvictSettle \/ StopDone \/ FillBegin \/ FillAcquire
  <2>1. task'.batch = task.batch /\ task'.id = task.id
    BY <1>0, <1>2 DEF EvictTerminate, EvictDone, EvictSettle, StopDone, FillBegin, FillAcquire, Tasks
  <2>2. UNCHANGED <<queue, client, out>>
    BY <1>2 DEF EvictTerminate, EvictDone, EvictSettle, StopDone, FillBegin, FillAcquire
  <2>3. InTask(i)' <=> InTask(i)
    BY <2>1 DEF InTask
  <2> QED BY <2>1, <2>2, <2>3, BatchSame, QueueSame, CallSame DEF Single
<1>3. CASE EvictDelete
  <2>1. task'.batch = Tail(task.batch) /\ task'.id = task.id
    BY <1>0, <1>3 DEF EvictDelete, Tasks
  <2>2. UNCHANGED <<queue, client, out>> /\ task.batch # <<>>
    BY <1>3 DEF EvictDelete, Typed, TaskHolds
  <2>3. (InBatch(i)' => InBatch(i)) /\ BatchedOnce(i)'
    BY <1>0, <2>1, <2>2, BatchPops DEF Single
  <2>4. InTask(i)' <=> InTask(i)
    BY <2>1 DEF InTask
  <2> QED BY <2>2, <2>3, <2>4, QueueSame, CallSame DEF Single
<1>4. ASSUME task' = Waiting, UNCHANGED <<queue, client, out>> PROVE Single(i)'
  <2>1. BatchedOnce(i)' /\ ~ InBatch(i)' /\ ~ InTask(i)'
    BY <1>4 DEF Waiting, BatchedOnce, InBatch, InTask
  <2> QED BY <1>4, <2>1, QueueSame, CallSame DEF Single
<1>5. CASE FillEnd
  BY <1>4, <1>5 DEF FillEnd
<1>6. CASE FillCreate
  <2>1. UNCHANGED <<queue, client, out>>
    BY <1>6 DEF FillCreate
  <2>2. ASSUME NEW x \in Ids, Fresh(x), task' = [task EXCEPT !.pc = "save", !.id = x] PROVE Single(i)'
    <3>1. task'.batch = task.batch /\ task'.id = x
      BY <1>0, <2>2 DEF Tasks
    <3>2. InTask(i)' <=> i = x
      BY <3>1 DEF InTask
    <3>3. i = x => ~ (InQueue(i) \/ i \in out \/ InCall(i) \/ InBatch(i))
      BY <2>2, FreshHasNone
    <3> QED BY <2>1, <3>1, <3>2, <3>3, BatchSame, QueueSame, CallSame DEF Single
  <2> QED BY <1>4, <1>6, <2>1, <2>2 DEF FillCreate, Create, Launch
<1>7. CASE FillSave
  <2>1. UNCHANGED <<client, out>>
    BY <1>7 DEF FillSave
  <2>2. ASSUME queue' = Pushed(task.id, "running"), task' = [task EXCEPT !.pc = "fill", !.id = None]
        PROVE  Single(i)'
    <3>1. task'.batch = task.batch /\ task'.id = None
      BY <1>0, <2>2 DEF Tasks
    <3>2. ~ InTask(i)' /\ (InTask(i) <=> i = task.id)
      BY <3>1 DEF InTask
    <3>3. InQueue(i)' <=> (InQueue(i) \/ i = task.id)
      BY <1>0, <2>2, QueuePushes
    <3>4. QueuedOnce(i)'
      BY <1>0, <2>2, <3>2, QueuePushes DEF Single
    <3> QED BY <2>1, <3>1, <3>2, <3>3, <3>4, BatchSame, CallSame DEF Single
  <2> QED BY <1>4, <1>7, <2>1, <2>2 DEF FillSave
<1> QED BY <1>1, <1>2, <1>3, <1>5, <1>6, <1>7 DEF TaskStep

\* What neither the queue, the calls nor the task take part in.
LEMMA OthersSingle ==
  ASSUME Typed, NEW i \in Ids, Single(i), ExpiryStep \/ Age \/ Stop \/ UNCHANGED vars
  PROVE  Single(i)'
<1>0. queue \in Seq(Entries)
  BY DEF Typed, TypeOK, PoolOK
<1>1. UNCHANGED <<client, task, out>>
  BY DEF ExpiryStep, ExpiryScan, ExpiryTerminate, ExpiryUpdate, Age, Stop, vars
<1>2. (InQueue(i)' <=> InQueue(i)) /\ (QueuedOnce(i)' <=> QueuedOnce(i))
  <2>1. CASE Age BY <1>0, <2>1, QueueAges
  <2>2. CASE UNCHANGED queue BY <2>2, QueueSame
  <2> QED BY <2>1, <2>2 DEF ExpiryStep, ExpiryScan, ExpiryTerminate, ExpiryUpdate, Stop, vars
<1> QED BY <1>1, <1>2, TaskSame, CallSame DEF Single

LEMMA GatewaySingle ==
  ASSUME Typed, Counted, NEW i \in Ids, Single(i), Gateway(out)
  PROVE  Single(i)'
<1>1. out \subseteq Ids
  BY DEF Typed, TypeOK, CallsOK
<1> QED BY <1>1, CallsSingle, TaskSingle, OthersSingle DEF Gateway

\* A call or the task that has no sandbox yet, or none any more, has no id.
EmptyHanded ==
  /\ \A c \in Clients : client[c].pc \in {"idle", "lookup", "permit", "create", "direct_create"}
                         => client[c].id = None
  /\ task.pc # "save" => task.id = None

LEMMA CallsEmptyHanded ==
  ASSUME Typed, EmptyHanded, NEW c \in Clients,
         \/ \E r \in Requests : CreateCall(c, r)
         \/ \E i \in Ids : CheckinFind(c, i)
         \/ ClientStep(c)
  PROVE  EmptyHanded'
<1> DEFINE Free == {"idle", "lookup", "permit", "create", "direct_create"}
<1>0. /\ client \in [Clients -> Calls] /\ \A d \in Clients : client[d].pc \in Free => client[d].id = None
      /\ task.pc # "save" => task.id = None
  BY DEF Typed, TypeOK, CallsOK, EmptyHanded
<1>1. UNCHANGED task
  BY DEF CreateCall, CheckinFind, ClientStep, CheckoutWarm, CheckoutUpdate, CheckoutMiss, CheckoutAcquire,
         CheckoutCreate, CheckoutSave, DirectCreate, DirectSave, CheckinTerminate, CheckinPush, DirectFind,
         DirectTerminate, DirectDelete
<1>2. SUFFICES \E x : client' = [client EXCEPT ![c] = x] /\ (x.pc \in Free => x.id = None)
  BY <1>0, <1>1 DEF EmptyHanded
<1>3. Reply(c) => \E x : client' = [client EXCEPT ![c] = x] /\ (x.pc \in Free => x.id = None)
  <2>1. Idle.id = None
    BY DEF Idle
  <2> QED BY <2>1 DEF Reply
<1>4. ASSUME NEW pc, NEW id, NEW s, Await(c, pc, id, s), pc \in Free => id = None
      PROVE  \E x : client' = [client EXCEPT ![c] = x] /\ (x.pc \in Free => x.id = None)
  BY <1>4, AwaitShape
<1>5. ASSUME NEW r \in Requests, CreateCall(c, r)
      PROVE  \E x : client' = [client EXCEPT ![c] = x] /\ (x.pc \in Free => x.id = None)
  <2> DEFINE p == IF r.provider = Podman THEN "lookup" ELSE "direct_create"
             y == [pc |-> p, req |-> r, id |-> None, status |-> "stopped"]
  <2>1. client' = [client EXCEPT ![c] = y] /\ y.id = None
    BY <1>5 DEF CreateCall
  <2> HIDE DEF y
  <2> QED BY <2>1
<1>6. ASSUME NEW i \in Ids, CheckinFind(c, i)
      PROVE  \E x : client' = [client EXCEPT ![c] = x] /\ (x.pc \in Free => x.id = None)
  BY <1>4, <1>6 DEF CheckinFind
<1>7. CASE CheckoutWarm(c)
  BY <1>4, <1>7 DEF CheckoutWarm
<1>8. CASE CheckoutMiss(c) \/ CheckoutAcquire(c) \/ CheckinTerminate(c)
  BY <1>0, <1>4, <1>8 DEF CheckoutMiss, CheckoutAcquire, CheckinTerminate, Goto, At
<1>9. CASE CheckoutCreate(c) \/ DirectCreate(c)
  BY <1>0, <1>3, <1>4, <1>9 DEF CheckoutCreate, DirectCreate, Goto, At
<1>10. CASE CheckoutSave(c)
  BY <1>3, <1>4, <1>10 DEF CheckoutSave
<1>11. CASE CheckoutUpdate(c) \/ DirectSave(c) \/ CheckinPush(c)
  BY <1>3, <1>11 DEF CheckoutUpdate, DirectSave, CheckinPush
<1>12. CASE DirectFind(c) \/ DirectTerminate(c) \/ DirectDelete(c)
  BY <1>12, DirectShape
<1> QED BY <1>5, <1>6, <1>7, <1>8, <1>9, <1>10, <1>11, <1>12 DEF ClientStep

LEMMA OthersEmptyHanded ==
  ASSUME Typed, EmptyHanded, TaskStep \/ ExpiryStep \/ Age \/ Stop \/ UNCHANGED vars
  PROVE  EmptyHanded'
<1>1. UNCHANGED client
  BY DEF TaskStep, EvictIdle, EvictTerminate, EvictDelete, EvictDone, EvictSettle, StopDone, FillBegin, FillAcquire, FillEnd,
         FillCreate, FillSave, ExpiryStep, ExpiryScan, ExpiryTerminate, ExpiryUpdate, Age, Stop, vars
<1>2. task'.pc # "save" => task'.id = None
  <2>0. task \in Tasks /\ (task.pc # "save" => task.id = None)
    BY DEF Typed, TypeOK, TaskOK, EmptyHanded
  <2>1. CASE UNCHANGED task
    BY <2>0, <2>1
  <2>2. ASSUME NEW s \in BOOLEAN, EvictIdle(s) PROVE task'.id = None
    BY <2>0, <2>2 DEF EvictIdle, Tasks
  <2>3. CASE EvictTerminate \/ EvictDelete \/ EvictDone \/ EvictSettle \/ StopDone \/ FillBegin \/ FillAcquire
    BY <2>0, <2>3 DEF EvictTerminate, EvictDelete, EvictDone, EvictSettle, StopDone, FillBegin, FillAcquire, Tasks
  <2>4. CASE FillEnd \/ FillCreate \/ FillSave
    <3>1. CASE task' = Waiting
      BY <3>1 DEF Waiting
    <3>2. ASSUME NEW x, task' = [task EXCEPT !.pc = "save", !.id = x] PROVE task'.pc = "save"
      BY <2>0, <3>2 DEF Tasks
    <3>3. CASE task' = [task EXCEPT !.pc = "fill", !.id = None]
      BY <2>0, <3>3 DEF Tasks
    <3> QED BY <2>4, <3>1, <3>2, <3>3 DEF FillEnd, FillCreate, FillSave
  <2> QED BY <2>1, <2>2, <2>3, <2>4
          DEF TaskStep, ExpiryStep, ExpiryScan, ExpiryTerminate, ExpiryUpdate, Age, Stop, vars
<1> QED BY <1>1, <1>2 DEF EmptyHanded

\* What holds throughout when callers hand back what they were given, once.
Strict == Typed /\ Counted /\ (\A i \in Ids : Single(i)) /\ EmptyHanded

LEMMA StrictInductive == StrictSpec => []Strict
<1>1. Init => (\A i \in Ids : Single(i)) /\ EmptyHanded
  <2> SUFFICES ASSUME Init PROVE (\A i \in Ids : Single(i)) /\ EmptyHanded
    OBVIOUS
  <2>1. ASSUME NEW i \in Ids PROVE Single(i)
    <3>1. ~ InQueue(i) /\ QueuedOnce(i) /\ i \notin out
      BY DEF Init, InQueue, QueuedOnce
    <3>2. ~ InCall(i) /\ CalledOnce(i)
      BY DEF Init, Idle, InCall, CalledOnce
    <3>3. ~ InBatch(i) /\ BatchedOnce(i)
      BY DEF Init, Waiting, InBatch, BatchedOnce
    <3> QED BY <3>1, <3>2, <3>3 DEF Single
  <2>2. EmptyHanded
    BY DEF Init, EmptyHanded, Idle, Waiting
  <2> QED BY <2>1, <2>2
<1>2. Typed /\ [StrictNext]_vars => [Next]_vars
  BY DEF StrictNext, Next, Gateway, Typed, TypeOK, CallsOK
<1>3. Strict /\ [StrictNext]_vars => (\A i \in Ids : Single(i))'
  BY GatewaySingle, OthersSingle DEF StrictNext, Exited, Strict
<1>4. Strict /\ [StrictNext]_vars => EmptyHanded'
  <2>1. Typed => out \subseteq Ids
    BY DEF Typed, TypeOK, CallsOK
  <2> QED BY <2>1, CallsEmptyHanded, OthersEmptyHanded DEF StrictNext, Gateway, Exited, Strict
<1> QED BY <1>1, <1>2, <1>3, <1>4, Inductive, PTL DEF StrictSpec, Strict

\* Callers that hand back what they were given, once, never share a sandbox:
\* whatever checkout, checkin, refill, eviction and their failures do, an id is
\* in the queue at most once and not while a caller or a call holds it.
THEOREM SandboxesAreNotShared == StrictSpec => []NoSharing
<1>1. Strict => NoSharing
  <2> SUFFICES ASSUME Strict PROVE NoSharing
    OBVIOUS
  <2>0. Typed /\ \A i \in Ids : Single(i)
    BY DEF Strict
  <2>1. \A k \in 1..Len(queue) : queue[k].id \in Ids
    <3>1. \A k \in 1..Len(queue) : queue[k] \in Entries
      BY <2>0, ElementOfSeq DEF Typed, TypeOK, PoolOK
    <3> QED BY <3>1 DEF Entries
  <2>2. \A j, k \in 1..Len(queue) : queue[j].id = queue[k].id => j = k
    BY <2>0, <2>1 DEF Single, QueuedOnce
  <2>3. Queued \subseteq Ids /\ out \subseteq Ids
    BY <2>0, <2>1 DEF Queued, Typed, TypeOK, CallsOK
  <2>4. Queued \cap (out \cup InFlight) = {}
    BY <2>0, <2>3, InPlaces DEF Single
  <2>5. out \cap InFlight = {}
    BY <2>0, <2>3, InPlaces DEF Single
  <2> QED BY <2>2, <2>4, <2>5 DEF NoSharing
<1> QED BY <1>1, StrictInductive, PTL

------------------------------------------------------------------------------
(* StrictSpec implements WarmPool: the ids of the queue are the shelf, and    *)
(* what calls, an eviction or the refill hold is on its way.                  *)

\* The shelf of a queue is a sequence of ids, as long as the queue.
LEMMA ShelfOfQueue ==
  ASSUME NEW q \in Seq(Entries)
  PROVE  /\ IdsOf(q) \in Seq(Ids) /\ Len(IdsOf(q)) = Len(q) /\ Len(q) \in Nat
         /\ \A k \in 1..Len(q) : IdsOf(q)[k] = q[k].id /\ q[k].id \in Ids
<1>1. Len(q) \in Nat /\ \A k \in 1..Len(q) : q[k] \in Entries
  BY ElementOfSeq, LenProperties
<1>2. \A k \in 1..Len(q) : q[k].id \in Ids
  BY <1>1 DEF Entries
<1>3. IdsOf(q) \in [1..Len(q) -> Ids]
  BY <1>2 DEF IdsOf
<1>4. IdsOf(q) \in Seq(Ids)
  BY <1>1, <1>3, SeqDef
<1>5. Len(IdsOf(q)) = Len(q)
  BY <1>1, <1>3, <1>4, LenProperties
<1> QED BY <1>1, <1>2, <1>4, <1>5 DEF IdsOf

\* checkout takes the front off the shelf.
LEMMA ShelfPops ==
  ASSUME NEW q \in Seq(Entries), q # <<>>
  PROVE  /\ IdsOf(q) # <<>> /\ Head(IdsOf(q)) = Head(q).id
         /\ IdsOf(Tail(q)) = Tail(IdsOf(q))
<1> DEFINE s == IdsOf(q)
           r == Tail(q)
<1>1. /\ Len(q) >= 1 /\ r \in Seq(Entries) /\ Len(r) = Len(q) - 1
      /\ \A k \in 1..Len(r) : r[k] = q[k + 1]
  BY HeadTailProperties, LenProperties, EmptySeq
<1>2. s \in Seq(Ids) /\ Len(s) = Len(q) /\ Len(q) \in Nat /\ \A k \in 1..Len(q) : s[k] = q[k].id
  BY ShelfOfQueue
<1>3. IdsOf(r) \in Seq(Ids) /\ Len(IdsOf(r)) = Len(r) /\ \A k \in 1..Len(r) : IdsOf(r)[k] = r[k].id
  BY <1>1, ShelfOfQueue
<1>4. s # <<>> /\ Head(s) = Head(q).id
  <2>1. Head(s) = s[1] /\ Head(q) = q[1] /\ 1 \in 1..Len(q)
    BY <1>1, <1>2
  <2> QED BY <1>1, <1>2, <2>1, EmptySeq
<1> HIDE DEF s, r
<1>5. /\ Tail(s) \in Seq(Ids) /\ Len(Tail(s)) = Len(r)
      /\ \A k \in 1..Len(Tail(s)) : Tail(s)[k] = s[k + 1]
  BY <1>1, <1>2, <1>4, HeadTailProperties
<1>6. \A k \in 1..Len(r) : k + 1 \in 1..Len(q)
  BY <1>1, <1>2
<1>7. \A k \in 1..Len(r) : IdsOf(r)[k] = Tail(s)[k]
  BY <1>1, <1>2, <1>3, <1>5, <1>6
<1>8. IdsOf(r) = Tail(s)
  BY <1>3, <1>5, <1>7, SeqEqual
<1> QED BY <1>4, <1>8 DEF s, r

\* checkin and the refill put at the back of the shelf.
LEMMA ShelfPushes ==
  ASSUME NEW q \in Seq(Entries), NEW e \in Entries
  PROVE  IdsOf(Append(q, e)) = Append(IdsOf(q), e.id)
<1> DEFINE s == IdsOf(q)
           r == Append(q, e)
           t == Append(s, e.id)
<1>0. e.id \in Ids
  BY DEF Entries
<1>1. /\ r \in Seq(Entries) /\ Len(r) = Len(q) + 1 /\ r[Len(q) + 1] = e
      /\ \A k \in 1..Len(q) : r[k] = q[k]
  BY AppendProperties
<1>2. s \in Seq(Ids) /\ Len(s) = Len(q) /\ Len(q) \in Nat /\ \A k \in 1..Len(q) : s[k] = q[k].id
  BY ShelfOfQueue
<1>3. IdsOf(r) \in Seq(Ids) /\ Len(IdsOf(r)) = Len(r) /\ \A k \in 1..Len(r) : IdsOf(r)[k] = r[k].id
  BY <1>1, ShelfOfQueue
<1> HIDE DEF s, r
<1>4. /\ t \in Seq(Ids) /\ Len(t) = Len(q) + 1 /\ t[Len(q) + 1] = e.id
      /\ \A k \in 1..Len(q) : t[k] = s[k]
  BY <1>0, <1>2, AppendProperties
<1> HIDE DEF t
<1>5. \A k : k \in 1..Len(r) <=> (k \in 1..Len(q) \/ k = Len(q) + 1)
  BY <1>1, <1>2
<1>6. \A k \in 1..Len(r) : IdsOf(r)[k] = t[k]
  BY <1>1, <1>2, <1>3, <1>4, <1>5
<1>7. IdsOf(r) = t
  BY <1>1, <1>3, <1>4, <1>6, SeqEqual
<1> QED BY <1>7 DEF s, r, t

\* An eviction takes the front part off the shelf.
LEMMA ShelfSplits ==
  ASSUME NEW q \in Seq(Entries), NEW n \in 0..Len(q)
  PROVE  IdsOf(SubSeq(q, n + 1, Len(q))) = SubSeq(IdsOf(q), n + 1, Len(q))
<1> DEFINE s == IdsOf(q)
           r == SubSeq(q, n + 1, Len(q))
           t == SubSeq(s, n + 1, Len(q))
<1>0. Len(q) \in Nat /\ \A k \in 1..Len(q) : q[k] \in Entries
  BY ElementOfSeq, LenProperties
<1>1. s \in Seq(Ids) /\ \A k \in 1..Len(q) : s[k] = q[k].id /\ s[k] \in Ids
  BY ShelfOfQueue
<1>2. n + 1 \in Int /\ Len(q) \in Int /\ \A k \in n + 1..Len(q) : k \in 1..Len(q)
  BY <1>0
<1>3. /\ r \in Seq(Entries) /\ Len(r) = Len(q) - n
      /\ \A k \in 1..Len(q) - (n + 1) + 1 : r[k] = q[n + 1 + k - 1]
  BY <1>0, <1>2, SubSeqProperties
<1> HIDE DEF s
<1>4. /\ t \in Seq(Ids) /\ Len(t) = Len(q) - n
      /\ \A k \in 1..Len(q) - (n + 1) + 1 : t[k] = s[n + 1 + k - 1]
  BY <1>0, <1>1, <1>2, SubSeqProperties
<1> HIDE DEF r, t
<1>5. IdsOf(r) \in Seq(Ids) /\ Len(IdsOf(r)) = Len(r) /\ \A k \in 1..Len(r) : IdsOf(r)[k] = r[k].id
  BY <1>3, ShelfOfQueue
<1>6. \A k \in 1..Len(r) : k \in 1..Len(q) - (n + 1) + 1 /\ n + 1 + k - 1 \in 1..Len(q)
  BY <1>0, <1>3
<1>7. \A k \in 1..Len(r) : IdsOf(r)[k] = t[k]
  BY <1>1, <1>3, <1>4, <1>5, <1>6
<1>8. IdsOf(r) = t
  BY <1>3, <1>4, <1>5, <1>7, SeqEqual
<1> QED BY <1>8 DEF r, s, t

\* Ageing changes nothing on it.
LEMMA ShelfAges ==
  ASSUME queue \in Seq(Entries), Age
  PROVE  IdsOf(queue)' = IdsOf(queue)
<1>1. PICK n \in 1..Len(queue) : queue' = [queue EXCEPT ![n].old = TRUE]
  BY DEF Age
<1>2. \A k \in 1..Len(queue) : queue[k] \in Entries
  BY ElementOfSeq
<1>3. PICK q \in Entries : q = queue[n]
  BY <1>2
<1> DEFINE e == [q EXCEPT !.old = TRUE]
<1>4. e.id = q.id /\ e \in Entries
  BY DEF Entries
<1>5. queue' = [queue EXCEPT ![n] = e]
  BY <1>1, <1>3
<1> HIDE DEF e
<1>6. Len(queue') = Len(queue) /\ \A k \in 1..Len(queue) : queue'[k].id = queue[k].id
  BY <1>3, <1>4, <1>5, ExceptSeq
<1> QED BY <1>6 DEF IdsOf

\* What is on its way is in a call, in a batch or with the refill.
LEMMA HeldPlaces ==
  /\ Typed => \A i : i \in Held <=> i \in Ids /\ (InCall(i) \/ InBatch(i) \/ InTask(i))
  /\ Typed' => \A i : i \in Held' <=> i \in Ids /\ (InCall(i)' \/ InBatch(i)' \/ InTask(i)')
<1>1. ASSUME Typed, NEW i PROVE i \in Held <=> i \in Ids /\ (InCall(i) \/ InBatch(i) \/ InTask(i))
  <2>1. InCall(i) \/ InTask(i) => i \in Ids \cup {None}
    BY <1>1 DEF Typed, TypeOK, CallsOK, TaskOK, Calls, Tasks, InCall, InTask
  <2>2. InBatch(i) => i \in Ids
    BY <1>1, ElementOfSeq DEF Typed, TypeOK, TaskOK, Tasks, InBatch
  <2> QED BY <2>1, <2>2, InPlaces DEF Held
<1>2. ASSUME Typed', NEW i PROVE i \in Held' <=> i \in Ids /\ (InCall(i)' \/ InBatch(i)' \/ InTask(i)')
  <2>1. InCall(i)' \/ InTask(i)' => i \in Ids \cup {None}
    BY <1>2 DEF Typed, TypeOK, CallsOK, TaskOK, Calls, Tasks, InCall, InTask
  <2>2. InBatch(i)' => i \in Ids
    BY <1>2, ElementOfSeq DEF Typed, TypeOK, TaskOK, Tasks, InBatch
  <2>3. i \in InFlight' <=> (InCall(i)' \/ InBatch(i)' \/ InTask(i)')
    BY DEF InFlight, InCall, InBatch, InTask, Batched
  <2> QED BY <2>1, <2>2, <2>3 DEF Held
<1> QED BY <1>1, <1>2

\* A call lays down what it has and goes on with another sandbox, or with none.
LEMMA CallMoves ==
  ASSUME Strict, Typed', UNCHANGED task, NEW c \in Clients, NEW r, client' = [client EXCEPT ![c] = r]
  PROVE  Held' = (Held \ {client[c].id}) \cup ({r.id} \ {None})
<1>0. Typed /\ CallsOK /\ \A i \in Ids : Single(i)
  BY DEF Strict, Typed, TypeOK
<1>1. r.id \in Ids \cup {None}
  <2>1. client'[c] = r /\ client' \in [Clients -> Calls]
    BY <1>0 DEF Typed, TypeOK, CallsOK
  <2> QED BY <2>1 DEF Calls
<1>2. ASSUME NEW i \in Ids PROVE InCall(i)' <=> ((InCall(i) /\ client[c].id # i) \/ r.id = i)
  <2>1. CalledOnce(i)
    BY <1>0 DEF Single
  <2>2. CASE r.id = i
    BY <1>0, <2>2, CallTakes
  <2>3. CASE r.id # i
    BY <1>0, <2>1, <2>3, CallTakes
  <2> QED BY <2>2, <2>3
<1>3. ASSUME NEW i \in Ids, client[c].id = i PROVE ~ InBatch(i) /\ ~ InTask(i)
  BY <1>0, <1>3 DEF Single, InCall
<1>4. \A i \in Ids : i \in Held' <=> i \in (Held \ {client[c].id}) \cup ({r.id} \ {None})
  BY <1>0, <1>1, <1>2, <1>3, HeldPlaces, TaskSame
<1>5. Held \subseteq Ids /\ Held' \subseteq Ids
  BY <1>0, HeldPlaces
<1> QED BY <1>1, <1>4, <1>5

\* A step of the shelf, or none.
ShelfStep == [Shelf!Next]_(Shelf!poolVars)

LEMMA ShelfIdle ==
  ASSUME UNCHANGED <<IdsOf(queue), out, Held>>
  PROVE  ShelfStep
BY DEF ShelfStep, Shelf!poolVars

\* A call keeps its sandbox, or lets go of it.
LEMMA CallDrops ==
  ASSUME Strict, Typed', UNCHANGED <<queue, out, task>>, NEW c \in Clients, NEW r,
         client' = [client EXCEPT ![c] = r], r.id = client[c].id \/ r.id = None
  PROVE  ShelfStep
<1>0. Typed /\ client[c].id \in Ids \cup {None}
  BY DEF Strict, Typed, TypeOK, CallsOK, Calls
<1>1. Held' = (Held \ {client[c].id}) \cup ({r.id} \ {None}) /\ (client[c].id \in Held <=> client[c].id # None)
  BY <1>0, CallMoves, HeldPlaces DEF InCall
<1>2. UNCHANGED IdsOf(queue)
  BY DEF IdsOf
<1>3. CASE Held' = Held
  BY <1>2, <1>3, ShelfIdle
<1>4. CASE Held' # Held
  <2>1. client[c].id \in Ids /\ client[c].id \in Held /\ Held' = Held \ {client[c].id}
    BY <1>0, <1>1, <1>4
  <2>2. Shelf!Drop(client[c].id)
    BY <1>2, <2>1 DEF Shelf!Drop
  <2> QED BY <2>1, <2>2 DEF ShelfStep, Shelf!Next
<1> QED BY <1>3, <1>4

\* A call without a sandbox is given a new one.
LEMMA CallMakes ==
  ASSUME Strict, Typed', UNCHANGED <<queue, out, task>>, NEW c \in Clients, NEW r,
         client' = [client EXCEPT ![c] = r], client[c].id = None, Fresh(r.id), r.id \in Ids
  PROVE  ShelfStep
<1>0. Typed /\ queue \in Seq(Entries)
  BY DEF Strict, Typed, TypeOK, PoolOK
<1>1. UNCHANGED IdsOf(queue)
  BY DEF IdsOf
<1>2. Held' = Held \cup {r.id}
  <2>1. Held' = (Held \ {client[c].id}) \cup ({r.id} \ {None})
    BY CallMoves
  <2>2. None \notin Held
    BY DEF Held
  <2> QED BY <2>1, <2>2
<1>3. r.id \notin Shelf!Shelved \cup out \cup Held
  <2>1. ~ (InQueue(r.id) \/ r.id \in out \/ InCall(r.id) \/ InBatch(r.id) \/ InTask(r.id))
    BY FreshHasNone
  <2>2. r.id \notin Shelf!Shelved
    BY <1>0, <2>1, ShelfOfQueue DEF Shelf!Shelved, InQueue
  <2> QED BY <1>0, <2>1, <2>2, HeldPlaces
<1>4. Shelf!Make(r.id)
  BY <1>1, <1>2, <1>3 DEF Shelf!Make
<1> QED BY <1>4 DEF ShelfStep, Shelf!Next

\* A call answers and gives its sandbox to the caller.
LEMMA CallLends ==
  ASSUME Strict, Typed', UNCHANGED <<queue, task>>, NEW c \in Clients, client[c].id \in Ids, Reply(c),
         out' = out \cup {client[c].id}
  PROVE  ShelfStep
<1>1. client' = [client EXCEPT ![c] = Idle] /\ Idle.id = None
  BY DEF Reply, Idle
<1>2. Held' = Held \ {client[c].id}
  BY <1>1, CallMoves, ZenonT(60)
<1>3. client[c].id \in Held
  BY HeldPlaces DEF Strict, InCall
<1>4. UNCHANGED IdsOf(queue)
  BY DEF IdsOf
<1>5. Shelf!Lend(client[c].id)
  BY <1>2, <1>3, <1>4 DEF Shelf!Lend
<1> QED BY <1>5 DEF ShelfStep, Shelf!Next

\* A sandbox that is on its way goes to the back of the queue.
LEMMA QueueStocks ==
  ASSUME Strict, NEW i \in Ids, NEW s \in Statuses, Room, queue' = Pushed(i, s), UNCHANGED out,
         i \in Held, Held' = Held \ {i}
  PROVE  ShelfStep
<1> DEFINE e == [id |-> i, status |-> s, old |-> FALSE]
<1>0. queue \in Seq(Entries) /\ e \in Entries /\ e.id = i /\ queue' = Append(queue, e)
  BY DEF Strict, Typed, TypeOK, PoolOK, Entries, Pushed
<1> HIDE DEF e
<1>1. IdsOf(queue)' = Append(IdsOf(queue), i)
  <2>1. IdsOf(Append(queue, e)) = Append(IdsOf(queue), e.id)
    BY <1>0, ShelfPushes
  <2>2. IdsOf(queue)' = IdsOf(Append(queue, e))
    BY <1>0 DEF IdsOf
  <2> QED BY <1>0, <2>1, <2>2
<1>2. Len(IdsOf(queue)) < MaxIdle
  BY <1>0, ShelfOfQueue DEF Room
<1>3. Shelf!Stock(i)
  BY <1>1, <1>2 DEF Shelf!Stock
<1> QED BY <1>3 DEF ShelfStep, Shelf!Next

\* Every step of a call is one of the shelf.
LEMMA CallsFromShelf ==
  ASSUME Strict, Typed', NEW c \in Clients,
         \/ \E r \in Requests : CreateCall(c, r)
         \/ \E j \in out : CheckinFind(c, j)
         \/ ClientStep(c)
  PROVE  ShelfStep
<1>0. /\ Typed /\ queue \in Seq(Entries) /\ CallHolds(client[c]) /\ out \subseteq Ids /\ client[c].status \in Statuses
      /\ client[c].pc \in {"idle", "lookup", "permit", "create", "direct_create"} => client[c].id = None
  BY DEF Strict, Typed, TypeOK, PoolOK, CallsOK, Calls, CallsHold, EmptyHanded
<1>1. ASSUME NEW r \in Requests, CreateCall(c, r) PROVE ShelfStep
  <2> DEFINE p == IF r.provider = Podman THEN "lookup" ELSE "direct_create"
             y == [pc |-> p, req |-> r, id |-> None, status |-> "stopped"]
  <2>1. client' = [client EXCEPT ![c] = y] /\ y.id = None /\ UNCHANGED <<queue, out, task>>
    BY <1>1 DEF CreateCall
  <2> HIDE DEF y
  <2> QED BY <2>1, CallDrops
<1>2. ASSUME NEW j \in out, CheckinFind(c, j) PROVE ShelfStep
  <2>1. PICK x : client' = [client EXCEPT ![c] = x] /\ x.id = j
    BY <1>2, AwaitShape DEF CheckinFind
  <2>2. UNCHANGED <<queue, task>> /\ out' = out \ {j} /\ client[c].id = None /\ j \in Ids
    BY <1>0, <1>2 DEF CheckinFind, At
  <2>3. Held' = (Held \ {None}) \cup {j}
    BY <2>1, <2>2, CallMoves, ZenonT(60)
  <2>4. Held' = Held \cup {j} /\ UNCHANGED IdsOf(queue)
    BY <2>2, <2>3 DEF Held, IdsOf
  <2>5. Shelf!Return(j)
    BY <1>2, <2>2, <2>4 DEF Shelf!Return
  <2> QED BY <2>2, <2>5 DEF ShelfStep, Shelf!Next
<1>3. CASE CheckoutWarm(c)
  <2>1. PICK x : client' = [client EXCEPT ![c] = x] /\ x.id = Head(queue).id
    BY <1>3, AwaitShape DEF CheckoutWarm
  <2>2. UNCHANGED <<out, task>> /\ queue # <<>> /\ queue' = Tail(queue) /\ client[c].id = None
    BY <1>0, <1>3 DEF CheckoutWarm, PopFront, At
  <2>3. Head(queue).id \in Ids
    <3>1. Head(queue) \in Entries
      BY <1>0, <2>2, HeadTailProperties
    <3> QED BY <3>1 DEF Entries
  <2>4. Held' = Held \cup {Head(queue).id}
    <3>1. Held' = (Held \ {client[c].id}) \cup ({x.id} \ {None})
      BY <2>1, <2>2, CallMoves
    <3>2. None \notin Held
      BY DEF Held
    <3> QED BY <2>1, <2>2, <2>3, <3>1, <3>2
  <2>5. /\ IdsOf(queue) # <<>> /\ Head(IdsOf(queue)) = Head(queue).id
        /\ IdsOf(Tail(queue)) = Tail(IdsOf(queue))
    BY <1>0, <2>2, ShelfPops
  <2>6. IdsOf(queue)' = IdsOf(Tail(queue))
    BY <2>2 DEF IdsOf
  <2>7. Shelf!Take
    BY <2>2, <2>4, <2>5, <2>6 DEF Shelf!Take
  <2> QED BY <2>7 DEF ShelfStep, Shelf!Next
<1>4. CASE CheckoutUpdate(c)
  BY <1>0, <1>4, CallLends DEF CheckoutUpdate, CallHolds, At
<1>5. CASE CheckoutMiss(c) \/ CheckoutAcquire(c) \/ CheckinTerminate(c)
  <2>1. PICK x : client' = [client EXCEPT ![c] = x] /\ x.id = client[c].id
    BY <1>5 DEF CheckoutMiss, CheckoutAcquire, CheckinTerminate, Goto, Await
  <2>2. UNCHANGED <<queue, out, task>>
    BY <1>5 DEF CheckoutMiss, CheckoutAcquire, CheckinTerminate
  <2> QED BY <2>1, <2>2, CallDrops
<1>6. CASE CheckoutCreate(c) \/ DirectCreate(c)
  <2>1. UNCHANGED <<queue, out, task>> /\ client[c].id = None
    BY <1>0, <1>6 DEF CheckoutCreate, DirectCreate, At
  <2>2. ASSUME NEW i \in Ids, NEW pc, Fresh(i), Await(c, pc, i, client[c].status) PROVE ShelfStep
    <3>1. PICK x : client' = [client EXCEPT ![c] = x] /\ x.id = i
      BY <2>2, AwaitShape
    <3> QED BY <2>1, <2>2, <3>1, CallMakes
  <2>3. ASSUME Goto(c, "direct_create") \/ Reply(c) PROVE ShelfStep
    <3>1. PICK x : client' = [client EXCEPT ![c] = x] /\ x.id = None
      BY <2>1, <2>3 DEF Goto, Await, Reply, Idle
    <3> QED BY <2>1, <3>1, CallDrops
  <2> QED BY <1>6, <2>2, <2>3 DEF CheckoutCreate, DirectCreate, Create, Launch
<1>7. CASE CheckoutSave(c) \/ DirectSave(c)
  <2>1. UNCHANGED <<queue, task>> /\ client[c].id \in Ids
    BY <1>0, <1>7 DEF CheckoutSave, DirectSave, CallHolds, At
  <2>2. CASE Reply(c) /\ out' = out \cup {client[c].id}
    BY <2>1, <2>2, CallLends
  <2>3. CASE out' = out /\ (Reply(c) \/ Await(c, "direct_create", None, client[c].status))
    <3>1. Idle.id = None
      BY DEF Idle
    <3>2. PICK x : client' = [client EXCEPT ![c] = x] /\ x.id = None
      BY <2>3, <3>1, AwaitShape DEF Reply
    <3> QED BY <2>1, <2>3, <3>2, CallDrops
  <2> QED BY <1>7, <2>2, <2>3 DEF CheckoutSave, DirectSave
<1>8. CASE CheckinPush(c)
  <2>1. /\ client' = [client EXCEPT ![c] = Idle] /\ Idle.id = None /\ UNCHANGED <<out, task>>
        /\ client[c].id \in Ids
    BY <1>0, <1>8 DEF CheckinPush, Reply, Idle, CallHolds, At
  <2>2. CASE UNCHANGED queue
    BY <2>1, <2>2, CallDrops
  <2>3. CASE Room /\ queue' = Pushed(client[c].id, client[c].status)
    <3>1. Held' = Held \ {client[c].id} /\ client[c].id \in Held
      BY <1>0, <2>1, CallMoves, HeldPlaces DEF InCall
    <3> QED BY <1>0, <2>1, <2>3, <3>1, QueueStocks
  <2> QED BY <1>8, <2>2, <2>3 DEF CheckinPush
<1>9. CASE DirectFind(c) \/ DirectTerminate(c) \/ DirectDelete(c)
  <2>1. PICK x : client' = [client EXCEPT ![c] = x] /\ (x.id = client[c].id \/ x.id = None)
    BY <1>9, DirectShape
  <2>2. UNCHANGED <<queue, out, task>>
    BY <1>9 DEF DirectFind, DirectTerminate, DirectDelete
  <2> QED BY <2>1, <2>2, CallDrops
<1> QED BY <1>1, <1>2, <1>3, <1>4, <1>5, <1>6, <1>7, <1>8, <1>9 DEF ClientStep

\* So is every step of the eviction, the refill and stop().
LEMMA TaskFromShelf ==
  ASSUME Strict, Typed', TaskStep
  PROVE  ShelfStep
<1>0. /\ Typed /\ queue \in Seq(Entries) /\ task \in Tasks /\ task.batch \in Seq(Ids)
      /\ \A i \in Ids : Single(i)
      /\ task.pc # "save" => task.id = None
      /\ task.pc \notin {"evict", "delete"} => task.batch = <<>>
  BY DEF Strict, Typed, TypeOK, PoolOK, TaskOK, Tasks, EmptyHanded, Counted
<1>1. ASSUME NEW s \in BOOLEAN, EvictIdle(s) PROVE ShelfStep
  <2>1. PICK n \in 0..Len(queue) :
          /\ queue' = SubSeq(queue, n + 1, Len(queue))
          /\ task' = [task EXCEPT !.pc = "evict", !.stopping = s, !.batch = [k \in 1..n |-> queue[k].id]]
    BY <1>1 DEF EvictIdle
  <2>2. task'.batch = [k \in 1..n |-> queue[k].id] /\ task'.id = task.id /\ UNCHANGED <<out, client>>
        /\ task.batch = <<>>
    BY <1>0, <1>1, <2>1 DEF EvictIdle, Tasks
  <2>3. \A i : InBatch(i)' <=> \E k \in 1..n : queue[k].id = i
    BY <1>0, <2>1, <2>2, QueueSplits
  <2>4. \A i : ~ InBatch(i) /\ (InTask(i)' <=> InTask(i)) /\ (InCall(i)' <=> InCall(i))
    BY <2>2, CallSame DEF InBatch, InTask
  <2>5. /\ Len(IdsOf(queue)) = Len(queue) /\ Len(queue) \in Nat
        /\ \A k \in 1..Len(queue) : IdsOf(queue)[k] = queue[k].id /\ queue[k].id \in Ids
    BY <1>0, ShelfOfQueue
  <2>6. \A k \in 1..n : k \in 1..Len(queue)
    BY <2>5
  <2>7. Held' = Held \cup {IdsOf(queue)[k] : k \in 1..n}
    BY <1>0, <2>3, <2>4, <2>5, <2>6, HeldPlaces
  <2>8. IdsOf(queue)' = SubSeq(IdsOf(queue), n + 1, Len(queue))
    <3>1. IdsOf(queue)' = IdsOf(SubSeq(queue, n + 1, Len(queue)))
      BY <2>1 DEF IdsOf
    <3> QED BY <1>0, <3>1, ShelfSplits
  <2>9. Shelf!Evict(n)
    BY <2>2, <2>5, <2>7, <2>8 DEF Shelf!Evict
  <2> QED BY <2>5, <2>9 DEF ShelfStep, Shelf!Next
<1>2. ASSUME task'.batch = task.batch, task'.id = task.id, UNCHANGED <<queue, client, out>> PROVE ShelfStep
  <2>1. \A i : (InBatch(i)' <=> InBatch(i)) /\ (InTask(i)' <=> InTask(i)) /\ (InCall(i)' <=> InCall(i))
    BY <1>2, BatchSame, CallSame DEF InTask
  <2>2. Held' = Held /\ UNCHANGED IdsOf(queue)
    BY <1>0, <1>2, <2>1, HeldPlaces DEF IdsOf
  <2> QED BY <1>2, <2>2, ShelfIdle
<1>3. CASE EvictTerminate \/ EvictDone \/ EvictSettle \/ StopDone \/ FillBegin \/ FillAcquire
  <2>1. task'.batch = task.batch /\ task'.id = task.id
    BY <1>0, <1>3 DEF EvictTerminate, EvictDone, EvictSettle, StopDone, FillBegin, FillAcquire, Tasks
  <2>2. UNCHANGED <<queue, client, out>>
    BY <1>3 DEF EvictTerminate, EvictDone, EvictSettle, StopDone, FillBegin, FillAcquire
  <2> QED BY <1>2, <2>1, <2>2
<1>4. ASSUME NEW i \in Ids, i \in Held, Held' = Held \ {i}, UNCHANGED <<queue, out>> PROVE ShelfStep
  <2>1. Shelf!Drop(i)
    BY <1>4 DEF Shelf!Drop, IdsOf
  <2> QED BY <2>1 DEF ShelfStep, Shelf!Next
<1>5. CASE EvictDelete
  <2>1. task'.batch = Tail(task.batch) /\ task'.id = task.id
    BY <1>0, <1>5 DEF EvictDelete, Tasks
  <2>2. UNCHANGED <<queue, client, out>> /\ task.batch # <<>>
    BY <1>0, <1>5 DEF EvictDelete, Typed, TaskHolds
  <2>3. PICK h \in Ids : h = Head(task.batch)
    BY <1>0, <2>2, HeadTailProperties
  <2>4. InBatch(h) /\ \A i \in Ids : InBatch(i)' <=> InBatch(i) /\ i # h
    <3>1. InBatch(h)
      BY <1>0, <2>1, <2>2, <2>3, BatchPops
    <3>2. ASSUME NEW i \in Ids PROVE InBatch(i)' <=> InBatch(i) /\ i # h
      <4>1. BatchedOnce(i)
        BY <1>0 DEF Single
      <4> QED BY <1>0, <2>1, <2>2, <2>3, <4>1, BatchPops
    <3> QED BY <3>1, <3>2
  <2>5. \A i : (InTask(i)' <=> InTask(i)) /\ (InCall(i)' <=> InCall(i))
    BY <2>1, <2>2, CallSame DEF InTask
  <2>6. ~ InCall(h) /\ ~ InTask(h)
    BY <1>0, <2>4 DEF Single
  <2>7. h \in Held /\ Held' = Held \ {h}
    BY <1>0, <2>4, <2>5, <2>6, HeldPlaces
  <2> QED BY <1>4, <2>2, <2>7
<1>6. ASSUME task' = Waiting, task.id = None, task.batch = <<>>, UNCHANGED <<queue, client, out>> PROVE ShelfStep
  BY <1>2, <1>6 DEF Waiting
<1>7. CASE FillEnd
  BY <1>0, <1>6, <1>7 DEF FillEnd
<1>8. CASE FillCreate
  <2>1. UNCHANGED <<queue, client, out>> /\ task.id = None /\ task.batch = <<>>
    BY <1>0, <1>8 DEF FillCreate
  <2>2. ASSUME NEW x \in Ids, Fresh(x), task' = [task EXCEPT !.pc = "save", !.id = x] PROVE ShelfStep
    <3>1. task'.batch = task.batch /\ task'.id = x
      BY <1>0, <2>2 DEF Tasks
    <3>2. \A i \in Ids : /\ InTask(i)' <=> i = x
                         /\ ~ InTask(i) /\ (InBatch(i)' <=> InBatch(i)) /\ (InCall(i)' <=> InCall(i))
      BY <2>1, <3>1, BatchSame, CallSame DEF InTask
    <3>3. Held' = Held \cup {x}
      BY <1>0, <3>2, HeldPlaces
    <3>4. ~ (InQueue(x) \/ x \in out \/ InCall(x) \/ InBatch(x) \/ InTask(x))
      BY <2>2, FreshHasNone
    <3>5. x \notin Shelf!Shelved
      BY <1>0, <3>4, ShelfOfQueue DEF Shelf!Shelved, InQueue
    <3>6. x \notin Shelf!Shelved \cup out \cup Held
      BY <1>0, <3>4, <3>5, HeldPlaces
    <3>7. Shelf!Make(x)
      BY <2>1, <3>3, <3>6 DEF Shelf!Make, IdsOf
    <3> QED BY <3>7 DEF ShelfStep, Shelf!Next
  <2> QED BY <1>6, <1>8, <2>1, <2>2 DEF FillCreate, Create, Launch
<1>9. CASE FillSave
  <2>1. UNCHANGED <<client, out>> /\ task.id \in Ids /\ task.batch = <<>>
    BY <1>0, <1>9 DEF FillSave, Typed, TaskHolds
  <2>2. ASSUME task'.id = None, task'.batch = <<>> PROVE task.id \in Held /\ Held' = Held \ {task.id}
    <3>1. \A i \in Ids : /\ ~ InTask(i)' /\ (InTask(i) <=> i = task.id)
                         /\ ~ InBatch(i)' /\ ~ InBatch(i) /\ (InCall(i)' <=> InCall(i))
      BY <2>1, <2>2, CallSame DEF InTask, InBatch
    <3>2. ~ InCall(task.id)
      BY <1>0, <2>1, <3>1 DEF Single
    <3> QED BY <1>0, <2>1, <3>1, <3>2, HeldPlaces
  <2>3. CASE Room /\ queue' = Pushed(task.id, "running") /\ task' = [task EXCEPT !.pc = "fill", !.id = None]
    <3>1. task'.batch = task.batch /\ task'.id = None /\ "running" \in Statuses
      BY <1>0, <2>3 DEF Tasks, Statuses
    <3> QED BY <2>1, <2>2, <2>3, <3>1, QueueStocks
  <2>4. CASE task' = Waiting /\ UNCHANGED queue
    <3>1. task'.id = None /\ task'.batch = <<>>
      BY <2>4 DEF Waiting
    <3> QED BY <1>4, <2>1, <2>2, <2>4, <3>1
  <2> QED BY <1>9, <2>3, <2>4 DEF FillSave
<1> QED BY <1>1, <1>3, <1>5, <1>7, <1>8, <1>9 DEF TaskStep

\* Nothing else moves a sandbox.
LEMMA OthersFromShelf ==
  ASSUME Strict, Typed', ExpiryStep \/ Age \/ Stop \/ UNCHANGED vars
  PROVE  ShelfStep
<1>0. Typed /\ queue \in Seq(Entries)
  BY DEF Strict, Typed, TypeOK, PoolOK
<1>1. UNCHANGED <<client, task, out>>
  BY DEF ExpiryStep, ExpiryScan, ExpiryTerminate, ExpiryUpdate, Age, Stop, vars
<1>2. UNCHANGED IdsOf(queue)
  <2>1. CASE Age BY <1>0, <2>1, ShelfAges
  <2>2. CASE UNCHANGED queue BY <2>2 DEF IdsOf
  <2> QED BY <2>1, <2>2 DEF ExpiryStep, ExpiryScan, ExpiryTerminate, ExpiryUpdate, Stop, vars
<1>3. Held' = Held
  BY <1>1 DEF Held, InFlight, Batched
<1> QED BY <1>1, <1>2, <1>3, ShelfIdle

\* When callers hand back what they were given, the gateway is a first-in
\* first-out shelf of at most max_idle sandboxes: whatever checkout, checkin,
\* refill, eviction, expiry and their failures do between two awaits is a step of
\* WarmPool on the ids of the queue, the callers' and those on their way.
THEOREM PoolLendsFromShelf == StrictSpec => LendsFromShelf
<1>1. Init => Shelf!Init
  <2> SUFFICES ASSUME Init PROVE Shelf!Init
    OBVIOUS
  <2>1. InFlight \subseteq {None}
    BY DEF Init, InFlight, Batched, Idle, Waiting
  <2>2. IdsOf(queue) = <<>>
    BY DEF Init, IdsOf
  <2> QED BY <2>1, <2>2 DEF Shelf!Init, Held, Init
<1>2. Strict /\ Typed' /\ [StrictNext]_vars => ShelfStep
  BY CallsFromShelf, TaskFromShelf, OthersFromShelf DEF StrictNext, Gateway, Exited
<1>3. Strict => Typed
  BY DEF Strict
<1> QED BY <1>1, <1>2, <1>3, StrictInductive, PTL DEF StrictSpec, LendsFromShelf, Shelf!Spec, ShelfStep

\* The shelf by itself: each of its steps keeps a sandbox in one place.
ShelfSound ==
  /\ IdsOf(queue) \in Seq(Ids) /\ out \subseteq Ids /\ Held \subseteq Ids
  /\ Shelf!OnePlace

LEMMA ShelfStaysSound ==
  ASSUME ShelfSound, Shelf!Next
  PROVE  ShelfSound'
<1> DEFINE w == IdsOf(queue)
<1>0. /\ w \in Seq(Ids) /\ out \subseteq Ids /\ Held \subseteq Ids /\ Len(w) \in Nat
      /\ \A k \in 1..Len(w) : w[k] \in Ids
      /\ \A j, k \in 1..Len(w) : w[j] = w[k] => j = k
      /\ \A k \in 1..Len(w) : w[k] \notin out /\ w[k] \notin Held
      /\ \A i \in out : i \notin Held
  BY ElementOfSeq, LenProperties DEF ShelfSound, Shelf!OnePlace, Shelf!Shelved
<1>1. ASSUME w' \in Seq(Ids), out' \subseteq Ids, Held' \subseteq Ids,
             \A j, k \in 1..Len(w') : w'[j] = w'[k] => j = k,
             \A k \in 1..Len(w') : w'[k] \notin out' /\ w'[k] \notin Held',
             \A i \in out' : i \notin Held'
      PROVE  ShelfSound'
  BY <1>1 DEF ShelfSound, Shelf!OnePlace, Shelf!Shelved
<1>2. ASSUME NEW i \in Ids, Shelf!Make(i) \/ Shelf!Lend(i) \/ Shelf!Return(i) \/ Shelf!Drop(i)
      PROVE  ShelfSound'
  BY <1>0, <1>1, <1>2 DEF Shelf!Make, Shelf!Lend, Shelf!Return, Shelf!Drop, Shelf!Shelved
<1>3. ASSUME NEW i \in Ids, Shelf!Stock(i) PROVE ShelfSound'
  <2>1. w' = Append(w, i) /\ i \in Held /\ Held' = Held \ {i} /\ out' = out
    BY <1>3 DEF Shelf!Stock
  <2> HIDE DEF w
  <2>2. /\ w' \in Seq(Ids) /\ Len(w') = Len(w) + 1 /\ w'[Len(w) + 1] = i
        /\ \A k \in 1..Len(w) : w'[k] = w[k]
    BY <1>0, <2>1, AppendProperties
  <2>3. \A k : k \in 1..Len(w') <=> (k \in 1..Len(w) \/ k = Len(w) + 1)
    BY <1>0, <2>2
  <2>4. \A k \in 1..Len(w') : w'[k] \notin out' /\ w'[k] \notin Held'
    BY <1>0, <2>1, <2>2, <2>3
  <2>5. \A j, k \in 1..Len(w') : w'[j] = w'[k] => j = k
    BY <1>0, <2>1, <2>2, <2>3
  <2> QED BY <1>0, <1>1, <2>1, <2>2, <2>4, <2>5
<1>4. ASSUME NEW n \in 0..Len(w), w' = SubSeq(w, n + 1, Len(w)), out' = out,
             Held' = Held \cup {w[k] : k \in 1..n}
      PROVE  ShelfSound'
  <2> HIDE DEF w
  <2>1. n + 1 \in Int /\ Len(w) \in Int /\ (\A k \in n + 1..Len(w) : w[k] \in Ids) /\ n \in Nat
    BY <1>0
  <2>2. /\ w' \in Seq(Ids) /\ Len(w') = Len(w) - n
        /\ \A k \in 1..Len(w) - (n + 1) + 1 : w'[k] = w[n + 1 + k - 1]
    BY <1>0, <1>4, <2>1, SubSeqProperties
  <2>3. \A k \in 1..Len(w') : w'[k] = w[n + k] /\ n + k \in 1..Len(w) /\ n + k \notin 1..n
    <3>1. \A k \in 1..Len(w') : k \in 1..Len(w) - (n + 1) + 1 /\ n + 1 + k - 1 = n + k
      BY <1>0, <2>1, <2>2
    <3>2. \A k \in 1..Len(w') : n + k \in 1..Len(w) /\ n + k \notin 1..n
      BY <1>0, <2>1, <2>2
    <3> QED BY <2>2, <3>1, <3>2
  <2>4. \A j \in 1..n : j \in 1..Len(w)
    BY <1>0
  <2>5. \A k \in 1..Len(w') : w'[k] \notin out' /\ w'[k] \notin Held'
    BY <1>0, <1>4, <2>3, <2>4
  <2>6. \A j, k \in 1..Len(w') : w'[j] = w'[k] => j = k
    <3> SUFFICES ASSUME NEW j \in 1..Len(w'), NEW k \in 1..Len(w'), w'[j] = w'[k] PROVE j = k
      OBVIOUS
    <3>1. n + j = n + k
      BY <1>0, <2>3
    <3> QED BY <2>1, <2>2, <3>1
  <2>7. Held' \subseteq Ids /\ \A i \in out' : i \notin Held'
    BY <1>0, <1>4, <2>4
  <2> QED BY <1>0, <1>1, <1>4, <2>2, <2>5, <2>6, <2>7
<1>5. CASE Shelf!Take
  <2>1. w # <<>> /\ w' = Tail(w) /\ Held' = Held \cup {Head(w)} /\ out' = out
    BY <1>5 DEF Shelf!Take
  <2> HIDE DEF w
  <2>2. Tail(w) = SubSeq(w, 1 + 1, Len(w)) /\ Head(w) = w[1]
    BY <1>0, <2>1, TailIsSubSeq
  <2>3. 1 \in 0..Len(w) /\ {w[k] : k \in 1..1} = {w[1]}
    BY <1>0, <2>1, EmptySeq
  <2> QED BY <1>4, <2>1, <2>2, <2>3
<1>6. ASSUME NEW n \in 0..Len(w), Shelf!Evict(n) PROVE ShelfSound'
  BY <1>4, <1>6 DEF Shelf!Evict
<1> QED BY <1>2, <1>3, <1>5, <1>6 DEF Shelf!Next

\* Whatever implements the shelf of WarmPool shares no sandbox: none is on the
\* shelf twice, or there while it is lent or on its way.
THEOREM ShelfKeepsOnePlace == LendsFromShelf => []Shelf!OnePlace
<1>1. Shelf!Init => ShelfSound
  <2> SUFFICES ASSUME Shelf!Init PROVE ShelfSound
    OBVIOUS
  <2>1. IdsOf(queue) = <<>> /\ out = {} /\ Held = {}
    BY DEF Shelf!Init
  <2>2. Len(IdsOf(queue)) = 0 /\ IdsOf(queue) \in Seq(Ids)
    BY <2>1, EmptySeq
  <2> QED BY <2>1, <2>2 DEF ShelfSound, Shelf!OnePlace, Shelf!Shelved
<1>2. ShelfSound /\ UNCHANGED Shelf!poolVars => ShelfSound'
  BY DEF ShelfSound, Shelf!OnePlace, Shelf!Shelved, Shelf!poolVars
<1>3. ShelfSound => Shelf!OnePlace
  BY DEF ShelfSound
<1> QED BY <1>1, <1>2, <1>3, ShelfStaysSound, PTL DEF LendsFromShelf, Shelf!Spec

------------------------------------------------------------------------------
(* No container is forgotten, whatever ids the callers hand back and how     *)
(* often, as long as min_idle does not exceed max_idle.                      *)

\* The runtime has removed the container, or failed to.
Done(i) == Removable(i) => i \in leaked

Tracked(i) ==
  Removable(i) => i \in leaked \/ InQueue(i) \/ i \in out \/ InCall(i) \/ InBatch(i) \/ InTask(i)

\* What a call and the task may drop: a call carries no sandbox before it has
\* one, and pushes or deletes only what it has terminated; the refill creates under the
\* queue's guard, for a queue that is not full.
CallSettled(x) ==
  /\ x.pc \in {"idle", "lookup", "permit", "create", "direct_create"} => x.id = None
  /\ x.pc \in {"push", "direct_delete"} => Done(x.id)
CallsSettled == \A c \in Clients : CallSettled(client[c])
TaskSettled ==
  /\ task.pc # "save" => task.id = None
  /\ task.pc = "delete" => Done(Head(task.batch))
  /\ task.pc \in {"create", "save"} => Len(queue) < MinIdle
Settled == (\A i \in Ids : Tracked(i)) /\ CallsSettled /\ TaskSettled

\* A step other than the creation of i brings no container of i.
Steady(i) ==
  /\ Removable(i)' => Removable(i) \/ (i \in leaked)'
  /\ i \in leaked => (i \in leaked)'

LEMMA SteadyDone ==
  ASSUME NEW i, Steady(i), Done(i) PROVE Done(i)'
BY DEF Steady, Done

LEMMA SteadySame ==
  ASSUME NEW i, UNCHANGED <<box, kind>>, leaked \subseteq leaked' PROVE Steady(i)
BY DEF Steady, Removable

LEMMA TerminateSteady ==
  ASSUME RuntimeOK, NEW x \in Ids, Terminate(x), UNCHANGED kind, NEW i \in Ids
  PROVE  Steady(i) /\ Done(x)'
BY DEF RuntimeOK, Terminate, Steady, Done, Removable

LEMMA CreateFailsSteady ==
  ASSUME RuntimeOK, NEW r, CreateFails(r), NEW i \in Ids PROVE Steady(i)
<1>1. CASE UNCHANGED <<box, kind, leaked>>
  BY <1>1, SteadySame
<1>2. ASSUME NEW x \in Ids, Launch(x, r), leaked' = leaked \cup {x} PROVE Steady(i)
  BY <1>2 DEF Launch, RuntimeOK, Steady, Removable
<1> QED BY <1>1, <1>2 DEF CreateFails

LEMMA CreateSteady ==
  ASSUME RuntimeOK, NEW r, NEW x \in Ids, Create(x, r), NEW i \in Ids, i # x PROVE Steady(i)
BY DEF Create, Launch, RuntimeOK, Steady, Removable

\* Only a creation brings a container, and it takes an id that nobody holds.
LEMMA StepSteady ==
  ASSUME Typed, [Next]_vars, NEW i \in Ids PROVE Steady(i) \/ Fresh(i)
<1>0. RuntimeOK /\ CallsOK /\ CallsHold /\ task.batch \in Seq(Ids) /\ (task.pc = "delete" => task.batch # <<>>)
  BY DEF Typed, TypeOK, TaskHolds, TaskOK, Tasks
<1>1. ASSUME NEW r, NEW x \in Ids, Create(x, r) PROVE Steady(i) \/ Fresh(i)
  <2>1. CASE x = i BY <1>1, <2>1 DEF Create, Launch
  <2>2. CASE x # i BY <1>0, <1>1, <2>2, CreateSteady
  <2> QED BY <2>1, <2>2
<1>2. ASSUME NEW c \in Clients, ClientStep(c) PROVE Steady(i) \/ Fresh(i)
  <2>1. CASE CheckinTerminate(c)
    <3>1. client[c].id \in Ids
      BY <1>0, <2>1 DEF CheckinTerminate, At, CallsHold, CallHolds
    <3> QED BY <1>0, <2>1, <3>1, TerminateSteady DEF CheckinTerminate
  <2>2. CASE CheckoutCreate(c) \/ DirectCreate(c)
    BY <1>0, <1>1, <2>2, CreateFailsSteady DEF CheckoutCreate, DirectCreate
  <2>3. CASE CheckoutSave(c) \/ DirectSave(c)
    <3>1. UNCHANGED <<box, kind>> /\ leaked \subseteq leaked'
      BY <2>3 DEF CheckoutSave, DirectSave, SaveFails
    <3> QED BY <3>1, SteadySame
  <2>4. CASE UNCHANGED <<box, kind, leaked>>
    BY <2>4, SteadySame
  <2>5. CASE DirectFind(c) \/ DirectTerminate(c)
    <3>1. client[c].id \in Ids
      BY <1>0, <2>5 DEF DirectFind, DirectTerminate, At, CallsHold, CallHolds
    <3> QED BY <1>0, <2>5, <3>1 DEF DirectFind, DirectTerminate, RuntimeOK, Steady, Removable
  <2> QED BY <1>2, <2>1, <2>2, <2>3, <2>4, <2>5
          DEF ClientStep, DirectDelete, CheckoutWarm, CheckoutUpdate, CheckoutMiss, CheckoutAcquire, CheckinPush
<1>3. CASE TaskStep
  <2>1. CASE EvictTerminate
    <3>1. Head(task.batch) \in Ids
      BY <1>0, <2>1, HeadTailProperties DEF EvictTerminate
    <3> QED BY <1>0, <2>1, <3>1, TerminateSteady DEF EvictTerminate
  <2>2. CASE FillCreate
    BY <1>0, <1>1, <2>2, CreateFailsSteady DEF FillCreate
  <2>3. CASE FillSave
    <3>1. UNCHANGED <<box, kind>> /\ leaked \subseteq leaked'
      BY <2>3 DEF FillSave, SaveFails
    <3> QED BY <3>1, SteadySame
  <2>4. CASE UNCHANGED <<box, kind, leaked>>
    BY <2>4, SteadySame
  <2> QED BY <1>3, <2>1, <2>2, <2>3, <2>4
          DEF TaskStep, EvictIdle, EvictDelete, EvictDone, EvictSettle, StopDone, FillBegin, FillAcquire, FillEnd
<1>4. ASSUME NEW x \in Ids, ExpiryTerminate(x) PROVE Steady(i) \/ Fresh(i)
  BY <1>0, <1>4 DEF ExpiryTerminate, RuntimeOK, Steady, Removable
<1>5. CASE UNCHANGED <<box, kind, leaked>>
  BY <1>5, SteadySame
<1> QED BY <1>2, <1>3, <1>4, <1>5
        DEF Next, Gateway, Exited, ExpiryStep, ExpiryScan, ExpiryUpdate, Age, Stop, CreateCall, CheckinFind, vars

\* What a call or an eviction has in hand stays done.
LEMMA HeldStaysDone ==
  ASSUME Typed, [Next]_vars, NEW i \in Ids, InCall(i) \/ InBatch(i), Done(i) PROVE Done(i)'
BY StepSteady, SteadyDone, FreshHasNone

\* The step of one call keeps the sandboxes tracked when what the call and the
\* queue let go of is picked up.
LEMMA CallTracks ==
  ASSUME Typed, NEW i \in Ids, Tracked(i), NEW c \in Clients, NEW r,
         client' = [client EXCEPT ![c] = r], UNCHANGED task, Steady(i) \/ r.id = i,
         InQueue(i) => InQueue(i)' \/ r.id = i,
         i \in out => (i \in out)' \/ r.id = i,
         client[c].id = i => r.id = i \/ (i \in out)' \/ InQueue(i)' \/ Done(i)'
  PROVE  Tracked(i)'
<1>1. CallsOK
  BY DEF Typed, TypeOK
<1>2. (r.id = i => InCall(i)') /\ (InCall(i) => InCall(i)' \/ client[c].id = i)
  BY <1>1, CallTakes
<1>3. (InBatch(i)' <=> InBatch(i)) /\ (InTask(i)' <=> InTask(i))
  BY TaskSame
<1>4. Done(i)' => Tracked(i)'
  BY DEF Done, Tracked
<1>5. CASE r.id = i
  BY <1>2, <1>5 DEF Tracked
<1>6. CASE Steady(i) /\ r.id # i
  BY <1>2, <1>3, <1>4, <1>6 DEF Tracked, Steady
<1> QED BY <1>5, <1>6

\* The other calls of a step stay settled, and the task.
LEMMA OthersSettled ==
  ASSUME Typed, CallsSettled, [Next]_vars, NEW c \in Clients, NEW r,
         client' = [client EXCEPT ![c] = r], CallSettled(r)'
  PROVE  CallsSettled'
<1> SUFFICES ASSUME NEW d \in Clients PROVE CallSettled(client[d])'
  BY DEF CallsSettled
<1>1. CASE d = c
  BY <1>1 DEF Typed, TypeOK, CallsOK
<1>2. CASE d # c
  <2>1. client'[d] = client[d] /\ (client[d].pc \in {"push", "direct_delete"} => client[d].id \in Ids)
    BY <1>2 DEF Typed, TypeOK, CallsOK, CallsHold, CallHolds
  <2>2. client[d].pc \in {"push", "direct_delete"} => Done(client[d].id)'
    <3> SUFFICES ASSUME client[d].pc \in {"push", "direct_delete"} PROVE Done(client[d].id)'
      OBVIOUS
    <3>1. PICK i \in Ids : i = client[d].id
      BY <2>1
    <3>2. InCall(i) /\ Done(i)
      BY <3>1 DEF InCall, CallsSettled, CallSettled
    <3>3. Done(i)'
      BY <3>2, HeldStaysDone
    <3> QED BY <2>1, <3>1, <3>3 DEF Done, Removable
  <2> QED BY <2>1, <2>2 DEF CallsSettled, CallSettled, Done, Removable
<1> QED BY <1>1, <1>2

LEMMA TaskStaysSettled ==
  ASSUME Typed, Counted, TaskSettled, [Next]_vars, UNCHANGED task,
         task.pc \in {"create", "save"} => Len(queue') <= Len(queue)
  PROVE  TaskSettled'
<1>1. task.pc = "delete" => Done(Head(task.batch))'
  <2> SUFFICES ASSUME task.pc = "delete" PROVE Done(Head(task.batch))'
    OBVIOUS
  <2>1. task.batch \in Seq(Ids) /\ task.batch # <<>>
    BY DEF Typed, TypeOK, TaskOK, Tasks, TaskHolds
  <2>2. PICK i \in Ids : i = Head(task.batch)
    BY <2>1, HeadTailProperties
  <2>3. 1 \in 1..Len(task.batch) /\ task.batch[1] = i
    BY <2>1, <2>2, HeadTailProperties, LenProperties, EmptySeq
  <2>4. InBatch(i) /\ Done(i)
    BY <2>2, <2>3 DEF InBatch, TaskSettled
  <2>5. Done(i)'
    BY <2>4, HeldStaysDone
  <2> QED BY <2>2, <2>5 DEF Done, Removable
<1>2. task.pc \in {"create", "save"} => Len(queue') < MinIdle
  <2>1. Len(queue) \in Nat /\ Len(queue') \in Nat
    BY NextTyped, LenProperties DEF Typed, TypeOK, PoolOK
  <2> QED BY <2>1, BoundsAssumption DEF TaskSettled
<1> QED BY <1>1, <1>2 DEF TaskSettled, Done, Removable

\* One step of one call.
LEMMA CallsTracked ==
  ASSUME Typed, Counted, Settled, [Next]_vars, NEW c \in Clients,
         \/ \E r \in Requests : CreateCall(c, r)
         \/ \E j \in Ids : CheckinFind(c, j)
         \/ ClientStep(c)
  PROVE  Settled'
<1>0. /\ CallsOK /\ RuntimeOK /\ queue \in Seq(Entries) /\ CallHolds(client[c]) /\ CallSettled(client[c])
      /\ guard = "free" => task.pc \notin {"create", "save"}
  BY DEF Typed, TypeOK, PoolOK, CallsHold, Settled, CallsSettled, Counted, GuardHolder
<1>1. SUFFICES \E r : /\ client' = [client EXCEPT ![c] = r] /\ CallSettled(r)'
                      /\ UNCHANGED task
                      /\ task.pc \in {"create", "save"} => Len(queue') <= Len(queue)
                      /\ \A i \in Ids : /\ Steady(i) \/ r.id = i
                                        /\ InQueue(i) => InQueue(i)' \/ r.id = i
                                        /\ i \in out => (i \in out)' \/ r.id = i
                                        /\ client[c].id = i => r.id = i \/ (i \in out)' \/ InQueue(i)' \/ Done(i)'
  <2>1. PICK r : /\ client' = [client EXCEPT ![c] = r] /\ CallSettled(r)'
                 /\ UNCHANGED task
                 /\ task.pc \in {"create", "save"} => Len(queue') <= Len(queue)
                 /\ \A i \in Ids : /\ Steady(i) \/ r.id = i
                                   /\ InQueue(i) => InQueue(i)' \/ r.id = i
                                   /\ i \in out => (i \in out)' \/ r.id = i
                                   /\ client[c].id = i => r.id = i \/ (i \in out)' \/ InQueue(i)' \/ Done(i)'
    OBVIOUS
  <2>2. \A i \in Ids : Tracked(i)'
    BY <2>1, CallTracks DEF Settled
  <2>3. CallsSettled'
    BY <2>1, OthersSettled DEF Settled
  <2>4. TaskSettled'
    BY <2>1, TaskStaysSettled DEF Settled
  <2> QED BY <2>2, <2>3, <2>4 DEF Settled
<1>2. Len(queue) \in Nat /\ (UNCHANGED queue => Len(queue') <= Len(queue))
  BY <1>0, LenProperties
<1>3. UNCHANGED queue => \A i : InQueue(i)' <=> InQueue(i)
  BY QueueSame
<1>4. client[c].pc \in {"idle", "lookup", "permit", "create", "direct_create"} => client[c].id \notin Ids
  BY <1>0 DEF CallSettled
<1>5. \A x : (x.pc \notin {"push", "direct_delete"} /\ (x.pc \in {"idle", "lookup", "permit", "create", "direct_create"} => x.id = None)) => CallSettled(x)'
  BY DEF CallSettled
<1>6. Idle.pc = "idle" /\ Idle.id = None
  BY DEF Idle
<1>7. ASSUME NEW r \in Requests, CreateCall(c, r)
      PROVE  \E x : client' = [client EXCEPT ![c] = x] /\ x.pc \in {"lookup", "direct_create"} /\ x.id = None
  <2> DEFINE p == IF r.provider = Podman THEN "lookup" ELSE "direct_create"
             y == [pc |-> p, req |-> r, id |-> None, status |-> "stopped"]
  <2>0. client' = [client EXCEPT ![c] = y] /\ y.id = None /\ y.pc \in {"lookup", "direct_create"}
    BY <1>7 DEF CreateCall
  <2> HIDE DEF y
  <2> QED BY <2>0
<1>8. CASE \E r \in Requests : CreateCall(c, r)
  <2>1. PICK x : client' = [client EXCEPT ![c] = x] /\ x.pc \in {"lookup", "direct_create"} /\ x.id = None
    BY <1>7, <1>8
  <2>2. UNCHANGED <<queue, out, task, box, kind, leaked>> /\ client[c].pc = "idle"
    BY <1>8 DEF CreateCall, At
  <2>3. CallSettled(x)'
    BY <1>5, <2>1
  <2> QED BY <1>2, <1>3, <1>4, <2>1, <2>2, <2>3, SteadySame
<1>9. CASE \E j \in Ids : CheckinFind(c, j)
  <2>0. PICK j \in Ids : CheckinFind(c, j)
    BY <1>9
  <2>1. PICK x : client' = [client EXCEPT ![c] = x] /\ x.pc \in {"terminate", "direct_find"} /\ x.id = j
    BY <2>0, AwaitShape DEF CheckinFind
  <2>2. UNCHANGED <<queue, task, box, kind, leaked>> /\ out' = out \ {j} /\ client[c].pc = "idle"
    BY <2>0 DEF CheckinFind, At
  <2>3. CallSettled(x)'
    BY <1>5, <2>1
  <2> QED BY <1>2, <1>3, <1>4, <2>1, <2>2, <2>3, SteadySame
<1>10. CASE CheckoutWarm(c)
  <2>1. PICK x : client' = [client EXCEPT ![c] = x] /\ x.pc = "update" /\ x.id = Head(queue).id
    BY <1>10, AwaitShape DEF CheckoutWarm
  <2>2. UNCHANGED <<out, task, box, kind, leaked>> /\ queue # <<>> /\ queue' = Tail(queue) /\ client[c].pc = "lookup" /\ guard = "free"
    BY <1>10 DEF CheckoutWarm, PopFront, At
  <2>3. CallSettled(x)'
    BY <1>5, <2>1
  <2>4. \A i \in Ids : InQueue(i) => InQueue(i)' \/ x.id = i
    BY <1>0, <2>1, <2>2, QueuePops
  <2> QED BY <1>0, <1>4, <2>1, <2>2, <2>3, <2>4, SteadySame
<1>11. CASE CheckoutUpdate(c)
  <2>1. UNCHANGED <<queue, task, box, kind, leaked>> /\ out' = out \cup {client[c].id}
    BY <1>11 DEF CheckoutUpdate
  <2>2. client' = [client EXCEPT ![c] = Idle]
    BY <1>11 DEF CheckoutUpdate, Reply
  <2>3. CallSettled(Idle)'
    BY <1>5, <1>6
  <2> QED BY <1>2, <1>3, <1>6, <2>1, <2>2, <2>3, SteadySame
<1>12. CASE CheckoutMiss(c) \/ CheckoutAcquire(c)
  <2>1. PICK x : client' = [client EXCEPT ![c] = x] /\ x.pc \in {"permit", "create"} /\ x.id = client[c].id
    BY <1>12, AwaitShape DEF CheckoutMiss, CheckoutAcquire, Goto
  <2>2. UNCHANGED <<queue, out, task, box, kind, leaked>> /\ client[c].pc \in {"lookup", "permit"}
    BY <1>12 DEF CheckoutMiss, CheckoutAcquire, At
  <2>3. CallSettled(x)'
    BY <1>0, <1>5, <2>1, <2>2 DEF CallSettled
  <2> QED BY <1>2, <1>3, <2>1, <2>2, <2>3, SteadySame
<1>13. CASE CheckoutCreate(c) \/ DirectCreate(c)
  <2>1. UNCHANGED <<queue, out, task>> /\ client[c].pc \in {"create", "direct_create"}
    BY <1>13 DEF CheckoutCreate, DirectCreate, At
  <2>2. ASSUME NEW j \in Ids, Create(j, client[c].req),
               Await(c, "save", j, client[c].status) \/ Await(c, "direct_save", j, client[c].status)
        PROVE  \E x : client' = [client EXCEPT ![c] = x] /\ CallSettled(x)' /\ \A i \in Ids : Steady(i) \/ x.id = i
    <3>1. PICK x : client' = [client EXCEPT ![c] = x] /\ x.pc \in {"save", "direct_save"} /\ x.id = j
      BY <2>2, AwaitShape
    <3>2. CallSettled(x)'
      BY <1>5, <3>1
    <3>3. \A i \in Ids : Steady(i) \/ x.id = i
      BY <1>0, <2>2, <3>1, CreateSteady
    <3> QED BY <3>1, <3>2, <3>3
  <2>3. ASSUME CreateFails(client[c].req), Goto(c, "direct_create") \/ Reply(c)
        PROVE  \E x : client' = [client EXCEPT ![c] = x] /\ CallSettled(x)' /\ \A i \in Ids : Steady(i) \/ x.id = i
    <3>1. \A i \in Ids : Steady(i)
      BY <1>0, <2>3, CreateFailsSteady
    <3>2. CASE Goto(c, "direct_create")
      <4>1. PICK x : client' = [client EXCEPT ![c] = x] /\ x.pc = "direct_create" /\ x.id = client[c].id
        BY <3>2, AwaitShape DEF Goto
      <4>2. CallSettled(x)'
        BY <1>0, <1>5, <2>1, <4>1 DEF CallSettled
      <4> QED BY <3>1, <4>1, <4>2
    <3>3. CASE Reply(c)
      BY <1>5, <1>6, <3>1, <3>3 DEF Reply
    <3> QED BY <2>3, <3>2, <3>3
  <2>4. PICK x : client' = [client EXCEPT ![c] = x] /\ CallSettled(x)' /\ \A i \in Ids : Steady(i) \/ x.id = i
    BY <1>13, <2>2, <2>3 DEF CheckoutCreate, DirectCreate
  <2> QED BY <1>2, <1>3, <1>4, <2>1, <2>4
<1>14. CASE CheckoutSave(c) \/ DirectSave(c)
  <2>1. UNCHANGED <<queue, task, box, kind>> /\ leaked \subseteq leaked' /\ out \subseteq out'
    BY <1>14 DEF CheckoutSave, DirectSave, SaveFails
  <2>2. client[c].id \in out' \/ client[c].id \in leaked'
    BY <1>14 DEF CheckoutSave, DirectSave, SaveFails
  <2>3. PICK x : client' = [client EXCEPT ![c] = x] /\ x.pc \in {"idle", "direct_create"} /\ x.id = None
    BY <1>6, <1>14, AwaitShape DEF CheckoutSave, DirectSave, Reply
  <2>4. CallSettled(x)'
    BY <1>5, <2>3
  <2>5. \A i \in Ids : client[c].id = i => (i \in out)' \/ Done(i)'
    BY <2>2 DEF Done
  <2> QED BY <1>2, <1>3, <2>1, <2>3, <2>4, <2>5, SteadySame
<1>15. CASE CheckinTerminate(c)
  <2>1. PICK x : client' = [client EXCEPT ![c] = x] /\ x.pc = "push" /\ x.id = client[c].id
    BY <1>15, AwaitShape DEF CheckinTerminate, Goto
  <2>2. UNCHANGED <<queue, out, task>> /\ Terminate(client[c].id) /\ client[c].id \in Ids /\ UNCHANGED kind
    BY <1>0, <1>15 DEF CheckinTerminate, At, CallHolds
  <2>3. (\A i \in Ids : Steady(i)) /\ Done(client[c].id)'
    <3>1. PICK j \in Ids : j = client[c].id
      BY <2>2
    <3>2. Done(j)' /\ \A i \in Ids : Steady(i)
      BY <1>0, <2>2, <3>1, TerminateSteady
    <3>3. client'[c].id = j
      BY <1>0, <2>1, <3>1 DEF CallsOK
    <3> QED BY <3>2, <3>3 DEF Done, Removable
  <2>4. client'[c] = x /\ CallSettled(x)'
    BY <1>0, <2>1, <2>3 DEF CallsOK, CallSettled, Done, Removable
  <2> QED BY <1>2, <1>3, <2>1, <2>2, <2>3, <2>4
<1>16. CASE CheckinPush(c)
  <2>1. client' = [client EXCEPT ![c] = Idle] /\ UNCHANGED <<out, task, box, kind, leaked>>
    BY <1>16 DEF CheckinPush, Reply
  <2>2. CallSettled(Idle)'
    BY <1>5, <1>6
  <2>3. \A i \in Ids : client[c].id = i => Done(i)'
    BY <1>0, <1>16, <2>1 DEF CheckinPush, At, CallSettled, Done, Removable
  <2>4. CASE UNCHANGED queue
    BY <1>2, <1>3, <2>1, <2>2, <2>3, <2>4, SteadySame
  <2>5. CASE guard = "free" /\ queue' = Pushed(client[c].id, client[c].status)
    <3>1. \A i \in Ids : InQueue(i) => InQueue(i)'
      BY <1>0, <2>5, QueuePushes
    <3> QED BY <1>0, <2>1, <2>2, <2>3, <2>5, <3>1, SteadySame
  <2> QED BY <1>16, <2>4, <2>5 DEF CheckinPush
<1>17. CASE DirectFind(c) \/ DirectTerminate(c)
  <2>0. client[c].id \in Ids /\ UNCHANGED <<queue, out, task>>
    BY <1>0, <1>17 DEF DirectFind, DirectTerminate, At, CallHolds
  <2>1. PICK x : /\ client' = [client EXCEPT ![c] = x]
                 /\ \/ x.pc \in {"direct_terminate", "direct_delete"} /\ x.id = client[c].id
                    \/ x.pc = "idle" /\ x.id = None
    BY <1>17, DirectShape
  <2>2. PICK j \in Ids : j = client[c].id
    BY <2>0
  <2>3. \A i \in Ids : Steady(i)
    BY <1>0, <1>17, <2>0 DEF DirectFind, DirectTerminate, RuntimeOK, Steady, Removable
  <2>4. x.pc # "direct_terminate" => Done(j)'
    <3>1. client'[c] = x
      BY <1>0, <2>1 DEF CallsOK
    <3>2. CASE DirectFind(c)
      <4>1. x.pc # "direct_terminate" => ~ \E s : Await(c, "direct_terminate", client[c].id, s)
        BY <1>0, <3>1 DEF Await, CallsOK
      <4> QED BY <2>2, <3>2, <4>1 DEF DirectFind, Done
    <3>3. CASE DirectTerminate(c)
      BY <1>0, <2>2, <3>3 DEF DirectTerminate, RuntimeOK, Done, Removable
    <3> QED BY <1>17, <3>2, <3>3
  <2>5. CallSettled(x)'
    BY <1>5, <2>1, <2>2, <2>4 DEF CallSettled, Done, Removable
  <2>6. \A i \in Ids : client[c].id = i => x.id = i \/ Done(i)'
    BY <2>1, <2>2, <2>4
  <2> QED BY <1>2, <1>3, <2>0, <2>1, <2>3, <2>5, <2>6
<1>18. CASE DirectDelete(c)
  <2>1. client' = [client EXCEPT ![c] = Idle] /\ UNCHANGED <<queue, out, task, box, kind, leaked>>
    BY <1>18 DEF DirectDelete, Reply
  <2>2. CallSettled(Idle)'
    BY <1>5, <1>6
  <2>3. \A i \in Ids : client[c].id = i => Done(i)'
    BY <1>0, <1>18, <2>1 DEF DirectDelete, At, CallSettled, Done, Removable
  <2> QED BY <1>2, <1>3, <2>1, <2>2, <2>3, SteadySame
<1> QED BY <1>8, <1>9, <1>10, <1>11, <1>12, <1>13, <1>14, <1>15, <1>16, <1>17, <1>18 DEF ClientStep

\* The calls stay settled in a step that is not theirs.
LEMMA CallsStaySettled ==
  ASSUME Typed, CallsSettled, [Next]_vars, UNCHANGED client PROVE CallsSettled'
<1> SUFFICES ASSUME NEW d \in Clients PROVE CallSettled(client[d])'
  BY DEF CallsSettled
<1>1. client[d].pc \in {"push", "direct_delete"} => client[d].id \in Ids
  BY DEF Typed, CallsHold, CallHolds
<1>2. CASE client[d].pc \in {"push", "direct_delete"}
  <2>1. PICK i \in Ids : i = client[d].id
    BY <1>1, <1>2
  <2>2. InCall(i) /\ Done(i)
    BY <1>2, <2>1 DEF InCall, CallsSettled, CallSettled
  <2>3. Done(i)'
    BY <2>2, HeldStaysDone
  <2> QED BY <1>2, <2>1, <2>3 DEF CallSettled, Done, Removable
<1>3. CASE client[d].pc \notin {"push", "direct_delete"}
  BY <1>3 DEF CallsSettled, CallSettled
<1> QED BY <1>2, <1>3

\* A step of the refill task keeps a sandbox tracked when what the queue, the
\* batch and the task let go of is picked up.
LEMMA TaskTracks ==
  ASSUME NEW i \in Ids, Tracked(i), UNCHANGED <<client, out>>, Steady(i) \/ InTask(i)',
         InQueue(i) => InQueue(i)' \/ InBatch(i)',
         InBatch(i) => InBatch(i)' \/ Done(i)',
         InTask(i) => InTask(i)' \/ InQueue(i)' \/ Done(i)'
  PROVE  Tracked(i)'
<1>1. (InCall(i)' <=> InCall(i)) /\ (Done(i)' => Tracked(i)')
  BY CallSame DEF Done, Tracked
<1> QED BY <1>1 DEF Tracked, Steady

LEMMA TaskTracked ==
  ASSUME MinIdle <= MaxIdle, Typed, Counted, Settled, [Next]_vars, TaskStep
  PROVE  Settled'
<1>0. /\ RuntimeOK /\ queue \in Seq(Entries) /\ task \in Tasks /\ task.batch \in Seq(Ids)
      /\ (\A i \in Ids : Tracked(i)) /\ CallsSettled /\ TaskSettled /\ TaskHolds
  BY DEF Typed, TypeOK, PoolOK, TaskOK, Tasks, Settled
<1>1. UNCHANGED <<client, out>>
  BY DEF TaskStep, EvictIdle, EvictTerminate, EvictDelete, EvictDone, EvictSettle, StopDone, FillBegin, FillAcquire, FillEnd,
         FillCreate, FillSave
<1>2. CallsSettled'
  BY <1>0, <1>1, CallsStaySettled
<1>3. SUFFICES TaskSettled' /\ \A i \in Ids : Tracked(i)'
  BY <1>2 DEF Settled
<1>4. UNCHANGED <<box, kind, leaked>> => \A i : Steady(i)
  BY SteadySame
<1>5. UNCHANGED queue => \A i : InQueue(i)' <=> InQueue(i)
  BY QueueSame
<1>6. UNCHANGED <<task.batch, task.id>> => \A i : (InBatch(i)' <=> InBatch(i)) /\ (InTask(i)' <=> InTask(i))
  BY BatchSame DEF InTask
<1>7. task.pc # "save" => \A i \in Ids : ~ InTask(i)
  BY <1>0 DEF TaskSettled, InTask
<1>8. task.pc \notin {"evict", "delete"} => \A i : ~ InBatch(i)
  BY DEF Counted, InBatch
<1>9. ASSUME NEW s \in BOOLEAN, EvictIdle(s) PROVE TaskSettled' /\ \A i \in Ids : Tracked(i)'
  <2>1. PICK n \in 0..Len(queue) :
          /\ queue' = SubSeq(queue, n + 1, Len(queue))
          /\ task' = [task EXCEPT !.pc = "evict", !.stopping = s, !.batch = [k \in 1..n |-> queue[k].id]]
    BY <1>9 DEF EvictIdle
  <2>2. task'.batch = [k \in 1..n |-> queue[k].id] /\ task'.id = task.id /\ task'.pc = "evict"
    BY <1>0, <2>1 DEF Tasks
  <2>3. UNCHANGED <<box, kind, leaked>> /\ task.pc = "wait"
    BY <1>9 DEF EvictIdle
  <2>4. \A i : InQueue(i) => InQueue(i)' \/ InBatch(i)'
    BY <1>0, <2>1, <2>2, QueueSplits
  <2>5. TaskSettled'
    BY <1>0, <2>2, <2>3 DEF TaskSettled
  <2> QED BY <1>0, <1>1, <1>4, <1>7, <1>8, <2>3, <2>4, <2>5, TaskTracks
<1>10. CASE EvictTerminate
  <2>1. task'.batch = task.batch /\ task'.id = task.id /\ task'.pc = "delete"
    BY <1>0, <1>10 DEF EvictTerminate, Tasks
  <2>2. task.batch # <<>> /\ UNCHANGED <<queue, kind>> /\ Terminate(Head(task.batch)) /\ task.pc = "evict"
    BY <1>10 DEF EvictTerminate
  <2>3. PICK j \in Ids : j = Head(task.batch)
    BY <1>0, <2>2, HeadTailProperties
  <2>4. Done(j)' /\ \A i \in Ids : Steady(i)
    BY <1>0, <2>2, <2>3, TerminateSteady
  <2>5. TaskSettled'
    BY <1>0, <2>1, <2>2, <2>3, <2>4 DEF TaskSettled, Done, Removable
  <2> QED BY <1>0, <1>1, <1>5, <1>6, <2>1, <2>2, <2>4, <2>5, TaskTracks
<1>11. CASE EvictDelete
  <2>1. task'.batch = Tail(task.batch) /\ task'.id = task.id /\ task'.pc = "evict"
    BY <1>0, <1>11 DEF EvictDelete, Tasks
  <2>2. task.batch # <<>> /\ UNCHANGED <<queue, box, kind, leaked>> /\ task.pc = "delete"
    BY <1>0, <1>11 DEF EvictDelete, TaskHolds
  <2>3. Done(Head(task.batch))
    BY <1>0, <2>2 DEF TaskSettled
  <2>4. \A i \in Ids : InBatch(i) => InBatch(i)' \/ Head(task.batch) = i
    BY <1>0, <2>1, <2>2, BatchPops
  <2>5. \A i \in Ids : Head(task.batch) = i => Done(i)'
    BY <2>2, <2>3 DEF Done, Removable
  <2>6. TaskSettled'
    BY <1>0, <2>1, <2>2 DEF TaskSettled
  <2> QED BY <1>0, <1>1, <1>4, <1>5, <1>7, <2>2, <2>4, <2>5, <2>6, TaskTracks
<1>12. CASE EvictDone \/ EvictSettle \/ StopDone \/ FillBegin \/ FillAcquire
  <2>1. task'.batch = task.batch /\ task'.id = task.id
    BY <1>0, <1>12 DEF EvictDone, EvictSettle, StopDone, FillBegin, FillAcquire, Tasks
  <2>2. UNCHANGED <<queue, box, kind, leaked>> /\ task.pc # "save"
    BY <1>12 DEF EvictDone, EvictSettle, StopDone, FillBegin, FillAcquire
  <2>3. task'.pc \in {"settle", "refill", "stopped", "fill"} \/ (task'.pc = "create" /\ Len(queue) < MinIdle)
    BY <1>0, <1>12 DEF EvictDone, EvictSettle, StopDone, FillBegin, FillAcquire, Tasks, NeedsRefill
  <2>4. TaskSettled'
    BY <1>0, <2>1, <2>2, <2>3 DEF TaskSettled
  <2> QED BY <1>0, <1>1, <1>4, <1>5, <1>6, <2>1, <2>2, <2>4, TaskTracks
<1>13. task' = Waiting => TaskSettled'
  BY DEF Waiting, TaskSettled
<1>14. CASE FillEnd
  <2>1. task' = Waiting /\ UNCHANGED <<queue, box, kind, leaked>> /\ task.pc = "fill"
    BY <1>14 DEF FillEnd
  <2> QED BY <1>0, <1>1, <1>4, <1>5, <1>7, <1>8, <1>13, <2>1, TaskTracks
<1>15. CASE FillCreate
  <2>1. UNCHANGED queue /\ task.pc = "create"
    BY <1>15 DEF FillCreate
  <2>2. ASSUME NEW x \in Ids, Create(x, PoolRequest), task' = [task EXCEPT !.pc = "save", !.id = x]
        PROVE  TaskSettled' /\ \A i \in Ids : Tracked(i)'
    <3>1. task'.pc = "save" /\ task'.id = x
      BY <1>0, <2>2 DEF Tasks
    <3>2. \A i \in Ids : Steady(i) \/ InTask(i)'
      BY <1>0, <2>2, <3>1, CreateSteady DEF InTask
    <3>3. TaskSettled'
      BY <1>0, <2>1, <3>1 DEF TaskSettled
    <3> QED BY <1>0, <1>1, <1>5, <1>7, <1>8, <2>1, <3>2, <3>3, TaskTracks
  <2>3. ASSUME CreateFails(PoolRequest), task' = Waiting
        PROVE  TaskSettled' /\ \A i \in Ids : Tracked(i)'
    <3>1. \A i \in Ids : Steady(i)
      BY <1>0, <2>3, CreateFailsSteady
    <3> QED BY <1>0, <1>1, <1>5, <1>7, <1>8, <1>13, <2>1, <2>3, <3>1, TaskTracks
  <2> QED BY <1>15, <2>2, <2>3 DEF FillCreate
<1>16. CASE FillSave
  <2>1. UNCHANGED <<box, kind>> /\ leaked \subseteq leaked' /\ task.pc = "save"
    BY <1>16 DEF FillSave, SaveFails
  <2>2. (\A i : Steady(i)) /\ Room
    <3>1. Len(queue) \in Nat /\ Len(queue) < MinIdle
      BY <1>0, <2>1, LenProperties DEF TaskSettled
    <3>2. Len(queue) < MaxIdle
      BY <3>1, BoundsAssumption
    <3> QED BY <2>1, <3>2, SteadySame DEF Room
  <2>3. ASSUME queue' = Pushed(task.id, "running"), task' = [task EXCEPT !.pc = "fill", !.id = None]
        PROVE  TaskSettled' /\ \A i \in Ids : Tracked(i)'
    <3>1. task'.pc = "fill" /\ task'.id = None
      BY <1>0, <2>3 DEF Tasks
    <3>2. \A i : InQueue(i)' <=> (InQueue(i) \/ i = task.id)
      BY <1>0, <2>3, QueuePushes
    <3>3. TaskSettled'
      BY <3>1 DEF TaskSettled
    <3>4. \A i : InTask(i) => InQueue(i)'
      BY <3>2 DEF InTask
    <3> QED BY <1>0, <1>1, <1>8, <2>1, <2>2, <3>2, <3>3, <3>4, TaskTracks
  <2>4. ASSUME SaveFails(task.id), task' = Waiting, UNCHANGED queue
        PROVE  TaskSettled' /\ \A i \in Ids : Tracked(i)'
    <3>1. \A i : InTask(i) => Done(i)'
      BY <2>4 DEF SaveFails, InTask, Done
    <3> QED BY <1>0, <1>1, <1>5, <1>8, <1>13, <2>1, <2>2, <2>4, <3>1, TaskTracks
  <2> QED BY <1>16, <2>2, <2>3, <2>4 DEF FillSave
<1> QED BY <1>9, <1>10, <1>11, <1>12, <1>14, <1>15, <1>16 DEF TaskStep

LEMMA OthersTracked ==
  ASSUME Typed, Counted, Settled, [Next]_vars, ExpiryStep \/ Age \/ Stop \/ UNCHANGED vars
  PROVE  Settled'
<1>0. RuntimeOK /\ queue \in Seq(Entries)
  BY DEF Typed, TypeOK, PoolOK
<1>1. UNCHANGED <<client, task, out>>
  BY DEF ExpiryStep, ExpiryScan, ExpiryTerminate, ExpiryUpdate, Age, Stop, vars
<1>2. \A i : InQueue(i)' <=> InQueue(i)
  <2>1. CASE Age BY <1>0, <2>1, QueueAges
  <2>2. CASE UNCHANGED queue BY <2>2, QueueSame
  <2> QED BY <2>1, <2>2 DEF ExpiryStep, ExpiryScan, ExpiryTerminate, ExpiryUpdate, Stop, vars
<1>3. Len(queue') = Len(queue) /\ Len(queue) \in Nat
  <2>1. CASE Age BY <1>0, <2>1, QueueAges, LenProperties
  <2>2. CASE UNCHANGED queue BY <1>0, <2>2, LenProperties
  <2> QED BY <2>1, <2>2 DEF ExpiryStep, ExpiryScan, ExpiryTerminate, ExpiryUpdate, Stop, vars
<1>4. \A i \in Ids : Steady(i)
  <2>1. ASSUME NEW x \in Ids, ExpiryTerminate(x), NEW i \in Ids PROVE Steady(i)
    BY <1>0, <2>1 DEF ExpiryTerminate, RuntimeOK, Steady, Removable
  <2>2. CASE UNCHANGED <<box, kind, leaked>>
    BY <2>2, SteadySame
  <2> QED BY <2>1, <2>2 DEF ExpiryStep, ExpiryScan, ExpiryUpdate, Age, Stop, vars
<1>5. \A i \in Ids : Tracked(i)'
  BY <1>1, <1>2, <1>4, TaskSame, TaskTracks DEF Settled
<1>6. CallsSettled' /\ TaskSettled'
  BY <1>1, <1>3, CallsStaySettled, TaskStaysSettled DEF Settled
<1> QED BY <1>5, <1>6 DEF Settled

\* A podman container that exists is in the queue, with a caller or in the
\* hands of a call or the refill task, unless a call on it failed: no pool
\* operation, error path or double sandbox_terminate forgets one.  The refill
\* loop needs min_idle <= max_idle for it: its branch for a full queue drops
\* the sandbox it has just saved.
THEOREM ContainersAreTracked == MinIdle <= MaxIdle => (Spec => []NoForgottenContainer)
<1> SUFFICES ASSUME MinIdle <= MaxIdle PROVE Spec => []NoForgottenContainer
  OBVIOUS
<1>1. Init => Settled
  <2> SUFFICES ASSUME Init PROVE Settled
    OBVIOUS
  <2>1. \A i \in Ids : Tracked(i)
    BY DEF Init, Tracked, Removable
  <2>2. CallsSettled
    BY DEF Init, Idle, CallsSettled, CallSettled
  <2>3. TaskSettled
    BY DEF Init, Waiting, TaskSettled
  <2> QED BY <2>1, <2>2, <2>3 DEF Settled
<1>2. Typed /\ Counted /\ Settled /\ [Next]_vars => Settled'
  BY CallsTracked, TaskTracked, OthersTracked DEF Next, Gateway, Exited
<1>3. Settled => NoForgottenContainer
  BY InPlaces DEF Settled, Tracked, NoForgottenContainer
<1> QED BY <1>1, <1>2, <1>3, Inductive, PTL DEF Spec
==============================================================================
