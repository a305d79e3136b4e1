---------------------------- MODULE CommandRouting ----------------------------
(***************************************************************************)
(* Commands on their way to a worker and back: the CommandRouter half of   *)
(* RegistryService (registry.rs: collect_responses, the route_* methods,   *)
(* the reader task of command_stream, circuit breaker, rate limiter) and   *)
(* the command loop of the worker (bastion-worker main.rs).                *)
(*                                                                         *)
(* There is one key of the registry's map, under which the worker opens    *)
(* one command stream after the other (WorkerSession says which key that   *)
(* is).  A call's command id is drawn again once nothing refers to it.     *)
(***************************************************************************)
EXTENDS Integers, Sequences, FiniteSets

CONSTANTS
  Calls,        \* command ids: commands that may be under way at once
  Ops,          \* the operations the callers use
  MaxSessions,  \* bound: command streams the worker opens
  MaxChunks,    \* bound: messages that carry one file
  Inbox,        \* capacity of the response channel of a command (16)
  Outbox,       \* capacity of the command channel of a session (256)
  Permits,      \* MAX_CONCURRENT_COMMANDS of the worker (4)
  Burst,        \* tokens of a full TokenBucket (20)
  Threshold     \* consecutive failures that open the circuit (3)

ASSUME OpsAssumption == Ops \subseteq {"run", "stream", "write", "read", "list"}
ASSUME RoutingBoundsAssumption ==
  /\ MaxSessions \in Nat /\ MaxChunks \in Nat /\ Burst \in Nat
  /\ Inbox \in Nat \ {0} /\ Outbox \in Nat \ {0} /\ Permits \in Nat \ {0}
  /\ Threshold \in Nat \ {0}
ASSUME CallsFinite == IsFiniteSet(Calls)

Sessions == 1..MaxSessions

VARIABLES
  call,      \* the callers: collect_responses or a stream's forwarding task
  inbox,     \* the response channel of each command
  pending,   \* pending_multi: commands whose responses are wanted
  workers,   \* the session in the registry's map, 0 if none
  session,   \* the command streams: link and circuit breaker
  opened,    \* how many there are
  tokens,    \* the rate limiter of the key
  down,      \* commands sent and not yet taken by the worker, per session
  up,        \* messages of the worker not yet taken by the reader task
  job,       \* the worker's task for each command
  sent       \* history: what the worker sent for each command

routingVars == <<call, inbox, pending, workers, session, opened, tokens, down,
                 up, job, sent>>

Kinds == {"ack", "out", "exit", "error", "chunk", "last", "list"}
\* The gateway's end of a session is gone; "listed": and the watchdog has seen it.
Shut == {"closed", "listed"}
\* collect_responses stops at these.
Terminal == {"exit", "error", "list", "last"}

NoJob == [pc |-> "none", session |-> 0]
Ready == [pc |-> "idle", op |-> "none", handle |-> 0, got |-> <<>>,
          cancel |-> FALSE, reply |-> "none"]

Init ==
  /\ call = [c \in Calls |-> Ready]
  /\ inbox = [c \in Calls |-> <<>>] /\ pending = {}
  /\ workers = 0 /\ opened = 0 /\ tokens = 0
  /\ session = [s \in Sessions |->
       [link |-> "none", failures |-> 0, circuit |-> "closed"]]
  /\ down = [s \in Sessions |-> <<>>] /\ up = [s \in Sessions |-> <<>>]
  /\ job = [c \in Calls |-> NoJob] /\ sent = [c \in Calls |-> <<>>]

------------------------------------------------------------------------------
(* WorkerHandle: the circuit breaker.  Only failures >= Threshold matters,  *)
(* so the count stops there.  Recording is one step here; CircuitBreaker    *)
(* takes it apart.                                                          *)

RecordSuccess(s) ==
  session' = [session EXCEPT ![s].failures = 0, ![s].circuit = "closed"]

Failures(s) ==
  IF session[s].failures < Threshold THEN session[s].failures + 1 ELSE Threshold
Tripped(s) ==
  \/ session[s].circuit = "half"
  \/ session[s].circuit = "closed" /\ Failures(s) >= Threshold
RecordFailure(s) ==
  session' = [session EXCEPT ![s].failures = Failures(s),
                             ![s].circuit = IF Tripped(s) THEN "open"
                                            ELSE session[s].circuit]

\* circuit_open_until has passed: 30 seconds after the circuit opened.
CircuitExpires(s) ==
  /\ session[s].circuit = "open"
  /\ session' = [session EXCEPT ![s].circuit = "half"]
  /\ UNCHANGED <<call, inbox, pending, workers, opened, tokens, down, up, job,
                 sent>>

\* TokenBucket: time gives a token back.
Refill ==
  /\ workers # 0 /\ tokens < Burst
  /\ tokens' = tokens + 1
  /\ UNCHANGED <<call, inbox, pending, workers, session, opened, down, up, job,
                 sent>>

------------------------------------------------------------------------------
(* The gateway's side of a command.                                         *)

\* Nothing refers to the command id any more: the call draws it as a new one.
Unused(c) ==
  /\ call[c].pc = "idle" /\ job[c] = NoJob
  /\ \A s \in Sessions :
       /\ \A k \in 1..Len(down[s]) : down[s][k] # c
       /\ \A k \in 1..Len(up[s]) : up[s][k].cmd # c

Reply(c, r) ==
  call' = [call EXCEPT ![c].pc = "idle", ![c].reply = r, ![c].handle = 0,
                       ![c].cancel = FALSE]

Refused(c, op, r) ==
  call' = [call EXCEPT ![c] = [Ready EXCEPT !.op = op, !.reply = r]]

\* Up to the first await: look the worker up, ask its circuit breaker and the
\* rate limiter, and enter the response channel in pending_multi.
Route(c, op) ==
  /\ Unused(c)
  /\ \/ /\ workers # 0 => session[workers].circuit = "open"
        /\ Refused(c, op, "not_found")
        /\ UNCHANGED <<pending, tokens>>
     \/ /\ workers # 0 /\ session[workers].circuit # "open" /\ tokens = 0
        /\ Refused(c, op, "limited")
        /\ UNCHANGED <<pending, tokens>>
     \/ /\ workers # 0 /\ session[workers].circuit # "open" /\ tokens > 0
        /\ tokens' = tokens - 1
        /\ pending' = pending \cup {c}
        /\ call' = [call EXCEPT ![c] =
             [pc |-> "send", op |-> op, handle |-> workers, got |-> <<>>,
              cancel |-> FALSE, reply |-> "none"]]
  /\ inbox' = [inbox EXCEPT ![c] = <<>>]
  /\ sent' = [sent EXCEPT ![c] = <<>>]
  /\ UNCHANGED <<workers, session, opened, down, up, job>>

\* Mutant: a send that failed is tried again on the same handle.
SendRetries(c) ==
  /\ call[c].pc = "send"
  /\ LET s == call[c].handle IN
       \/ /\ session[s].link \notin Shut /\ Len(down[s]) < Outbox
          /\ down' = [down EXCEPT ![s] = Append(down[s], c)]
          /\ call' = [call EXCEPT ![c].pc =
               IF call[c].op = "stream" THEN "forward" ELSE "collect"]
          /\ UNCHANGED session
       \/ session[s].link \in Shut /\ RecordFailure(s) /\ UNCHANGED <<call, down>>
  /\ UNCHANGED <<inbox, pending, workers, opened, tokens, up, job, sent>>

\* cmd_tx.send().await, on the handle that was cloned: it fails on a closed
\* channel, waits on a full one, and cannot tell that the worker has gone.
Send(c) ==
  /\ call[c].pc = "send"
  /\ LET s == call[c].handle IN
       \/ /\ session[s].link \notin Shut /\ Len(down[s]) < Outbox
          /\ down' = [down EXCEPT ![s] = Append(down[s], c)]
          /\ call' = [call EXCEPT ![c].pc =
               IF call[c].op = "stream" THEN "forward" ELSE "collect"]
          /\ UNCHANGED <<pending, session>>
       \/ /\ session[s].link \in Shut
          /\ RecordFailure(s)
          /\ pending' = pending \ {c}
          /\ Reply(c, "disconnected")
          /\ UNCHANGED down
  /\ UNCHANGED <<inbox, workers, opened, tokens, up, job, sent>>

\* What the route_* methods make of the messages: an error message fails them,
\* anything else is success.
Result(m) == IF m = "error" THEN "error" ELSE "ok"

\* rx.recv() in collect_responses, up to its end when the message is terminal.
Collect(c) ==
  /\ call[c].pc = "collect" /\ inbox[c] # <<>>
  /\ LET m == Head(inbox[c]) IN
       \/ /\ m \in Terminal
          /\ RecordSuccess(call[c].handle)
          /\ pending' = pending \ {c}
          /\ inbox' = [inbox EXCEPT ![c] = <<>>]
          /\ call' = [call EXCEPT ![c] =
               [pc |-> "idle", op |-> call[c].op, handle |-> 0,
                got |-> Append(call[c].got, m),
                cancel |-> FALSE, reply |-> Result(m)]]
       \/ /\ m \notin Terminal
          /\ inbox' = [inbox EXCEPT ![c] = Tail(inbox[c])]
          /\ call' = [call EXCEPT ![c].got = Append(call[c].got, m)]
          /\ UNCHANGED <<pending, session>>
  /\ UNCHANGED <<workers, opened, tokens, down, up, job, sent>>

\* Mutant: the entry of a command that timed out stays.
TimeoutKeepsEntry(c) ==
  /\ call[c].pc = "collect"
  /\ RecordFailure(call[c].handle)
  /\ Reply(c, "timeout")
  /\ UNCHANGED <<pending, inbox, workers, opened, tokens, down, up, job, sent>>

\* Mutant: the failure is booked on the handle now registered under the key.
TimeoutBlamesCurrent(c) ==
  /\ call[c].pc = "collect"
  /\ RecordFailure(IF workers # 0 THEN workers ELSE call[c].handle)
  /\ pending' = pending \ {c}
  /\ inbox' = [inbox EXCEPT ![c] = <<>>]
  /\ Reply(c, "timeout")
  /\ UNCHANGED <<workers, opened, tokens, down, up, job, sent>>

\* tokio::time::timeout: the receiver is dropped, then the entry removed.
Timeout(c) ==
  /\ call[c].pc = "collect"
  /\ RecordFailure(call[c].handle)
  /\ pending' = pending \ {c}
  /\ inbox' = [inbox EXCEPT ![c] = <<>>]
  /\ Reply(c, "timeout")
  /\ UNCHANGED <<workers, opened, tokens, down, up, job, sent>>

\* sandbox_cancel sets the flag of a streaming command.  The provider then
\* kills the container, which is a Break of the session.
Cancel(c) ==
  /\ call[c].pc = "forward" /\ ~call[c].cancel
  /\ call' = [call EXCEPT ![c].cancel = TRUE]
  /\ UNCHANGED <<inbox, pending, workers, session, opened, tokens, down, up, job,
                 sent>>

\* The task behind route_run_command_stream and its consumer in
\* sandbox_run_stream, which looks at the flag whenever a chunk arrives and then
\* drops the stream; the task finds out when it has the next chunk for it.
Forward(c) ==
  /\ call[c].pc \in {"forward", "drain"} /\ inbox[c] # <<>>
  /\ LET m == Head(inbox[c]) IN
       \/ /\ m = "ack" \/ (m = "out" /\ call[c].pc = "forward" /\ ~call[c].cancel)
          /\ inbox' = [inbox EXCEPT ![c] = Tail(inbox[c])]
          /\ call' = [call EXCEPT ![c].got = Append(call[c].got, m)]
          /\ UNCHANGED pending
       \/ /\ m = "out" /\ call[c].pc = "forward" /\ call[c].cancel
          /\ inbox' = [inbox EXCEPT ![c] = Tail(inbox[c])]
          /\ call' = [call EXCEPT ![c].pc = "drain", ![c].reply = "cancelled"]
          /\ UNCHANGED pending
       \/ /\ m # "ack" /\ (m = "out" => call[c].pc = "drain")
          /\ pending' = pending \ {c}
          /\ inbox' = [inbox EXCEPT ![c] = <<>>]
          /\ call' = [call EXCEPT ![c] =
               [pc |-> "idle", op |-> call[c].op, handle |-> 0,
                got |-> Append(call[c].got, m), cancel |-> FALSE,
                reply |-> IF call[c].cancel THEN "cancelled" ELSE Result(m)]]
  /\ UNCHANGED <<workers, session, opened, tokens, down, up, job, sent>>

\* Mutant: try_send, which drops a message the channel has no room for.
ReadDropsWhenFull(s) ==
  /\ up[s] # <<>>
  /\ up' = [up EXCEPT ![s] = Tail(up[s])]
  /\ LET m == Head(up[s]) IN
       inbox' = IF m.cmd \in pending /\ Len(inbox[m.cmd]) < Inbox
                THEN [inbox EXCEPT ![m.cmd] = Append(inbox[m.cmd], m.kind)]
                ELSE inbox
  /\ UNCHANGED <<call, pending, workers, session, opened, tokens, down, job,
                 sent>>

\* The reader task: route a message to the command that waits for it, waiting
\* for room in its channel, or drop it.
Read(s) ==
  /\ up[s] # <<>>
  /\ up' = [up EXCEPT ![s] = Tail(up[s])]
  /\ LET m == Head(up[s]) IN
       \/ /\ m.cmd \in pending /\ Len(inbox[m.cmd]) < Inbox
          /\ inbox' = [inbox EXCEPT ![m.cmd] = Append(inbox[m.cmd], m.kind)]
       \/ m.cmd \notin pending /\ UNCHANGED inbox
  /\ UNCHANGED <<call, pending, workers, session, opened, tokens, down, job,
                 sent>>

------------------------------------------------------------------------------
(* Sessions.                                                                *)

\* A new command stream: a new handle under the key and a new rate limiter.
Connect ==
  /\ opened < MaxSessions /\ \A s \in Sessions : session[s].link # "live"
  /\ opened' = opened + 1
  /\ session' = [session EXCEPT ![opened + 1].link = "live"]
  /\ workers' = opened + 1
  /\ tokens' = Burst
  /\ UNCHANGED <<call, inbox, pending, down, up, job, sent>>

\* The connection breaks: what the gateway had not received is lost.  The tasks
\* of the worker run on, unless the worker died.
Break(s) ==
  /\ session[s].link = "live"
  /\ session' = [session EXCEPT ![s].link = "half"]
  /\ \E n \in 0..Len(up[s]) : up' = [up EXCEPT ![s] = SubSeq(up[s], 1, n)]
  /\ \/ UNCHANGED job
     \/ job' = [c \in Calls |-> NoJob]
  /\ UNCHANGED <<call, inbox, pending, workers, opened, tokens, down, sent>>

\* The gateway drops its end, and with it the receiver of the command channel.
Notice(s) ==
  /\ session[s].link = "half"
  /\ session' = [session EXCEPT ![s].link = "closed"]
  /\ down' = [down EXCEPT ![s] = <<>>]
  /\ UNCHANGED <<call, inbox, pending, workers, opened, tokens, up, job, sent>>

\* The watchdog lists the keys of handles whose channel is closed.
WatchdogScan ==
  /\ workers # 0 /\ session[workers].link = "closed"
  /\ \A s \in Sessions : session[s].link # "listed"
  /\ session' = [session EXCEPT ![workers].link = "listed"]
  /\ UNCHANGED <<call, inbox, pending, workers, opened, tokens, down, up, job,
                 sent>>

\* It removes what is under the key then, a newer handle too.
WatchdogRemove(s) ==
  /\ session[s].link = "listed"
  /\ session' = [session EXCEPT ![s].link = "closed"]
  /\ workers' = 0
  /\ UNCHANGED <<call, inbox, pending, opened, tokens, down, up, job, sent>>

------------------------------------------------------------------------------
(* The worker's command loop.                                               *)

\* What the worker sends on the session's channel is lost if the session is.
Emit(c, ms) ==
  /\ sent' = [sent EXCEPT ![c] = sent[c] \o ms]
  /\ LET s == job[c].session IN
       up' = IF session[s].link = "live"
             THEN [up EXCEPT ![s] = up[s] \o [k \in 1..Len(ms) |->
                                                [cmd |-> c, kind |-> ms[k]]]]
             ELSE up

\* stream.message(): a task is spawned for the command.
Take(s) ==
  /\ session[s].link = "live" /\ down[s] # <<>>
  /\ down' = [down EXCEPT ![s] = Tail(down[s])]
  /\ job' = [job EXCEPT ![Head(down[s])] = [pc |-> "permit", session |-> s]]
  /\ UNCHANGED <<call, inbox, pending, workers, session, opened, tokens, up,
                 sent>>

Running(s) == {c \in Calls : job[c].pc = "run" /\ job[c].session = s}

\* The semaphore belongs to the session's loop.  A run is acknowledged when it
\* starts.
Start(c) ==
  /\ job[c].pc = "permit"
  /\ Cardinality(Running(job[c].session)) < Permits
  /\ job' = [job EXCEPT ![c].pc = "run"]
  /\ Emit(c, IF call[c].op \in {"run", "stream"} THEN <<"ack">> ELSE <<>>)
  /\ UNCHANGED <<call, inbox, pending, workers, session, opened, tokens, down>>

Chunks(n, m) == [k \in 1..(n + m) |-> IF k <= n THEN "chunk" ELSE "last"]
\* handle_read marks a chunk as the last one by the size the file had when it
\* was opened: an empty file has no chunk at all, one that shrinks no last one,
\* one that grows several.
ReadMessages ==
  {Chunks(n, m) : n \in 0..MaxChunks, m \in 0..2}
    \cup {Chunks(n, 0) \o <<"error">> : n \in 0..MaxChunks}

\* What a command's task sends at its end.
RunMessages == {<<"exit">>, <<"out", "exit">>, <<"out", "out", "exit">>, <<"error">>}
WriteMessages == {<<"ack">>, <<"error">>}
ListMessages == {<<"list">>, <<"error">>}
Messages(op) ==
  CASE op \in {"run", "stream"} -> RunMessages
    [] op = "write" -> WriteMessages
    [] op = "read" -> ReadMessages
    [] op = "list" -> ListMessages

Finish(c) ==
  /\ job[c].pc = "run"
  /\ \E ms \in Messages(call[c].op) : Emit(c, ms)
  /\ job' = [job EXCEPT ![c] = NoJob]
  /\ UNCHANGED <<call, inbox, pending, workers, session, opened, tokens, down>>

------------------------------------------------------------------------------
CallStep(c) == Send(c) \/ Collect(c) \/ Timeout(c) \/ Forward(c)
WorkerStep == (\E s \in Sessions : Take(s)) \/ (\E c \in Calls : Start(c) \/ Finish(c))

Next ==
  \/ \E c \in Calls : (\E op \in Ops : Route(c, op)) \/ Cancel(c) \/ CallStep(c)
  \/ \E s \in Sessions : \/ Read(s) \/ Break(s) \/ Notice(s) \/ CircuitExpires(s)
                         \/ WatchdogRemove(s)
  \/ WorkerStep \/ Connect \/ WatchdogScan \/ Refill

Spec == Init /\ [][Next]_routingVars

\* Calls, the reader tasks and the worker keep running, timers fire, senders
\* of a tokio channel get its slots in the order they came, and the transport
\* either delivers or notices that its peer has gone.
Fairness ==
  /\ \A c \in Calls : WF_routingVars(CallStep(c)) /\ SF_routingVars(Send(c))
  /\ \A s \in Sessions :
       /\ WF_routingVars(Read(s)) /\ WF_routingVars(Take(s))
       /\ WF_routingVars(Notice(s))
FairSpec == Spec /\ Fairness

------------------------------------------------------------------------------
\* pending_multi holds exactly the commands somebody waits for, on every way
\* out of collect_responses and of the forwarding task: no entry is leaked, and
\* none is removed while its messages are wanted.
PendingOwned == pending = {c \in Calls : call[c].pc # "idle"}

\* What a call has received, and what waits in its channel, is what the worker
\* sent for that command, in order and without a gap: whatever was lost with a
\* session is lost from the end, so an answer that is complete is whole.
IsStart(p, q) == Len(p) <= Len(q) /\ p = SubSeq(q, 1, Len(p))
NoGap ==
  \A c \in Calls :
    /\ call[c].pc \in {"send", "collect", "forward"}
         => IsStart(call[c].got \o inbox[c], sent[c])
    /\ call[c].reply \in {"ok", "error"} => IsStart(call[c].got, sent[c])

\* A result is booked on the session the command was sent on: late failures of
\* an old session neither open nor close the circuit of the one that replaced it.
Booked(s) ==
  \/ session'[s].failures # session[s].failures
  \/ session'[s].circuit # session[s].circuit /\ session'[s].circuit # "half"
BlameOwnSession ==
  [][ \A s \in Sessions : Booked(s) =>
        \E c \in Calls : call[c].handle = s /\ call'[c].pc = "idle" ]_routingVars

\* A command as its caller and the worker see it: what the gateway's channels and
\* the worker's tasks make of one command id.
Sent(c) == \E s \in Sessions : \E k \in 1..Len(down[s]) : down[s][k] = c
Phase(c) ==
  CASE call[c].pc \in {"idle", "drain"} -> "idle"
    [] call[c].pc = "send" -> "open"
    [] OTHER -> "sent"
Work(c) ==
  CASE job[c].pc = "run" -> "started"
    [] job[c].pc = "permit" \/ (job[c].pc = "none" /\ Sent(c)) -> "queued"
    [] OTHER -> "none"
Replied(c) == call[c].reply \in {"none", "ok", "error"}
Had(c) == IF Replied(c) THEN call[c].got ELSE <<>>
Verdict(c) == IF Replied(c) THEN call[c].reply ELSE "failed"
Command(c) == INSTANCE RemoteCommand WITH
  phase <- Phase(c), work <- Work(c), made <- sent[c], had <- Had(c),
  verdict <- Verdict(c)

\* Every command id follows RemoteCommand, whatever timeouts, cancels, broken
\* sessions and other commands come between: sent once, started at most once,
\* answered by the first terminal message the worker sent for it and by nothing
\* else.
FollowsCommand ==
  /\ \A c \in Calls : Command(c)!Init
  /\ [][\A c \in Calls : [Command(c)!Next]_(Command(c)!commandVars)]_routingVars

\* Every command but a streamed one is answered, whatever becomes of the worker.
CallsAnswered ==
  \A c \in Calls : call[c].pc \in {"send", "collect"}
                     ~> call[c].pc \in {"idle", "forward", "drain"}

\* The reader task waits for a slow command only so long: one command does not
\* hold up the answers of all others for ever.
Blocked(s) ==
  /\ up[s] # <<>> /\ Head(up[s]).cmd \in pending
  /\ Len(inbox[Head(up[s]).cmd]) >= Inbox
ReaderUnblocked == \A s \in Sessions : Blocked(s) ~> ~Blocked(s)

==============================================================================
