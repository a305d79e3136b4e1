------------------------ MODULE CommandRoutingProofs ------------------------
(***************************************************************************)
(* Theorems about CommandRouting, for every set of calls and operations,   *)
(* every capacity of the channels and every number of sessions.            *)
(***************************************************************************)
EXTENDS CommandRouting, SequenceTheorems, TLAPS

Replies == {"none", "not_found", "limited", "disconnected", "timeout", "ok",
            "error", "cancelled"}
CallRecords ==
  [pc : {"idle", "send", "collect", "forward", "drain"},
   op : Ops \cup {"none"}, handle : 0..MaxSessions, got : Seq(Kinds),
   cancel : BOOLEAN, reply : Replies]
SessionRecords ==
  [link : {"none", "live", "half", "closed", "listed"}, failures : Nat,
   circuit : {"closed", "open", "half"}]
Message == [cmd : Calls, kind : Kinds]

CallsTyped == call \in [Calls -> CallRecords] /\ pending \subseteq Calls
ChannelsTyped ==
  /\ inbox \in [Calls -> Seq(Kinds)]
  /\ down \in [Sessions -> Seq(Calls)]
  /\ up \in [Sessions -> Seq(Message)]
  /\ sent \in [Calls -> Seq(Kinds)]
SessionsTyped ==
  /\ session \in [Sessions -> SessionRecords]
  /\ opened \in 0..MaxSessions /\ workers \in 0..opened /\ tokens \in Nat
  /\ \A s \in Sessions : session[s].link = "none" <=> s > opened
JobsTyped ==
  job \in [Calls -> [pc : {"none", "permit", "run"}, session : 0..MaxSessions]]

\* A call under way knows its operation and has the handle of an open session;
\* so has whatever the worker still does for a command.
CallsHold ==
  \A c \in Calls :
    /\ call[c].pc # "idle" => call[c].op \in Ops /\ call[c].handle \in 1..opened
    /\ call[c].pc = "drain" => call[c].cancel
JobsHold ==
  \A c \in Calls :
    job[c] # NoJob => call[c].op \in Ops /\ job[c].session \in Sessions
DownHolds ==
  \A s \in Sessions : \A k \in 1..Len(down[s]) : call[down[s][k]].op \in Ops

Typed == /\ CallsTyped /\ ChannelsTyped /\ SessionsTyped /\ JobsTyped
         /\ CallsHold /\ JobsHold /\ DownHolds

USE OpsAssumption, RoutingBoundsAssumption

------------------------------------------------------------------------------
(* Type correctness.                                                        *)

\* What a command's task sends is a sequence of messages.
LEMMA MessagesTyped ==
  ASSUME NEW op \in Ops, NEW ms \in Messages(op)
  PROVE  ms \in Seq(Kinds)
<1>1. \A n \in 0..MaxChunks, m \in 0..2 : Chunks(n, m) \in Seq(Kinds)
  <2> SUFFICES ASSUME NEW n \in 0..MaxChunks, NEW m \in 0..2
               PROVE  Chunks(n, m) \in Seq(Kinds)
    OBVIOUS
  <2>1. n + m \in Nat OBVIOUS
  <2>2. \A k \in 1..(n + m) : (IF k <= n THEN "chunk" ELSE "last") \in Kinds
    BY DEF Kinds
  <2>3. QED BY <2>1, <2>2, IsASeq DEF Chunks
<1>2. \A ms1 \in ReadMessages : ms1 \in Seq(Kinds)
  <2>1. <<"error">> \in Seq(Kinds) BY DEF Kinds
  <2>2. \A n \in 0..MaxChunks : Chunks(n, 0) \o <<"error">> \in Seq(Kinds)
    BY <1>1, <2>1, ConcatProperties
  <2>3. ASSUME NEW r \in {Chunks(n, m) : n \in 0..MaxChunks, m \in 0..2}
        PROVE  r \in Seq(Kinds)
    <3>1. PICK n \in 0..MaxChunks, m \in 0..2 : r = Chunks(n, m) OBVIOUS
    <3>2. Chunks(n, m) \in Seq(Kinds) BY <1>1
    <3>3. QED BY <3>1, <3>2
  <2>4. ASSUME NEW r \in {Chunks(n, 0) \o <<"error">> : n \in 0..MaxChunks}
        PROVE  r \in Seq(Kinds)
    <3>1. PICK n \in 0..MaxChunks : r = Chunks(n, 0) \o <<"error">> OBVIOUS
    <3>2. QED BY <2>2, <3>1
  <2>5. QED BY <2>3, <2>4 DEF ReadMessages
<1>3. CASE op \in {"run", "stream"}
  <2>1. Messages(op) = RunMessages BY <1>3 DEF Messages
  <2>2. /\ <<"exit">> \in Seq(Kinds) /\ <<"error">> \in Seq(Kinds)
        /\ <<"out", "exit">> \in Seq(Kinds) /\ <<"out", "out", "exit">> \in Seq(Kinds)
    BY DEF Kinds
  <2>3. QED BY <2>1, <2>2 DEF RunMessages
<1>4. CASE op = "write"
  BY <1>4 DEF Messages, WriteMessages, Kinds
<1>5. CASE op = "read"
  BY <1>2, <1>5 DEF Messages
<1>6. CASE op = "list"
  <2>1. Messages(op) = ListMessages BY <1>6 DEF Messages
  <2>2. <<"list">> \in Seq(Kinds) /\ <<"error">> \in Seq(Kinds) BY DEF Kinds
  <2>3. QED BY <2>1, <2>2 DEF ListMessages
<1>7. QED BY <1>3, <1>4, <1>5, <1>6

\* The initial state is well typed.
LEMMA InitTyped == Init => Typed
<1> SUFFICES ASSUME Init PROVE Typed OBVIOUS
<1>0. <<>> \in Seq(Kinds) /\ <<>> \in Seq(Calls) /\ <<>> \in Seq(Message)
  OBVIOUS
<1>1. CallsTyped
  BY <1>0 DEF Init, CallsTyped, CallRecords, Ready, Replies
<1>2. ChannelsTyped BY <1>0 DEF Init, ChannelsTyped
<1>3. SessionsTyped BY DEF Init, SessionsTyped, SessionRecords, Sessions
<1>4. JobsTyped BY DEF Init, JobsTyped, NoJob
<1>5. CallsHold /\ JobsHold /\ DownHolds
  BY DEF Init, CallsHold, JobsHold, DownHolds, Ready
<1>6. QED BY <1>1, <1>2, <1>3, <1>4, <1>5 DEF Typed

\* The circuit breaker's bookkeeping keeps the sessions typed.
LEMMA BookingTyped ==
  ASSUME SessionsTyped, NEW s \in Sessions, RecordSuccess(s) \/ RecordFailure(s),
         UNCHANGED <<opened, workers, tokens>>
  PROVE  SessionsTyped'
<1>1. session[s] \in SessionRecords BY DEF SessionsTyped
<1>2. Failures(s) \in Nat BY <1>1 DEF SessionRecords, Failures
<1>3. session' \in [Sessions -> SessionRecords]
  BY <1>1, <1>2 DEF SessionsTyped, SessionRecords, RecordSuccess, RecordFailure
<1>4. \A t \in Sessions : session'[t].link = session[t].link
  BY DEF SessionsTyped, SessionRecords, RecordSuccess, RecordFailure
<1>5. QED BY <1>3, <1>4 DEF SessionsTyped

\* The state of one call replaced by another that holds what it must.
LEMMA CallReplaced ==
  ASSUME Typed, NEW c \in Calls, NEW r \in CallRecords,
         call' = [call EXCEPT ![c] = r], pending' \subseteq Calls,
         UNCHANGED <<opened, job>>,
         r.op \in Ops, r.pc # "idle" => r.handle \in 1..opened,
         r.pc = "drain" => r.cancel
  PROVE  /\ CallsTyped' /\ CallsHold' /\ JobsTyped' /\ JobsHold'
         /\ \A d \in Calls : call[d].op \in Ops => call'[d].op \in Ops
         /\ UNCHANGED down => DownHolds'
<1>0. /\ call \in [Calls -> CallRecords] /\ CallsHold /\ JobsTyped /\ JobsHold
      /\ DownHolds /\ down \in [Sessions -> Seq(Calls)]
  BY DEF Typed, CallsTyped, ChannelsTyped
<1>1. CallsTyped' BY <1>0 DEF CallsTyped
<1>2. CallsHold' BY <1>0 DEF CallsHold
<1>3. \A d \in Calls : call[d].op \in Ops => call'[d].op \in Ops BY <1>0
<1>4. JobsTyped' /\ JobsHold' BY <1>0, <1>3 DEF JobsTyped, JobsHold
<1>5. ASSUME UNCHANGED down PROVE DownHolds'
  <2> SUFFICES ASSUME NEW s \in Sessions, NEW k \in 1..Len(down[s])
               PROVE  call'[down[s][k]].op \in Ops
    BY <1>5 DEF DownHolds
  <2>1. down[s] \in Seq(Calls) BY <1>0
  <2>2. down[s][k] \in Calls BY <2>1
  <2>3. call[down[s][k]].op \in Ops BY <1>0 DEF DownHolds
  <2>4. QED BY <1>3, <2>2, <2>3
<1>6. QED BY <1>1, <1>2, <1>3, <1>4, <1>5

\* Route: a command refused, or one that enters pending_multi.
LEMMA RouteTyped ==
  ASSUME Typed, NEW c \in Calls, NEW op \in Ops, Route(c, op)
  PROVE  Typed'
<1>0. CallsTyped /\ ChannelsTyped /\ SessionsTyped BY DEF Typed
<1>e. <<>> \in Seq(Kinds) OBVIOUS
<1>1. ChannelsTyped' BY <1>0, <1>e DEF Route, ChannelsTyped
<1>2. SessionsTyped' BY <1>0 DEF Route, SessionsTyped
<1>3. ASSUME NEW r \in {"not_found", "limited"}, Refused(c, op, r), UNCHANGED pending
      PROVE  Typed'
  <2> DEFINE new == [Ready EXCEPT !.op = op, !.reply = r]
  <2>1. new \in CallRecords /\ new.op = op /\ new.pc = "idle"
    <3> DEFINE r1 == [Ready EXCEPT !.op = op]
    <3>1. r1 \in CallRecords /\ r1.op = op /\ r1.pc = "idle"
      <4>1. Ready \in CallRecords /\ Ready.pc = "idle"
        BY <1>e DEF CallRecords, Ready, Replies
      <4>2. QED BY <4>1 DEF CallRecords
    <3>2. new = [r1 EXCEPT !.reply = r] OBVIOUS
    <3> HIDE DEF r1
    <3>3. QED BY <3>1, <3>2 DEF CallRecords, Replies
  <2>2. pending' \subseteq Calls BY <1>0, <1>3 DEF CallsTyped
  <2>3. call' = [call EXCEPT ![c] = new] BY <1>3 DEF Refused
  <2> HIDE DEF new
  <2>4. QED BY <1>1, <1>2, <2>1, <2>2, <2>3, CallReplaced DEF Route, Typed
<1>4. ASSUME workers # 0, pending' = pending \cup {c},
             call' = [call EXCEPT ![c] =
               [pc |-> "send", op |-> op, handle |-> workers, got |-> <<>>,
                cancel |-> FALSE, reply |-> "none"]]
      PROVE  Typed'
  <2> DEFINE new == [pc |-> "send", op |-> op, handle |-> workers, got |-> <<>>,
                     cancel |-> FALSE, reply |-> "none"]
  <2>0. workers \in 1..opened /\ workers \in 0..MaxSessions
    BY <1>0, <1>4 DEF SessionsTyped
  <2>1. /\ new \in CallRecords /\ new.op = op /\ new.pc = "send"
        /\ new.handle = workers
    BY <1>e, <2>0 DEF CallRecords, Replies
  <2>2. pending' \subseteq Calls BY <1>0, <1>4 DEF CallsTyped
  <2>3. call' = [call EXCEPT ![c] = new] BY <1>4
  <2> HIDE DEF new
  <2>4. QED BY <1>1, <1>2, <2>0, <2>1, <2>2, <2>3, CallReplaced DEF Route, Typed
<1>5. QED BY <1>3, <1>4 DEF Route

\* sandbox_cancel sets a flag.
LEMMA CancelTyped ==
  ASSUME Typed, NEW c \in Calls, Cancel(c)
  PROVE  Typed'
<1>0. CallsTyped /\ ChannelsTyped /\ SessionsTyped /\ CallsHold BY DEF Typed
<1>1. ChannelsTyped' /\ SessionsTyped'
  BY <1>0 DEF Cancel, ChannelsTyped, SessionsTyped
<1> DEFINE new == [call[c] EXCEPT !.cancel = TRUE]
<1>2. /\ new \in CallRecords /\ new.op = call[c].op /\ new.pc = call[c].pc
      /\ new.handle = call[c].handle
  BY <1>0 DEF CallsTyped, CallRecords
<1>3. /\ call[c].op \in Ops /\ call[c].handle \in 1..opened /\ call[c].pc = "forward"
      /\ call' = [call EXCEPT ![c] = new] /\ pending' \subseteq Calls
  BY <1>0 DEF Cancel, CallsHold, CallsTyped
<1> HIDE DEF new
<1>4. QED BY <1>1, <1>2, <1>3, CallReplaced DEF Cancel, Typed

\* A call that is answered: its handle is gone, its operation is still known.
LEMMA ReplyTyped ==
  ASSUME Typed, NEW c \in Calls, NEW r \in Replies, Reply(c, r), call[c].op \in Ops,
         pending' = pending \ {c}, UNCHANGED <<opened, job, down>>
  PROVE  CallsTyped' /\ CallsHold' /\ JobsTyped' /\ JobsHold' /\ DownHolds'
<1> DEFINE new == [call[c] EXCEPT !.pc = "idle", !.reply = r, !.handle = 0,
                                  !.cancel = FALSE]
<1>1. call[c] \in CallRecords /\ pending' \subseteq Calls
  BY DEF Typed, CallsTyped
<1>2. new \in CallRecords /\ new.op = call[c].op /\ new.pc = "idle"
  <2> DEFINE r1 == [call[c] EXCEPT !.pc = "idle"]
             r2 == [r1 EXCEPT !.reply = r]
             r3 == [r2 EXCEPT !.handle = 0]
             r4 == [r3 EXCEPT !.cancel = FALSE]
  <2>1. r1 \in CallRecords /\ r1.op = call[c].op /\ r1.pc = "idle"
    BY <1>1 DEF CallRecords
  <2>2. ASSUME NEW a \in CallRecords
        PROVE  LET b == [a EXCEPT !.reply = r]
               IN  b \in CallRecords /\ b.op = a.op /\ b.pc = a.pc
    BY DEF CallRecords
  <2>3. ASSUME NEW a \in CallRecords
        PROVE  LET b == [a EXCEPT !.handle = 0]
               IN  b \in CallRecords /\ b.op = a.op /\ b.pc = a.pc
    BY DEF CallRecords
  <2>4. ASSUME NEW a \in CallRecords
        PROVE  LET b == [a EXCEPT !.cancel = FALSE]
               IN  b \in CallRecords /\ b.op = a.op /\ b.pc = a.pc
    BY DEF CallRecords
  <2>5. new = r4 OBVIOUS
  <2> HIDE DEF r1
  <2>6. r2 \in CallRecords /\ r2.op = r1.op /\ r2.pc = r1.pc BY <2>1, <2>2
  <2> HIDE DEF r2
  <2>7. r3 \in CallRecords /\ r3.op = r2.op /\ r3.pc = r2.pc BY <2>6, <2>3
  <2> HIDE DEF r3
  <2>8. r4 \in CallRecords /\ r4.op = r3.op /\ r4.pc = r3.pc BY <2>7, <2>4
  <2> HIDE DEF r4, new
  <2>9. QED BY <2>1, <2>5, <2>6, <2>7, <2>8
<1>3. call' = [call EXCEPT ![c] = new] BY DEF Reply
<1> HIDE DEF new
<1>4. QED BY <1>1, <1>2, <1>3, CallReplaced

\* cmd_tx.send() puts the command into the channel or fails.
LEMMA SendTyped ==
  ASSUME Typed, NEW c \in Calls, Send(c)
  PROVE  Typed'
<1>0. /\ CallsTyped /\ ChannelsTyped /\ SessionsTyped /\ DownHolds
      /\ call[c].handle \in Sessions /\ call[c].op \in Ops
      /\ call[c].handle \in 1..opened
  BY DEF Send, Typed, CallsHold, SessionsTyped, Sessions
<1>1. CASE /\ down' = [down EXCEPT ![call[c].handle] =
                                     Append(down[call[c].handle], c)]
           /\ call' = [call EXCEPT ![c].pc =
                   IF call[c].op = "stream" THEN "forward" ELSE "collect"]
           /\ UNCHANGED <<pending, session>>
  <2> DEFINE new == [call[c] EXCEPT !.pc =
                       IF call[c].op = "stream" THEN "forward" ELSE "collect"]
  <2>1. /\ new \in CallRecords /\ new.op = call[c].op
        /\ new.pc \in {"forward", "collect"} /\ new.handle = call[c].handle
    BY <1>0 DEF CallsTyped, CallRecords
  <2>2. call' = [call EXCEPT ![c] = new] /\ pending' \subseteq Calls
    BY <1>0, <1>1 DEF CallsTyped
  <2> HIDE DEF new
  <2>3. /\ CallsTyped' /\ CallsHold' /\ JobsTyped' /\ JobsHold'
        /\ \A d \in Calls : call[d].op \in Ops => call'[d].op \in Ops
    BY <1>0, <2>1, <2>2, CallReplaced DEF Send
  <2>4. down \in [Sessions -> Seq(Calls)] /\ ChannelsTyped'
    BY <1>0, <1>1, SMTT(20) DEF Send, ChannelsTyped
  <2>5. SessionsTyped' BY <1>0, <1>1 DEF Send, SessionsTyped
  <2>6. DownHolds'
    <3>1. SUFFICES ASSUME NEW s \in Sessions, NEW k \in 1..Len(down'[s])
                   PROVE  call'[down'[s][k]].op \in Ops
      BY DEF DownHolds
    <3>2. down[s] \in Seq(Calls) BY <2>4
    <3>3. ASSUME k \in 1..Len(down[s]), down'[s][k] = down[s][k]
          PROVE  call'[down'[s][k]].op \in Ops
      <4>1. down[s][k] \in Calls BY <3>2, <3>3
      <4>2. call[down[s][k]].op \in Ops BY <1>0, <3>3 DEF DownHolds
      <4>3. QED BY <2>3, <3>3, <4>1, <4>2
    <3>4. CASE s # call[c].handle
      <4>1. down'[s] = down[s] BY <1>1, <2>4, <3>4
      <4>2. QED BY <3>3, <4>1
    <3>5. CASE s = call[c].handle
      <4>1. down'[s] = Append(down[s], c) BY <1>1, <2>4, <3>5
      <4>2. CASE k = Len(down[s]) + 1
        <5>1. down'[s][k] = c BY <3>2, <4>1, <4>2
        <5>2. QED BY <1>0, <2>3, <5>1
      <4>3. CASE k # Len(down[s]) + 1
        <5>1. k \in 1..Len(down[s]) /\ down'[s][k] = down[s][k]
          BY <3>1, <3>2, <4>1, <4>3
        <5>2. QED BY <3>3, <5>1
      <4>4. QED BY <4>2, <4>3
    <3>6. QED BY <3>4, <3>5
  <2>7. QED BY <2>3, <2>4, <2>5, <2>6 DEF Typed
<1>2. CASE /\ RecordFailure(call[c].handle)
           /\ pending' = pending \ {c}
           /\ Reply(c, "disconnected")
           /\ UNCHANGED down
  <2>1. ChannelsTyped' BY <1>0, <1>2 DEF Send, ChannelsTyped
  <2>2. SessionsTyped' BY <1>0, <1>2, BookingTyped DEF Send
  <2>3. "disconnected" \in Replies BY DEF Replies
  <2>4. QED BY <1>0, <1>2, <2>1, <2>2, <2>3, ReplyTyped DEF Send, Typed
<1>3. QED BY <1>1, <1>2 DEF Send

\* A message taken from the response channel.
LEMMA TakenTyped ==
  ASSUME Typed, NEW c \in Calls, inbox[c] # <<>>
  PROVE  /\ Head(inbox[c]) \in Kinds /\ Tail(inbox[c]) \in Seq(Kinds)
         /\ Append(call[c].got, Head(inbox[c])) \in Seq(Kinds)
<1>1. inbox[c] \in Seq(Kinds) /\ call[c].got \in Seq(Kinds)
  BY DEF Typed, CallsTyped, CallRecords, ChannelsTyped
<1>2. Head(inbox[c]) \in Kinds /\ Tail(inbox[c]) \in Seq(Kinds)
  BY <1>1, HeadTailProperties
<1>3. QED BY <1>1, <1>2, AppendProperties

\* collect_responses takes a message, or stops.
LEMMA CollectTyped ==
  ASSUME Typed, NEW c \in Calls, Collect(c)
  PROVE  Typed'
<1>0. /\ CallsTyped /\ ChannelsTyped /\ SessionsTyped
      /\ call[c].handle \in Sessions /\ call[c].op \in Ops
      /\ call[c].handle \in 1..opened /\ call[c] \in CallRecords
  BY SMTT(30) DEF Collect, Typed, CallsTyped, CallsHold, SessionsTyped, Sessions
<1>1. /\ Head(inbox[c]) \in Kinds /\ Tail(inbox[c]) \in Seq(Kinds)
      /\ Append(call[c].got, Head(inbox[c])) \in Seq(Kinds)
      /\ <<>> \in Seq(Kinds)
  BY TakenTyped DEF Collect
<1>2. ChannelsTyped'
  <2>1. inbox' \in [Calls -> Seq(Kinds)]
    BY <1>0, <1>1 DEF Collect, ChannelsTyped
  <2>2. QED BY <1>0, <2>1 DEF Collect, ChannelsTyped
<1>3. SessionsTyped'
  <2>1. CASE UNCHANGED session BY <1>0, <2>1 DEF Collect, SessionsTyped
  <2>2. CASE RecordSuccess(call[c].handle)
    BY <1>0, <2>2, BookingTyped DEF Collect
  <2>3. QED BY <2>1, <2>2 DEF Collect
<1>4. PICK r \in CallRecords :
        /\ call' = [call EXCEPT ![c] = r] /\ r.op = call[c].op
        /\ r.pc # "idle" => r.pc = "collect" /\ r.handle = call[c].handle
  <2> DEFINE done == [pc |-> "idle", op |-> call[c].op, handle |-> 0,
                      got |-> Append(call[c].got, Head(inbox[c])),
                      cancel |-> FALSE, reply |-> Result(Head(inbox[c]))]
             more == [call[c] EXCEPT !.got = Append(call[c].got, Head(inbox[c]))]
  <2>1. done \in CallRecords /\ done.op = call[c].op /\ done.pc = "idle"
    BY <1>0, <1>1 DEF CallRecords, Replies, Result
  <2>2. /\ more \in CallRecords /\ more.op = call[c].op /\ more.pc = call[c].pc
        /\ more.handle = call[c].handle
    BY <1>0, <1>1 DEF CallRecords
  <2>3. call' = [call EXCEPT ![c] = done] \/ call' = [call EXCEPT ![c] = more]
    BY DEF Collect
  <2>4. call[c].pc = "collect" BY DEF Collect
  <2> HIDE DEF done, more
  <2>5. QED BY <2>1, <2>2, <2>3, <2>4
<1>5. pending' \subseteq Calls BY <1>0 DEF Collect, CallsTyped
<1>6. QED BY <1>0, <1>2, <1>3, <1>4, <1>5, CallReplaced DEF Collect, Typed

\* collect_responses gives up.
LEMMA TimeoutTyped ==
  ASSUME Typed, NEW c \in Calls, Timeout(c)
  PROVE  Typed'
<1>0. /\ CallsTyped /\ ChannelsTyped /\ SessionsTyped
      /\ call[c].handle \in Sessions /\ call[c].op \in Ops
  BY DEF Timeout, Typed, CallsHold, SessionsTyped, Sessions
<1>1. <<>> \in Seq(Kinds) /\ "timeout" \in Replies BY DEF Replies
<1>2. ChannelsTyped' BY <1>0, <1>1 DEF Timeout, ChannelsTyped
<1>3. SessionsTyped' BY <1>0, BookingTyped DEF Timeout
<1>4. QED BY <1>0, <1>1, <1>2, <1>3, ReplyTyped DEF Timeout, Typed

\* The forwarding task of a stream takes a message, drains, or stops.
LEMMA ForwardTyped ==
  ASSUME Typed, NEW c \in Calls, Forward(c)
  PROVE  Typed'
<1>0. /\ CallsTyped /\ ChannelsTyped /\ SessionsTyped
      /\ call[c].op \in Ops /\ call[c].handle \in 1..opened
      /\ call[c] \in CallRecords /\ (call[c].pc = "drain" => call[c].cancel)
  BY DEF Forward, Typed, CallsTyped, CallsHold, SessionsTyped, Sessions
<1>1. /\ Head(inbox[c]) \in Kinds /\ Tail(inbox[c]) \in Seq(Kinds)
      /\ Append(call[c].got, Head(inbox[c])) \in Seq(Kinds)
      /\ <<>> \in Seq(Kinds)
  BY TakenTyped DEF Forward
<1>2. ChannelsTyped'
  <2>1. inbox' \in [Calls -> Seq(Kinds)]
    BY <1>0, <1>1 DEF Forward, ChannelsTyped
  <2>2. QED BY <1>0, <2>1 DEF Forward, ChannelsTyped
<1>3. SessionsTyped' BY <1>0 DEF Forward, SessionsTyped
<1>4. PICK r \in CallRecords :
        /\ call' = [call EXCEPT ![c] = r] /\ r.op = call[c].op
        /\ r.pc # "idle" => r.handle = call[c].handle
        /\ r.pc = "drain" => r.cancel
  <2> DEFINE done == [pc |-> "idle", op |-> call[c].op, handle |-> 0,
                      got |-> Append(call[c].got, Head(inbox[c])), cancel |-> FALSE,
                      reply |-> IF call[c].cancel THEN "cancelled"
                                ELSE Result(Head(inbox[c]))]
             more == [call[c] EXCEPT !.got = Append(call[c].got, Head(inbox[c]))]
             drain == [call[c] EXCEPT !.pc = "drain", !.reply = "cancelled"]
  <2>1. done \in CallRecords /\ done.op = call[c].op /\ done.pc = "idle"
    BY <1>0, <1>1 DEF CallRecords, Replies, Result
  <2>2. /\ more \in CallRecords /\ more.op = call[c].op /\ more.pc = call[c].pc
        /\ more.handle = call[c].handle /\ more.cancel = call[c].cancel
    BY <1>0, <1>1 DEF CallRecords
  <2>3. /\ drain \in CallRecords /\ drain.op = call[c].op
        /\ drain.handle = call[c].handle /\ drain.cancel = call[c].cancel
    BY <1>0, <1>1 DEF CallRecords, Replies
  <2>4. \/ call' = [call EXCEPT ![c] = done] \/ call' = [call EXCEPT ![c] = more]
        \/ call' = [call EXCEPT ![c] = drain] /\ call[c].cancel
    BY DEF Forward
  <2> HIDE DEF done, more, drain
  <2>5. QED BY <1>0, <2>1, <2>2, <2>3, <2>4
<1>5. pending' \subseteq Calls BY <1>0 DEF Forward, CallsTyped
<1>6. QED BY <1>0, <1>2, <1>3, <1>4, <1>5, CallReplaced DEF Forward, Typed

------------------------------------------------------------------------------
(* The sessions and the worker keep the types.                              *)

\* A step that leaves the calls alone leaves what they hold alone, as long as
\* the sessions only grow in number.
LEMMA CallsUntouched ==
  ASSUME Typed, UNCHANGED <<call, pending>>, opened' \in {opened, opened + 1}
  PROVE  CallsTyped' /\ CallsHold'
<1>0. opened \in Nat BY DEF Typed, SessionsTyped
<1>1. QED BY <1>0 DEF Typed, CallsTyped, CallsHold

\* The reader task hands a message over or drops it.
LEMMA ReadTyped ==
  ASSUME Typed, NEW s \in Sessions, Read(s)
  PROVE  Typed'
<1>0. /\ ChannelsTyped /\ SessionsTyped /\ JobsTyped /\ JobsHold /\ DownHolds
      /\ up[s] \in Seq(Message) /\ up[s] # <<>>
  BY DEF Typed, ChannelsTyped, Read
<1>1. Head(up[s]) \in Message /\ Tail(up[s]) \in Seq(Message)
  BY <1>0, HeadTailProperties
<1>2. Head(up[s]).cmd \in Calls /\ Head(up[s]).kind \in Kinds
  BY <1>1 DEF Message
<1>3. inbox[Head(up[s]).cmd] \in Seq(Kinds) BY <1>0, <1>2 DEF ChannelsTyped
<1>4. Append(inbox[Head(up[s]).cmd], Head(up[s]).kind) \in Seq(Kinds)
  BY <1>2, <1>3, AppendProperties
<1>5. up' \in [Sessions -> Seq(Message)] /\ inbox' \in [Calls -> Seq(Kinds)]
  BY <1>0, <1>1, <1>4 DEF Read, ChannelsTyped
<1>6. ChannelsTyped' BY <1>0, <1>5 DEF Read, ChannelsTyped
<1>7. SessionsTyped' BY <1>0 DEF Read, SessionsTyped
<1>8. JobsTyped' /\ JobsHold' /\ DownHolds'
  BY <1>0 DEF Read, JobsTyped, JobsHold, DownHolds
<1>9. CallsTyped' /\ CallsHold' BY CallsUntouched DEF Read
<1>10. QED BY <1>6, <1>7, <1>8, <1>9 DEF Typed

\* A session opens, breaks, is seen to be gone, or is forgotten.
LEMMA SessionTyped ==
  ASSUME Typed,
         \/ \E s \in Sessions : Break(s) \/ Notice(s) \/ CircuitExpires(s) \/ WatchdogRemove(s)
         \/ Connect \/ WatchdogScan \/ Refill
  PROVE  Typed'
<1>0. ChannelsTyped /\ SessionsTyped /\ JobsTyped /\ JobsHold /\ DownHolds
  BY DEF Typed
<1>1. ASSUME NEW s \in Sessions, Break(s) PROVE Typed'
  <2>1. PICK n \in 0..Len(up[s]) : up' = [up EXCEPT ![s] = SubSeq(up[s], 1, n)]
    BY <1>1 DEF Break
  <2>2. up[s] \in Seq(Message) BY <1>0 DEF ChannelsTyped
  <2>3. SubSeq(up[s], 1, n) \in Seq(Message) BY <2>2, SubSeqProperties
  <2>4. ChannelsTyped' BY <1>0, <1>1, <2>1, <2>3 DEF Break, ChannelsTyped
  <2>5. SessionsTyped'
    <3>1. [session[s] EXCEPT !.link = "half"] \in SessionRecords
      BY <1>0 DEF SessionsTyped, SessionRecords
    <3>2. session' = [session EXCEPT ![s] = [session[s] EXCEPT !.link = "half"]]
      BY <1>1 DEF Break
    <3>3. session' \in [Sessions -> SessionRecords]
      BY <1>0, <3>1, <3>2 DEF SessionsTyped
    <3>4. \A t \in Sessions : session'[t].link = "none" <=> session[t].link = "none"
      BY <1>0, <1>1, <3>2 DEF Break, SessionsTyped, SessionRecords
    <3>5. QED BY <1>0, <1>1, <3>3, <3>4 DEF Break, SessionsTyped
  <2>6. JobsTyped' /\ JobsHold'
    BY <1>0, <1>1 DEF Break, JobsTyped, JobsHold, NoJob
  <2>7. DownHolds' BY <1>0, <1>1 DEF Break, DownHolds
  <2>8. CallsTyped' /\ CallsHold' BY <1>1, CallsUntouched DEF Break
  <2>9. QED BY <2>4, <2>5, <2>6, <2>7, <2>8 DEF Typed
<1>2. ASSUME NEW s \in Sessions, Notice(s) PROVE Typed'
  <2>1. <<>> \in Seq(Calls) OBVIOUS
  <2>2. ChannelsTyped' BY <1>0, <1>2, <2>1 DEF Notice, ChannelsTyped
  <2>3. SessionsTyped' BY <1>0, <1>2 DEF Notice, SessionsTyped, SessionRecords
  <2>4. JobsTyped' /\ JobsHold' BY <1>0, <1>2 DEF Notice, JobsTyped, JobsHold
  <2>5. DownHolds'
    <3>1. down'[s] = <<>> /\ \A t \in Sessions : t # s => down'[t] = down[t]
      BY <1>0, <1>2 DEF Notice, ChannelsTyped
    <3>2. Len(down'[s]) = 0 BY <3>1
    <3>3. \A t \in Sessions : t # s =>
            \A k \in 1..Len(down'[t]) : call'[down'[t][k]].op \in Ops
      BY <1>0, <1>2, <3>1 DEF Notice, DownHolds
    <3>4. QED BY <3>2, <3>3 DEF DownHolds
  <2>6. CallsTyped' /\ CallsHold' BY <1>2, CallsUntouched DEF Notice
  <2>7. QED BY <2>2, <2>3, <2>4, <2>5, <2>6 DEF Typed
<1>3. ASSUME UNCHANGED <<call, pending, inbox, down, up, sent, job>>,
             SessionsTyped', opened' \in {opened, opened + 1}
      PROVE  Typed'
  <2>1. ChannelsTyped' /\ JobsTyped' /\ JobsHold' /\ DownHolds'
    BY <1>0, <1>3 DEF ChannelsTyped, JobsTyped, JobsHold, DownHolds
  <2>2. QED BY <1>3, <2>1, CallsUntouched DEF Typed
<1>4. ASSUME NEW s \in Sessions, CircuitExpires(s) PROVE Typed'
  <2>1. SessionsTyped'
    BY <1>0, <1>4 DEF CircuitExpires, SessionsTyped, SessionRecords
  <2>2. QED BY <1>3, <1>4, <2>1 DEF CircuitExpires
<1>5. CASE Connect
  <2>1. opened + 1 \in Sessions /\ opened \in Nat
    BY <1>0, <1>5 DEF Connect, SessionsTyped, Sessions
  <2>2. session' \in [Sessions -> SessionRecords]
    BY <1>0, <1>5, <2>1 DEF Connect, SessionsTyped, SessionRecords
  <2>3. \A s \in Sessions : session'[s].link = "none" <=> s > opened'
    BY <1>0, <1>5, <2>1 DEF Connect, SessionsTyped, SessionRecords, Sessions
  <2>4. SessionsTyped'
    BY <1>5, <2>1, <2>2, <2>3 DEF Connect, SessionsTyped, Sessions
  <2>5. QED BY <1>3, <1>5, <2>4 DEF Connect
<1>6. CASE WatchdogScan
  <2>1. workers \in Sessions BY <1>0, <1>6 DEF WatchdogScan, SessionsTyped, Sessions
  <2>2. SessionsTyped' BY <1>0, <1>6, <2>1 DEF WatchdogScan, SessionsTyped, SessionRecords
  <2>3. QED BY <1>3, <1>6, <2>2 DEF WatchdogScan
<1>7. ASSUME NEW s \in Sessions, WatchdogRemove(s) PROVE Typed'
  <2>1. SessionsTyped' BY <1>0, <1>7 DEF WatchdogRemove, SessionsTyped, SessionRecords
  <2>2. QED BY <1>3, <1>7, <2>1 DEF WatchdogRemove
<1>8. CASE Refill
  <2>1. SessionsTyped' BY <1>0, <1>8 DEF Refill, SessionsTyped
  <2>2. QED BY <1>3, <1>8, <2>1 DEF Refill
<1>9. QED BY <1>1, <1>2, <1>4, <1>5, <1>6, <1>7, <1>8

\* What the worker emits for a command is typed.
LEMMA EmitTyped ==
  ASSUME Typed, NEW c \in Calls, NEW ms \in Seq(Kinds), Emit(c, ms),
         UNCHANGED <<inbox, down>>
  PROVE  ChannelsTyped'
<1>0. ChannelsTyped BY DEF Typed
<1>1. sent[c] \o ms \in Seq(Kinds)
  <2>1. sent[c] \in Seq(Kinds) BY <1>0 DEF ChannelsTyped
  <2>2. QED BY <2>1, ConcatProperties
<1>2. sent' \in [Calls -> Seq(Kinds)] BY <1>0, <1>1 DEF Emit, ChannelsTyped
<1>3. up' \in [Sessions -> Seq(Message)]
  <2> DEFINE s == job[c].session
             tail == [k \in 1..Len(ms) |-> [cmd |-> c, kind |-> ms[k]]]
  <2>1. tail \in Seq(Message)
    <3>1. Len(ms) \in Nat /\ \A k \in 1..Len(ms) : ms[k] \in Kinds OBVIOUS
    <3>2. \A k \in 1..Len(ms) : [cmd |-> c, kind |-> ms[k]] \in Message
      BY <3>1 DEF Message
    <3>3. QED BY <3>1, <3>2, IsASeq
  <2>2. CASE up' = up BY <1>0, <2>2 DEF ChannelsTyped
  <2>3. CASE up' = [up EXCEPT ![s] = up[s] \o tail]
    <3>1. CASE s \notin Sessions BY <1>0, <2>3, <3>1 DEF ChannelsTyped
    <3>2. CASE s \in Sessions
      <4>1. up[s] \in Seq(Message) BY <1>0, <3>2 DEF ChannelsTyped
      <4> HIDE DEF s, tail
      <4>2. up[s] \o tail \in Seq(Message) BY <2>1, <4>1, ConcatProperties
      <4>3. QED BY <1>0, <2>3, <4>2 DEF ChannelsTyped
    <3>3. QED BY <3>1, <3>2
  <2>4. QED BY <2>2, <2>3 DEF Emit
<1>4. QED BY <1>0, <1>2, <1>3 DEF ChannelsTyped

\* The worker's loop and its tasks.
LEMMA WorkTyped ==
  ASSUME Typed, WorkerStep
  PROVE  Typed'
<1>0. ChannelsTyped /\ SessionsTyped /\ JobsTyped /\ JobsHold /\ DownHolds
  BY DEF Typed
<1>1. ASSUME NEW s \in Sessions, Take(s) PROVE Typed'
  <2>0. down[s] \in Seq(Calls) /\ down[s] # <<>>
    BY <1>0, <1>1 DEF ChannelsTyped, Take
  <2>1. Head(down[s]) \in Calls /\ Tail(down[s]) \in Seq(Calls)
    BY <2>0, HeadTailProperties
  <2>2. ChannelsTyped' BY <1>0, <1>1, <2>1 DEF Take, ChannelsTyped
  <2>3. SessionsTyped' BY <1>0, <1>1 DEF Take, SessionsTyped
  <2>4. call[Head(down[s])].op \in Ops
    <3>1. 1 \in 1..Len(down[s]) /\ Head(down[s]) = down[s][1] BY <2>0
    <3>2. QED BY <1>0, <3>1 DEF DownHolds
  <2>5. JobsTyped'
    BY <1>0, <1>1, <2>1 DEF Take, JobsTyped, Sessions
  <2>6. JobsHold'
    <3> SUFFICES ASSUME NEW c \in Calls, job'[c] # NoJob
                 PROVE  call[c].op \in Ops /\ job'[c].session \in Sessions
      BY <1>1 DEF JobsHold, Take
    <3>1. CASE c = Head(down[s])
      BY <1>0, <1>1, <2>4, <3>1 DEF Take, JobsTyped
    <3>2. CASE c # Head(down[s])
      BY <1>0, <1>1, <3>2 DEF Take, JobsTyped, JobsHold
    <3>3. QED BY <3>1, <3>2
  <2>7. DownHolds'
    <3> SUFFICES ASSUME NEW t \in Sessions, NEW k \in 1..Len(down'[t])
                 PROVE  call[down'[t][k]].op \in Ops
      BY <1>1 DEF DownHolds, Take
    <3>1. CASE t = s
      <4>1. down'[s] = Tail(down[s]) BY <1>0, <1>1 DEF Take, ChannelsTyped
      <4>2. k + 1 \in 1..Len(down[s]) /\ down'[s][k] = down[s][k + 1]
        BY <2>0, <3>1, <4>1
      <4>3. QED BY <1>0, <3>1, <4>2 DEF DownHolds
    <3>2. CASE t # s
      <4>1. down'[t] = down[t] BY <1>0, <1>1, <3>2 DEF Take, ChannelsTyped
      <4>2. QED BY <1>0, <4>1 DEF DownHolds
    <3>3. QED BY <3>1, <3>2
  <2>8. CallsTyped' /\ CallsHold' BY <1>1, CallsUntouched DEF Take
  <2>9. QED BY <2>2, <2>3, <2>5, <2>6, <2>7, <2>8 DEF Typed
<1>2. ASSUME NEW c \in Calls, Start(c) \/ Finish(c),
             UNCHANGED <<call, inbox, pending, workers, session, opened, tokens, down>>
      PROVE  Typed'
  <2>1. job[c] # NoJob BY <1>2 DEF Start, Finish, NoJob
  <2>2. call[c].op \in Ops /\ job[c].session \in Sessions
    BY <1>0, <2>1 DEF JobsHold
  <2>3. PICK ms \in Seq(Kinds) : Emit(c, ms)
    <3>1. CASE Start(c)
      <4>1. <<"ack">> \in Seq(Kinds) /\ <<>> \in Seq(Kinds) BY DEF Kinds
      <4>2. QED BY <3>1, <4>1 DEF Start
    <3>2. CASE Finish(c)
      <4>1. PICK ms \in Messages(call[c].op) : Emit(c, ms) BY <3>2 DEF Finish
      <4>2. ms \in Seq(Kinds) BY <2>2, MessagesTyped
      <4>3. QED BY <4>1, <4>2
    <3>3. QED BY <1>2, <3>1, <3>2
  <2>4. ChannelsTyped' BY <1>2, <2>3, EmitTyped
  <2>5. JobsTyped' /\ JobsHold'
    <3>1. CASE Start(c)
      BY <1>0, <1>2, <2>2, <3>1 DEF Start, JobsTyped, JobsHold
    <3>2. CASE Finish(c)
      BY <1>0, <1>2, <2>2, <3>2 DEF Finish, JobsTyped, JobsHold, NoJob
    <3>3. QED BY <1>2, <3>1, <3>2
  <2>6. SessionsTyped' /\ DownHolds' BY <1>0, <1>2 DEF SessionsTyped, DownHolds
  <2>7. CallsTyped' /\ CallsHold' BY <1>2, CallsUntouched
  <2>8. QED BY <2>4, <2>5, <2>6, <2>7 DEF Typed
<1>3. QED BY <1>1, <1>2 DEF WorkerStep, Start, Finish

\* Every step of the specification keeps the types.
LEMMA NextTyped == Typed /\ [Next]_routingVars => Typed'
<1> SUFFICES ASSUME Typed, [Next]_routingVars PROVE Typed' OBVIOUS
<1>1. CASE UNCHANGED routingVars
  BY <1>1 DEF routingVars, Typed, CallsTyped, ChannelsTyped, SessionsTyped,
              JobsTyped, CallsHold, JobsHold, DownHolds
<1>2. QED
  BY <1>1, RouteTyped, CancelTyped, SendTyped, CollectTyped, TimeoutTyped,
     ForwardTyped, ReadTyped, SessionTyped, WorkTyped
  DEF Next, CallStep

------------------------------------------------------------------------------
\* One call changes, and its entry with it.
LEMMA EntryFollows ==
  ASSUME Typed, PendingOwned, NEW c \in Calls, NEW r, call' = [call EXCEPT ![c] = r],
         \/ pending' = pending \ {c} /\ r.pc = "idle"
         \/ pending' = pending \cup {c} /\ r.pc # "idle"
         \/ pending' = pending /\ (r.pc = "idle" <=> call[c].pc = "idle")
  PROVE  PendingOwned'
<1>1. call \in [Calls -> CallRecords] BY DEF Typed, CallsTyped
<1>2. call'[c] = r /\ \A d \in Calls : d # c => call'[d] = call[d] BY <1>1
<1>3. QED BY <1>1, <1>2 DEF PendingOwned

\* Whatever way a call ends, its entry in pending_multi goes with it, and no
\* entry goes before.
THEOREM PendingIsOwned == Spec => []PendingOwned
<1>1. Init => PendingOwned BY DEF Init, PendingOwned, Ready
<1>2. ASSUME Typed, PendingOwned, [Next]_routingVars
      PROVE  PendingOwned'
  <2>0. call \in [Calls -> CallRecords] BY <1>2 DEF Typed, CallsTyped
  <2>1. ASSUME NEW c \in Calls, NEW op \in Ops, Route(c, op) PROVE PendingOwned'
    <3>1. call[c].pc = "idle" BY <2>1 DEF Route, Unused
    <3>2. ASSUME NEW a, Refused(c, op, a), UNCHANGED pending PROVE PendingOwned'
      <4> DEFINE r == [Ready EXCEPT !.op = op, !.reply = a]
      <4>1. r.pc = "idle" BY DEF Ready
      <4>2. call' = [call EXCEPT ![c] = r] BY <3>2 DEF Refused
      <4> HIDE DEF r
      <4>3. QED BY <1>2, <3>1, <3>2, <4>1, <4>2, EntryFollows
    <3>3. CASE /\ pending' = pending \cup {c}
               /\ call' = [call EXCEPT ![c] =
                    [pc |-> "send", op |-> op, handle |-> workers, got |-> <<>>,
                     cancel |-> FALSE, reply |-> "none"]]
      BY <1>2, <3>3, EntryFollows
    <3>4. QED BY <2>1, <3>2, <3>3 DEF Route
  <2>2. ASSUME NEW c \in Calls, Cancel(c) PROVE PendingOwned'
    BY <1>2, <2>0, <2>2 DEF Cancel, CallRecords, PendingOwned
  <2>a. ASSUME NEW c \in Calls, NEW a, Reply(c, a), pending' = pending \ {c}
        PROVE  PendingOwned'
    <3> DEFINE r == [call[c] EXCEPT !.pc = "idle", !.reply = a, !.handle = 0,
                                    !.cancel = FALSE]
    <3>1. r.pc = "idle" BY <2>0 DEF CallRecords
    <3>2. call' = [call EXCEPT ![c] = r] BY <2>a DEF Reply
    <3> HIDE DEF r
    <3>3. QED BY <1>2, <2>a, <3>1, <3>2, EntryFollows
  <2>3. ASSUME NEW c \in Calls, Send(c) PROVE PendingOwned'
    <3>1. CASE Reply(c, "disconnected") /\ pending' = pending \ {c}
      BY <2>a, <3>1
    <3>2. CASE /\ call' = [call EXCEPT ![c].pc =
                    IF call[c].op = "stream" THEN "forward" ELSE "collect"]
               /\ UNCHANGED pending
      BY <1>2, <2>0, <2>3, <3>2 DEF Send, CallRecords, PendingOwned
    <3>3. QED BY <2>3, <3>1, <3>2 DEF Send
  <2>4. ASSUME NEW c \in Calls, Collect(c) PROVE PendingOwned'
    <3> DEFINE m == Head(inbox[c])
               more == [call[c] EXCEPT !.got = Append(call[c].got, m)]
               done == [pc |-> "idle", op |-> call[c].op, handle |-> 0,
                        got |-> Append(call[c].got, m),
                        cancel |-> FALSE, reply |-> Result(m)]
    <3>1. more.pc = call[c].pc /\ done.pc = "idle" BY <2>0 DEF CallRecords
    <3>2. \/ call' = [call EXCEPT ![c] = done] /\ pending' = pending \ {c}
          \/ call' = [call EXCEPT ![c] = more] /\ pending' = pending
      BY <2>4 DEF Collect
    <3> HIDE DEF more, done
    <3>3. QED BY <1>2, <3>1, <3>2, EntryFollows
  <2>5. ASSUME NEW c \in Calls, Timeout(c) PROVE PendingOwned'
    BY <2>5, <2>a DEF Timeout
  <2>6. ASSUME NEW c \in Calls, Forward(c) PROVE PendingOwned'
    <3> DEFINE m == Head(inbox[c])
               more == [call[c] EXCEPT !.got = Append(call[c].got, m)]
               drain == [call[c] EXCEPT !.pc = "drain", !.reply = "cancelled"]
               done == [pc |-> "idle", op |-> call[c].op, handle |-> 0,
                        got |-> Append(call[c].got, m), cancel |-> FALSE,
                        reply |-> IF call[c].cancel THEN "cancelled" ELSE Result(m)]
    <3>1. /\ more.pc = call[c].pc /\ done.pc = "idle" /\ drain.pc = "drain"
          /\ call[c].pc \in {"forward", "drain"}
      BY <2>0, <2>6 DEF CallRecords, Forward
    <3>2. \/ call' = [call EXCEPT ![c] = done] /\ pending' = pending \ {c}
          \/ call' = [call EXCEPT ![c] = more] /\ pending' = pending
          \/ call' = [call EXCEPT ![c] = drain] /\ pending' = pending
      BY <2>6 DEF Forward
    <3> HIDE DEF more, done, drain
    <3>3. QED BY <1>2, <3>1, <3>2, EntryFollows
  <2>7. CASE UNCHANGED <<call, pending>> BY <1>2, <2>7 DEF PendingOwned
  <2>8. QED
    BY <1>2, <2>1, <2>2, <2>3, <2>4, <2>5, <2>6, <2>7
    DEF Next, CallStep, WorkerStep, Read, Break, Notice, CircuitExpires, Take,
        Start, Finish, Connect, WatchdogScan,
        WatchdogRemove, Refill, routingVars
<1>3. QED BY <1>1, <1>2, InitTyped, NextTyped, PTL DEF Spec

\* The circuit breaker of a session is moved only by a call that was sent on
\* that session and ends with this step, or by the passing of its 30 seconds.
THEOREM BlameIsOwn == Spec => BlameOwnSession
<1> DEFINE Own == \A s \in Sessions : Booked(s) =>
                    \E c \in Calls : call[c].handle = s /\ call'[c].pc = "idle"
<1>1. ASSUME Typed, [Next]_routingVars PROVE [Own]_routingVars
  <2>0. /\ call \in [Calls -> CallRecords]
        /\ session \in [Sessions -> SessionRecords]
    BY <1>1 DEF Typed, CallsTyped, SessionsTyped
  <2>1. ASSUME NEW c \in Calls, call'[c].pc = "idle",
               RecordSuccess(call[c].handle) \/ RecordFailure(call[c].handle)
        PROVE  Own
    <3>1. \A s \in Sessions : s # call[c].handle => session'[s] = session[s]
      BY <2>0, <2>1 DEF RecordSuccess, RecordFailure
    <3>2. QED BY <2>1, <3>1 DEF Booked
  <2>2. ASSUME NEW c \in Calls, Send(c) \/ Collect(c) \/ Timeout(c) PROVE Own
    <3>1. CASE UNCHANGED session BY <3>1 DEF Booked
    <3>2. CASE ~UNCHANGED session
      <4>1. RecordSuccess(call[c].handle) \/ RecordFailure(call[c].handle)
        BY <2>2, <3>2 DEF Send, Collect, Timeout
      <4>2. call'[c].pc = "idle"
        BY <2>0, <2>2, <3>2 DEF Send, Collect, Timeout, Reply, CallRecords
      <4>3. QED BY <2>1, <4>1, <4>2
    <3>3. QED BY <3>1, <3>2
  <2>3. ASSUME NEW s \in Sessions, Break(s) \/ Notice(s) \/ WatchdogRemove(s) PROVE Own
    <3>1. CASE Break(s)
      BY <2>0, <3>1 DEF Break, SessionRecords, Booked
    <3>2. CASE Notice(s)
      BY <2>0, <3>2 DEF Notice, SessionRecords, Booked
    <3>3. CASE WatchdogRemove(s)
      BY <2>0, <3>3 DEF WatchdogRemove, SessionRecords, Booked
    <3>4. QED BY <2>3, <3>1, <3>2, <3>3
  <2>4. CASE Connect \/ WatchdogScan
    <3>1. \A t \in Sessions : /\ session'[t].failures = session[t].failures
                              /\ session'[t].circuit = session[t].circuit
      BY <2>0, <2>4 DEF Connect, WatchdogScan, SessionRecords
    <3>2. QED BY <3>1 DEF Booked
  <2>5. ASSUME NEW s \in Sessions, CircuitExpires(s) PROVE Own
    BY <2>0, <2>5 DEF CircuitExpires, SessionRecords, Booked
  <2>6. CASE UNCHANGED session BY <2>6 DEF Booked
  <2>7. QED
    BY <1>1, <2>2, <2>3, <2>4, <2>5, <2>6
    DEF Next, CallStep, WorkerStep, Route, Cancel, Forward, Read, Take, Start,
        Finish, Refill
<1>2. QED BY <1>1, InitTyped, NextTyped, PTL DEF Spec, BlameOwnSession

------------------------------------------------------------------------------
(* No gap.  p is what a command's caller has taken or could take, q what is *)
(* on its way on the session, m what the worker has sent: the messages of c *)
(* in q are the ones of m that come after p, one after the other, and on a  *)
(* live session they are all of them.  f counts the messages of c in q.     *)

Counts(f, q, c) ==
  /\ f \in [0..Len(q) -> Int] /\ f[0] = 0
  /\ \A k \in 1..Len(q) : f[k] = f[k - 1] + (IF q[k].cmd = c THEN 1 ELSE 0)
Follows(f, p, q, m, c) ==
  \A k \in 1..Len(q) :
    q[k].cmd = c => /\ Len(p) + f[k] \in 1..Len(m)
                    /\ q[k].kind = m[Len(p) + f[k]]
Arriving(p, q, m, link, c) ==
  /\ IsStart(p, m)
  /\ \E f \in [0..Len(q) -> Int] :
       /\ Counts(f, q, c) /\ Follows(f, p, q, m, c)
       /\ link = "live" => Len(p) + f[Len(q)] = Len(m)

\* IsStart, element by element.
LEMMA StartElements ==
  ASSUME NEW p \in Seq(Kinds), NEW m \in Seq(Kinds)
  PROVE  IsStart(p, m) <=> /\ Len(p) <= Len(m)
                           /\ \A i \in 1..Len(p) : p[i] = m[i]
<1>1. ASSUME Len(p) <= Len(m)
      PROVE  /\ SubSeq(m, 1, Len(p)) \in Seq(Kinds)
             /\ Len(SubSeq(m, 1, Len(p))) = Len(p)
             /\ \A i \in 1..Len(p) : SubSeq(m, 1, Len(p))[i] = m[i]
  BY <1>1
<1>2. ASSUME Len(p) <= Len(m), \A i \in 1..Len(p) : p[i] = m[i]
      PROVE  p = SubSeq(m, 1, Len(p))
  BY <1>1, <1>2, SeqEqual
<1>3. QED BY <1>1, <1>2 DEF IsStart

\* What has arrived stays a start when the worker sends more.
LEMMA StartGrows ==
  ASSUME NEW p \in Seq(Kinds), NEW m \in Seq(Kinds), NEW ms \in Seq(Kinds),
         IsStart(p, m)
  PROVE  IsStart(p, m \o ms)
<1>1. m \o ms \in Seq(Kinds) /\ Len(m \o ms) = Len(m) + Len(ms)
  BY ConcatProperties
<1>2. \A i \in 1..Len(m) : (m \o ms)[i] = m[i] BY ConcatProperties
<1>3. Len(p) <= Len(m) /\ \A i \in 1..Len(p) : p[i] = m[i] BY StartElements
<1>4. Len(p) \in Nat /\ Len(m) \in Nat /\ Len(ms) \in Nat OBVIOUS
<1>5. Len(p) <= Len(m \o ms) BY <1>1, <1>3, <1>4
<1>6. \A i \in 1..Len(p) : p[i] = (m \o ms)[i] BY <1>2, <1>3, <1>4
<1>7. QED BY <1>1, <1>5, <1>6, StartElements

\* A new command: nothing of it is anywhere.
LEMMA NothingArriving ==
  ASSUME NEW c \in Calls, NEW q \in Seq(Message), NEW link,
         \A k \in 1..Len(q) : q[k].cmd # c
  PROVE  Arriving(<<>>, q, <<>>, link, c)
<1>1. IsStart(<<>>, <<>>) BY DEF IsStart
<1> DEFINE f == [k \in 0..Len(q) |-> 0]
<1>2. f \in [0..Len(q) -> Int] /\ Counts(f, q, c) BY DEF Counts
<1>3. Follows(f, <<>>, q, <<>>, c) BY DEF Follows
<1>4. Len(<<>>) + f[Len(q)] = Len(<<>>) OBVIOUS
<1> HIDE DEF f
<1>5. QED BY <1>1, <1>2, <1>3, <1>4 DEF Arriving

\* The reader takes the first message of q.
LEMMA ArrivingRead ==
  ASSUME NEW c \in Calls, NEW q \in Seq(Message), q # <<>>,
         NEW p \in Seq(Kinds), NEW m \in Seq(Kinds), NEW link,
         Arriving(p, q, m, link, c)
  PROVE  /\ Head(q).cmd = c => Arriving(Append(p, Head(q).kind), Tail(q), m, link, c)
         /\ Head(q).cmd # c => Arriving(p, Tail(q), m, link, c)
<1>1. PICK f \in [0..Len(q) -> Int] :
        /\ Counts(f, q, c) /\ Follows(f, p, q, m, c)
        /\ link = "live" => Len(p) + f[Len(q)] = Len(m)
  BY DEF Arriving
<1>2. /\ Len(q) \in Nat \ {0} /\ Tail(q) \in Seq(Message)
      /\ Len(Tail(q)) = Len(q) - 1 /\ Head(q) = q[1]
      /\ \A k \in 1..(Len(q) - 1) : Tail(q)[k] = q[k + 1]
  OBVIOUS
<1> DEFINE g == [k \in 0..(Len(q) - 1) |-> f[k + 1] - f[1]]
<1>3. /\ g \in [0..Len(Tail(q)) -> Int] /\ g[0] = 0
      /\ g[Len(Tail(q))] = f[Len(q)] - f[1]
      /\ \A k \in 1..Len(Tail(q)) : g[k] = f[k + 1] - f[1] /\ g[k - 1] = f[k] - f[1]
      /\ f[1] \in Int
  BY <1>2
<1> HIDE DEF g
<1>4. Counts(g, Tail(q), c)
  <2> SUFFICES ASSUME NEW k \in 1..Len(Tail(q))
               PROVE  g[k] = g[k - 1] + (IF Tail(q)[k].cmd = c THEN 1 ELSE 0)
    BY <1>3 DEF Counts
  <2>1. k + 1 \in 1..Len(q) /\ Tail(q)[k] = q[k + 1] BY <1>2
  <2>2. f[k + 1] = f[k] + (IF q[k + 1].cmd = c THEN 1 ELSE 0)
    BY <1>1, <2>1 DEF Counts
  <2>3. f[k] \in Int /\ f[k + 1] \in Int
    <3>1. k \in 0..Len(q) /\ k + 1 \in 0..Len(q) BY <1>2
    <3>2. QED BY <3>1
  <2>4. QED BY <1>3, <2>1, <2>2, <2>3
<1>5. f[1] = IF Head(q).cmd = c THEN 1 ELSE 0
  BY <1>1, <1>2 DEF Counts
<1>6. ASSUME Head(q).cmd = c
      PROVE  Arriving(Append(p, Head(q).kind), Tail(q), m, link, c)
  <2> DEFINE p1 == Append(p, Head(q).kind)
  <2>1. f[1] = 1 /\ Len(p) + 1 \in 1..Len(m) /\ Head(q).kind = m[Len(p) + 1]
    BY <1>1, <1>2, <1>5, <1>6 DEF Follows
  <2>2. /\ p1 \in Seq(Kinds) /\ Len(p1) = Len(p) + 1 /\ p1[Len(p) + 1] = Head(q).kind
        /\ \A i \in 1..Len(p) : p1[i] = p[i]
    <3>1. q[1] \in Message BY <1>2
    <3>2. Head(q).kind \in Kinds BY <1>2, <3>1 DEF Message
    <3>3. QED BY <3>2, AppendProperties
  <2> HIDE DEF p1
  <2>3. IsStart(p1, m)
    <3>1. Len(p) <= Len(m) /\ \A i \in 1..Len(p) : p[i] = m[i]
      BY StartElements DEF Arriving
    <3>2. QED BY <2>1, <2>2, <3>1, StartElements, SMTT(20)
  <2>4. Follows(g, p1, Tail(q), m, c)
    <3> SUFFICES ASSUME NEW k \in 1..Len(Tail(q)), Tail(q)[k].cmd = c
                 PROVE  /\ Len(p1) + g[k] \in 1..Len(m)
                        /\ Tail(q)[k].kind = m[Len(p1) + g[k]]
      BY DEF Follows
    <3>1. k + 1 \in 1..Len(q) /\ Tail(q)[k] = q[k + 1] BY <1>2
    <3>2. f[k + 1] \in Int BY <3>1
    <3>3. Len(p1) + g[k] = Len(p) + f[k + 1] BY <1>3, <2>1, <2>2, <3>2
    <3>4. QED BY <1>1, <3>1, <3>3 DEF Follows
  <2>5. link = "live" => Len(p1) + g[Len(Tail(q))] = Len(m)
    <3>1. f[Len(q)] \in Int BY <1>2
    <3>2. QED BY <1>1, <1>3, <2>1, <2>2, <3>1
  <2>6. QED BY <1>3, <1>4, <2>3, <2>4, <2>5 DEF Arriving, p1
<1>7. ASSUME Head(q).cmd # c PROVE Arriving(p, Tail(q), m, link, c)
  <2>1. f[1] = 0 BY <1>5, <1>7
  <2>2. Follows(g, p, Tail(q), m, c)
    <3> SUFFICES ASSUME NEW k \in 1..Len(Tail(q)), Tail(q)[k].cmd = c
                 PROVE  /\ Len(p) + g[k] \in 1..Len(m)
                        /\ Tail(q)[k].kind = m[Len(p) + g[k]]
      BY DEF Follows
    <3>1. k + 1 \in 1..Len(q) /\ Tail(q)[k] = q[k + 1] BY <1>2
    <3>2. f[k + 1] \in Int BY <3>1
    <3>3. g[k] = f[k + 1] BY <1>3, <2>1, <3>2
    <3>4. QED BY <1>1, <3>1, <3>3 DEF Follows
  <2>3. link = "live" => Len(p) + g[Len(Tail(q))] = Len(m)
    <3>1. f[Len(q)] \in Int BY <1>2
    <3>2. QED BY <1>1, <1>3, <2>1, <3>1
  <2>4. QED BY <1>3, <1>4, <2>2, <2>3 DEF Arriving
<1>8. QED BY <1>6, <1>7

\* The session breaks: the end of q is lost.
LEMMA ArrivingCut ==
  ASSUME NEW c \in Calls, NEW q \in Seq(Message), NEW n \in 0..Len(q),
         NEW p \in Seq(Kinds), NEW m \in Seq(Kinds), NEW link,
         Arriving(p, q, m, link, c), NEW cut, cut # "live"
  PROVE  Arriving(p, SubSeq(q, 1, n), m, cut, c)
<1>1. PICK f \in [0..Len(q) -> Int] : Counts(f, q, c) /\ Follows(f, p, q, m, c)
  BY DEF Arriving
<1> DEFINE r == SubSeq(q, 1, n)
           g == [k \in 0..n |-> f[k]]
<1>2. Len(r) = n /\ \A k \in 1..n : r[k] = q[k] BY SubSeqProperties
<1>3. \A k \in 0..n : k \in 0..Len(q) BY LenProperties
<1>4. \A k \in 1..n : k \in 0..n /\ k - 1 \in 0..n /\ k \in 1..Len(q)
  BY LenProperties
<1>5. \A k \in 0..n : f[k] \in Int BY <1>3
<1>6. /\ g \in [0..n -> Int] /\ g[0] = f[0]
      /\ \A k \in 1..n : g[k] = f[k] /\ g[k - 1] = f[k - 1]
  BY <1>4, <1>5
<1> HIDE DEF g, r
<1>7. Counts(g, r, c) BY <1>1, <1>2, <1>4, <1>6 DEF Counts
<1>8. Follows(g, p, r, m, c)
  <2> SUFFICES ASSUME NEW k \in 1..n, r[k].cmd = c
               PROVE  Len(p) + g[k] \in 1..Len(m) /\ r[k].kind = m[Len(p) + g[k]]
    BY <1>2 DEF Follows
  <2>1. k \in 1..Len(q) /\ g[k] = f[k] /\ r[k] = q[k] BY <1>2, <1>4, <1>6
  <2>2. QED BY <1>1, <2>1 DEF Follows
<1>9. QED BY <1>2, <1>6, <1>7, <1>8 DEF Arriving, r

\* The worker sends messages of another command.
LEMMA ArrivingOther ==
  ASSUME NEW c \in Calls, NEW q \in Seq(Message), NEW e \in Seq(Message),
         \A k \in 1..Len(e) : e[k].cmd # c,
         NEW p \in Seq(Kinds), NEW m \in Seq(Kinds), NEW link,
         Arriving(p, q, m, link, c)
  PROVE  Arriving(p, q \o e, m, link, c)
<1>1. PICK f \in [0..Len(q) -> Int] :
        /\ Counts(f, q, c) /\ Follows(f, p, q, m, c)
        /\ link = "live" => Len(p) + f[Len(q)] = Len(m)
  BY DEF Arriving
<1> DEFINE r == q \o e
           g == [k \in 0..(Len(q) + Len(e)) |-> IF k <= Len(q) THEN f[k] ELSE f[Len(q)]]
<1>2. /\ Len(r) = Len(q) + Len(e)
      /\ \A k \in 1..Len(q) : r[k] = q[k]
      /\ \A k \in 1..Len(r) : k > Len(q) => r[k].cmd # c
  <2>1. /\ Len(r) = Len(q) + Len(e)
        /\ \A k \in 1..(Len(q) + Len(e)) :
             r[k] = IF k <= Len(q) THEN q[k] ELSE e[k - Len(q)]
    BY ConcatProperties
  <2>2. QED BY <2>1
<1>a. Len(q) \in Nat /\ Len(e) \in Nat /\ Len(r) \in Nat BY <1>2
<1>b. \A k \in 0..Len(q) : f[k] \in Int OBVIOUS
<1>c. /\ 0 \in 0..Len(q) /\ Len(q) \in 0..Len(q) /\ Len(r) \in 0..Len(r)
      /\ \A k \in 0..Len(q) : k \in 0..Len(r)
      /\ \A k \in 1..Len(q) : k \in 0..Len(q) /\ k - 1 \in 0..Len(q)
      /\ \A k \in 1..Len(r) : k \in 0..Len(r) /\ k - 1 \in 0..Len(r)
  BY <1>2, <1>a
<1>d. /\ \A k \in 0..Len(q) : g[k] = f[k]
      /\ \A k \in 0..Len(r) : k > Len(q) => g[k] = f[Len(q)]
      /\ g \in [0..Len(r) -> Int]
  <2>1. \A k \in 0..Len(r) : ~(k > Len(q)) => k \in 0..Len(q) BY <1>a
  <2>2. \A k \in 0..Len(r) : (IF k <= Len(q) THEN f[k] ELSE f[Len(q)]) \in Int
    BY <1>a, <1>b, <1>c, <2>1
  <2>3. g = [k \in 0..Len(r) |-> IF k <= Len(q) THEN f[k] ELSE f[Len(q)]]
    BY <1>2
  <2> HIDE DEF g, r
  <2>4. \A k \in 0..Len(q) : k <= Len(q) BY <1>a
  <2>5. \A k \in 0..Len(r) : k > Len(q) => ~(k <= Len(q)) BY <1>a
  <2>6. QED BY <1>c, <2>2, <2>3, <2>4, <2>5
<1> HIDE DEF g, r
<1>3. /\ g[0] = f[0] /\ g[Len(r)] = f[Len(q)]
      /\ \A k \in 1..Len(q) : g[k] = f[k] /\ g[k - 1] = f[k - 1]
      /\ \A k \in 1..Len(r) : k > Len(q) => g[k] = f[Len(q)] /\ g[k - 1] = f[Len(q)]
  <2>1. \A k \in 1..Len(r) : k > Len(q) => \/ k - 1 > Len(q)
                                           \/ k - 1 = Len(q)
    BY <1>a
  <2>2. Len(r) > Len(q) \/ Len(r) = Len(q) BY <1>2, <1>a
  <2>3. QED BY <1>c, <1>d, <2>1, <2>2
<1>4. Counts(g, r, c)
  <2> SUFFICES ASSUME NEW k \in 1..Len(r)
               PROVE  g[k] = g[k - 1] + (IF r[k].cmd = c THEN 1 ELSE 0)
    BY <1>1, <1>3, <1>d DEF Counts
  <2>1. CASE k <= Len(q)
    <3>1. k \in 1..Len(q) BY <1>a, <2>1
    <3>2. QED BY <1>1, <1>2, <1>3, <3>1 DEF Counts
  <2>2. CASE k > Len(q)
    <3>1. /\ g[k] = f[Len(q)] /\ g[k - 1] = f[Len(q)] /\ r[k].cmd # c
          /\ f[Len(q)] \in Int
      BY <1>2, <1>3, <1>b, <1>c, <2>2
    <3>2. QED BY <3>1
  <2>3. QED BY <1>a, <2>1, <2>2
<1>5. Follows(g, p, r, m, c)
  <2> SUFFICES ASSUME NEW k \in 1..Len(r), r[k].cmd = c
               PROVE  Len(p) + g[k] \in 1..Len(m) /\ r[k].kind = m[Len(p) + g[k]]
    BY DEF Follows
  <2>1. k \in 1..Len(q) BY <1>2, <1>a
  <2>2. g[k] = f[k] /\ r[k] = q[k] BY <1>2, <1>3, <2>1
  <2>3. QED BY <1>1, <2>1, <2>2 DEF Follows
<1>6. QED BY <1>1, <1>3, <1>4, <1>5, <1>d DEF Arriving, r

\* The worker sends messages of the command: on a live session all of them are
\* added to q, on any other they are lost.
LEMMA ArrivingOwn ==
  ASSUME NEW c \in Calls, NEW q \in Seq(Message), NEW ms \in Seq(Kinds),
         NEW p \in Seq(Kinds), NEW m \in Seq(Kinds), NEW link,
         Arriving(p, q, m, link, c)
  PROVE  /\ link = "live" =>
              Arriving(p, q \o [k \in 1..Len(ms) |-> [cmd |-> c, kind |-> ms[k]]],
                       m \o ms, link, c)
         /\ link # "live" => Arriving(p, q, m \o ms, link, c)
<1>1. PICK f \in [0..Len(q) -> Int] :
        /\ Counts(f, q, c) /\ Follows(f, p, q, m, c)
        /\ link = "live" => Len(p) + f[Len(q)] = Len(m)
  BY DEF Arriving
<1>2. IsStart(p, m \o ms) BY StartGrows DEF Arriving
<1>3. /\ m \o ms \in Seq(Kinds) /\ Len(m \o ms) = Len(m) + Len(ms)
      /\ \A i \in 1..Len(m) : (m \o ms)[i] = m[i]
      /\ \A i \in 1..Len(ms) : (m \o ms)[Len(m) + i] = ms[i]
  <2>1. /\ m \o ms \in Seq(Kinds) /\ Len(m \o ms) = Len(m) + Len(ms)
        /\ \A i \in 1..(Len(m) + Len(ms)) :
             (m \o ms)[i] = IF i <= Len(m) THEN m[i] ELSE ms[i - Len(m)]
    BY ConcatProperties
  <2>2. \A i \in 1..Len(ms) : /\ Len(m) + i \in 1..(Len(m) + Len(ms))
                              /\ ~(Len(m) + i <= Len(m)) /\ Len(m) + i - Len(m) = i
    OBVIOUS
  <2>3. QED BY <2>1, <2>2
<1>4. Follows(f, p, q, m \o ms, c) BY <1>1, <1>3 DEF Follows
<1>5. ASSUME link # "live" PROVE Arriving(p, q, m \o ms, link, c)
  BY <1>1, <1>2, <1>4, <1>5 DEF Arriving
<1>6. ASSUME link = "live"
      PROVE  Arriving(p, q \o [k \in 1..Len(ms) |-> [cmd |-> c, kind |-> ms[k]]],
                      m \o ms, link, c)
  <2> DEFINE e == [k \in 1..Len(ms) |-> [cmd |-> c, kind |-> ms[k]]]
             r == q \o e
             g == [k \in 0..(Len(q) + Len(ms)) |->
                     IF k <= Len(q) THEN f[k] ELSE f[Len(q)] + (k - Len(q))]
  <2>1. /\ e \in Seq(Message) /\ Len(e) = Len(ms)
        /\ \A k \in 1..Len(ms) : e[k].cmd = c /\ e[k].kind = ms[k]
    <3>1. Len(ms) \in Nat /\ \A k \in 1..Len(ms) : ms[k] \in Kinds OBVIOUS
    <3>2. \A k \in 1..Len(ms) : [cmd |-> c, kind |-> ms[k]] \in Message
      BY <3>1 DEF Message
    <3>3. QED BY <3>1, <3>2, IsASeq
  <2> HIDE DEF e
  <2>2. /\ Len(r) = Len(q) + Len(ms)
        /\ \A k \in 1..Len(q) : r[k] = q[k]
        /\ \A k \in 1..Len(r) : k > Len(q) => /\ k - Len(q) \in 1..Len(ms)
                                              /\ r[k].cmd = c
                                              /\ r[k].kind = ms[k - Len(q)]
    <3>1. /\ Len(r) = Len(q) + Len(e)
          /\ \A k \in 1..(Len(q) + Len(e)) :
               r[k] = IF k <= Len(q) THEN q[k] ELSE e[k - Len(q)]
      BY <2>1, ConcatProperties
    <3>2. QED BY <2>1, <3>1
  <2>3. f[Len(q)] \in Int /\ Len(q) \in Nat /\ Len(ms) \in Nat /\ Len(p) \in Nat
    OBVIOUS
  <2>a. \A k \in 0..Len(q) : f[k] \in Int OBVIOUS
  <2>b. /\ 0 \in 0..Len(q) /\ Len(q) \in 0..Len(q) /\ Len(r) \in 0..Len(r)
        /\ \A k \in 0..Len(q) : k \in 0..Len(r)
        /\ \A k \in 1..Len(q) : k \in 0..Len(q) /\ k - 1 \in 0..Len(q)
        /\ \A k \in 1..Len(r) : k \in 0..Len(r) /\ k - 1 \in 0..Len(r)
    BY <2>2, <2>3
  <2>c. /\ \A k \in 0..Len(q) : g[k] = f[k]
        /\ \A k \in 0..Len(r) : k > Len(q) => g[k] = f[Len(q)] + (k - Len(q))
        /\ g \in [0..Len(r) -> Int]
    <3>1. \A k \in 0..Len(r) : ~(k > Len(q)) => k \in 0..Len(q) BY <2>2, <2>3
    <3>2. \A k \in 0..Len(r) :
            (IF k <= Len(q) THEN f[k] ELSE f[Len(q)] + (k - Len(q))) \in Int
      <4> SUFFICES ASSUME NEW k \in 0..Len(r)
                   PROVE  /\ k <= Len(q) => f[k] \in Int
                          /\ ~(k <= Len(q)) => f[Len(q)] + (k - Len(q)) \in Int
        OBVIOUS
      <4>1. Len(r) \in Nat /\ k \in Int BY <2>2, <2>3
      <4>2. k <= Len(q) => k \in 0..Len(q) BY <2>3, <4>1
      <4>3. QED BY <2>3, <2>a, <4>1, <4>2
    <3>3. g = [k \in 0..Len(r) |->
                 IF k <= Len(q) THEN f[k] ELSE f[Len(q)] + (k - Len(q))]
      BY <2>2
    <3> HIDE DEF g, r
    <3>4. \A k \in 0..Len(q) : k <= Len(q) BY <2>3
    <3>5. \A k \in 0..Len(r) : k > Len(q) => ~(k <= Len(q)) BY <2>2, <2>3
    <3>6. QED BY <2>b, <3>2, <3>3, <3>4, <3>5
  <2> HIDE DEF g, r
  <2>4. /\ g[0] = f[0] /\ g[Len(r)] = f[Len(q)] + Len(ms)
        /\ \A k \in 1..Len(q) : g[k] = f[k] /\ g[k - 1] = f[k - 1]
        /\ \A k \in 1..Len(r) : k > Len(q) => /\ g[k] = f[Len(q)] + (k - Len(q))
                                              /\ g[k - 1] = f[Len(q)] + (k - Len(q)) - 1
    <3>1. g[Len(r)] = f[Len(q)] + Len(ms)
      <4>1. CASE Len(ms) = 0 BY <2>2, <2>3, <2>b, <2>c, <4>1
      <4>2. CASE Len(ms) > 0
        <5>1. Len(r) > Len(q) /\ Len(r) - Len(q) = Len(ms) BY <2>2, <2>3, <4>2
        <5>2. QED BY <2>b, <2>c, <5>1
      <4>3. QED BY <2>3, <4>1, <4>2
    <3>2. ASSUME NEW k \in 1..Len(r), k > Len(q)
          PROVE  g[k - 1] = f[Len(q)] + (k - Len(q)) - 1
      <4>1. CASE k - 1 > Len(q)
        <5>1. g[k - 1] = f[Len(q)] + ((k - 1) - Len(q)) BY <2>b, <2>c, <4>1
        <5>2. QED BY <2>2, <2>3, <5>1
      <4>2. CASE k - 1 = Len(q)
        <5>1. g[k - 1] = f[Len(q)] BY <2>b, <2>c, <4>2
        <5>2. k - Len(q) = 1 BY <2>2, <2>3, <4>2
        <5>3. QED BY <2>3, <5>1, <5>2
      <4>3. QED BY <2>2, <2>3, <3>2, <4>1, <4>2
    <3>3. QED BY <2>b, <2>c, <3>1, <3>2
  <2>5. Counts(g, r, c)
    <3> SUFFICES ASSUME NEW k \in 1..Len(r)
                 PROVE  g[k] = g[k - 1] + (IF r[k].cmd = c THEN 1 ELSE 0)
      BY <1>1, <2>4, <2>c DEF Counts
    <3>1. CASE k <= Len(q)
      <4>1. k \in 1..Len(q) BY <2>2, <2>3, <3>1
      <4>2. QED BY <1>1, <2>2, <2>4, <4>1 DEF Counts
    <3>2. CASE k > Len(q)
      <4>1. /\ g[k] = f[Len(q)] + (k - Len(q))
            /\ g[k - 1] = f[Len(q)] + (k - Len(q)) - 1 /\ r[k].cmd = c
        BY <2>2, <2>4, <3>2
      <4>2. QED BY <2>2, <2>3, <4>1
    <3>3. QED BY <2>2, <2>3, <3>1, <3>2
  <2>6. Follows(g, p, r, m \o ms, c)
    <3> SUFFICES ASSUME NEW k \in 1..Len(r), r[k].cmd = c
                 PROVE  /\ Len(p) + g[k] \in 1..Len(m \o ms)
                        /\ r[k].kind = (m \o ms)[Len(p) + g[k]]
      BY DEF Follows
    <3>1. CASE k <= Len(q)
      <4>1. k \in 1..Len(q) BY <2>2, <2>3, <3>1
      <4>2. g[k] = f[k] /\ r[k] = q[k] BY <2>2, <2>4, <4>1
      <4>3. QED BY <1>4, <4>1, <4>2 DEF Follows
    <3>2. CASE k > Len(q)
      <4>1. Len(p) + g[k] = Len(m) + (k - Len(q))
        <5>1. g[k] = f[Len(q)] + (k - Len(q)) BY <2>4, <3>2
        <5>2. Len(p) + f[Len(q)] = Len(m) BY <1>1, <1>6
        <5>3. \A a, b, d \in Int : a + (b + d) = (a + b) + d OBVIOUS
        <5>4. k - Len(q) \in Int BY <2>2, <2>3
        <5>5. Len(p) \in Int BY <2>3
        <5>6. Len(p) + (f[Len(q)] + (k - Len(q))) = (Len(p) + f[Len(q)]) + (k - Len(q))
          BY <2>3, <5>3, <5>4, <5>5, Zenon
        <5>7. QED BY <5>1, <5>2, <5>6, Zenon
      <4>2. k - Len(q) \in 1..Len(ms) /\ r[k].kind = ms[k - Len(q)]
        BY <2>2, <3>2
      <4>3. QED BY <1>3, <4>1, <4>2, SMTT(20)
    <3>3. QED BY <2>2, <2>3, <3>1, <3>2
  <2>7. Len(p) + g[Len(r)] = Len(m \o ms)
    <3>1. Len(p) + f[Len(q)] = Len(m) BY <1>1, <1>6
    <3>2. g[Len(r)] = f[Len(q)] + Len(ms) BY <2>4
    <3>3. \A a, b, d \in Int : a + (b + d) = (a + b) + d OBVIOUS
    <3>4. Len(p) \in Int /\ Len(ms) \in Int BY <2>3
    <3>5. Len(p) + (f[Len(q)] + Len(ms)) = (Len(p) + f[Len(q)]) + Len(ms)
      BY <2>3, <3>3, <3>4, Zenon
    <3>6. QED BY <1>3, <3>1, <3>2, <3>5, Zenon
  <2>8. QED BY <1>2, <2>c, <2>5, <2>6, <2>7 DEF Arriving, r, e
<1>7. QED BY <1>5, <1>6

------------------------------------------------------------------------------
(* The invariant: a call in flight is referred to only by its own session,  *)
(* and its messages arrive in order and without a gap.                      *)

Active(c) == call[c].pc \in {"send", "collect", "forward"}
InDown(s, c) == \E k \in 1..Len(down[s]) : down[s][k] = c
InUp(s, c) == \E k \in 1..Len(up[s]) : up[s][k].cmd = c
Home(c) ==
  /\ \A s \in Sessions : InDown(s, c) \/ InUp(s, c) => s = call[c].handle
  /\ job[c] # NoJob => job[c].session = call[c].handle
Incoming(c) ==
  Arriving(call[c].got \o inbox[c], up[call[c].handle], sent[c],
           session[call[c].handle].link, c)
InFlight(c) == Active(c) => Home(c) /\ Incoming(c) /\ call[c].reply = "none"
Settled(c) ==
  /\ call[c].pc = "drain" => call[c].reply = "cancelled"
  /\ call[c].reply \in {"ok", "error"} => IsStart(call[c].got, sent[c])
Gapless == \A c \in Calls : InFlight(c) /\ Settled(c)

\* What a step must keep of a call that is in flight after it.
Carries(d) ==
  /\ Active(d) /\ call'[d].handle = call[d].handle
  /\ call'[d].reply = call[d].reply
  /\ job'[d] \in {job[d], NoJob} \/ job'[d].session = call[d].handle
  /\ \A s \in Sessions :
       InDown(s, d)' \/ InUp(s, d)'
         => InDown(s, d) \/ InUp(s, d) \/ s = call[d].handle
  /\ Arriving(call'[d].got \o inbox'[d], up'[call[d].handle], sent'[d],
              session'[call[d].handle].link, d)

\* A step that carries the call keeps it in flight.
LEMMA FlightCarried ==
  ASSUME NEW d \in Calls, InFlight(d), Active(d)' => Carries(d)
  PROVE  InFlight(d)'
<1> SUFFICES ASSUME Active(d)' PROVE InFlight(d)' BY DEF InFlight
<1>1. Carries(d) /\ Home(d) /\ call[d].reply = "none" BY DEF Carries, InFlight
<1>2. Home(d)' BY <1>1 DEF Home, Carries
<1>3. Incoming(d)' BY <1>1 DEF Incoming, Carries
<1>4. QED BY <1>1, <1>2, <1>3 DEF InFlight, Carries

\* The part of a step that does not concern the call at all.
LEMMA FlightAside ==
  ASSUME Typed, NEW d \in Calls, InFlight(d) /\ Settled(d),
         call'[d] = call[d], inbox'[d] = inbox[d], sent'[d] = sent[d],
         job'[d] \in {job[d], NoJob},
         \A s \in Sessions : InDown(s, d)' \/ InUp(s, d)' => InDown(s, d) \/ InUp(s, d),
         Active(d) => /\ up'[call[d].handle] = up[call[d].handle]
                      /\ session'[call[d].handle].link = "live"
                           => session[call[d].handle].link = "live"
  PROVE  InFlight(d)' /\ Settled(d)'
<1>1. Settled(d)' BY DEF Settled
<1>2. ASSUME Active(d)' PROVE Carries(d)
  BY <1>2 DEF Carries, Active, InFlight, Incoming, Arriving
<1>3. QED BY <1>1, <1>2, FlightCarried

\* The handle of a call in flight is a session that has been opened.
LEMMA FlightOpened ==
  ASSUME Typed, NEW d \in Calls, Active(d)
  PROVE  /\ call[d].handle \in Sessions /\ call[d].handle <= opened
         /\ up[call[d].handle] \in Seq(Message)
         /\ call[d].got \in Seq(Kinds) /\ inbox[d] \in Seq(Kinds)
         /\ sent[d] \in Seq(Kinds)
         /\ call[d].got \o inbox[d] \in Seq(Kinds)
<1>1. call[d].handle \in 1..opened /\ opened \in 0..MaxSessions
  BY DEF Typed, CallsHold, SessionsTyped, Active
<1>2. call[d].handle \in Sessions /\ call[d].handle <= opened
  BY <1>1 DEF Sessions
<1>3. /\ call[d].got \in Seq(Kinds) /\ inbox[d] \in Seq(Kinds)
      /\ sent[d] \in Seq(Kinds) /\ up[call[d].handle] \in Seq(Message)
  BY <1>2 DEF Typed, CallsTyped, CallRecords, ChannelsTyped
<1>4. QED BY <1>2, <1>3, ConcatProperties

\* The breaker's bookkeeping does not touch a link.
LEMMA LinksKept ==
  ASSUME Typed, NEW h, RecordSuccess(h) \/ RecordFailure(h)
  PROVE  \A s \in Sessions : session'[s].link = session[s].link
BY DEF Typed, SessionsTyped, SessionRecords, RecordSuccess, RecordFailure

\* No gap in the initial state.
LEMMA InitGapless == Init => Gapless
BY DEF Init, Gapless, InFlight, Settled, Active, Ready

\* Route draws a command id nothing refers to.
LEMMA RouteGapless ==
  ASSUME Typed, Gapless, NEW c \in Calls, NEW op \in Ops, Route(c, op),
         NEW d \in Calls
  PROVE  InFlight(d)' /\ Settled(d)'
<1>0. /\ call \in [Calls -> CallRecords] /\ ChannelsTyped
      /\ InFlight(d) /\ Settled(d)
      /\ UNCHANGED <<workers, session, opened, down, up, job>>
  BY DEF Typed, CallsTyped, Gapless, Route
<1>1. CASE d # c
  <2>1. call'[d] = call[d] /\ inbox'[d] = inbox[d] /\ sent'[d] = sent[d]
    BY <1>0, <1>1 DEF Route, Refused, ChannelsTyped
  <2>2. QED BY <1>0, <2>1, FlightAside DEF InDown, InUp
<1>2. CASE d = c
  <2>1. ASSUME NEW a \in {"not_found", "limited"}, Refused(c, op, a)
        PROVE  InFlight(d)' /\ Settled(d)'
    <3>1. call'[c] = [Ready EXCEPT !.op = op, !.reply = a]
      BY <1>0, <2>1 DEF Refused
    <3>2. call'[c].pc = "idle" /\ call'[c].reply = a BY <3>1 DEF Ready
    <3>3. QED BY <1>2, <2>1, <3>2 DEF InFlight, Settled, Active
  <2>2. ASSUME workers # 0,
               call' = [call EXCEPT ![c] =
                 [pc |-> "send", op |-> op, handle |-> workers, got |-> <<>>,
                  cancel |-> FALSE, reply |-> "none"]]
        PROVE  InFlight(d)' /\ Settled(d)'
    <3>1. /\ call'[c].pc = "send" /\ call'[c].handle = workers
          /\ call'[c].got = <<>> /\ call'[c].reply = "none"
      BY <1>0, <2>2
    <3>2. inbox'[c] = <<>> /\ sent'[c] = <<>>
      BY <1>0 DEF Route, ChannelsTyped
    <3>3. workers \in Sessions BY <2>2 DEF Typed, SessionsTyped, Sessions
    <3>4. /\ job[c] = NoJob
          /\ \A s \in Sessions : ~InDown(s, c) /\ ~InUp(s, c)
      BY DEF Route, Unused, InDown, InUp
    <3>5. up[workers] \in Seq(Message) BY <1>0, <3>3 DEF ChannelsTyped
    <3>6. Arriving(<<>>, up[workers], <<>>, session[workers].link, c)
      BY <3>3, <3>4, <3>5, NothingArriving DEF InUp
    <3>7. Incoming(c)'
      <4>1. <<>> \o <<>> = <<>> OBVIOUS
      <4>2. QED BY <1>0, <3>1, <3>2, <3>6, <4>1 DEF Incoming
    <3>8. Home(c)' BY <1>0, <3>4 DEF Home, InDown, InUp
    <3>9. Settled(c)' BY <3>1 DEF Settled
    <3>10. QED BY <1>2, <3>1, <3>7, <3>8, <3>9 DEF InFlight
  <2>3. QED BY <2>1, <2>2 DEF Route
<1>3. QED BY <1>1, <1>2

\* A call that was answered without a result.
LEMMA ReplyGapless ==
  ASSUME Typed, NEW c \in Calls, NEW a \in Replies \ {"ok", "error"}, Reply(c, a)
  PROVE  InFlight(c)' /\ Settled(c)'
<1>1. call'[c].pc = "idle" /\ call'[c].reply = a
  <2>1. call \in [Calls -> CallRecords] BY DEF Typed, CallsTyped
  <2>2. call'[c] = [call[c] EXCEPT !.pc = "idle", !.reply = a, !.handle = 0,
                                   !.cancel = FALSE]
    BY <2>1 DEF Reply
  <2>3. QED BY <2>1, <2>2 DEF CallRecords
<1>2. QED BY <1>1 DEF InFlight, Settled, Active

\* A message moves from the channel to the caller: taken together they stay.
LEMMA TakenSame ==
  ASSUME NEW g \in Seq(Kinds), NEW b \in Seq(Kinds), b # <<>>
  PROVE  /\ Append(g, Head(b)) \o Tail(b) = g \o b
         /\ Append(g, Head(b)) \in Seq(Kinds)
         /\ \A m \in Seq(Kinds) : IsStart(g \o b, m) => IsStart(Append(g, Head(b)), m)
<1>1. /\ Len(b) \in Nat \ {0} /\ Head(b) = b[1] /\ Head(b) \in Kinds
      /\ Tail(b) \in Seq(Kinds) /\ Len(Tail(b)) = Len(b) - 1
      /\ \A k \in 1..(Len(b) - 1) : Tail(b)[k] = b[k + 1]
  OBVIOUS
<1> DEFINE a == Append(g, Head(b))
           x == a \o Tail(b)
           y == g \o b
<1>2. /\ a \in Seq(Kinds) /\ Len(a) = Len(g) + 1 /\ a[Len(g) + 1] = b[1]
      /\ \A k \in 1..Len(g) : a[k] = g[k]
  BY <1>1, AppendProperties
<1> HIDE DEF a
<1>3. /\ x \in Seq(Kinds) /\ Len(x) = Len(g) + Len(b)
      /\ \A k \in 1..(Len(g) + Len(b)) :
           x[k] = IF k <= Len(g) + 1 THEN a[k] ELSE Tail(b)[k - (Len(g) + 1)]
  <2>1. /\ x \in Seq(Kinds) /\ Len(x) = Len(a) + Len(Tail(b))
        /\ \A k \in 1..(Len(a) + Len(Tail(b))) :
             x[k] = IF k <= Len(a) THEN a[k] ELSE Tail(b)[k - Len(a)]
    BY <1>1, <1>2, ConcatProperties
  <2>2. Len(a) + Len(Tail(b)) = Len(g) + Len(b) BY <1>1, <1>2
  <2> HIDE DEF x
  <2>3. QED BY <1>2, <2>1, <2>2
<1>4. /\ y \in Seq(Kinds) /\ Len(y) = Len(g) + Len(b)
      /\ \A k \in 1..(Len(g) + Len(b)) :
           y[k] = IF k <= Len(g) THEN g[k] ELSE b[k - Len(g)]
  BY ConcatProperties
<1> HIDE DEF x, y
<1>5. Len(g) \in Nat OBVIOUS
<1>6. ASSUME NEW k \in 1..(Len(g) + Len(b)) PROVE x[k] = y[k]
  <2>0. k \in Int BY <1>1, <1>5
  <2>1. CASE k <= Len(g)
    <3>1. k \in 1..Len(g) /\ k <= Len(g) + 1 BY <1>5, <2>0, <2>1
    <3>2. QED BY <1>2, <1>3, <1>4, <2>1, <3>1
  <2>2. CASE k = Len(g) + 1
    <3>1. k <= Len(g) + 1 /\ ~(k <= Len(g)) /\ k - Len(g) = 1 BY <1>5, <2>2
    <3>2. QED BY <1>2, <1>3, <1>4, <2>2, <3>1
  <2>3. CASE k > Len(g) + 1
    <3>1. /\ ~(k <= Len(g) + 1) /\ ~(k <= Len(g))
          /\ k - (Len(g) + 1) \in 1..(Len(b) - 1)
          /\ k - (Len(g) + 1) + 1 = k - Len(g)
      BY <1>1, <1>5, <2>0, <2>3
    <3>2. x[k] = b[k - (Len(g) + 1) + 1] BY <1>1, <1>3, <3>1
    <3>3. QED BY <1>4, <3>1, <3>2
  <2>4. QED BY <1>5, <2>0, <2>1, <2>2, <2>3
<1>7. x = y BY <1>1, <1>3, <1>4, <1>5, <1>6, SeqEqual
<1>8. ASSUME NEW m \in Seq(Kinds), IsStart(y, m) PROVE IsStart(a, m)
  <2>1. Len(y) <= Len(m) /\ \A k \in 1..Len(y) : y[k] = m[k]
    BY <1>4, <1>8, StartElements
  <2>2. Len(m) \in Nat /\ Len(a) <= Len(m) BY <1>1, <1>2, <1>4, <1>5, <2>1
  <2>3. ASSUME NEW k \in 1..Len(a) PROVE a[k] = m[k]
    <3>1. k \in 1..(Len(g) + Len(b)) /\ k <= Len(g) + 1 BY <1>1, <1>2, <1>5
    <3>2. x[k] = a[k] BY <1>3, <3>1
    <3>3. QED BY <1>4, <1>7, <2>1, <3>1, <3>2
  <2>4. QED BY <1>2, <2>2, <2>3, StartElements
<1>9. QED BY <1>2, <1>7, <1>8 DEF a, x, y

\* The steps of a call.
LEMMA CallGapless ==
  ASSUME Typed, Gapless, NEW c \in Calls, Cancel(c) \/ CallStep(c), NEW d \in Calls
  PROVE  InFlight(d)' /\ Settled(d)'
<1>0. /\ call \in [Calls -> CallRecords] /\ ChannelsTyped /\ CallsHold
      /\ InFlight(d) /\ Settled(d) /\ InFlight(c) /\ Settled(c)
  BY DEF Typed, CallsTyped, Gapless
<1>1. CASE Cancel(c)
  <2>1. CASE d # c
    <3>1. call'[d] = call[d] BY <1>0, <1>1, <2>1 DEF Cancel
    <3>2. QED BY <1>0, <1>1, <3>1, FlightAside DEF Cancel, InDown, InUp
  <2>2. CASE d = c
    <3>1. /\ call'[c].pc = call[c].pc /\ call'[c].handle = call[c].handle
          /\ call'[c].reply = call[c].reply /\ call'[c].got = call[c].got
      BY <1>0, <1>1 DEF Cancel, CallRecords
    <3>2. Settled(c)' BY <1>0, <1>1, <3>1 DEF Cancel, Settled
    <3>3. ASSUME Active(c)' PROVE Carries(c)
      <4>1. Active(c) BY <3>1, <3>3 DEF Active
      <4>2. Incoming(c) BY <1>0, <4>1 DEF InFlight
      <4>3. Arriving(call'[c].got \o inbox'[c], up'[call[c].handle], sent'[c],
                     session'[call[c].handle].link, c)
        BY <1>1, <3>1, <4>2 DEF Cancel, Incoming
      <4>4. QED BY <1>1, <3>1, <4>1, <4>3 DEF Carries, Cancel, InDown, InUp
    <3>4. QED BY <1>0, <2>2, <3>2, <3>3, FlightCarried
  <2>3. QED BY <2>1, <2>2
<1>2. CASE Send(c)
  <2>0. /\ UNCHANGED <<inbox, up, job, sent>>
        /\ \A s \in Sessions : session'[s].link = session[s].link
    BY <1>2, LinksKept DEF Send
  <2>1. CASE d # c
    <3>1. call'[d] = call[d] BY <1>0, <1>2, <2>1 DEF Send, Reply
    <3>2. ASSUME NEW s \in Sessions, InDown(s, d)' PROVE InDown(s, d)
      <4>1. down[s] \in Seq(Calls) BY <1>0 DEF ChannelsTyped
      <4>2. down'[s] = down[s] \/ down'[s] = Append(down[s], c)
        <5>1. \/ down' = [down EXCEPT ![call[c].handle] = Append(down[call[c].handle], c)]
              \/ down' = down
          BY <1>2, Zenon DEF Send
        <5>2. down \in [Sessions -> Seq(Calls)] BY <1>0 DEF ChannelsTyped
        <5>3. QED BY <5>1, <5>2
      <4>3. CASE down'[s] = down[s] BY <3>2, <4>3 DEF InDown
      <4>4. CASE down'[s] = Append(down[s], c)
        <5>1. PICK k \in 1..Len(down'[s]) : down'[s][k] = d BY <3>2 DEF InDown
        <5>2. k # Len(down[s]) + 1 BY <2>1, <4>1, <4>4, <5>1
        <5>3. k \in 1..Len(down[s]) /\ down[s][k] = d BY <4>1, <4>4, <5>1, <5>2
        <5>4. QED BY <5>3 DEF InDown
      <4>5. QED BY <4>2, <4>3, <4>4
    <3>3. \A s \in Sessions : InDown(s, d)' \/ InUp(s, d)' => InDown(s, d) \/ InUp(s, d)
      BY <2>0, <3>2 DEF InUp
    <3>4. Active(d) => session'[call[d].handle].link = session[call[d].handle].link
      BY <2>0, FlightOpened
    <3>5. QED BY <1>0, <2>0, <3>1, <3>3, <3>4, FlightAside
  <2>2. CASE d = c
    <3>1. CASE Reply(c, "disconnected")
      <4>1. "disconnected" \in Replies \ {"ok", "error"} BY DEF Replies
      <4>2. QED BY <2>2, <3>1, <4>1, ReplyGapless
    <3>2. CASE /\ down' = [down EXCEPT ![call[c].handle] =
                                         Append(down[call[c].handle], c)]
               /\ call' = [call EXCEPT ![c].pc =
                    IF call[c].op = "stream" THEN "forward" ELSE "collect"]
      <4>1. /\ call'[c].pc \in {"forward", "collect"}
            /\ call'[c].handle = call[c].handle
            /\ call'[c].reply = call[c].reply /\ call'[c].got = call[c].got
        BY <1>0, <3>2 DEF CallRecords
      <4>2. Settled(c)' BY <1>0, <2>0, <4>1 DEF Settled
      <4>3. Active(c) BY <1>2 DEF Send, Active
      <4>4. Incoming(c) /\ call[c].handle \in Sessions
        BY <1>0, <4>3, FlightOpened DEF InFlight
      <4>5. Arriving(call'[c].got \o inbox'[c], up'[call[c].handle], sent'[c],
                     session'[call[c].handle].link, c)
        BY <2>0, <4>1, <4>4 DEF Incoming
      <4>6. \A s \in Sessions : s # call[c].handle => down'[s] = down[s]
        BY <1>0, <3>2 DEF ChannelsTyped
      <4>7. Carries(c) BY <2>0, <4>1, <4>3, <4>5, <4>6 DEF Carries, InDown, InUp
      <4>8. QED BY <1>0, <2>2, <4>2, <4>7, FlightCarried
    <3>3. QED BY <1>2, <3>1, <3>2 DEF Send
  <2>3. QED BY <2>1, <2>2
<1>3. CASE Collect(c)
  <2>0. /\ UNCHANGED <<up, job, sent, down>>
        /\ \A s \in Sessions : session'[s].link = session[s].link
    BY <1>3, LinksKept DEF Collect
  <2>1. CASE d # c
    <3>1. call'[d] = call[d] /\ inbox'[d] = inbox[d]
      BY <1>0, <1>3, <2>1 DEF Collect, ChannelsTyped
    <3>2. Active(d) => session'[call[d].handle].link = session[call[d].handle].link
      BY <2>0, FlightOpened
    <3>3. QED BY <1>0, <2>0, <3>1, <3>2, FlightAside DEF InDown, InUp
  <2>2. CASE d = c
    <3> DEFINE g == call[c].got
               b == inbox[c]
    <3>1. /\ Active(c) /\ b # <<>> /\ g \in Seq(Kinds) /\ b \in Seq(Kinds)
          /\ sent[c] \in Seq(Kinds) /\ Incoming(c) /\ call[c].handle \in Sessions
          /\ call[c].reply = "none"
      BY <1>0, <1>3, FlightOpened DEF Collect, Active, InFlight
    <3>2. CASE call' = [call EXCEPT ![c] =
                 [pc |-> "idle", op |-> call[c].op, handle |-> 0,
                  got |-> Append(g, Head(b)), cancel |-> FALSE,
                  reply |-> Result(Head(b))]]
      <4>1. call'[c].pc = "idle" /\ call'[c].got = Append(g, Head(b))
        BY <1>0, <3>2
      <4>2. IsStart(Append(g, Head(b)), sent[c])
        BY <3>1, TakenSame DEF Incoming, Arriving
      <4>3. QED BY <2>0, <2>2, <4>1, <4>2 DEF InFlight, Settled, Active
    <3>3. CASE /\ inbox' = [inbox EXCEPT ![c] = Tail(b)]
               /\ call' = [call EXCEPT ![c].got = Append(g, Head(b))]
      <4>1. /\ call'[c].pc = call[c].pc /\ call'[c].got = Append(g, Head(b))
            /\ call'[c].handle = call[c].handle /\ call'[c].reply = call[c].reply
            /\ inbox'[c] = Tail(b)
        BY <1>0, <3>3 DEF CallRecords, ChannelsTyped
      <4>2. call'[c].got \o inbox'[c] = g \o b BY <3>1, <4>1, TakenSame
      <4>3. Arriving(call'[c].got \o inbox'[c], up'[call[c].handle], sent'[c],
                     session'[call[c].handle].link, c)
        BY <2>0, <3>1, <4>2 DEF Incoming
      <4>4. Carries(c) BY <2>0, <3>1, <4>1, <4>3 DEF Carries, InDown, InUp
      <4>5. Settled(c)' BY <1>3, <3>1, <4>1 DEF Settled, Collect
      <4>6. QED BY <1>0, <2>2, <4>4, <4>5, FlightCarried
    <3>4. QED BY <1>3, <3>2, <3>3 DEF Collect
  <2>3. QED BY <2>1, <2>2
<1>4. CASE Timeout(c)
  <2>0. /\ UNCHANGED <<up, job, sent, down>>
        /\ \A s \in Sessions : session'[s].link = session[s].link
    BY <1>4, LinksKept DEF Timeout
  <2>1. CASE d # c
    <3>1. call'[d] = call[d] /\ inbox'[d] = inbox[d]
      BY <1>0, <1>4, <2>1 DEF Timeout, Reply, ChannelsTyped
    <3>2. Active(d) => session'[call[d].handle].link = session[call[d].handle].link
      BY <2>0, FlightOpened
    <3>3. QED BY <1>0, <2>0, <3>1, <3>2, FlightAside DEF InDown, InUp
  <2>2. CASE d = c
    <3>1. "timeout" \in Replies \ {"ok", "error"} BY DEF Replies
    <3>2. QED BY <1>4, <2>2, <3>1, ReplyGapless DEF Timeout
  <2>3. QED BY <2>1, <2>2
<1>5. CASE Forward(c)
  <2>0. UNCHANGED <<up, job, sent, down, session>> BY <1>5 DEF Forward
  <2>1. CASE d # c
    <3>1. call'[d] = call[d] /\ inbox'[d] = inbox[d]
      BY <1>0, <1>5, <2>1 DEF Forward, ChannelsTyped
    <3>2. QED BY <1>0, <2>0, <3>1, FlightAside DEF InDown, InUp
  <2>2. CASE d = c
    <3> DEFINE g == call[c].got
               b == inbox[c]
    <3>0. /\ b # <<>> /\ call[c].pc \in {"forward", "drain"}
          /\ call[c].pc = "drain" => call[c].cancel
          /\ call[c].pc # "drain" => Active(c)
      BY <1>0, <1>5 DEF Forward, CallsHold, Active
    <3>1. ASSUME Active(c)
          PROVE  /\ g \in Seq(Kinds) /\ b \in Seq(Kinds)
                 /\ sent[c] \in Seq(Kinds) /\ Incoming(c)
                 /\ call[c].reply = "none"
      BY <1>0, <3>1, FlightOpened DEF InFlight
    <3>2. CASE call' = [call EXCEPT ![c] =
                 [pc |-> "idle", op |-> call[c].op, handle |-> 0,
                  got |-> Append(g, Head(b)), cancel |-> FALSE,
                  reply |-> IF call[c].cancel THEN "cancelled" ELSE Result(Head(b))]]
      <4>1. /\ call'[c].pc = "idle" /\ call'[c].got = Append(g, Head(b))
            /\ call'[c].reply = IF call[c].cancel THEN "cancelled" ELSE Result(Head(b))
        BY <1>0, <3>2
      <4>2. CASE call[c].cancel
        BY <2>2, <4>1, <4>2 DEF InFlight, Settled, Active
      <4>3. CASE ~call[c].cancel
        <5>1. IsStart(Append(g, Head(b)), sent[c])
          BY <3>0, <3>1, <4>3, TakenSame DEF Incoming, Arriving
        <5>2. QED BY <2>0, <2>2, <4>1, <5>1 DEF InFlight, Settled, Active
      <4>4. QED BY <4>2, <4>3
    <3>3. CASE /\ inbox' = [inbox EXCEPT ![c] = Tail(b)]
               /\ call' = [call EXCEPT ![c].got = Append(g, Head(b))]
      <4>1. /\ call'[c].pc = call[c].pc /\ call'[c].got = Append(g, Head(b))
            /\ call'[c].handle = call[c].handle /\ call'[c].reply = call[c].reply
            /\ inbox'[c] = Tail(b)
        BY <1>0, <3>3 DEF CallRecords, ChannelsTyped
      <4>2. Settled(c)' BY <1>0, <3>0, <3>1, <4>1 DEF Settled, InFlight
      <4>3. ASSUME Active(c)' PROVE Carries(c)
        <5>1. Active(c) BY <4>1, <4>3 DEF Active
        <5>2. call'[c].got \o inbox'[c] = g \o b
          BY <3>0, <3>1, <4>1, <5>1, TakenSame, ZenonT(40)
        <5>3. Arriving(call'[c].got \o inbox'[c], up'[call[c].handle], sent'[c],
                       session'[call[c].handle].link, c)
          BY <2>0, <3>1, <5>1, <5>2 DEF Incoming
        <5>4. QED BY <2>0, <4>1, <5>1, <5>3 DEF Carries, InDown, InUp
      <4>4. QED BY <1>0, <2>2, <4>2, <4>3, FlightCarried
    <3>4. CASE call' = [call EXCEPT ![c].pc = "drain", ![c].reply = "cancelled"]
      <4>1. call'[c].pc = "drain" /\ call'[c].reply = "cancelled"
        BY <1>0, <3>4 DEF CallRecords
      <4>2. QED BY <2>2, <4>1 DEF InFlight, Settled, Active
    <3>5. QED BY <1>5, <3>2, <3>3, <3>4 DEF Forward
  <2>3. QED BY <2>1, <2>2
<1>6. QED BY <1>1, <1>2, <1>3, <1>4, <1>5 DEF CallStep

\* The reader task appends the first message of the session to the channel of
\* its command; a message of a call in flight is never dropped.
LEMMA ReadGapless ==
  ASSUME Typed, Gapless, PendingOwned, NEW s \in Sessions, Read(s), NEW d \in Calls
  PROVE  InFlight(d)' /\ Settled(d)'
<1>0. /\ ChannelsTyped /\ InFlight(d) /\ Settled(d)
      /\ UNCHANGED <<call, pending, workers, session, opened, down, job, sent>>
      /\ up[s] \in Seq(Message) /\ up[s] # <<>>
      /\ up'[s] = Tail(up[s]) /\ \A t \in Sessions : t # s => up'[t] = up[t]
  BY DEF Typed, ChannelsTyped, Gapless, Read
<1> DEFINE m == Head(up[s])
<1>1. m \in Message /\ m = up[s][1] /\ 1 \in 1..Len(up[s])
  BY <1>0, HeadTailProperties
<1>2. m.cmd \in Calls /\ m.kind \in Kinds /\ InUp(s, m.cmd)
  BY <1>1 DEF Message, InUp
<1>3. ASSUME NEW t \in Sessions, InUp(t, d)' PROVE InUp(t, d)
  <2>1. CASE t # s BY <1>0, <1>3, <2>1 DEF InUp
  <2>2. CASE t = s
    <3>1. PICK k \in 1..Len(up'[s]) : up'[s][k].cmd = d BY <1>3, <2>2 DEF InUp
    <3>2. k + 1 \in 1..Len(up[s]) /\ up'[s][k] = up[s][k + 1] BY <1>0, <3>1
    <3>3. QED BY <2>2, <3>1, <3>2 DEF InUp
  <2>3. QED BY <2>1, <2>2
<1>4. Settled(d)' BY <1>0 DEF Settled
<1>5. ASSUME Active(d) PROVE Carries(d)
  <2> DEFINE h == call[d].handle
             p == call[d].got \o inbox[d]
  <2>1. /\ h \in Sessions /\ call[d].got \in Seq(Kinds) /\ inbox[d] \in Seq(Kinds)
        /\ sent[d] \in Seq(Kinds) /\ p \in Seq(Kinds)
    BY <1>5, FlightOpened
  <2>2. Home(d) /\ Arriving(p, up[h], sent[d], session[h].link, d)
    BY <1>0, <1>5 DEF InFlight, Incoming
  <2>3. CASE d = m.cmd
    <3>1. h = s BY <1>2, <2>2, <2>3 DEF Home
    <3>2. d \in pending BY <1>5 DEF Active, PendingOwned
    <3>3. inbox'[d] = Append(inbox[d], m.kind)
      BY <1>0, <2>3, <3>2 DEF Read, ChannelsTyped
    <3>4. call[d].got \o inbox'[d] = Append(p, m.kind)
      <4>1. \A q \in Seq(Kinds), x \in Kinds :
              <<x>> \in Seq(Kinds) /\ Append(q, x) = q \o <<x>>
        BY AppendIsConcat
      <4>2. \A a, b, x \in Seq(Kinds) : (a \o b) \o x = a \o (b \o x)
        BY ConcatAssociative
      <4> HIDE DEF m
      <4>3. /\ <<m.kind>> \in Seq(Kinds) /\ inbox'[d] = inbox[d] \o <<m.kind>>
            /\ Append(p, m.kind) = p \o <<m.kind>>
        BY <1>2, <2>1, <3>3, <4>1, Zenon
      <4>4. call[d].got \o (inbox[d] \o <<m.kind>>) = p \o <<m.kind>>
        BY <2>1, <4>2, <4>3, ZenonT(40)
      <4>5. QED BY <4>3, <4>4, Zenon
    <3>5. Arriving(Append(p, m.kind), up'[s], sent[d], session[h].link, d)
      <4>1. Arriving(p, up[s], sent[d], session[h].link, d) BY <2>2, <3>1
      <4> HIDE DEF p, h
      <4>2. Arriving(Append(p, Head(up[s]).kind), Tail(up[s]), sent[d],
                     session[h].link, d)
        BY <1>0, <2>1, <2>3, <4>1, ArrivingRead
      <4>3. QED BY <1>0, <4>2
    <3>6. Arriving(call'[d].got \o inbox'[d], up'[h], sent'[d], session'[h].link, d)
      BY <1>0, <3>1, <3>4, <3>5
    <3>7. QED BY <1>0, <1>3, <1>5, <3>6 DEF Carries, InDown
  <2>4. CASE d # m.cmd
    <3>1. inbox'[d] = inbox[d] BY <1>0, <2>4 DEF Read, ChannelsTyped
    <3>2. Arriving(p, up'[h], sent[d], session[h].link, d)
      <4>1. CASE h = s BY <1>0, <2>1, <2>2, <2>4, <4>1, ArrivingRead
      <4>2. CASE h # s BY <1>0, <2>1, <2>2, <4>2
      <4>3. QED BY <4>1, <4>2
    <3>3. Arriving(call'[d].got \o inbox'[d], up'[h], sent'[d], session'[h].link, d)
      BY <1>0, <3>1, <3>2
    <3>4. QED BY <1>0, <1>3, <1>5, <3>3 DEF Carries, InDown
  <2>5. QED BY <2>3, <2>4
<1>6. Active(d)' => Active(d) BY <1>0 DEF Active
<1>7. QED BY <1>0, <1>4, <1>5, <1>6, FlightCarried

\* The sessions' own steps: what a break loses is the end of what was on its way.
LEMMA SessionGapless ==
  ASSUME Typed, Gapless, NEW d \in Calls,
         \/ \E s \in Sessions : Break(s) \/ Notice(s) \/ CircuitExpires(s) \/ WatchdogRemove(s)
         \/ Connect \/ WatchdogScan \/ Refill
  PROVE  InFlight(d)' /\ Settled(d)'
<1>0. /\ ChannelsTyped /\ session \in [Sessions -> SessionRecords]
      /\ InFlight(d) /\ Settled(d)
  BY DEF Typed, SessionsTyped, Gapless
<1>1. ASSUME NEW s \in Sessions, Break(s) PROVE InFlight(d)' /\ Settled(d)'
  <2>0. PICK n \in 0..Len(up[s]) : up' = [up EXCEPT ![s] = SubSeq(up[s], 1, n)]
    BY <1>1 DEF Break
  <2>1. /\ UNCHANGED <<call, inbox, down, sent>> /\ job'[d] \in {job[d], NoJob}
        /\ up'[s] = SubSeq(up[s], 1, n) /\ up[s] \in Seq(Message)
        /\ \A t \in Sessions : t # s => up'[t] = up[t]
    BY <1>0, <1>1, <2>0 DEF Break, ChannelsTyped
  <2>2. /\ session'[s].link = "half"
        /\ \A t \in Sessions : t # s => session'[t].link = session[t].link
    BY <1>0, <1>1 DEF Break, SessionRecords
  <2>3. ASSUME NEW t \in Sessions, InUp(t, d)' PROVE InUp(t, d)
    <3>1. CASE t # s BY <2>1, <2>3, <3>1 DEF InUp
    <3>2. CASE t = s
      <4>1. PICK k \in 1..Len(up'[s]) : up'[s][k].cmd = d BY <2>3, <3>2 DEF InUp
      <4>2. Len(up'[s]) = n /\ \A j \in 1..n : up'[s][j] = up[s][j]
        BY <2>1, SubSeqProperties
      <4>3. k \in 1..Len(up[s]) /\ up'[s][k] = up[s][k] BY <2>1, <4>2
      <4>4. QED BY <3>2, <4>1, <4>3 DEF InUp
    <3>3. QED BY <3>1, <3>2
  <2>4. Settled(d)' BY <1>0, <2>1 DEF Settled
  <2>5. ASSUME Active(d) PROVE Carries(d)
    <3> DEFINE h == call[d].handle
               p == call[d].got \o inbox[d]
    <3>1. h \in Sessions /\ p \in Seq(Kinds) /\ sent[d] \in Seq(Kinds)
      BY <2>5, FlightOpened
    <3>2. Arriving(p, up[h], sent[d], session[h].link, d)
      BY <1>0, <2>5 DEF InFlight, Incoming
    <3>3. CASE h = s
      <4>1. Arriving(p, SubSeq(up[s], 1, n), sent[d], "half", d)
        BY <2>1, <3>1, <3>2, <3>3, ArrivingCut
      <4>2. QED BY <2>1, <2>2, <2>3, <2>5, <3>3, <4>1 DEF Carries, InDown
    <3>4. CASE h # s
      BY <2>1, <2>2, <2>3, <2>5, <3>1, <3>2, <3>4 DEF Carries, InDown
    <3>5. QED BY <3>3, <3>4
  <2>6. Active(d)' => Active(d) BY <2>1 DEF Active
  <2>7. QED BY <1>0, <2>4, <2>5, <2>6, FlightCarried
<1>2. ASSUME NEW s \in Sessions, Notice(s) PROVE InFlight(d)' /\ Settled(d)'
  <2>1. /\ UNCHANGED <<call, inbox, up, job, sent>>
        /\ session[s].link = "half" /\ session'[s].link = "closed"
        /\ \A t \in Sessions : t # s => session'[t].link = session[t].link
    BY <1>0, <1>2 DEF Notice, SessionRecords
  <2>2. ASSUME NEW t \in Sessions, InDown(t, d)' PROVE InDown(t, d)
    <3>1. down'[s] = <<>> /\ \A x \in Sessions : x # s => down'[x] = down[x]
      BY <1>0, <1>2 DEF Notice, ChannelsTyped
    <3>2. Len(<<>>) = 0 OBVIOUS
    <3>3. QED BY <2>2, <3>1, <3>2 DEF InDown
  <2>3. Settled(d)' BY <1>0, <2>1 DEF Settled
  <2>4. ASSUME Active(d) PROVE Carries(d)
    <3> DEFINE h == call[d].handle
               p == call[d].got \o inbox[d]
    <3>1. h \in Sessions BY <2>4, FlightOpened
    <3>2. Arriving(p, up[h], sent[d], session[h].link, d)
      BY <1>0, <2>4 DEF InFlight, Incoming
    <3>3. Arriving(p, up[h], sent[d], session'[h].link, d)
      <4>1. CASE h # s BY <2>1, <3>1, <3>2, <4>1
      <4>2. CASE h = s BY <2>1, <3>2, <4>2 DEF Arriving
      <4>3. QED BY <4>1, <4>2
    <3>4. QED BY <2>1, <2>2, <2>4, <3>3 DEF Carries, InUp
  <2>5. Active(d)' => Active(d) BY <2>1 DEF Active
  <2>6. QED BY <1>0, <2>3, <2>4, <2>5, FlightCarried
<1>3. ASSUME UNCHANGED <<call, inbox, down, up, job, sent>>,
             Active(d) => (session'[call[d].handle].link = "live"
                             => session[call[d].handle].link = "live")
      PROVE  InFlight(d)' /\ Settled(d)'
  BY <1>0, <1>3, FlightAside DEF InDown, InUp
<1>4. ASSUME NEW s \in Sessions, CircuitExpires(s) PROVE InFlight(d)' /\ Settled(d)'
  <2>1. \A t \in Sessions : session'[t].link = session[t].link
    BY <1>0, <1>4 DEF CircuitExpires, SessionRecords
  <2>2. QED BY <1>3, <1>4, <2>1, FlightOpened DEF CircuitExpires
<1>5. CASE Connect
  <2>1. \A t \in Sessions : t <= opened => session'[t].link = session[t].link
    <3>1. opened \in Nat BY DEF Typed, SessionsTyped
    <3>2. QED BY <1>0, <1>5, <3>1 DEF Connect, Sessions
  <2>2. QED BY <1>3, <1>5, <2>1, FlightOpened DEF Connect
<1>6. CASE Refill BY <1>3, <1>6 DEF Refill
<1>7. CASE WatchdogScan \/ \E s \in Sessions : WatchdogRemove(s)
  <2>1. \A t \in Sessions : session'[t].link = "live" => session[t].link = "live"
    BY <1>0, <1>7 DEF WatchdogScan, WatchdogRemove, SessionRecords
  <2>2. QED BY <1>3, <1>7, <2>1, FlightOpened DEF WatchdogScan, WatchdogRemove
<1>8. QED BY <1>1, <1>2, <1>4, <1>5, <1>6, <1>7

\* The worker: it takes a command on the session it was sent on, and sends for
\* it on that session only.
LEMMA WorkGapless ==
  ASSUME Typed, Gapless, WorkerStep, NEW d \in Calls
  PROVE  InFlight(d)' /\ Settled(d)'
<1>0. /\ ChannelsTyped /\ JobsTyped /\ JobsHold /\ InFlight(d) /\ Settled(d)
  BY DEF Typed, Gapless
<1>1. ASSUME NEW s \in Sessions, Take(s) PROVE InFlight(d)' /\ Settled(d)'
  <2>0. /\ down[s] \in Seq(Calls) /\ down[s] # <<>>
        /\ UNCHANGED <<call, inbox, session, up, sent>>
        /\ down'[s] = Tail(down[s])
        /\ \A t \in Sessions : t # s => down'[t] = down[t]
    BY <1>0, <1>1 DEF ChannelsTyped, Take
  <2>1. ASSUME NEW t \in Sessions, InDown(t, d)' PROVE InDown(t, d)
    <3>1. CASE t # s BY <2>0, <2>1, <3>1 DEF InDown
    <3>2. CASE t = s
      <4>1. PICK k \in 1..Len(down'[s]) : down'[s][k] = d BY <2>1, <3>2 DEF InDown
      <4>2. k + 1 \in 1..Len(down[s]) /\ down'[s][k] = down[s][k + 1]
        BY <2>0, <4>1
      <4>3. QED BY <3>2, <4>1, <4>2 DEF InDown
    <3>3. QED BY <3>1, <3>2
  <2>2. Settled(d)' BY <1>0, <2>0 DEF Settled
  <2>3. ASSUME Active(d) PROVE Carries(d)
    <3>1. Home(d) /\ Incoming(d) BY <1>0, <2>3 DEF InFlight
    <3>2. job'[d] = job[d] \/ job'[d].session = call[d].handle
      <4>1. CASE d # Head(down[s]) BY <1>0, <1>1, <4>1 DEF Take, JobsTyped
      <4>2. CASE d = Head(down[s])
        <5>1. 1 \in 1..Len(down[s]) /\ down[s][1] = d BY <2>0, <4>2
        <5>2. call[d].handle = s BY <3>1, <5>1 DEF Home, InDown
        <5>3. job'[d].session = s BY <1>0, <1>1, <4>2 DEF Take, JobsTyped
        <5>4. QED BY <5>2, <5>3
      <4>3. QED BY <4>1, <4>2
    <3>3. Arriving(call'[d].got \o inbox'[d], up'[call[d].handle], sent'[d],
                   session'[call[d].handle].link, d)
      BY <2>0, <3>1 DEF Incoming
    <3>4. QED BY <2>0, <2>1, <2>3, <3>2, <3>3 DEF Carries, InUp
  <2>4. Active(d)' => Active(d) BY <2>0 DEF Active
  <2>5. QED BY <1>0, <2>2, <2>3, <2>4, FlightCarried
<1>2. ASSUME NEW c \in Calls, Start(c) \/ Finish(c),
             UNCHANGED <<call, inbox, pending, workers, session, opened, tokens, down>>
      PROVE  InFlight(d)' /\ Settled(d)'
  <2>1. job[c] # NoJob /\ call[c].op \in Ops /\ job[c].session \in Sessions
    BY <1>0, <1>2 DEF Start, Finish, NoJob, JobsHold
  <2>2. PICK ms \in Seq(Kinds) : Emit(c, ms)
    <3>1. CASE Start(c)
      <4>1. <<"ack">> \in Seq(Kinds) /\ <<>> \in Seq(Kinds) BY DEF Kinds
      <4>2. QED BY <3>1, <4>1 DEF Start
    <3>2. CASE Finish(c)
      <4>1. PICK ms \in Messages(call[c].op) : Emit(c, ms) BY <3>2 DEF Finish
      <4>2. ms \in Seq(Kinds) BY <2>1, MessagesTyped
      <4>3. QED BY <4>1, <4>2
    <3>3. QED BY <1>2, <3>1, <3>2
  <2> DEFINE s == job[c].session
             e == [k \in 1..Len(ms) |-> [cmd |-> c, kind |-> ms[k]]]
  <2>3. /\ e \in Seq(Message) /\ Len(e) = Len(ms)
        /\ \A k \in 1..Len(e) : e[k].cmd = c
    <3>1. Len(ms) \in Nat /\ \A k \in 1..Len(ms) : ms[k] \in Kinds OBVIOUS
    <3>2. \A k \in 1..Len(ms) : [cmd |-> c, kind |-> ms[k]] \in Message
      BY <3>1 DEF Message
    <3>3. QED BY <3>1, <3>2, IsASeq
  <2>4. /\ session[s].link = "live" => up' = [up EXCEPT ![s] = up[s] \o e]
        /\ session[s].link # "live" => up' = up
        /\ sent' = [sent EXCEPT ![c] = sent[c] \o ms]
    BY <2>2 DEF Emit
  <2> HIDE DEF e
  <2>5. /\ up[s] \in Seq(Message) /\ \A t \in Sessions : t # s => up'[t] = up[t]
        /\ session[s].link = "live" => up'[s] = up[s] \o e
        /\ session[s].link # "live" => up'[s] = up[s]
    BY <1>0, <2>1, <2>4 DEF ChannelsTyped
  <2>6. job'[d] \in {job[d], NoJob} \/ job'[d].session = job[d].session
    <3>1. CASE Start(c) BY <1>0, <3>1 DEF Start, JobsTyped
    <3>2. CASE Finish(c) BY <1>0, <3>2 DEF Finish, JobsTyped
    <3>3. QED BY <1>2, <3>1, <3>2
  <2>7. CASE d # c
    <3>1. sent'[d] = sent[d] BY <1>0, <2>4, <2>7 DEF ChannelsTyped
    <3>2. job'[d] = job[d] BY <1>0, <1>2, <2>7 DEF Start, Finish, JobsTyped
    <3>3. ASSUME NEW t \in Sessions, InUp(t, d)' PROVE InUp(t, d)
      <4>1. CASE up'[t] = up[t] BY <3>3, <4>1 DEF InUp
      <4>2. CASE t = s /\ up'[s] = up[s] \o e
        <5>1. PICK k \in 1..Len(up'[s]) : up'[s][k].cmd = d BY <3>3, <4>2 DEF InUp
        <5>2. /\ Len(up'[s]) = Len(up[s]) + Len(e)
              /\ \A j \in 1..(Len(up[s]) + Len(e)) :
                   up'[s][j] = IF j <= Len(up[s]) THEN up[s][j] ELSE e[j - Len(up[s])]
          <6> HIDE DEF s
          <6>1. \A a, b \in Seq(Message) :
                  /\ Len(a \o b) = Len(a) + Len(b)
                  /\ \A j \in 1..(Len(a) + Len(b)) :
                       (a \o b)[j] = IF j <= Len(a) THEN a[j] ELSE b[j - Len(a)]
            BY ConcatProperties
          <6>2. /\ Len(up[s] \o e) = Len(up[s]) + Len(e)
                /\ \A j \in 1..(Len(up[s]) + Len(e)) :
                     (up[s] \o e)[j] =
                       IF j <= Len(up[s]) THEN up[s][j] ELSE e[j - Len(up[s])]
            BY <2>3, <2>5, <6>1, Zenon
          <6>3. QED BY <4>2, <6>2, Zenon
        <5>3. Len(up[s]) \in Nat /\ Len(e) \in Nat BY <2>3, <2>5
        <5>4. CASE k <= Len(up[s])
          <6>1. k \in 1..Len(up[s]) /\ up'[s][k] = up[s][k] BY <5>2, <5>3, <5>4
          <6>2. QED BY <4>2, <5>1, <6>1 DEF InUp
        <5>5. CASE ~(k <= Len(up[s]))
          <6>1. k - Len(up[s]) \in 1..Len(e) BY <5>2, <5>3, <5>5
          <6>2. up'[s][k].cmd = c BY <2>3, <5>2, <5>5, <6>1
          <6>3. QED BY <2>7, <5>1, <6>2
        <5>6. QED BY <5>4, <5>5
      <4>3. QED BY <2>5, <4>1, <4>2
    <3>4. Settled(d)' BY <1>0, <1>2, <3>1 DEF Settled
    <3>5. ASSUME Active(d) PROVE Carries(d)
      <4> DEFINE h == call[d].handle
                 p == call[d].got \o inbox[d]
      <4>1. h \in Sessions /\ p \in Seq(Kinds) /\ sent[d] \in Seq(Kinds)
        BY <3>5, FlightOpened
      <4>2. Arriving(p, up[h], sent[d], session[h].link, d)
        BY <1>0, <3>5 DEF InFlight, Incoming
      <4>3. Arriving(p, up'[h], sent[d], session[h].link, d)
        <5>1. CASE up'[h] = up[h] BY <4>2, <5>1
        <5>2. CASE h = s /\ up'[s] = up[s] \o e
          <6>1. \A k \in 1..Len(e) : e[k].cmd # d BY <2>3, <2>7
          <6>2. Arriving(p, up[s], sent[d], session[h].link, d) BY <4>2, <5>2
          <6> HIDE DEF p, h, s
          <6>3. Arriving(p, up[s] \o e, sent[d], session[h].link, d)
            BY <2>3, <2>5, <4>1, <6>1, <6>2, ArrivingOther
          <6>4. QED BY <5>2, <6>3
        <5>3. QED BY <2>5, <4>1, <5>1, <5>2
      <4>4. QED BY <1>2, <3>1, <3>2, <3>3, <3>5, <4>3 DEF Carries, InDown
    <3>6. Active(d)' => Active(d) BY <1>2 DEF Active
    <3>7. QED BY <1>0, <3>4, <3>5, <3>6, FlightCarried
  <2>8. CASE d = c
    <3>1. sent'[d] = sent[d] \o ms /\ sent[d] \in Seq(Kinds)
      BY <1>0, <2>4, <2>8 DEF ChannelsTyped
    <3>2. Settled(d)'
      <4>1. call[d].got \in Seq(Kinds) BY DEF Typed, CallsTyped, CallRecords
      <4>2. QED BY <1>0, <1>2, <3>1, <4>1, StartGrows DEF Settled
    <3>3. ASSUME Active(d) PROVE Carries(d)
      <4> DEFINE h == call[d].handle
                 p == call[d].got \o inbox[d]
      <4>1. h \in Sessions /\ p \in Seq(Kinds) BY <3>3, FlightOpened
      <4>2. Home(d) /\ Arriving(p, up[h], sent[d], session[h].link, d)
        BY <1>0, <3>3 DEF InFlight, Incoming
      <4>3. h = s BY <2>1, <2>8, <4>2 DEF Home
      <4>4. Arriving(p, up'[h], sent'[d], session[h].link, d)
        <5>1. CASE session[s].link = "live"
          <6>1. Arriving(p, up[s] \o e, sent[d] \o ms, session[s].link, d)
            BY <2>5, <2>8, <3>1, <4>1, <4>2, <4>3, <5>1, ArrivingOwn DEF e
          <6>2. QED BY <2>5, <3>1, <4>3, <5>1, <6>1
        <5>2. CASE session[s].link # "live"
          <6>1. /\ Arriving(p, up[s], sent[d], session[s].link, d)
                /\ session[h].link = session[s].link
            BY <4>2, <4>3
          <6> HIDE DEF p, h, s
          <6>2. Arriving(p, up[s], sent[d] \o ms, session[s].link, d)
            BY <2>5, <3>1, <4>1, <5>2, <6>1, ArrivingOwn
          <6>3. QED BY <2>5, <3>1, <4>3, <5>2, <6>1, <6>2
        <5>3. QED BY <5>1, <5>2
      <4>5. \A t \in Sessions : InUp(t, d)' => InUp(t, d) \/ t = h
        BY <2>5, <4>3 DEF InUp
      <4>6. QED BY <1>2, <2>6, <2>8, <3>3, <4>3, <4>4, <4>5 DEF Carries, InDown
    <3>4. Active(d)' => Active(d) BY <1>2 DEF Active
    <3>5. QED BY <1>0, <3>2, <3>3, <3>4, FlightCarried
  <2>9. QED BY <2>7, <2>8
<1>3. QED BY <1>1, <1>2 DEF WorkerStep, Start, Finish

\* The invariant of the answers, with the types it rests on.
LEMMA GaplessInductive == Spec => [](Typed /\ Gapless)
<1>1. ASSUME Typed, Gapless, PendingOwned, [Next]_routingVars PROVE Gapless'
  <2> SUFFICES ASSUME NEW d \in Calls PROVE InFlight(d)' /\ Settled(d)'
    BY DEF Gapless
  <2>1. CASE UNCHANGED routingVars
    <3>1. InFlight(d) /\ Settled(d) BY <1>1 DEF Gapless
    <3>2. QED BY <1>1, <2>1, <3>1, FlightAside DEF routingVars, InDown, InUp
  <2>2. QED
    BY <1>1, <2>1, RouteGapless, CallGapless, ReadGapless, SessionGapless,
       WorkGapless
    DEF Next
<1>2. QED
  BY <1>1, InitTyped, InitGapless, NextTyped, PendingIsOwned, PTL DEF Spec

\* What a caller has received for a command is, at every moment, the beginning
\* of what the worker sent for it: sessions that break, commands that time out
\* and ids that are drawn again included.
THEOREM AnswersHaveNoGap == Spec => []NoGap
<1>1. Gapless => NoGap
  BY DEF Gapless, InFlight, Settled, Active, Incoming, Arriving, NoGap
<1>2. QED BY <1>1, GaplessInductive, PTL

------------------------------------------------------------------------------
(* Every command follows RemoteCommand.                                     *)

\* A command is in the command channels, and at one place of them.
InChannel(dn, c) == \E s \in Sessions : \E k \in 1..Len(dn[s]) : dn[s][k] = c
Lone(dn, c) ==
  \A s, t \in Sessions : \A j \in 1..Len(dn[s]), k \in 1..Len(dn[t]) :
    (dn[s][j] = c /\ dn[t][k] = c) => (s = t /\ j = k)

\* A command that is not sent yet, waits in a channel or for a permit has nothing
\* done for it elsewhere.
Once(c) ==
  /\ Sent(c) => job[c].pc = "none" /\ sent[c] = <<>>
  /\ job[c].pc = "permit" => sent[c] = <<>>
  /\ call[c].pc = "send" => ~Sent(c) /\ job[c].pc = "none" /\ sent[c] = <<>>
  /\ Lone(down, c)

\* What the worker sends for a streamed command.
StreamKinds == {"ack", "out", "exit", "error"}
Streamed(c) ==
  /\ call[c].pc \in {"forward", "drain"} => call[c].op = "stream"
  /\ call[c].op = "stream" => sent[c] \in Seq(StreamKinds)

\* A command enters a channel.
LEMMA ChannelGrows ==
  ASSUME NEW dn \in [Sessions -> Seq(Calls)], NEW c \in Calls, NEW h \in Sessions,
         NEW en, en[h] = Append(dn[h], c),
         \A s \in Sessions : s # h => en[s] = dn[s], ~InChannel(dn, c)
  PROVE  /\ InChannel(en, c) /\ Lone(en, c)
         /\ \A d \in Calls : d # c => (InChannel(en, d) <=> InChannel(dn, d))
         /\ \A d \in Calls : d # c /\ Lone(dn, d) => Lone(en, d)
<1>0. /\ dn[h] \in Seq(Calls) /\ Len(dn[h]) \in Nat /\ en[h] = Append(dn[h], c)
      /\ \A s \in Sessions : s # h => en[s] = dn[s]
  OBVIOUS
<1>1. /\ Len(en[h]) = Len(dn[h]) + 1 /\ en[h][Len(dn[h]) + 1] = c
      /\ \A k \in 1..Len(dn[h]) : en[h][k] = dn[h][k]
  BY <1>0
<1>2. ASSUME NEW s \in Sessions, NEW k \in 1..Len(dn[s])
      PROVE  k \in 1..Len(en[s]) /\ en[s][k] = dn[s][k]
  BY <1>0, <1>1, SMTT(30)
<1>3. ASSUME NEW s \in Sessions, NEW k \in 1..Len(en[s])
      PROVE  \/ s = h /\ k = Len(dn[h]) + 1 /\ en[s][k] = c
             \/ k \in 1..Len(dn[s]) /\ en[s][k] = dn[s][k]
  <2>1. CASE s = h BY <1>0, <1>1, <2>1
  <2>2. CASE s # h BY <1>0, <2>2
  <2>3. QED BY <2>1, <2>2
<1>4. InChannel(en, c)
  <2>1. Len(dn[h]) + 1 \in 1..Len(en[h]) BY <1>0, <1>1
  <2>2. QED BY <1>1, <2>1 DEF InChannel
<1>5. Lone(en, c)
  <2>1. \A s \in Sessions : \A k \in 1..Len(dn[s]) : dn[s][k] # c BY DEF InChannel
  <2>2. \A s \in Sessions : \A k \in 1..Len(en[s]) :
          en[s][k] = c => s = h /\ k = Len(dn[h]) + 1
    BY <1>3, <2>1
  <2>3. QED BY <2>2 DEF Lone
<1>6. ASSUME NEW d \in Calls, d # c PROVE InChannel(en, d) <=> InChannel(dn, d)
  <2>1. ASSUME NEW s \in Sessions, NEW k \in 1..Len(en[s]), en[s][k] = d
        PROVE  k \in 1..Len(dn[s]) /\ dn[s][k] = d
    BY <1>3, <1>6, <2>1
  <2>2. InChannel(en, d) => InChannel(dn, d) BY <2>1 DEF InChannel
  <2>3. InChannel(dn, d) => InChannel(en, d) BY <1>2 DEF InChannel
  <2>4. QED BY <2>2, <2>3
<1>7. ASSUME NEW d \in Calls, d # c, Lone(dn, d) PROVE Lone(en, d)
  <2> SUFFICES ASSUME NEW s \in Sessions, NEW t \in Sessions, NEW j \in 1..Len(en[s]),
                      NEW k \in 1..Len(en[t]), en[s][j] = d, en[t][k] = d
               PROVE  s = t /\ j = k
    BY DEF Lone
  <2>1. j \in 1..Len(dn[s]) /\ dn[s][j] = d BY <1>3, <1>7
  <2>2. k \in 1..Len(dn[t]) /\ dn[t][k] = d BY <1>3, <1>7
  <2>3. QED BY <1>7, <2>1, <2>2 DEF Lone
<1>8. QED BY <1>4, <1>5, <1>6, <1>7

\* The first command of a channel is taken.
LEMMA ChannelTaken ==
  ASSUME NEW dn \in [Sessions -> Seq(Calls)], NEW h \in Sessions, dn[h] # <<>>,
         NEW en, en[h] = Tail(dn[h]),
         \A s \in Sessions : s # h => en[s] = dn[s]
  PROVE  /\ InChannel(dn, Head(dn[h]))
         /\ Lone(dn, Head(dn[h])) => ~InChannel(en, Head(dn[h]))
         /\ \A d \in Calls : d # Head(dn[h]) => (InChannel(en, d) <=> InChannel(dn, d))
         /\ \A d \in Calls : Lone(dn, d) => Lone(en, d)
<1>0. /\ dn[h] \in Seq(Calls) /\ Len(dn[h]) \in Nat \ {0} /\ en[h] = Tail(dn[h])
      /\ Head(dn[h]) = dn[h][1] /\ \A s \in Sessions : s # h => en[s] = dn[s]
  OBVIOUS
<1>1. /\ Len(en[h]) = Len(dn[h]) - 1
      /\ \A k \in 1..(Len(dn[h]) - 1) : en[h][k] = dn[h][k + 1]
  BY <1>0
<1> DEFINE Place(s, k) == IF s = h THEN k + 1 ELSE k
<1>2. ASSUME NEW s \in Sessions, NEW k \in 1..Len(en[s])
      PROVE  Place(s, k) \in 1..Len(dn[s]) /\ en[s][k] = dn[s][Place(s, k)]
  <2>1. CASE s = h BY <1>0, <1>1, <2>1
  <2>2. CASE s # h BY <1>0, <2>2
  <2>3. QED BY <2>1, <2>2
<1>3. 1 \in 1..Len(dn[h]) BY <1>0
<1>4. InChannel(dn, Head(dn[h])) BY <1>0, <1>3 DEF InChannel
<1>5. ASSUME Lone(dn, Head(dn[h])) PROVE ~InChannel(en, Head(dn[h]))
  <2> SUFFICES ASSUME NEW s \in Sessions, NEW k \in 1..Len(en[s]), en[s][k] = dn[h][1]
               PROVE  FALSE
    BY <1>0 DEF InChannel
  <2>1. Place(s, k) \in 1..Len(dn[s]) /\ dn[s][Place(s, k)] = dn[h][1] BY <1>2
  <2>2. s = h /\ Place(s, k) = 1 BY <1>0, <1>3, <1>5, <2>1 DEF Lone
  <2>3. k + 1 = 1 BY <2>2
  <2>4. QED BY <2>3
<1>6. ASSUME NEW d \in Calls, d # Head(dn[h]) PROVE InChannel(en, d) <=> InChannel(dn, d)
  <2>1. InChannel(en, d) => InChannel(dn, d) BY <1>2, SMTT(30) DEF InChannel
  <2>2. ASSUME NEW s \in Sessions, NEW k \in 1..Len(dn[s]), dn[s][k] = d
        PROVE  InChannel(en, d)
    <3>1. CASE s = h
      <4>1. k # 1 BY <1>0, <1>6, <2>2, <3>1
      <4>2. k - 1 \in 1..Len(en[h]) /\ en[h][k - 1] = d
        BY <1>0, <1>1, <2>2, <3>1, <4>1
      <4>3. QED BY <4>2 DEF InChannel
    <3>2. CASE s # h BY <1>0, <2>2, <3>2 DEF InChannel
    <3>3. QED BY <3>1, <3>2
  <2>3. QED BY <2>1, <2>2 DEF InChannel
<1>7. ASSUME NEW d \in Calls, Lone(dn, d) PROVE Lone(en, d)
  <2>1. ASSUME NEW s \in Sessions, NEW t \in Sessions, NEW j \in 1..Len(en[s]),
               NEW k \in 1..Len(en[t]), en[s][j] = d, en[t][k] = d
        PROVE  s = t /\ j = k
    <3>1. Place(s, j) \in 1..Len(dn[s]) /\ dn[s][Place(s, j)] = d BY <1>2, <2>1
    <3>2. Place(t, k) \in 1..Len(dn[t]) /\ dn[t][Place(t, k)] = d BY <1>2, <2>1
    <3>3. s = t /\ Place(s, j) = Place(t, k)
      <4> HIDE DEF Place
      <4>1. QED BY <1>7, <3>1, <3>2 DEF Lone
    <3>4. QED BY <3>3
  <2>2. QED BY <2>1 DEF Lone
<1>8. QED BY <1>4, <1>5, <1>6, <1>7

\* A channel is dropped.
LEMMA ChannelDropped ==
  ASSUME NEW dn \in [Sessions -> Seq(Calls)], NEW h \in Sessions,
         NEW en, en[h] = <<>>,
         \A s \in Sessions : s # h => en[s] = dn[s], NEW d \in Calls
  PROVE  /\ InChannel(en, d) => InChannel(dn, d)
         /\ Lone(dn, d) => Lone(en, d)
<1>1. \A s \in Sessions : en[s] = dn[s] \/ (en[s] = <<>> /\ Len(en[s]) = 0) OBVIOUS
<1>2. \A s \in Sessions : \A k \in 1..Len(en[s]) : k \in 1..Len(dn[s]) /\ en[s][k] = dn[s][k]
  BY <1>1
<1>3. InChannel(en, d) => InChannel(dn, d) BY <1>2 DEF InChannel
<1>4. ASSUME Lone(dn, d) PROVE Lone(en, d)
  <2> SUFFICES ASSUME NEW s \in Sessions, NEW t \in Sessions, NEW j \in 1..Len(en[s]),
                      NEW k \in 1..Len(en[t]), en[s][j] = d, en[t][k] = d
               PROVE  s = t /\ j = k
    BY DEF Lone
  <2>1. /\ j \in 1..Len(dn[s]) /\ dn[s][j] = d
        /\ k \in 1..Len(dn[t]) /\ dn[t][k] = d
    BY <1>2
  <2>2. QED BY <1>4, <2>1 DEF Lone
<1>5. QED BY <1>3, <1>4

\* A step that follows RemoteCommand on the command d and keeps the invariant.
Keeps(d) ==
  [Command(d)!Next]_(Command(d)!commandVars) /\ Once(d)' /\ Streamed(d)'

\* A step in which neither the command's place nor its messages change.
LEMMA WorkStays ==
  ASSUME NEW d \in Calls, Once(d), Streamed(d), call'[d].op = call[d].op,
         call'[d].pc = "send" => call[d].pc = "send",
         call'[d].pc \in {"forward", "drain"} => call[d].pc \in {"forward", "drain"},
         job'[d].pc = job[d].pc, sent'[d] = sent[d], Sent(d)' <=> Sent(d),
         Lone(down, d) => Lone(down', d)
  PROVE  Once(d)' /\ Streamed(d)' /\ Work(d)' = Work(d)
<1>1. Once(d)' BY DEF Once
<1>2. Streamed(d)' BY DEF Streamed
<1>3. Work(d)' = Work(d)
  <2>1. CASE Sent(d) BY <2>1 DEF Work
  <2>2. CASE ~Sent(d) BY <2>2 DEF Work
  <2>3. QED BY <2>1, <2>2
<1>4. QED BY <1>1, <1>2, <1>3

\* The command as RemoteCommand sees it is a matter of these fields.
LEMMA ViewStays ==
  ASSUME NEW d \in Calls, call'[d].pc = call[d].pc, call'[d].got = call[d].got,
         call'[d].reply = call[d].reply
  PROVE  Phase(d)' = Phase(d) /\ Had(d)' = Had(d) /\ Verdict(d)' = Verdict(d)
BY DEF Phase, Had, Verdict, Replied

\* A step that leaves the command alone.
LEMMA CommandAside ==
  ASSUME NEW d \in Calls, Once(d), Streamed(d), call'[d].op = call[d].op,
         call'[d].pc = call[d].pc, call'[d].got = call[d].got,
         call'[d].reply = call[d].reply,
         job'[d].pc = job[d].pc, sent'[d] = sent[d], Sent(d)' <=> Sent(d),
         Lone(down, d) => Lone(down', d)
  PROVE  Keeps(d)
<1>1. Once(d)' /\ Streamed(d)' /\ Work(d)' = Work(d) BY WorkStays
<1>2. Phase(d)' = Phase(d) /\ Had(d)' = Had(d) /\ Verdict(d)' = Verdict(d)
  BY ViewStays
<1>3. QED BY <1>1, <1>2 DEF Keeps, Command!commandVars

\* A step of the caller alone: what it has to show.
LEMMA CallerKeeps ==
  ASSUME NEW d \in Calls, Once(d), Streamed(d), call'[d].op = call[d].op,
         call'[d].pc = "send" => call[d].pc = "send",
         call'[d].pc \in {"forward", "drain"} => call[d].pc \in {"forward", "drain"},
         UNCHANGED <<job, sent, down>>,
         \/ UNCHANGED <<Phase(d), Had(d), Verdict(d)>>
         \/ /\ Phase(d) # "idle" /\ Phase(d)' = "idle"
            /\ Had(d)' = <<>> /\ Verdict(d)' = "failed"
         \/ /\ Phase(d) = "sent" /\ Len(Had(d)) < Len(sent[d])
            /\ Had(d)' = Append(Had(d), sent[d][Len(Had(d)) + 1])
            /\ \/ /\ sent[d][Len(Had(d)) + 1] \notin Terminal
                  /\ UNCHANGED <<Phase(d), Verdict(d)>>
               \/ /\ sent[d][Len(Had(d)) + 1] \in Terminal
                  /\ Phase(d)' = "idle"
                  /\ Verdict(d)' = Result(sent[d][Len(Had(d)) + 1])
  PROVE  Keeps(d)
<1>1. Once(d)' /\ Streamed(d)' /\ Work(d)' = Work(d)
  BY WorkStays DEF Sent
<1>2. sent'[d] = sent[d] OBVIOUS
<1>3. CASE UNCHANGED <<Phase(d), Had(d), Verdict(d)>>
  BY <1>1, <1>2, <1>3 DEF Keeps, Command!commandVars
<1>4. CASE /\ Phase(d) # "idle" /\ Phase(d)' = "idle"
           /\ Had(d)' = <<>> /\ Verdict(d)' = "failed"
  BY <1>1, <1>2, <1>4 DEF Keeps, Command!Next, Command!GiveUp
<1>5. CASE /\ Phase(d) = "sent" /\ Len(Had(d)) < Len(sent[d])
           /\ Had(d)' = Append(Had(d), sent[d][Len(Had(d)) + 1])
           /\ sent[d][Len(Had(d)) + 1] \notin Terminal
           /\ UNCHANGED <<Phase(d), Verdict(d)>>
  BY <1>1, <1>2, <1>5
  DEF Keeps, Command!Next, Command!Hear, Command!Coming, Command!Following,
      Command!Ends, Terminal
<1>6. CASE /\ Phase(d) = "sent" /\ Len(Had(d)) < Len(sent[d])
           /\ Had(d)' = Append(Had(d), sent[d][Len(Had(d)) + 1])
           /\ sent[d][Len(Had(d)) + 1] \in Terminal
           /\ Phase(d)' = "idle"
           /\ Verdict(d)' = Result(sent[d][Len(Had(d)) + 1])
  BY <1>1, <1>2, <1>6
  DEF Keeps, Command!Next, Command!Answer, Command!Coming, Command!Following,
      Command!Ends, Terminal, Result
<1>7. QED BY <1>3, <1>4, <1>5, <1>6

\* A call is refused or accepted: the id is asked for again.
LEMMA RouteFollows ==
  ASSUME Typed, NEW c \in Calls, NEW op \in Ops, Route(c, op), NEW d \in Calls,
         Once(d), Streamed(d)
  PROVE  Keeps(d)
<1>0. /\ call \in [Calls -> CallRecords] /\ sent \in [Calls -> Seq(Kinds)]
      /\ UNCHANGED <<down, job>> /\ (Sent(d)' <=> Sent(d))
  BY DEF Typed, CallsTyped, ChannelsTyped, Route, Sent
<1>1. CASE d # c
  <2>1. call'[d] = call[d] /\ sent'[d] = sent[d]
    BY <1>0, <1>1 DEF Route, Refused
  <2>2. QED BY <1>0, <2>1, CommandAside
<1>2. CASE d = c
  <2>1. /\ call[c].pc = "idle" /\ job[c].pc = "none" /\ ~Sent(c) /\ sent'[c] = <<>>
    BY <1>0 DEF Route, Unused, Sent, NoJob
  <2>2. Phase(c) = "idle" /\ Work(c) = "none" /\ Work(c)' = "none"
    BY <1>0, <1>2, <2>1 DEF Phase, Work
  <2>3. /\ Had(c)' = <<>> /\ call'[c].pc \in {"idle", "send"}
        /\ \/ Phase(c)' = "open" /\ Verdict(c)' = "none"
           \/ Phase(c)' = "idle" /\ Verdict(c)' = "failed"
    <3>1. CASE \E r \in {"not_found", "limited"} : Refused(c, op, r)
      <4>1. PICK r \in {"not_found", "limited"} : Refused(c, op, r) BY <3>1
      <4>2. /\ call'[c].pc = "idle" /\ call'[c].reply = r
        BY <1>0, <4>1 DEF Refused, Ready
      <4>3. QED BY <4>2 DEF Phase, Had, Verdict, Replied
    <3>2. CASE call' = [call EXCEPT ![c] =
             [pc |-> "send", op |-> op, handle |-> workers, got |-> <<>>,
              cancel |-> FALSE, reply |-> "none"]]
      <4>1. call'[c].pc = "send" /\ call'[c].got = <<>> /\ call'[c].reply = "none"
        BY <1>0, <3>2
      <4>2. QED BY <4>1 DEF Phase, Had, Verdict, Replied
    <3>3. QED BY <3>1, <3>2 DEF Route
  <2>4. Once(c)' BY <1>0, <1>2, <2>1 DEF Once
  <2>5. Streamed(c)' BY <2>1, <2>3 DEF Streamed
  <2>6. Command(c)!Next
    BY <2>1, <2>2, <2>3 DEF Command!Next, Command!Ask
  <2>7. QED BY <1>2, <2>4, <2>5, <2>6 DEF Keeps
<1>3. QED BY <1>1, <1>2

\* The message a caller takes is the one that follows in what the worker sent.
LEMMA HeardNext ==
  ASSUME Typed, NEW c \in Calls, InFlight(c), call[c].pc \in {"collect", "forward"},
         inbox[c] # <<>>
  PROVE  /\ call[c].reply = "none" /\ Had(c) = call[c].got /\ Verdict(c) = "none"
         /\ Phase(c) = "sent"
         /\ Len(call[c].got) < Len(sent[c])
         /\ sent[c][Len(call[c].got) + 1] = Head(inbox[c])
<1>1. /\ Active(c) /\ call[c].reply = "none"
      /\ IsStart(call[c].got \o inbox[c], sent[c])
  BY DEF Active, InFlight, Incoming, Arriving
<1>2. Had(c) = call[c].got /\ Verdict(c) = "none" /\ Phase(c) = "sent"
  BY <1>1 DEF Had, Verdict, Replied, Phase
<1>3. /\ call[c].got \in Seq(Kinds) /\ inbox[c] \in Seq(Kinds) /\ sent[c] \in Seq(Kinds)
  BY <1>1, FlightOpened
<1> DEFINE a == Append(call[c].got, Head(inbox[c]))
<1>4. a \in Seq(Kinds) /\ IsStart(a, sent[c]) BY <1>1, <1>3, TakenSame
<1>5. Head(inbox[c]) \in Kinds BY <1>3
<1>6. Len(a) = Len(call[c].got) + 1 /\ a[Len(call[c].got) + 1] = Head(inbox[c])
  BY <1>3, <1>5, AppendProperties
<1> HIDE DEF a
<1>7. Len(a) <= Len(sent[c]) /\ \A k \in 1..Len(a) : a[k] = sent[c][k]
  BY <1>3, <1>4, StartElements
<1>8. Len(call[c].got) \in Nat /\ Len(sent[c]) \in Nat BY <1>3
<1>9. QED BY <1>1, <1>2, <1>6, <1>7, <1>8

\* The caller's side: what is heard, answered or given up.
LEMMA CallFollows ==
  ASSUME Typed, NEW c \in Calls, InFlight(c), Settled(c), Once(c), Streamed(c),
         Cancel(c) \/ Collect(c) \/ Timeout(c) \/ Forward(c)
  PROVE  Keeps(c)
<1>0. /\ call \in [Calls -> CallRecords] /\ CallsHold
      /\ UNCHANGED <<job, sent, down>>
  BY DEF Typed, CallsTyped, Cancel, Collect, Timeout, Forward
<1> DEFINE m == Head(inbox[c])
           g == call[c].got
<1>1. CASE Cancel(c)
  <2>1. /\ call'[c].pc = call[c].pc /\ call'[c].got = call[c].got
        /\ call'[c].reply = call[c].reply /\ call'[c].op = call[c].op
    BY <1>0, <1>1 DEF Cancel, CallRecords
  <2>2. QED BY <1>0, <2>1, ViewStays, CallerKeeps
<1>2. CASE Timeout(c)
  <2>1. call'[c].pc = "idle" /\ call'[c].reply = "timeout" /\ call'[c].op = call[c].op
    BY <1>0, <1>2 DEF Timeout, Reply, CallRecords
  <2>2. /\ Phase(c) # "idle" /\ Phase(c)' = "idle"
        /\ Had(c)' = <<>> /\ Verdict(c)' = "failed"
    BY <1>2, <2>1 DEF Timeout, Phase, Had, Verdict, Replied
  <2>3. QED BY <1>0, <2>1, <2>2, CallerKeeps
<1>3. CASE Collect(c)
  <2>0. /\ Had(c) = g /\ Verdict(c) = "none" /\ Phase(c) = "sent"
        /\ Len(g) < Len(sent[c]) /\ sent[c][Len(g) + 1] = m
    BY <1>3, HeardNext DEF Collect
  <2>1. CASE /\ m \in Terminal
             /\ call' = [call EXCEPT ![c] =
                  [pc |-> "idle", op |-> call[c].op, handle |-> 0,
                   got |-> Append(call[c].got, m),
                   cancel |-> FALSE, reply |-> Result(m)]]
    <3>1. /\ call'[c].pc = "idle" /\ call'[c].op = call[c].op
          /\ call'[c].got = Append(g, m) /\ call'[c].reply = Result(m)
      BY <1>0, <2>1
    <3>2. Phase(c)' = "idle" /\ Had(c)' = Append(g, m) /\ Verdict(c)' = Result(m)
      BY <3>1 DEF Phase, Had, Verdict, Replied, Result
    <3> HIDE DEF m, g
    <3>3. QED BY <1>0, <2>0, <2>1, <3>1, <3>2, CallerKeeps
  <2>2. CASE /\ m \notin Terminal
             /\ call' = [call EXCEPT ![c].got = Append(call[c].got, m)]
    <3>1. /\ call'[c].pc = "collect" /\ call'[c].op = call[c].op
          /\ call'[c].got = Append(g, m) /\ call'[c].reply = call[c].reply
          /\ call[c].pc = "collect"
      BY <1>0, <1>3, <2>2 DEF Collect, CallRecords
    <3>2. Phase(c)' = "sent" /\ Had(c)' = Append(g, m) /\ Verdict(c)' = Verdict(c)
      <4>1. call[c].reply = "none" BY <1>3, HeardNext DEF Collect
      <4>2. QED BY <3>1, <4>1 DEF Phase, Had, Verdict, Replied
    <3> HIDE DEF m, g
    <3>3. QED BY <1>0, <2>0, <2>2, <3>1, <3>2, CallerKeeps
  <2>3. QED BY <1>3, <2>1, <2>2 DEF Collect
<1>4. CASE Forward(c)
  <2>0. ASSUME call[c].pc = "forward"
        PROVE  /\ Had(c) = g /\ Verdict(c) = "none" /\ Phase(c) = "sent"
               /\ Len(g) < Len(sent[c]) /\ sent[c][Len(g) + 1] = m
               /\ call[c].reply = "none" /\ m \in StreamKinds
    <3>1. /\ Had(c) = g /\ Verdict(c) = "none" /\ Phase(c) = "sent"
          /\ Len(g) < Len(sent[c]) /\ sent[c][Len(g) + 1] = m
          /\ call[c].reply = "none"
      BY <1>4, <2>0, HeardNext DEF Forward
    <3>2. sent[c] \in Seq(StreamKinds) BY <2>0 DEF Streamed
    <3>3. Len(g) \in Nat BY <1>0 DEF CallRecords
    <3>4. Len(g) + 1 \in 1..Len(sent[c]) BY <3>1, <3>2, <3>3
    <3>5. m \in StreamKinds BY <3>1, <3>2, <3>4
    <3>6. QED BY <3>1, <3>5
  <2>a. ASSUME call[c].pc = "drain"
        PROVE  /\ call[c].cancel /\ call[c].reply = "cancelled"
               /\ Phase(c) = "idle" /\ Had(c) = <<>> /\ Verdict(c) = "failed"
    BY <1>0, <2>a DEF CallsHold, Settled, Phase, Had, Verdict, Replied
  <2>1. CASE /\ m = "ack" \/ (m = "out" /\ call[c].pc = "forward" /\ ~call[c].cancel)
             /\ call' = [call EXCEPT ![c].got = Append(call[c].got, m)]
    <3>1. /\ call'[c].pc = call[c].pc /\ call'[c].op = call[c].op
          /\ call'[c].got = Append(g, m) /\ call'[c].reply = call[c].reply
          /\ call[c].pc \in {"forward", "drain"}
      BY <1>0, <1>4, <2>1 DEF Forward, CallRecords
    <3>2. CASE call[c].pc = "forward"
      <4>1. Phase(c)' = "sent" /\ Had(c)' = Append(g, m) /\ Verdict(c)' = Verdict(c)
        BY <2>0, <3>1, <3>2 DEF Phase, Had, Verdict, Replied
      <4>2. m \notin Terminal BY <2>1 DEF Terminal
      <4> HIDE DEF m, g
      <4>3. QED BY <1>0, <2>0, <3>1, <3>2, <4>1, <4>2, CallerKeeps
    <3>3. CASE call[c].pc = "drain"
      <4>1. UNCHANGED <<Phase(c), Had(c), Verdict(c)>>
        BY <2>a, <3>1, <3>3 DEF Phase, Had, Verdict, Replied
      <4>2. QED BY <1>0, <3>1, <4>1, CallerKeeps
    <3>4. QED BY <3>1, <3>2, <3>3
  <2>2. CASE /\ call[c].pc = "forward"
             /\ call' = [call EXCEPT ![c].pc = "drain", ![c].reply = "cancelled"]
    <3>1. /\ call'[c].pc = "drain" /\ call'[c].op = call[c].op
          /\ call'[c].reply = "cancelled"
      BY <1>0, <2>2 DEF CallRecords
    <3>2. /\ Phase(c) # "idle" /\ Phase(c)' = "idle"
          /\ Had(c)' = <<>> /\ Verdict(c)' = "failed"
      BY <2>0, <2>2, <3>1 DEF Phase, Had, Verdict, Replied
    <3>3. QED BY <1>0, <2>2, <3>1, <3>2, CallerKeeps
  <2>3. CASE /\ m # "ack" /\ (m = "out" => call[c].pc = "drain")
             /\ call' = [call EXCEPT ![c] =
                  [pc |-> "idle", op |-> call[c].op, handle |-> 0,
                   got |-> Append(call[c].got, m), cancel |-> FALSE,
                   reply |-> IF call[c].cancel THEN "cancelled" ELSE Result(m)]]
    <3>1. /\ call'[c].pc = "idle" /\ call'[c].op = call[c].op
          /\ call'[c].got = Append(g, m)
          /\ call'[c].reply = IF call[c].cancel THEN "cancelled" ELSE Result(m)
          /\ call[c].pc \in {"forward", "drain"}
      BY <1>0, <1>4, <2>3 DEF Forward
    <3>2. CASE call[c].pc = "forward" /\ ~call[c].cancel
      <4>1. Phase(c)' = "idle" /\ Had(c)' = Append(g, m) /\ Verdict(c)' = Result(m)
        BY <3>1, <3>2 DEF Phase, Had, Verdict, Replied, Result
      <4>2. m \in Terminal BY <2>0, <2>3, <3>2 DEF StreamKinds, Terminal
      <4> HIDE DEF m, g
      <4>3. QED BY <1>0, <2>0, <3>1, <3>2, <4>1, <4>2, CallerKeeps
    <3>3. CASE call[c].cancel
      <4>1. Phase(c)' = "idle" /\ Had(c)' = <<>> /\ Verdict(c)' = "failed"
        BY <3>1, <3>3 DEF Phase, Had, Verdict, Replied
      <4>2. CASE call[c].pc = "forward"
        BY <1>0, <2>0, <3>1, <4>1, <4>2, CallerKeeps
      <4>3. CASE call[c].pc = "drain"
        BY <1>0, <2>a, <3>1, <4>1, <4>3, CallerKeeps
      <4>4. QED BY <3>1, <4>2, <4>3
    <3>4. QED BY <2>a, <3>1, <3>2, <3>3
  <2>4. QED BY <1>4, <2>1, <2>2, <2>3 DEF Forward
<1>5. QED BY <1>1, <1>2, <1>3, <1>4

\* The command is put into the session's channel, once, or the caller gives up.
LEMMA SendFollows ==
  ASSUME Typed, NEW c \in Calls, Send(c), Once(c), Streamed(c), NEW d \in Calls,
         Once(d), Streamed(d)
  PROVE  Keeps(d)
<1>0. /\ call \in [Calls -> CallRecords] /\ down \in [Sessions -> Seq(Calls)]
      /\ call[c].handle \in Sessions /\ call[c].pc = "send" /\ UNCHANGED <<job, sent>>
      /\ \A x \in Calls : x # c => call'[x] = call[x]
  <2>1. call \in [Calls -> CallRecords] /\ down \in [Sessions -> Seq(Calls)]
    BY DEF Typed, CallsTyped, ChannelsTyped
  <2>2. call[c].pc = "send" /\ UNCHANGED <<job, sent>> BY DEF Send
  <2>3. call[c].handle \in Sessions
    BY <2>2 DEF Typed, CallsHold, SessionsTyped, Sessions
  <2>4. \A x \in Calls : x # c => call'[x] = call[x] BY <2>1 DEF Send, Reply
  <2>5. QED BY <2>1, <2>2, <2>3, <2>4
<1>1. CASE Reply(c, "disconnected") /\ UNCHANGED down
  <2>1. CASE d # c BY <1>0, <1>1, <2>1, CommandAside DEF Sent
  <2>2. CASE d = c
    <3>1. /\ call'[c].pc = "idle" /\ call'[c].reply = "disconnected"
          /\ call'[c].op = call[c].op
      BY <1>0, <1>1 DEF Reply, CallRecords
    <3>2. /\ Phase(c) # "idle" /\ Phase(c)' = "idle"
          /\ Had(c)' = <<>> /\ Verdict(c)' = "failed"
      BY <1>0, <3>1 DEF Phase, Had, Verdict, Replied
    <3>3. QED BY <1>0, <1>1, <2>2, <3>1, <3>2, CallerKeeps
  <2>3. QED BY <2>1, <2>2
<1>2. CASE /\ down' = [down EXCEPT ![call[c].handle] = Append(down[call[c].handle], c)]
           /\ call' = [call EXCEPT ![c].pc =
                IF call[c].op = "stream" THEN "forward" ELSE "collect"]
  <2>1. ~InChannel(down, c) /\ job[c].pc = "none" /\ sent[c] = <<>>
    BY <1>0 DEF Once, Sent, InChannel
  <2>2. /\ down'[call[c].handle] = Append(down[call[c].handle], c)
        /\ \A s \in Sessions : s # call[c].handle => down'[s] = down[s]
    BY <1>0, <1>2
  <2>3. /\ InChannel(down', c) /\ Lone(down', c)
        /\ \A x \in Calls : x # c => (InChannel(down', x) <=> InChannel(down, x))
        /\ \A x \in Calls : x # c /\ Lone(down, x) => Lone(down', x)
    BY <1>0, <2>1, <2>2, ChannelGrows, ZenonT(60)
  <2>4. CASE d # c
    <3>1. Sent(d)' <=> Sent(d) BY <2>3, <2>4 DEF Sent, InChannel
    <3>2. QED BY <1>0, <2>3, <2>4, <3>1, CommandAside
  <2>5. CASE d = c
    <3>1. /\ call'[c].pc = IF call[c].op = "stream" THEN "forward" ELSE "collect"
          /\ call'[c].op = call[c].op /\ call'[c].got = call[c].got
          /\ call'[c].reply = call[c].reply
      BY <1>0, <1>2 DEF CallRecords
    <3>2. Sent(c)' /\ ~Sent(c) BY <2>1, <2>3 DEF Sent, InChannel
    <3>3. Phase(c) = "open" /\ Phase(c)' = "sent" BY <1>0, <3>1 DEF Phase
    <3>4. Work(c) = "none" /\ Work(c)' = "queued" BY <1>0, <2>1, <3>2 DEF Work
    <3>5. Had(c)' = Had(c) /\ Verdict(c)' = Verdict(c)
      BY <3>1 DEF Had, Verdict, Replied
    <3>6. Once(c)' BY <1>0, <2>1, <2>3, <3>1 DEF Once
    <3>7. Streamed(c)' BY <1>0, <3>1 DEF Streamed
    <3>8. Command(c)!Next
      BY <1>0, <2>1, <3>3, <3>4, <3>5 DEF Command!Next, Command!Send
    <3>9. QED BY <2>5, <3>6, <3>7, <3>8 DEF Keeps
  <2>6. QED BY <2>4, <2>5
<1>3. QED BY <1>1, <1>2 DEF Send

\* The worker takes a command: for RemoteCommand it is queued before and after.
LEMMA TakeFollows ==
  ASSUME Typed, NEW s \in Sessions, Take(s), \A x \in Calls : Once(x), NEW d \in Calls,
         Streamed(d)
  PROVE  Keeps(d)
<1>0. /\ down \in [Sessions -> Seq(Calls)] /\ down[s] # <<>> /\ Once(d)
      /\ UNCHANGED <<call, sent>>
      /\ down'[s] = Tail(down[s]) /\ \A t \in Sessions : t # s => down'[t] = down[t]
  BY DEF Typed, ChannelsTyped, Take
<1>1. Head(down[s]) \in Calls BY <1>0
<1>2. /\ InChannel(down, Head(down[s]))
      /\ Lone(down, Head(down[s])) => ~InChannel(down', Head(down[s]))
      /\ \A x \in Calls : x # Head(down[s]) => (InChannel(down', x) <=> InChannel(down, x))
      /\ \A x \in Calls : Lone(down, x) => Lone(down', x)
  BY <1>0, ChannelTaken
<1>3. CASE d # Head(down[s])
  <2>1. job'[d] = job[d] BY <1>3 DEF Typed, JobsTyped, Take
  <2>2. Sent(d)' <=> Sent(d) BY <1>2, <1>3 DEF Sent, InChannel
  <2>3. QED BY <1>0, <1>2, <2>1, <2>2, CommandAside
<1>4. CASE d = Head(down[s])
  <2>1. Sent(d) /\ ~Sent(d)' BY <1>0, <1>2, <1>4 DEF Once, Sent, InChannel
  <2>2. job[d].pc = "none" /\ job'[d].pc = "permit"
    BY <1>0, <1>4, <2>1 DEF Once, Typed, JobsTyped, Take
  <2>3. Work(d)' = Work(d) BY <2>1, <2>2 DEF Work
  <2>4. Phase(d)' = Phase(d) /\ Had(d)' = Had(d) /\ Verdict(d)' = Verdict(d)
    BY <1>0, ViewStays
  <2>5. Once(d)' BY <1>0, <1>2, <2>1, <2>2 DEF Once
  <2>6. Streamed(d)' BY <1>0 DEF Streamed
  <2>7. QED BY <1>0, <2>3, <2>4, <2>5, <2>6 DEF Keeps, Command!commandVars
<1>5. QED BY <1>3, <1>4

\* The task of a command starts, once, and finishes.
LEMMA JobFollows ==
  ASSUME Typed, NEW c \in Calls, Start(c) \/ Finish(c), NEW d \in Calls,
         Once(d), Streamed(d)
  PROVE  Keeps(d)
<1>0. /\ UNCHANGED <<call, down>> /\ sent \in [Calls -> Seq(Kinds)] /\ JobsTyped
      /\ job[c].pc \in {"permit", "run"} /\ call[c].op \in Ops
  <2>1. job[c].pc \in {"permit", "run"} BY DEF Start, Finish
  <2>2. call[c].op \in Ops BY <2>1 DEF Typed, JobsHold, NoJob
  <2>3. QED BY <2>1, <2>2 DEF Typed, ChannelsTyped, Start, Finish
<1>1. CASE d # c
  <2>1. job'[d] = job[d] /\ sent'[d] = sent[d]
    BY <1>0, <1>1 DEF JobsTyped, Start, Finish, Emit
  <2>2. QED BY <1>0, <2>1, CommandAside DEF Sent
<1>2. CASE d = c
  <2>0. /\ ~Sent(c) /\ ~Sent(c)' /\ call[c].pc # "send"
        /\ Phase(c)' = Phase(c) /\ Had(c)' = Had(c) /\ Verdict(c)' = Verdict(c)
        /\ sent[c] \in Seq(Kinds)
    BY <1>0, <1>2, ViewStays DEF Once, Sent
  <2>1. CASE Start(c)
    <3>1. job[c].pc = "permit" /\ job'[c].pc = "run" /\ sent[c] = <<>>
      BY <1>0, <1>2, <2>1 DEF Start, JobsTyped, Once
    <3>2. Work(c) = "queued" /\ Work(c)' = "started" BY <3>1 DEF Work
    <3>3. sent'[c] \in {<<>>, <<"ack">>}
      <4>1. /\ <<>> \o <<"ack">> = <<"ack">> /\ <<>> \o <<>> = <<>> OBVIOUS
      <4>2. sent'[c] = sent[c] \o (IF call[c].op \in {"run", "stream"} THEN <<"ack">> ELSE <<>>)
        BY <1>0, <2>1 DEF Start, Emit
      <4>3. QED BY <3>1, <4>1, <4>2
    <3>4. <<>> \in Seq(StreamKinds) /\ <<"ack">> \in Seq(StreamKinds) BY DEF StreamKinds
    <3>5. Once(c)' BY <1>0, <1>2, <2>0, <3>1 DEF Once
    <3>6. Streamed(c)' BY <1>0, <1>2, <3>3, <3>4 DEF Streamed
    <3>7. Command(c)!Next BY <2>0, <3>1, <3>2, <3>3 DEF Command!Next, Command!Start
    <3>8. QED BY <1>2, <3>5, <3>6, <3>7 DEF Keeps
  <2>2. CASE Finish(c)
    <3>0. PICK ms \in Messages(call[c].op) : Emit(c, ms) BY <2>2 DEF Finish
    <3>1. ms \in Seq(Kinds) BY <1>0, <3>0, MessagesTyped
    <3>2. job[c].pc = "run" /\ job'[c].pc = "none" /\ sent'[c] = sent[c] \o ms
      BY <1>0, <2>2, <3>0 DEF Finish, JobsTyped, NoJob, Emit
    <3>3. Work(c) = "started" /\ Work(c)' = "none" BY <2>0, <3>2 DEF Work
    <3>4. Len(sent[c]) <= Len(sent'[c]) /\ sent[c] = SubSeq(sent'[c], 1, Len(sent[c]))
      <4>1. IsStart(sent[c], sent[c]) BY <2>0, StartElements
      <4>2. IsStart(sent[c], sent[c] \o ms) BY <2>0, <3>1, <4>1, StartGrows
      <4>3. QED BY <3>2, <4>2 DEF IsStart
    <3>5. Once(c)' BY <1>0, <1>2, <2>0, <3>2 DEF Once
    <3>6. Streamed(c)'
      <4>1. SUFFICES ASSUME call[c].op = "stream" PROVE sent'[c] \in Seq(StreamKinds)
        BY <1>0, <1>2 DEF Streamed
      <4>2. ms \in RunMessages BY <3>0, <4>1 DEF Messages
      <4>3. ms \in Seq(StreamKinds)
        <5>1. /\ <<"exit">> \in Seq(StreamKinds) /\ <<"error">> \in Seq(StreamKinds)
              /\ <<"out", "exit">> \in Seq(StreamKinds)
              /\ <<"out", "out", "exit">> \in Seq(StreamKinds)
          BY DEF StreamKinds
        <5>2. QED BY <4>2, <5>1 DEF RunMessages
      <4>4. sent[c] \in Seq(StreamKinds) BY <1>2, <4>1 DEF Streamed
      <4>5. QED BY <3>2, <4>3, <4>4, ConcatProperties
    <3>7. Command(c)!Next BY <2>0, <3>3, <3>4 DEF Command!Next, Command!Finish
    <3>8. QED BY <1>2, <3>5, <3>6, <3>7 DEF Keeps
  <2>3. QED BY <2>1, <2>2
<1>3. QED BY <1>1, <1>2

\* The reader and the sessions: a command may be lost with a session, no more.
LEMMA SessionFollows ==
  ASSUME Typed, NEW d \in Calls, Once(d), Streamed(d),
         \/ \E s \in Sessions : \/ Read(s) \/ Break(s) \/ Notice(s) \/ CircuitExpires(s)
                                \/ WatchdogRemove(s)
         \/ Connect \/ WatchdogScan \/ Refill
  PROVE  Keeps(d)
<1>0. UNCHANGED <<call, sent>>
  BY DEF Read, Break, Notice, CircuitExpires, Connect, WatchdogScan,
        WatchdogRemove, Refill
<1>1. CASE UNCHANGED <<job, down>> BY <1>0, <1>1, CommandAside DEF Sent
<1>2. ASSUME job'[d].pc = "none", ~Sent(d)', Work(d) # "none",
             Lone(down, d) => Lone(down', d)
      PROVE  Keeps(d)
  <2>1. Work(d)' = "none" BY <1>2 DEF Work
  <2>2. Phase(d)' = Phase(d) /\ Had(d)' = Had(d) /\ Verdict(d)' = Verdict(d)
    BY <1>0, ViewStays
  <2>3. Command(d)!Next BY <1>0, <1>2, <2>1, <2>2 DEF Command!Next, Command!Lose
  <2>4. Once(d)' BY <1>0, <1>2 DEF Once
  <2>5. Streamed(d)' BY <1>0 DEF Streamed
  <2>6. QED BY <2>3, <2>4, <2>5 DEF Keeps
<1>3. ASSUME NEW s \in Sessions, Break(s), job' = [c \in Calls |-> NoJob] PROVE Keeps(d)
  <2>1. /\ UNCHANGED down /\ job'[d].pc = "none" /\ (Sent(d)' <=> Sent(d))
        /\ job[d].pc \in {"none", "permit", "run"}
    BY <1>3 DEF Break, NoJob, Typed, JobsTyped, Sent
  <2>2. CASE job[d].pc = "none" BY <1>0, <2>1, <2>2, CommandAside
  <2>3. CASE job[d].pc # "none"
    <3>1. ~Sent(d) /\ Work(d) # "none" BY <2>1, <2>3 DEF Once, Work
    <3>2. QED BY <1>2, <2>1, <3>1
  <2>4. QED BY <2>2, <2>3
<1>4. ASSUME NEW s \in Sessions, Notice(s) PROVE Keeps(d)
  <2>0. /\ UNCHANGED job /\ down \in [Sessions -> Seq(Calls)] /\ down'[s] = <<>>
        /\ \A t \in Sessions : t # s => down'[t] = down[t]
    BY <1>4 DEF Notice, Typed, ChannelsTyped
  <2>1. /\ InChannel(down', d) => InChannel(down, d)
        /\ Lone(down, d) => Lone(down', d)
    BY <2>0, ChannelDropped
  <2>2. Sent(d)' => Sent(d) BY <2>1 DEF Sent, InChannel
  <2>3. CASE Sent(d)' <=> Sent(d) BY <1>0, <2>0, <2>1, <2>3, CommandAside
  <2>4. CASE ~Sent(d)' /\ Sent(d)
    <3>1. job[d].pc = "none" /\ Work(d) = "queued" BY <2>4 DEF Once, Work
    <3>2. QED BY <1>2, <2>0, <2>1, <2>4, <3>1
  <2>5. QED BY <2>2, <2>3, <2>4
<1>5. QED
  BY <1>1, <1>3, <1>4 DEF Read, Break, CircuitExpires, Connect, WatchdogScan,
        WatchdogRemove, Refill

\* The invariant of the commands' places.
Placed == \A c \in Calls : Once(c) /\ Streamed(c)

\* Every step keeps it, and every command follows RemoteCommand.
LEMMA StepFollows ==
  ASSUME Typed, Gapless, Placed, [Next]_routingVars, NEW d \in Calls
  PROVE  Keeps(d)
<1>0. Once(d) /\ Streamed(d) BY DEF Placed
<1>1. CASE UNCHANGED routingVars
  BY <1>0, <1>1, CommandAside DEF routingVars, Sent
<1>2. ASSUME NEW c \in Calls, \E op \in Ops : Route(c, op) PROVE Keeps(d)
  BY <1>0, <1>2, RouteFollows
<1>3. ASSUME NEW c \in Calls, Send(c) PROVE Keeps(d)
  BY <1>0, <1>3, SendFollows DEF Placed
<1>4. ASSUME NEW c \in Calls, Cancel(c) \/ Collect(c) \/ Timeout(c) \/ Forward(c)
      PROVE  Keeps(d)
  <2>1. CASE d = c BY <1>0, <1>4, <2>1, CallFollows DEF Gapless
  <2>2. CASE d # c
    <3>1. call'[d] = call[d] /\ UNCHANGED <<job, sent, down>>
      BY <1>4, <2>2 DEF Typed, CallsTyped, Cancel, Collect, Timeout, Forward, Reply
    <3>2. QED BY <1>0, <3>1, CommandAside DEF Sent
  <2>3. QED BY <2>1, <2>2
<1>5. CASE WorkerStep
  BY <1>0, <1>5, TakeFollows, JobFollows DEF WorkerStep, Placed
<1>6. CASE \/ \E s \in Sessions : \/ Read(s) \/ Break(s) \/ Notice(s) \/ CircuitExpires(s)
                                  \/ WatchdogRemove(s)
           \/ Connect \/ WatchdogScan \/ Refill
  BY <1>0, <1>6, SessionFollows
<1>7. QED BY <1>1, <1>2, <1>3, <1>4, <1>5, <1>6 DEF Next, CallStep

LEMMA PlacedInductive == Spec => [](Typed /\ Gapless /\ Placed)
<1>1. Init => Placed
  <2> SUFFICES ASSUME Init, NEW c \in Calls PROVE Once(c) /\ Streamed(c) BY DEF Placed
  <2>1. \A s \in Sessions : down[s] = <<>> /\ Len(down[s]) = 0 BY DEF Init
  <2>2. ~Sent(c) /\ Lone(down, c) BY <2>1 DEF Sent, Lone
  <2>3. QED BY <2>2 DEF Init, Once, Streamed, Ready, NoJob
<1>2. Typed /\ Gapless /\ Placed /\ [Next]_routingVars => Placed'
  BY StepFollows DEF Keeps, Placed
<1>3. QED BY <1>1, <1>2, GaplessInductive, PTL DEF Spec

\* The initial state of every command.
LEMMA InitFollows ==
  ASSUME Init, NEW c \in Calls
  PROVE  Command(c)!Init
<1>1. \A s \in Sessions : down[s] = <<>> /\ Len(down[s]) = 0 BY DEF Init
<1>2. ~Sent(c) BY <1>1 DEF Sent
<1>3. QED
  BY <1>2
  DEF Init, Ready, NoJob, Phase, Work, Had, Verdict, Replied, Command!Init

\* CommandRouting implements RemoteCommand for every command id: a command is sent
\* at most once and started at most once, whatever is retried, times out or
\* reconnects around it, and its caller is answered by what the worker sent for
\* it, up to the first message that ends a command, or by nothing.
THEOREM CommandsFollow == Spec => FollowsCommand
<1>1. Init => \A c \in Calls : Command(c)!Init BY InitFollows
<1>2. Typed /\ Gapless /\ Placed /\ [Next]_routingVars =>
        [\A c \in Calls : [Command(c)!Next]_(Command(c)!commandVars)]_routingVars
  BY StepFollows DEF Keeps
<1>3. QED BY <1>1, <1>2, PlacedInductive, PTL DEF Spec, FollowsCommand

------------------------------------------------------------------------------
(* What RemoteCommand promises about answers.                               *)

\* A start of a start; a start and the message that follows.
LEMMA StartOfStart ==
  ASSUME NEW p \in Seq(Kinds), NEW m \in Seq(Kinds), NEW n \in Seq(Kinds),
         IsStart(p, m), IsStart(m, n)
  PROVE  IsStart(p, n)
<1>1. /\ Len(p) <= Len(m) /\ \A i \in 1..Len(p) : p[i] = m[i]
      /\ Len(m) <= Len(n) /\ \A i \in 1..Len(m) : m[i] = n[i]
  BY StartElements
<1>2. Len(p) \in Nat /\ Len(m) \in Nat /\ Len(n) \in Nat OBVIOUS
<1>3. Len(p) <= Len(n) /\ \A i \in 1..Len(p) : p[i] = n[i] BY <1>1, <1>2
<1>4. QED BY <1>3, StartElements

LEMMA StartExtends ==
  ASSUME NEW p \in Seq(Kinds), NEW m \in Seq(Kinds), IsStart(p, m), Len(p) < Len(m)
  PROVE  LET q == Append(p, m[Len(p) + 1]) IN
         /\ IsStart(q, m) /\ q \in Seq(Kinds) /\ Len(q) = Len(p) + 1
         /\ q[Len(p) + 1] = m[Len(p) + 1] /\ \A k \in 1..Len(p) : q[k] = p[k]
<1> DEFINE q == Append(p, m[Len(p) + 1])
<1>1. /\ Len(p) \in Nat /\ Len(m) \in Nat /\ Len(p) + 1 \in 1..Len(m)
      /\ m[Len(p) + 1] \in Kinds
  OBVIOUS
<1>2. /\ q \in Seq(Kinds) /\ Len(q) = Len(p) + 1 /\ q[Len(p) + 1] = m[Len(p) + 1]
      /\ \A k \in 1..Len(p) : q[k] = p[k]
  BY <1>1, AppendProperties
<1>3. \A k \in 1..Len(p) : p[k] = m[k] BY StartElements
<1> HIDE DEF q
<1>4. \A k \in 1..Len(q) : q[k] = m[k]
  <2> SUFFICES ASSUME NEW k \in 1..Len(q) PROVE q[k] = m[k] OBVIOUS
  <2>1. k = Len(p) + 1 \/ k \in 1..Len(p) BY <1>1, <1>2
  <2>2. QED BY <1>2, <1>3, <2>1
<1>5. Len(q) <= Len(m) BY <1>1, <1>2
<1>6. IsStart(q, m) BY <1>2, <1>4, <1>5, StartElements
<1>7. QED BY <1>2, <1>6 DEF q

\* The inductive form: no message a caller waits behind ends a command, and what
\* it has heard is a start of what the worker sent.
Heard(c) ==
  /\ Phase(c) # "idle" => Verdict(c) = "none"
  /\ Verdict(c) = "none" =>
       /\ IsStart(Had(c), sent[c])
       /\ \A k \in 1..Len(Had(c)) : Had(c)[k] \notin Terminal
  /\ Verdict(c) \in {"ok", "error"} =>
       /\ IsStart(Had(c), sent[c]) /\ Had(c) # <<>>
       /\ \A k \in 1..Len(Had(c)) : Had(c)[k] \in Terminal <=> k = Len(Had(c))
       /\ Verdict(c) = "error" <=> Had(c)[Len(Had(c))] = "error"

\* Every step of RemoteCommand keeps it.
LEMMA HeardStep ==
  ASSUME NEW c \in Calls, Heard(c), Had(c) \in Seq(Kinds), sent[c] \in Seq(Kinds),
         sent'[c] \in Seq(Kinds), [Command(c)!Next]_(Command(c)!commandVars)
  PROVE  Heard(c)'
<1>0. IsStart(<<>>, sent'[c]) /\ Len(<<>>) = 0 BY DEF IsStart
<1>1. ASSUME UNCHANGED <<Had(c), Verdict(c)>>, IsStart(sent[c], sent'[c]),
             Phase(c)' # "idle" => Phase(c) # "idle"
      PROVE  Heard(c)'
  <2>1. IsStart(Had(c), sent[c]) => IsStart(Had(c), sent'[c]) BY <1>1, StartOfStart
  <2>2. QED BY <1>1, <2>1 DEF Heard
<1>2. IsStart(sent[c], sent[c]) BY StartElements
<1>3. CASE UNCHANGED Command(c)!commandVars \/ Command(c)!Send \/ Command(c)!Lose
  <2>1. /\ UNCHANGED <<Had(c), Verdict(c)>> /\ sent'[c] = sent[c]
        /\ Phase(c)' # "idle" => Phase(c) # "idle"
    BY <1>3 DEF Command!commandVars, Command!Send, Command!Lose
  <2>2. QED BY <1>1, <1>2, <2>1
<1>4. CASE Command(c)!Start
  <2>1. UNCHANGED <<Had(c), Verdict(c), Phase(c)>> /\ sent[c] = <<>>
    BY <1>4 DEF Command!Start
  <2>2. QED BY <1>0, <1>1, <2>1
<1>5. CASE Command(c)!Finish
  <2>1. UNCHANGED <<Had(c), Verdict(c), Phase(c)>> /\ IsStart(sent[c], sent'[c])
    BY <1>5 DEF Command!Finish, IsStart
  <2>2. QED BY <1>1, <2>1
<1>6. CASE Command(c)!Ask
  <2>1. /\ Had(c)' = <<>> /\ Verdict(c)' \in {"none", "failed"}
        /\ Phase(c)' # "idle" => Verdict(c)' = "none"
    BY <1>6 DEF Command!Ask
  <2>2. QED BY <1>0, <2>1 DEF Heard
<1>7. CASE Command(c)!GiveUp
  <2>1. Verdict(c)' = "failed" /\ Phase(c)' = "idle" BY <1>7 DEF Command!GiveUp
  <2>2. QED BY <2>1 DEF Heard
<1>8. CASE Command(c)!Hear \/ Command(c)!Answer
  <2> DEFINE m == sent[c][Len(Had(c)) + 1]
  <2>1. /\ Phase(c) = "sent" /\ Len(Had(c)) < Len(sent[c])
        /\ Had(c)' = Append(Had(c), m) /\ sent'[c] = sent[c]
        /\ \/ m \notin Terminal /\ UNCHANGED <<Phase(c), Verdict(c)>>
           \/ m \in Terminal /\ Phase(c)' = "idle" /\ Verdict(c)' = Result(m)
    BY <1>8
    DEF Command!Hear, Command!Answer, Command!Coming, Command!Following,
        Command!Ends, Terminal, Result
  <2>2. /\ Verdict(c) = "none" /\ IsStart(Had(c), sent[c])
        /\ \A k \in 1..Len(Had(c)) : Had(c)[k] \notin Terminal
    BY <2>1 DEF Heard
  <2> DEFINE p == Had(c)
  <2>3. PICK q : q = Append(p, m) OBVIOUS
  <2>4. /\ IsStart(q, sent[c]) /\ q \in Seq(Kinds) /\ Len(q) = Len(p) + 1
        /\ q[Len(q)] = m /\ \A k \in 1..Len(p) : q[k] = p[k]
    <3>1. p \in Seq(Kinds) /\ IsStart(p, sent[c]) /\ Len(p) < Len(sent[c])
      BY <2>1, <2>2
    <3> HIDE DEF p
    <3>2. q = Append(p, sent[c][Len(p) + 1]) BY <2>3 DEF p
    <3>3. /\ IsStart(q, sent[c]) /\ q \in Seq(Kinds) /\ Len(q) = Len(p) + 1
          /\ q[Len(p) + 1] = sent[c][Len(p) + 1] /\ \A k \in 1..Len(p) : q[k] = p[k]
      BY <3>1, <3>2, StartExtends
    <3>4. QED BY <3>3 DEF p
  <2>5. \A k \in 1..Len(q) : k # Len(q) => q[k] \notin Terminal
    <3> SUFFICES ASSUME NEW k \in 1..Len(q), k # Len(q) PROVE q[k] \notin Terminal
      OBVIOUS
    <3>1. k \in 1..Len(p) BY <2>4
    <3>2. QED BY <2>2, <2>4, <3>1
  <2>6. Had(c)' = q BY <2>1, <2>3
  <2>7. Len(q) \in 1..Len(q) /\ q # <<>> BY <2>4
  <2> HIDE DEF m, p
  <2>8. CASE m \notin Terminal /\ UNCHANGED <<Phase(c), Verdict(c)>>
    <3>1. \A k \in 1..Len(q) : q[k] \notin Terminal BY <2>4, <2>5, <2>8
    <3>2. QED BY <2>1, <2>2, <2>4, <2>6, <2>8, <3>1 DEF Heard
  <2>9. CASE m \in Terminal /\ Phase(c)' = "idle" /\ Verdict(c)' = Result(m)
    <3>1. \A k \in 1..Len(q) : q[k] \in Terminal <=> k = Len(q) BY <2>4, <2>5, <2>9
    <3>2. Verdict(c)' \in {"ok", "error"} /\ (Verdict(c)' = "error" <=> q[Len(q)] = "error")
      BY <2>4, <2>9 DEF Result
    <3>3. QED BY <2>1, <2>4, <2>6, <2>7, <2>9, <3>1, <3>2 DEF Heard
  <2>10. QED BY <2>1, <2>8, <2>9
<1>9. QED BY <1>3, <1>4, <1>5, <1>6, <1>7, <1>8 DEF Command!Next

\* An answer is whole: it is what the worker sent for the command from the first
\* message to the first one that ends a command, and an error exactly if that
\* message is one.
THEOREM AnswersAreWhole == Spec => [](\A c \in Calls : Command(c)!Answered)
<1> DEFINE AllHeard == \A c \in Calls : Heard(c)
<1>1. Init => AllHeard
  <2> SUFFICES ASSUME Init, NEW c \in Calls PROVE Heard(c) OBVIOUS
  <2>1. /\ Phase(c) = "idle" /\ Verdict(c) = "none" /\ Had(c) = <<>> /\ sent[c] = <<>>
    BY InitFollows DEF Command!Init
  <2>2. IsStart(<<>>, <<>>) /\ Len(<<>>) = 0 BY DEF IsStart
  <2>3. QED BY <2>1, <2>2 DEF Heard
<1>2. Typed /\ Gapless /\ Placed /\ AllHeard /\ [Next]_routingVars => AllHeard'
  <2> SUFFICES ASSUME Typed, Gapless, Placed, AllHeard, [Next]_routingVars,
                      NEW c \in Calls
               PROVE  Heard(c)'
    OBVIOUS
  <2>1. Typed' BY NextTyped
  <2>2. /\ call[c].got \in Seq(Kinds) /\ sent[c] \in Seq(Kinds)
        /\ sent'[c] \in Seq(Kinds)
    BY <2>1 DEF Typed, CallsTyped, CallRecords, ChannelsTyped
  <2>3. Had(c) \in Seq(Kinds) BY <2>2 DEF Had
  <2>4. [Command(c)!Next]_(Command(c)!commandVars) BY StepFollows DEF Keeps
  <2>5. QED BY <2>2, <2>3, <2>4, HeardStep
<1>3. AllHeard => \A c \in Calls : Command(c)!Answered
  BY DEF Heard, Command!Answered, Command!Ends, Terminal, IsStart
<1> HIDE DEF AllHeard
<1>4. QED BY <1>1, <1>2, <1>3, PlacedInductive, PTL DEF Spec
============================================================================
