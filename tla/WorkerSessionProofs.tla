------------------------ MODULE WorkerSessionProofs ------------------------
(***************************************************************************)
(* Theorems about WorkerSession, for every set of sandboxes, every choice  *)
(* of secrets and every bound on sessions, breaks and challenges.          *)
(***************************************************************************)
EXTENDS WorkerSession, TLAPS

SessionRecords ==
  [sandbox : Sandboxes \cup {NoKey}, key : Keys \cup {NoKey},
   near : BOOLEAN, far : BOOLEAN, reader : BOOLEAN]
WorkerRecords ==
  [pc : {"connect", "prove", "open", "run", "backoff"},
   token : Keys \cup {NoKey}, round : 0..MaxRounds, session : 0..MaxSessions,
   attempt : Nat]

\* What the registry, the streams and the watchdog hold.
MapsTyped ==
  /\ workers \in [Keys -> 0..MaxSessions]
  /\ session \in [Sessions -> SessionRecords]
  /\ opened \in 0..MaxSessions
  /\ bridge \subseteq Keys
  /\ watchdog \in [todo : SUBSET Keys, key : Keys \cup {NoKey}]

\* Where the workers and their challenges are.
WorkersTyped ==
  /\ worker \in [Sandboxes -> WorkerRecords]
  /\ secrets \subseteq Secured
  /\ pending \in [Sandboxes -> 0..MaxRounds]
  /\ rounds \in [Sandboxes -> 0..MaxRounds]
  /\ breaks \in 0..MaxBreaks

\* What a worker holds at each point of run_worker_session: the challenge it
\* answers, the token it presents, the stream it reads.
WorkerHolds(w) ==
  /\ worker[w].pc = "prove" => worker[w].round # 0
  /\ worker[w].pc = "open" => worker[w].token \in Keys
  /\ worker[w].pc = "run" => worker[w].session \in 1..opened

\* A stream that has not been opened has neither end nor a reader; one that
\* has was opened under a key; the gateway's end never outlives the reader.
StreamsOpened ==
  \A s \in Sessions :
    /\ s > opened => ~session[s].near /\ ~session[s].reader
    /\ s <= opened => session[s].key \in Keys
    /\ session[s].near => session[s].reader

Typed ==
  /\ MapsTyped /\ WorkersTyped
  /\ \A w \in Sandboxes : WorkerHolds(w)
  /\ StreamsOpened

USE SecuredAssumption, SessionBoundsAssumption, NoKeyAssumption

------------------------------------------------------------------------------
\* The tokens the gateway hands out key the registry's maps.
LEMMA TokensAreKeys ==
  \A w \in Sandboxes :
    /\ IdKey(w) \in Keys /\ FixedToken(w) \in Keys
    /\ \A n \in 1..MaxRounds : Drawn(w, n) \in Keys
BY DEF Keys

\* main() forgets the token and the stream of a session that failed.
LEMMA FailTyped ==
  ASSUME WorkersTyped, \A v \in Sandboxes : WorkerHolds(v),
         NEW w \in Sandboxes, Fail(w), opened' = opened
  PROVE  /\ worker' \in [Sandboxes -> WorkerRecords]
         /\ \A v \in Sandboxes : WorkerHolds(v)'
<1>1. worker[w].attempt \in Nat BY DEF WorkersTyped, WorkerRecords
<1>2. [pc |-> "backoff", token |-> NoKey, round |-> 0, session |-> 0,
       attempt |-> IF worker[w].attempt < MaxBackoff THEN worker[w].attempt + 1
                                                     ELSE MaxBackoff]
        \in WorkerRecords
  BY <1>1 DEF WorkerRecords
<1>3. worker' \in [Sandboxes -> WorkerRecords]
  BY <1>2 DEF WorkersTyped, Fail
<1>4. \A v \in Sandboxes : WorkerHolds(v)'
  BY DEF WorkerHolds, Fail, WorkersTyped
<1>5. QED BY <1>3, <1>4

\* One end of a stream closing, or its reader ending, keeps the streams typed.
LEMMA EndTyped ==
  ASSUME Typed, NEW s \in Sessions,
         \/ session' = [session EXCEPT ![s].far = FALSE]
         \/ session' = [session EXCEPT ![s].near = FALSE]
         \/ ~session[s].near /\ session' = [session EXCEPT ![s].reader = FALSE],
         opened' = opened
  PROVE  /\ session' \in [Sessions -> SessionRecords]
         /\ StreamsOpened'
         /\ \A t \in Sessions : session'[t].key = session[t].key
<1>1. /\ session \in [Sessions -> SessionRecords] /\ StreamsOpened
      /\ session[s] \in SessionRecords
  BY DEF Typed, MapsTyped
<1>2. CASE session' = [session EXCEPT ![s].far = FALSE]
  BY <1>1, <1>2 DEF StreamsOpened, SessionRecords
<1>3. CASE session' = [session EXCEPT ![s].near = FALSE]
  BY <1>1, <1>3 DEF StreamsOpened, SessionRecords
<1>4. CASE ~session[s].near /\ session' = [session EXCEPT ![s].reader = FALSE]
  BY <1>1, <1>4 DEF StreamsOpened, SessionRecords
<1>5. QED BY <1>2, <1>3, <1>4

\* The initial state is well typed.
LEMMA InitTyped == Init => Typed
<1> SUFFICES ASSUME Init PROVE Typed OBVIOUS
<1>1. MapsTyped
  BY DEF Init, MapsTyped, SessionRecords, Closed, Sessions
<1>2. WorkersTyped
  BY DEF Init, WorkersTyped, WorkerRecords, Fresh
<1>3. \A w \in Sandboxes : WorkerHolds(w)
  BY DEF Init, WorkerHolds, Fresh
<1>4. StreamsOpened
  BY DEF Init, StreamsOpened, Closed, Sessions
<1>5. QED BY <1>1, <1>2, <1>3, <1>4 DEF Typed

\* Every step of a worker, its provider or the gateway's handlers keeps the types.
LEMMA WorkerTyped ==
  ASSUME Typed, NEW w \in Sandboxes, SetSecret(w) \/ WorkerStep(w) \/ Break(w)
  PROVE  Typed'
<1>0. /\ MapsTyped /\ WorkersTyped /\ StreamsOpened
      /\ \A v \in Sandboxes : WorkerHolds(v)
  BY DEF Typed
<1>1. CASE SetSecret(w)
  <2>1. MapsTyped' /\ StreamsOpened'
    BY <1>0, <1>1 DEF SetSecret, MapsTyped, StreamsOpened
  <2>2. WorkersTyped' /\ \A v \in Sandboxes : WorkerHolds(v)'
    BY <1>0, <1>1 DEF SetSecret, WorkersTyped, WorkerHolds
  <2>3. QED BY <2>1, <2>2 DEF Typed
<1>2. CASE Register(w)
  <2>1. MapsTyped' /\ StreamsOpened'
    BY <1>0, <1>2 DEF Register, MapsTyped, StreamsOpened
  <2>2. CASE /\ worker' = [worker EXCEPT ![w].pc = "open", ![w].token = FixedToken(w)]
             /\ UNCHANGED <<pending, rounds>>
    BY <1>0, <1>2, <2>1, <2>2, TokensAreKeys
    DEF Register, WorkersTyped, WorkerRecords, WorkerHolds, Typed
  <2>3. CASE /\ rounds[w] < MaxRounds
             /\ rounds' = [rounds EXCEPT ![w] = rounds[w] + 1]
             /\ pending' = [pending EXCEPT ![w] = rounds[w] + 1]
             /\ worker' = [worker EXCEPT ![w].pc = "prove", ![w].round = rounds[w] + 1]
    <3>1. rounds[w] + 1 \in 1..MaxRounds BY <1>0, <2>3 DEF WorkersTyped
    <3>2. WorkersTyped'
      BY <1>0, <1>2, <2>3, <3>1 DEF Register, WorkersTyped, WorkerRecords
    <3>3. \A v \in Sandboxes : WorkerHolds(v)'
      BY <1>0, <1>2, <2>3, <3>1 DEF Register, WorkersTyped, WorkerRecords, WorkerHolds
    <3>4. QED BY <2>1, <3>2, <3>3 DEF Typed
  <2>4. QED BY <1>2, <2>2, <2>3 DEF Register
<1>3. CASE ChallengeResponse(w)
  <2>1. MapsTyped' /\ StreamsOpened'
    BY <1>0, <1>3 DEF ChallengeResponse, MapsTyped, StreamsOpened
  <2>a. /\ pending' \in [Sandboxes -> 0..MaxRounds]
        /\ UNCHANGED <<secrets, rounds, breaks>>
    BY <1>0, <1>3 DEF ChallengeResponse, WorkersTyped
  <2>2. CASE worker' = [worker EXCEPT ![w].pc = "open",
                                      ![w].token = Drawn(w, worker[w].round)]
    <3>1. worker[w].round \in 1..MaxRounds
      BY <1>0, <1>3 DEF ChallengeResponse, WorkersTyped, WorkerRecords, WorkerHolds
    <3>2. Drawn(w, worker[w].round) \in Keys BY <3>1, TokensAreKeys
    <3>a. worker' \in [Sandboxes -> WorkerRecords]
      BY <1>0, <2>2, <3>2, ZenonT(40) DEF WorkersTyped, WorkerRecords
    <3>3. WorkersTyped' BY <1>0, <2>a, <3>a DEF WorkersTyped
    <3>4. \A v \in Sandboxes : WorkerHolds(v)'
      BY <1>0, <1>3, <2>2, <3>2
      DEF ChallengeResponse, WorkersTyped, WorkerRecords, WorkerHolds
    <3>5. QED BY <2>1, <3>3, <3>4 DEF Typed
  <2>3. CASE Fail(w)
    <3>1. /\ worker' \in [Sandboxes -> WorkerRecords]
          /\ \A v \in Sandboxes : WorkerHolds(v)'
      BY <1>0, <1>3, <2>3, FailTyped DEF ChallengeResponse
    <3>2. WorkersTyped'
      BY <1>0, <2>a, <3>1 DEF WorkersTyped
    <3>3. QED BY <2>1, <3>1, <3>2 DEF Typed
  <2>4. QED BY <1>3, <2>2, <2>3 DEF ChallengeResponse
<1>4. CASE CommandStream(w)
  <2>1. opened + 1 \in Sessions /\ opened' \in 0..MaxSessions
    BY <1>0, <1>4 DEF CommandStream, MapsTyped, Sessions
  <2>2. worker[w].token \in Keys
    BY <1>0, <1>4 DEF CommandStream, WorkerHolds
  <2>3. MapsTyped'
    BY <1>0, <1>4, <2>1, <2>2
    DEF CommandStream, MapsTyped, SessionRecords, Sessions
  <2>4. StreamsOpened'
    BY <1>0, <1>4, <2>1, <2>2
    DEF CommandStream, MapsTyped, StreamsOpened, Sessions
  <2>5. WorkersTyped'
    BY <1>0, <1>4, <2>1, ZenonT(40) DEF CommandStream, WorkersTyped, WorkerRecords, Sessions
  <2>6. \A v \in Sandboxes : WorkerHolds(v)'
    <3>1. /\ opened \in Nat /\ opened' = opened + 1
          /\ worker'[w].pc = "run" /\ worker'[w].session = opened + 1
          /\ \A v \in Sandboxes : v # w => worker'[v] = worker[v]
      BY <1>0, <1>4 DEF CommandStream, MapsTyped, WorkersTyped, WorkerRecords
    <3>2. opened + 1 \in 1..opened' /\ 1..opened \subseteq 1..opened'
      BY <3>1
    <3> QED BY <1>0, <3>1, <3>2 DEF WorkerHolds
  <2>7. QED BY <2>3, <2>4, <2>5, <2>6 DEF Typed
<1>5. CASE StreamEnded(w)
  <2>1. worker[w].session \in Sessions
    BY <1>0, <1>5 DEF StreamEnded, WorkerHolds, MapsTyped, Sessions
  <2>2. MapsTyped' /\ StreamsOpened'
    BY <1>0, <1>5, <2>1, EndTyped DEF StreamEnded, MapsTyped
  <2>3. CASE worker' = [worker EXCEPT ![w] = Fresh]
    BY <1>0, <1>5, <2>2, <2>3
    DEF StreamEnded, WorkersTyped, WorkerRecords, WorkerHolds, Fresh, Typed
  <2>4. CASE Fail(w)
    <3>1. /\ worker' \in [Sandboxes -> WorkerRecords]
          /\ \A v \in Sandboxes : WorkerHolds(v)'
      BY <1>0, <1>5, <2>4, FailTyped DEF StreamEnded
    <3>2. WorkersTyped' BY <1>0, <1>5, <3>1 DEF StreamEnded, WorkersTyped
    <3>3. QED BY <2>2, <3>1, <3>2 DEF Typed
  <2>5. QED BY <1>5, <2>3, <2>4 DEF StreamEnded
<1>6. CASE Retry(w)
  <2>1. MapsTyped' /\ StreamsOpened'
    BY <1>0, <1>6 DEF Retry, MapsTyped, StreamsOpened
  <2>2. WorkersTyped' /\ \A v \in Sandboxes : WorkerHolds(v)'
    BY <1>0, <1>6 DEF Retry, WorkersTyped, WorkerRecords, WorkerHolds
  <2>3. QED BY <2>1, <2>2 DEF Typed
<1>7. CASE Break(w)
  <2>1. MapsTyped' /\ StreamsOpened'
    <3>1. CASE worker[w].pc # "run"
      BY <1>0, <1>7, <3>1 DEF Break, MapsTyped, StreamsOpened
    <3>2. CASE worker[w].pc = "run"
      <4>1. worker[w].session \in Sessions
        BY <1>0, <3>2 DEF WorkerHolds, MapsTyped, Sessions
      <4>2. QED BY <1>0, <1>7, <3>2, <4>1, EndTyped DEF Break, MapsTyped
    <3>3. QED BY <3>1, <3>2
  <2>2. /\ worker' \in [Sandboxes -> WorkerRecords]
        /\ \A v \in Sandboxes : WorkerHolds(v)'
    BY <1>0, <1>7, FailTyped DEF Break
  <2>3. WorkersTyped' BY <1>0, <1>7, <2>2 DEF Break, WorkersTyped
  <2>4. QED BY <2>1, <2>2, <2>3 DEF Typed
<1>8. QED BY <1>1, <1>2, <1>3, <1>4, <1>5, <1>6, <1>7 DEF WorkerStep

\* The ends of the streams, the pongs and the watchdog keep the types.
LEMMA TasksTyped ==
  ASSUME Typed,
         \/ \E s \in Sessions : Notice(s) \/ ReaderEnds(s) \/ Heartbeat(s)
         \/ Watchdog
  PROVE  Typed'
<1>0. /\ MapsTyped /\ WorkersTyped /\ StreamsOpened
      /\ \A v \in Sandboxes : WorkerHolds(v)
  BY DEF Typed
<1>1. ASSUME NEW s \in Sessions, Notice(s) PROVE Typed'
  <2>1. MapsTyped' /\ StreamsOpened'
    BY <1>0, <1>1, EndTyped DEF Notice, MapsTyped
  <2>2. breaks' \in 0..MaxBreaks BY <1>0, <1>1 DEF Notice, WorkersTyped
  <2>3. WorkersTyped' /\ \A v \in Sandboxes : WorkerHolds(v)'
    BY <1>0, <1>1, <2>2 DEF Notice, WorkersTyped, WorkerHolds
  <2>4. QED BY <2>1, <2>3 DEF Typed
<1>2. ASSUME NEW s \in Sessions, ReaderEnds(s) PROVE Typed'
  <2>1. MapsTyped' /\ StreamsOpened'
    BY <1>0, <1>2, EndTyped DEF ReaderEnds, MapsTyped
  <2>2. WorkersTyped' /\ \A v \in Sandboxes : WorkerHolds(v)'
    BY <1>0, <1>2 DEF ReaderEnds, WorkersTyped, WorkerHolds
  <2>3. QED BY <2>1, <2>2 DEF Typed
<1>3. ASSUME NEW s \in Sessions, Heartbeat(s) PROVE Typed'
  <2>1. session[s].key \in Keys
    BY <1>0, <1>3 DEF Heartbeat, StreamsOpened, MapsTyped, Sessions
  <2>2. MapsTyped' /\ StreamsOpened'
    BY <1>0, <1>3, <2>1 DEF Heartbeat, MapsTyped, StreamsOpened
  <2>3. WorkersTyped' /\ \A v \in Sandboxes : WorkerHolds(v)'
    BY <1>0, <1>3 DEF Heartbeat, WorkersTyped, WorkerHolds
  <2>4. QED BY <2>2, <2>3 DEF Typed
<1>4. CASE Watchdog
  <2>1. watchdog' \in [todo : SUBSET Keys, key : Keys \cup {NoKey}]
    BY <1>0, <1>4
    DEF Watchdog, WatchdogScan, WatchdogPrune, WatchdogRemove, Dead, MapsTyped
  <2>2. /\ workers' \in [Keys -> 0..MaxSessions] /\ bridge' \subseteq Keys
        /\ UNCHANGED <<worker, secrets, pending, rounds, session, opened, breaks>>
    BY <1>0, <1>4
    DEF Watchdog, WatchdogScan, WatchdogPrune, WatchdogRemove, MapsTyped
  <2>3. MapsTyped' /\ StreamsOpened'
    BY <1>0, <2>1, <2>2 DEF MapsTyped, StreamsOpened
  <2>4. WorkersTyped' /\ \A v \in Sandboxes : WorkerHolds(v)'
    BY <1>0, <2>2 DEF WorkersTyped, WorkerHolds
  <2>5. QED BY <2>3, <2>4 DEF Typed
<1>5. QED BY <1>1, <1>2, <1>3, <1>4

\* Every step of the specification keeps the types.
LEMMA NextTyped == Typed /\ [Next]_sessionVars => Typed'
<1> SUFFICES ASSUME Typed, [Next]_sessionVars PROVE Typed' OBVIOUS
<1>1. CASE UNCHANGED sessionVars
  BY <1>1 DEF sessionVars, Typed, MapsTyped, WorkersTyped, WorkerHolds,
              StreamsOpened
<1>2. QED BY <1>1, WorkerTyped, TasksTyped DEF Next

------------------------------------------------------------------------------
(* The two invariants, over the well-typed states.                          *)

\* A step that leaves the registry and the keys of the streams alone leaves
\* LatestWins alone.
LEMMA LatestUnchanged ==
  ASSUME Typed, LatestWins, UNCHANGED <<workers, opened>>,
         \A t \in Sessions : session'[t].key = session[t].key
  PROVE  LatestWins'
<1>1. \A k \in Keys : workers[k] # 0 => workers[k] \in Sessions
  BY DEF Typed, MapsTyped, Sessions
<1> QED BY <1>1 DEF LatestWins

\* A step that leaves the bridge and the readers alone leaves BridgeHasReader
\* alone.
LEMMA BridgeUnchanged ==
  ASSUME BridgeHasReader, bridge' \subseteq bridge,
         \A t \in Sessions : /\ session'[t].key = session[t].key
                             /\ session'[t].reader = session[t].reader
  PROVE  BridgeHasReader'
BY DEF BridgeHasReader

\* Every step keeps the last session of a key registered under it.
LEMMA LatestStep ==
  ASSUME Typed, LatestWins, [Next]_sessionVars
  PROVE  LatestWins'
<1>0. /\ workers \in [Keys -> 0..MaxSessions] /\ opened \in 0..MaxSessions
      /\ session \in [Sessions -> SessionRecords]
  BY DEF Typed, MapsTyped
<1>1. ASSUME NEW w \in Sandboxes, CommandStream(w) PROVE LatestWins'
  <2>1. opened + 1 \in Sessions /\ worker[w].token \in Keys
    BY <1>0, <1>1 DEF CommandStream, Typed, WorkerHolds, Sessions
  <2>2. SUFFICES ASSUME NEW k \in Keys, workers'[k] # 0
                 PROVE  /\ workers'[k] <= opened' /\ session'[workers'[k]].key = k
                        /\ \A s \in Sessions :
                             s <= opened' /\ session'[s].key = k => s <= workers'[k]
    BY DEF LatestWins
  <2>3. CASE k = worker[w].token
    BY <1>0, <1>1, <2>1, <2>3 DEF CommandStream, Sessions
  <2>4. CASE k # worker[w].token
    <3>1. /\ workers'[k] = workers[k] /\ workers[k] \in 1..opened
          /\ session[workers[k]].key = k
          /\ \A s \in Sessions : s <= opened /\ session[s].key = k => s <= workers[k]
      BY <1>0, <1>1, <2>1, <2>2, <2>4 DEF CommandStream, LatestWins
    <3>2. /\ session'[opened + 1].key # k
          /\ \A s \in Sessions : s # opened + 1 => session'[s] = session[s]
      BY <1>0, <1>1, <2>1, <2>4 DEF CommandStream
    <3>3. QED BY <1>0, <1>1, <3>1, <3>2 DEF CommandStream, Sessions
  <2>5. QED BY <2>3, <2>4
<1>2. CASE WatchdogRemove
  BY <1>0, <1>2 DEF WatchdogRemove, LatestWins
<1>3. ASSUME NEW w \in Sandboxes, StreamEnded(w) \/ Break(w) PROVE LatestWins'
  <2>1. UNCHANGED <<workers, opened>> BY <1>3 DEF StreamEnded, Break
  <2>2. \A t \in Sessions : session'[t].key = session[t].key
    BY <1>0, <1>3 DEF StreamEnded, Break, SessionRecords
  <2>3. QED BY <2>1, <2>2, LatestUnchanged
<1>4. ASSUME NEW s \in Sessions, Notice(s) \/ ReaderEnds(s) PROVE LatestWins'
  <2>1. UNCHANGED <<workers, opened>> BY <1>4 DEF Notice, ReaderEnds
  <2>2. \A t \in Sessions : session'[t].key = session[t].key
    BY <1>0, <1>4 DEF Notice, ReaderEnds, SessionRecords
  <2>3. QED BY <2>1, <2>2, LatestUnchanged
<1>5. CASE UNCHANGED <<workers, opened, session>>
  BY <1>5, LatestUnchanged
<1>6. QED
  BY <1>1, <1>2, <1>3, <1>4, <1>5
  DEF Next, WorkerStep, Watchdog, sessionVars, SetSecret, Register,
      ChallengeResponse, Retry, Heartbeat, WatchdogScan, WatchdogPrune

\* Every step keeps a reader for every key of the bridge.
LEMMA BridgeStep ==
  ASSUME Typed, BridgeHasReader, [Next]_sessionVars
  PROVE  BridgeHasReader'
<1>0. /\ opened \in 0..MaxSessions /\ session \in [Sessions -> SessionRecords]
      /\ StreamsOpened
  BY DEF Typed, MapsTyped
<1>1. ASSUME NEW w \in Sandboxes, CommandStream(w) PROVE BridgeHasReader'
  <2>1. opened + 1 \in Sessions /\ ~session[opened + 1].reader
    BY <1>0, <1>1 DEF CommandStream, StreamsOpened, Sessions
  <2>2. \A s \in Sessions : session[s].reader => session'[s] = session[s]
    BY <1>0, <1>1, <2>1 DEF CommandStream
  <2>3. QED BY <1>1, <2>2 DEF CommandStream, BridgeHasReader
<1>2. ASSUME NEW s \in Sessions, ReaderEnds(s) PROVE BridgeHasReader'
  <2>1. \A t \in Sessions : t # s => session'[t] = session[t]
    BY <1>0, <1>2 DEF ReaderEnds
  <2>2. QED BY <1>2, <2>1 DEF ReaderEnds, BridgeHasReader
<1>3. ASSUME NEW s \in Sessions, Heartbeat(s) PROVE BridgeHasReader'
  BY <1>3 DEF Heartbeat, BridgeHasReader
<1>4. ASSUME NEW w \in Sandboxes, StreamEnded(w) \/ Break(w)
      PROVE  BridgeHasReader'
  <2>1. \A t \in Sessions : /\ session'[t].key = session[t].key
                            /\ session'[t].reader = session[t].reader
    BY <1>0, <1>4 DEF StreamEnded, Break, SessionRecords
  <2>2. QED BY <1>4, <2>1, BridgeUnchanged DEF StreamEnded, Break
<1>5. ASSUME NEW s \in Sessions, Notice(s) PROVE BridgeHasReader'
  <2>1. \A t \in Sessions : /\ session'[t].key = session[t].key
                            /\ session'[t].reader = session[t].reader
    BY <1>0, <1>5 DEF Notice, SessionRecords
  <2>2. QED BY <1>5, <2>1, BridgeUnchanged DEF Notice
<1>6. CASE bridge' \subseteq bridge /\ UNCHANGED session
  BY <1>6, BridgeUnchanged
<1>7. QED
  BY <1>1, <1>2, <1>3, <1>4, <1>5, <1>6
  DEF Next, WorkerStep, Watchdog, sessionVars, SetSecret, Register,
      ChallengeResponse, Retry, WatchdogScan, WatchdogPrune, WatchdogRemove

------------------------------------------------------------------------------
\* However often workers break off, come back and are challenged, and whatever
\* the watchdog removes in between, RegistryService.workers holds under a token
\* the last command stream opened with it.
THEOREM RegistryHoldsLatest == Spec => []LatestWins
<1>1. Init => LatestWins BY DEF Init, LatestWins
<1>2. Typed /\ LatestWins /\ [Next]_sessionVars => Typed' /\ LatestWins'
  BY NextTyped, LatestStep
<1>3. QED BY <1>1, <1>2, InitTyped, PTL DEF Spec

\* Resource data of a worker is in the HeartbeatBridge only while a reader task
\* of a stream with its token is left to remove it.
THEOREM BridgeKeepsReader == Spec => []BridgeHasReader
<1>1. Init => BridgeHasReader BY DEF Init, BridgeHasReader
<1>2. Typed /\ BridgeHasReader /\ [Next]_sessionVars => Typed' /\ BridgeHasReader'
  BY NextTyped, BridgeStep
<1>3. QED BY <1>1, <1>2, InitTyped, PTL DEF Spec
============================================================================
