---------------------------- MODULE WorkerSession ----------------------------
(***************************************************************************)
(* How a worker and the gateway find each other: the session loop of the   *)
(* worker (bastion-worker main.rs) and the registration half of            *)
(* RegistryService (registry.rs): register, challenge_response,            *)
(* command_stream, its reader and heartbeat tasks, and the watchdog.       *)
(*                                                                         *)
(* A session is one command stream.  Its two ends close separately: the    *)
(* worker may be back with a new session before the gateway has noticed    *)
(* that the old one is gone.                                               *)
(***************************************************************************)
EXTENDS Integers, FiniteSets

CONSTANTS
  Sandboxes,    \* sandbox ids; each has one worker process
  Secured,      \* sandboxes whose provider registers a secret (gVisor, Firecracker)
  Unfit,        \* of these, the ones whose secret fits no configured key
  MaxSessions,  \* bound: command streams opened
  MaxBreaks,    \* bound: connections that break
  MaxRounds,    \* bound: challenges sent to one sandbox
  MaxBackoff,   \* next_backoff doubles the delay up to attempt 6
  NoKey         \* no session token

ASSUME SecuredAssumption == Secured \subseteq Sandboxes /\ Unfit \subseteq Secured
ASSUME SessionBoundsAssumption ==
  /\ MaxSessions \in Nat /\ MaxBreaks \in Nat /\ MaxRounds \in Nat
  /\ MaxBackoff \in Nat
ASSUME NoKeyAssumption == NoKey \notin Sandboxes

Sessions == 1..MaxSessions

(* The strings that key the registry's maps: a sandbox id, the fixed token of
   register's auto-accept, "token-<id>", or a UUID drawn by challenge_response,
   here named after the challenge it answers. *)
IdKey(w) == [sandbox |-> w, kind |-> "id", round |-> 0]
FixedToken(w) == [sandbox |-> w, kind |-> "fixed", round |-> 0]
Drawn(w, n) == [sandbox |-> w, kind |-> "drawn", round |-> n]
Keys == {IdKey(w) : w \in Sandboxes} \cup {FixedToken(w) : w \in Sandboxes}
          \cup {Drawn(w, n) : w \in Sandboxes, n \in 1..MaxRounds}

VARIABLES
  worker,     \* the worker processes: where run_worker_session is
  secrets,    \* RegistryService.secrets: sandboxes with a secret
  pending,    \* pending_challenges: the round of the open challenge, 0 if none
  rounds,     \* challenges sent so far, which stand for their nonces
  workers,    \* RegistryService.workers: session registered under a key, or 0
  session,    \* the command streams, by number in order of opening
  opened,     \* how many of them there are
  bridge,     \* HeartbeatBridge: keys with resource data
  watchdog,   \* start_watchdog: the keys it found dead, the one it is removing
  breaks      \* connections broken so far

sessionVars == <<worker, secrets, pending, rounds, workers, session, opened,
                 bridge, watchdog, breaks>>

Closed == [sandbox |-> NoKey, key |-> NoKey, near |-> FALSE, far |-> FALSE,
           reader |-> FALSE]
Fresh == [pc |-> "connect", token |-> NoKey, round |-> 0, session |-> 0,
          attempt |-> 0]

Init ==
  /\ worker = [w \in Sandboxes |-> Fresh]
  /\ secrets = {} /\ pending = [w \in Sandboxes |-> 0]
  /\ rounds = [w \in Sandboxes |-> 0]
  /\ workers = [k \in Keys |-> 0]
  /\ session = [s \in Sessions |-> Closed] /\ opened = 0
  /\ bridge = {} /\ watchdog = [todo |-> {}, key |-> NoKey] /\ breaks = 0

\* create() of gVisor and Firecracker registers the secret after it has started
\* the worker, so the worker may have registered before.
SetSecret(w) ==
  /\ w \in Secured \ secrets
  /\ secrets' = secrets \cup {w}
  /\ UNCHANGED <<worker, pending, rounds, workers, session, opened, bridge,
                 watchdog, breaks>>

------------------------------------------------------------------------------
(* The worker's session loop and the calls it makes.                        *)

\* A session that failed: main() forgets its token and counts the attempt.
Fail(w) ==
  worker' = [worker EXCEPT ![w] =
    [pc |-> "backoff", token |-> NoKey, round |-> 0, session |-> 0,
     attempt |-> IF worker[w].attempt < MaxBackoff THEN worker[w].attempt + 1
                                                   ELSE MaxBackoff]]

\* Mutant: a sandbox with an open challenge is not given a second one.
RegisterRefusesPending(w) ==
  /\ worker[w].pc = "connect"
  /\ \/ /\ w \notin secrets
        /\ worker' = [worker EXCEPT ![w].pc = "open", ![w].token = FixedToken(w)]
        /\ UNCHANGED <<pending, rounds>>
     \/ /\ w \in secrets /\ pending[w] = 0 /\ rounds[w] < MaxRounds
        /\ rounds' = [rounds EXCEPT ![w] = rounds[w] + 1]
        /\ pending' = [pending EXCEPT ![w] = rounds[w] + 1]
        /\ worker' = [worker EXCEPT ![w].pc = "prove", ![w].round = rounds[w] + 1]
     \/ w \in secrets /\ pending[w] # 0 /\ Fail(w) /\ UNCHANGED <<pending, rounds>>
  /\ UNCHANGED <<secrets, workers, session, opened, bridge, watchdog, breaks>>

\* register: without a secret the worker is accepted at once, with one it is
\* challenged, and the new challenge replaces an open one.
Register(w) ==
  /\ worker[w].pc = "connect"
  /\ \/ /\ w \notin secrets
        /\ worker' = [worker EXCEPT ![w].pc = "open", ![w].token = FixedToken(w)]
        /\ UNCHANGED <<pending, rounds>>
     \/ /\ w \in secrets /\ rounds[w] < MaxRounds
        /\ rounds' = [rounds EXCEPT ![w] = rounds[w] + 1]
        /\ pending' = [pending EXCEPT ![w] = rounds[w] + 1]
        /\ worker' = [worker EXCEPT ![w].pc = "prove", ![w].round = rounds[w] + 1]
  /\ UNCHANGED <<secrets, workers, session, opened, bridge, watchdog, breaks>>

\* challenge_response: the open challenge is taken, then the proof is checked
\* against the secret, or against the pre-shared keys where these are enabled.
ChallengeResponse(w) ==
  /\ worker[w].pc = "prove"
  /\ pending' = [pending EXCEPT ![w] = 0]
  /\ \/ /\ pending[w] = worker[w].round /\ w \notin Unfit
        /\ worker' = [worker EXCEPT ![w].pc = "open",
                                    ![w].token = Drawn(w, worker[w].round)]
     \/ (pending[w] # worker[w].round \/ w \in Unfit) /\ Fail(w)
  /\ UNCHANGED <<secrets, rounds, workers, session, opened, bridge, watchdog,
                 breaks>>

\* Mutant: register_worker keeps the handle it has.
CommandStreamKeepsOld(w) ==
  /\ worker[w].pc = "open" /\ opened < MaxSessions
  /\ opened' = opened + 1
  /\ session' = [session EXCEPT ![opened + 1] =
       [sandbox |-> w, key |-> worker[w].token, near |-> TRUE, far |-> TRUE,
        reader |-> TRUE]]
  /\ workers' = IF workers[worker[w].token] # 0 THEN workers
                ELSE [workers EXCEPT ![worker[w].token] = opened + 1]
  /\ worker' = [worker EXCEPT ![w].pc = "run", ![w].session = opened + 1]
  /\ UNCHANGED <<secrets, pending, rounds, bridge, watchdog, breaks>>

\* command_stream: the ReadySignal carries the session token, and that token is
\* the key under which register_worker stores the handle.
CommandStream(w) ==
  /\ worker[w].pc = "open" /\ opened < MaxSessions
  /\ opened' = opened + 1
  /\ session' = [session EXCEPT ![opened + 1] =
       [sandbox |-> w, key |-> worker[w].token, near |-> TRUE, far |-> TRUE,
        reader |-> TRUE]]
  /\ workers' = [workers EXCEPT ![worker[w].token] = opened + 1]
  /\ worker' = [worker EXCEPT ![w].pc = "run", ![w].session = opened + 1]
  /\ UNCHANGED <<secrets, pending, rounds, bridge, watchdog, breaks>>

\* The connection breaks under a call, which may have been served, or under
\* the stream.  main() sleeps next_backoff() and starts over.
Break(w) ==
  /\ worker[w].pc \in {"prove", "open", "run"} /\ breaks < MaxBreaks
  /\ breaks' = breaks + 1
  /\ session' = IF worker[w].pc # "run" THEN session
                ELSE [session EXCEPT ![worker[w].session].far = FALSE]
  /\ Fail(w)
  /\ UNCHANGED <<secrets, pending, rounds, workers, opened, bridge, watchdog>>

\* The gateway's end went first: a clean end is retried at once with the
\* attempts reset, an error after a backoff.
StreamEnded(w) ==
  /\ worker[w].pc = "run" /\ ~session[worker[w].session].near
  /\ session' = [session EXCEPT ![worker[w].session].far = FALSE]
  /\ worker' = [worker EXCEPT ![w] = Fresh] \/ Fail(w)
  /\ UNCHANGED <<secrets, pending, rounds, workers, opened, bridge, watchdog,
                 breaks>>

Retry(w) ==
  /\ worker[w].pc = "backoff"
  /\ worker' = [worker EXCEPT ![w].pc = "connect"]
  /\ UNCHANGED <<secrets, pending, rounds, workers, session, opened, bridge,
                 watchdog, breaks>>

------------------------------------------------------------------------------
(* The gateway's tasks.                                                     *)

\* The gateway's end of the stream goes, after the worker's or before it: the
\* receiver of the command channel is dropped with it, so cmd_tx.is_closed()
\* holds from here on.
Notice(s) ==
  /\ session[s].near
  /\ \/ ~session[s].far /\ UNCHANGED breaks
     \/ session[s].far /\ breaks < MaxBreaks /\ breaks' = breaks + 1
  /\ session' = [session EXCEPT ![s].near = FALSE]
  /\ UNCHANGED <<worker, secrets, pending, rounds, workers, opened, bridge,
                 watchdog>>

\* Mutant: the data of a worker that is gone stays.
ReaderEndsSilently(s) ==
  /\ session[s].reader /\ ~session[s].near
  /\ session' = [session EXCEPT ![s].reader = FALSE]
  /\ UNCHANGED <<worker, secrets, pending, rounds, workers, opened, bridge,
                 watchdog, breaks>>

\* The reader task ends with the stream and removes the key's resource data.
ReaderEnds(s) ==
  /\ session[s].reader /\ ~session[s].near
  /\ session' = [session EXCEPT ![s].reader = FALSE]
  /\ bridge' = bridge \ {session[s].key}
  /\ UNCHANGED <<worker, secrets, pending, rounds, workers, opened, watchdog,
                 breaks>>

\* A ping of the heartbeat task, the worker's pong, and the reader's update.
Heartbeat(s) ==
  /\ session[s].near /\ session[s].far /\ session[s].reader
  /\ bridge' = bridge \cup {session[s].key}
  /\ UNCHANGED <<worker, secrets, pending, rounds, workers, session, opened,
                 watchdog, breaks>>

\* The watchdog's tick: collect the keys whose channel is closed, then remove
\* each from the bridge and from workers.  Other threads run between any two of
\* its accesses to the maps.
Dead == {k \in Keys : workers[k] # 0 /\ ~session[workers[k]].near}
WatchdogScan ==
  /\ watchdog.todo = {} /\ Dead # {}
  /\ watchdog' = [watchdog EXCEPT !.todo = Dead]
  /\ UNCHANGED <<worker, secrets, pending, rounds, workers, session, opened,
                 bridge, breaks>>

WatchdogPrune(k) ==
  /\ k \in watchdog.todo /\ watchdog.key = NoKey
  /\ bridge' = bridge \ {k}
  /\ watchdog' = [watchdog EXCEPT !.key = k]
  /\ UNCHANGED <<worker, secrets, pending, rounds, workers, session, opened,
                 breaks>>

\* Mutant: the handle of a dead worker stays in the map.
WatchdogRemoveNothing ==
  /\ watchdog.key # NoKey
  /\ watchdog' = [todo |-> watchdog.todo \ {watchdog.key}, key |-> NoKey]
  /\ UNCHANGED <<worker, secrets, pending, rounds, workers, session, opened,
                 bridge, breaks>>

WatchdogRemove ==
  /\ watchdog.key # NoKey
  /\ workers' = [workers EXCEPT ![watchdog.key] = 0]
  /\ watchdog' = [todo |-> watchdog.todo \ {watchdog.key}, key |-> NoKey]
  /\ UNCHANGED <<worker, secrets, pending, rounds, session, opened, bridge,
                 breaks>>

------------------------------------------------------------------------------
WorkerStep(w) ==
  \/ Register(w) \/ ChallengeResponse(w) \/ CommandStream(w)
  \/ StreamEnded(w) \/ Retry(w)

Watchdog == WatchdogScan \/ (\E k \in Keys : WatchdogPrune(k)) \/ WatchdogRemove

Next ==
  \/ \E w \in Sandboxes : SetSecret(w) \/ WorkerStep(w) \/ Break(w)
  \/ \E s \in Sessions : Notice(s) \/ ReaderEnds(s) \/ Heartbeat(s)
  \/ Watchdog

Spec == Init /\ [][Next]_sessionVars

\* The worker's loop runs for ever, the reader task sees the end of its stream,
\* the gateway's transport notices that a peer is gone, the watchdog ticks.
Fairness ==
  /\ \A w \in Sandboxes : WF_sessionVars(WorkerStep(w))
  /\ \A s \in Sessions :
       WF_sessionVars(~session[s].far /\ Notice(s)) /\ WF_sessionVars(ReaderEnds(s))
  /\ WF_sessionVars(Watchdog)
FairSpec == Spec /\ Fairness

------------------------------------------------------------------------------
\* A worker that comes back under the same token takes its key over: what the
\* registry holds under a key is the last session opened with it, never an
\* older one whose stream may still look alive to the gateway.
LatestWins ==
  \A k \in Keys :
    workers[k] # 0 =>
      /\ workers[k] <= opened /\ session[workers[k]].key = k
      /\ \A s \in Sessions :
           s <= opened /\ session[s].key = k => s <= workers[k]

\* No resource data is left behind: a key in the bridge has a reader task that
\* will remove it when its stream ends.
BridgeHasReader ==
  \A k \in bridge : \E s \in Sessions : session[s].key = k /\ session[s].reader

\* The watchdog removes the handle of a dead worker, unless a new session has
\* replaced it.
DeadRemoved ==
  \A s \in Sessions :
    LET Registered == s <= opened /\ workers[session[s].key] = s
    IN  (Registered /\ ~session[s].near) ~> ~Registered

\* A worker whose secret is right gets back in after every break: a lost reply,
\* a challenge left open, a stream that one side has not seen the end of.
WorkerReturns ==
  \A w \in Sandboxes \ Unfit : <>[](worker[w].pc = "run")

------------------------------------------------------------------------------
\* What a comment of the code says of the registry, and the code does not do.

\* RegistryService.workers: "Active workers by sandbox_id", which is how
\* is_worker_connected and every route_* look a worker up.
WorkersBySandboxId ==
  \A s \in Sessions :
    (session[s].near /\ session[s].far)
      => workers[IdKey(session[s].sandbox)] # 0
==============================================================================
