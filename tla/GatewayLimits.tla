---------------------------- MODULE GatewayLimits ----------------------------
(* What every tool call of the gateway goes through besides its own work: the *)
(* two token buckets that limit calls, and the history of configuration       *)
(* changes that the metrics hub keeps in SQLite and in memory.                *)
EXTENDS Integers, Sequences

CONSTANTS ToolCalls,                \* tool calls under way at once
          ClientTokens, ClientRate, \* bucket of a client (100, 20 a second)
          GlobalTokens, GlobalRate, \* bucket of the gateway (500, 100 a second)
          Keys,                     \* configuration keys that callers set
          Restricted,               \* RESTRICTED_CONFIG_KEYS
          MaxHistory,               \* max_config_history (1000)
          MaxSeconds, MaxChanges, MaxStarts \* bounds

ASSUME LimitsAssumption ==
  /\ {ClientTokens, ClientRate, GlobalTokens, GlobalRate} \subseteq Nat
  /\ MaxHistory \in Nat \ {0}

VARIABLES buckets,   \* the client's bucket and the gateway's, with the last refill
          seconds,   \* since the process started
          toolcall,  \* toolcall[c]: where a call is
          admitted,  \* calls let through by the client's bucket, and by both (history)
          table,     \* rows of config_history in SQLite
          history,   \* config_history in memory
          since,     \* rows of the table when the process started (history)
          starts
limitVars == <<buckets, seconds, toolcall, admitted>>
hubVars == <<table, history, since>>
limitsVars == <<limitVars, hubVars, starts>>

Least(a, b) == IF a <= b THEN a ELSE b

\* Mutant: the bucket is refilled for the same seconds again.
RefilledAgain(b, max, rate) ==
  [b EXCEPT !.tokens = Least(max, b.tokens + (seconds - b.last) * rate)]
\* try_consume, first half: tokens for the time since the last refill.
Refilled(b, max, rate) ==
  [tokens |-> Least(max, b.tokens + (seconds - b.last) * rate), last |-> seconds]
\* Second half, under the same lock: one token, if there is one.
Consumes(b) == b.tokens >= 1
Consumed(b) == IF Consumes(b) THEN [b EXCEPT !.tokens = b.tokens - 1] ELSE b

Full == [client |-> [tokens |-> ClientTokens, last |-> 0],
         global |-> [tokens |-> GlobalTokens, last |-> 0]]
LimitsInit ==
  /\ buckets = Full /\ seconds = 0 /\ toolcall = [c \in ToolCalls |-> "idle"]
  /\ admitted = [client |-> 0, global |-> 0]
  /\ table = <<>> /\ history = <<>> /\ since = 0 /\ starts = 0

\* check_per_client_rate_limit: the client's bucket (every caller has the same
\* key), which refuses or goes on to the gateway's.
ClientBucket(c) ==
  /\ toolcall[c] = "idle"
  /\ LET b == Refilled(buckets.client, ClientTokens, ClientRate) IN
     /\ buckets' = [buckets EXCEPT !.client = Consumed(b)]
     /\ toolcall' = [toolcall EXCEPT ![c] = IF Consumes(b) THEN "global" ELSE "idle"]
     /\ admitted' = IF Consumes(b) THEN [admitted EXCEPT !.client = @ + 1] ELSE admitted
  /\ UNCHANGED <<seconds, hubVars, starts>>

\* The token of the client is gone even when the gateway's bucket refuses.
GlobalBucket(c) ==
  /\ toolcall[c] = "global" /\ toolcall' = [toolcall EXCEPT ![c] = "idle"]
  /\ LET b == Refilled(buckets.global, GlobalTokens, GlobalRate) IN
     /\ buckets' = [buckets EXCEPT !.global = Consumed(b)]
     /\ admitted' = IF Consumes(b) THEN [admitted EXCEPT !.global = @ + 1] ELSE admitted
  /\ UNCHANGED <<seconds, hubVars, starts>>

Second ==
  /\ seconds < MaxSeconds /\ seconds' = seconds + 1
  /\ UNCHANGED <<buckets, toolcall, admitted, hubVars, starts>>

------------------------------------------------------------------------------
\* Mutant: the ring drops its oldest entry before it is full.
DropsEarly(h) == IF Len(h) >= MaxHistory - 1 THEN Tail(h) ELSE h
RingRoom(h) == IF Len(h) >= MaxHistory THEN Tail(h) ELSE h

\* set_config, under the lock of the hub: a restricted key changes nothing, a
\* failed INSERT neither; then the row, and then the entry in memory.
set_config(key) ==
  /\ Len(table) < MaxChanges
  /\ \/ key \in Restricted /\ UNCHANGED hubVars
     \/ key \notin Restricted /\ UNCHANGED hubVars \* the INSERT fails
     \/ /\ key \notin Restricted
        /\ table' = Append(table, key)
        /\ history' = Append(RingRoom(history), key)
        /\ since' = since
  /\ UNCHANGED <<limitVars, starts>>

\* The process dies between the row and the entry in memory.
DieInSetConfig(key) ==
  /\ key \notin Restricted /\ Len(table) < MaxChanges /\ starts < MaxStarts
  /\ table' = Append(table, key)
  /\ history' = <<>> /\ since' = Len(table') /\ starts' = starts + 1
  /\ buckets' = Full /\ seconds' = 0 /\ toolcall' = [c \in ToolCalls |-> "idle"]
  /\ admitted' = [client |-> 0, global |-> 0]

HubRestart ==
  /\ starts < MaxStarts /\ starts' = starts + 1
  /\ history' = <<>> /\ since' = Len(table) /\ table' = table
  /\ buckets' = Full /\ seconds' = 0 /\ toolcall' = [c \in ToolCalls |-> "idle"]
  /\ admitted' = [client |-> 0, global |-> 0]

LimitsNext ==
  \/ Second \/ HubRestart
  \/ \E c \in ToolCalls : ClientBucket(c) \/ GlobalBucket(c)
  \/ \E key \in Keys : set_config(key) \/ DieInSetConfig(key)
LimitsSpec == LimitsInit /\ [][LimitsNext]_limitsVars

------------------------------------------------------------------------------
\* However calls and seconds interleave, each bucket lets through no more than it
\* holds when full and what the seconds gone by give.
Budget ==
  /\ admitted.client <= ClientTokens + ClientRate * seconds
  /\ admitted.global <= GlobalTokens + GlobalRate * seconds

\* What sandbox_config_history shows is exactly the end of the persisted history:
\* the changes of this process, in their order, up to max_config_history of them.
HistoryIsTail ==
  LET n == Least(Len(table) - since, MaxHistory)
  IN history = SubSeq(table, Len(table) - n + 1, Len(table))
==============================================================================
