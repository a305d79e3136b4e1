--------------------------- MODULE CircuitBreaker ---------------------------
(***************************************************************************)
(* The circuit breaker of one WorkerHandle (registry.rs), shared by every  *)
(* command sent on its session, access by access: consecutive_failures is  *)
(* an atomic, circuit_open_until a mutex, and record_success and           *)
(* record_failure touch them one after the other while other threads run.  *)
(***************************************************************************)
EXTENDS Integers

CONSTANTS
  Callers,    \* commands under way at once
  Threshold   \* failures that open the circuit (3)

VARIABLES
  failures,   \* consecutive_failures
  until,      \* circuit_open_until: "none", an instant ahead, or one gone by
  call,       \* the commands, with what record_failure has read so far
  worker      \* what the worker does from here on: anything, fail, succeed

breakerVars == <<failures, until, call, worker>>

Idle == [pc |-> "idle", state |-> "closed", n |-> 0]

Init ==
  /\ failures = 0 /\ until = "none"
  /\ call = [c \in Callers |-> Idle] /\ worker = "any"

\* get_circuit_state: what circuit_open_until says at this instant.
CircuitState ==
  CASE until = "none" -> "closed" [] until = "ahead" -> "open"
    [] until = "past" -> "half"

\* Thirty seconds have gone by.
Expire == until = "ahead" /\ until' = "past" /\ UNCHANGED <<failures, call, worker>>

\* From here on the worker always fails, or always answers.
Settle ==
  /\ worker = "any" /\ worker' \in {"failing", "healthy"}
  /\ UNCHANGED <<failures, until, call>>

Goto(c, pc) == call' = [call EXCEPT ![c].pc = pc]

\* Mutant: a half-open circuit admits nothing.
AdmitClosedOnly(c) ==
  /\ call[c].pc = "idle" /\ CircuitState = "closed"
  /\ Goto(c, "busy") /\ UNCHANGED <<failures, until, worker>>

\* is_circuit_open, asked before a command is sent.
Admit(c) ==
  /\ call[c].pc = "idle" /\ CircuitState # "open"
  /\ Goto(c, "busy") /\ UNCHANGED <<failures, until, worker>>

\* record_success: the state it reads is only logged; then the count, then the
\* instant.
Succeed(c) ==
  /\ call[c].pc = "busy" /\ worker # "failing"
  /\ Goto(c, "store") /\ UNCHANGED <<failures, until, worker>>
StoreZero(c) ==
  /\ call[c].pc = "store" /\ failures' = 0
  /\ Goto(c, "clear") /\ UNCHANGED <<until, worker>>
ClearUntil(c) ==
  /\ call[c].pc = "clear" /\ until' = "none"
  /\ Goto(c, "idle") /\ UNCHANGED <<failures, worker>>

\* record_failure: it reads the state, then counts, then acts on what it read.
Fail(c) ==
  /\ call[c].pc = "busy" /\ worker # "healthy"
  /\ call' = [call EXCEPT ![c].pc = "count", ![c].state = CircuitState]
  /\ UNCHANGED <<failures, until, worker>>

\* The count matters up to the threshold and beyond it.
Cap(n) == IF n <= Threshold THEN n ELSE Threshold + 1
Count(c) ==
  /\ call[c].pc = "count"
  /\ failures' = Cap(failures + 1)
  /\ call' = [call EXCEPT ![c].pc = "act", ![c].n = Cap(failures + 1)]
  /\ UNCHANGED <<until, worker>>

\* Mutant: the circuit opens at the third failure, not from the third on.
OpensAtThreshold(c) ==
  \/ call[c].state = "half"
  \/ call[c].state = "closed" /\ call[c].n = Threshold
Opens(c) ==
  \/ call[c].state = "half"
  \/ call[c].state = "closed" /\ call[c].n >= Threshold
Act(c) ==
  /\ call[c].pc = "act"
  /\ until' = IF Opens(c) THEN "ahead" ELSE until
  /\ call' = [call EXCEPT ![c] = Idle]
  /\ UNCHANGED <<failures, worker>>

------------------------------------------------------------------------------
Record(c) ==
  Succeed(c) \/ StoreZero(c) \/ ClearUntil(c) \/ Fail(c) \/ Count(c) \/ Act(c)

Next == Expire \/ Settle \/ \E c \in Callers : Admit(c) \/ Record(c)
Spec == Init /\ [][Next]_breakerVars

\* Every command ends (collect_responses has a timeout), time passes, and there
\* is always another command.
Fairness ==
  /\ WF_breakerVars(Expire)
  /\ \A c \in Callers : WF_breakerVars(Admit(c)) /\ WF_breakerVars(Record(c))
FairSpec == Spec /\ Fairness

------------------------------------------------------------------------------
\* A worker that only fails is cut off for good, whatever the order in which the
\* accesses of earlier results fell: a reset that crossed an opening may leave
\* the circuit closed with the count already past the threshold.
CutOff == (worker = "failing") ~> [](until # "none")

\* A worker that answers again is let back in for good: late failures may open
\* the circuit once more, but never leave it half-open or open for ever.
Recovers == (worker = "healthy") ~> [](until = "none")
==============================================================================
