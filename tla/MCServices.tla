----------------------------- MODULE MCServices -----------------------------
(* Parts of the gateway that share no state, checked in one run: a behaviour *)
(* is one of the enrichment, of a circuit breaker, of the limits, of the     *)
(* provider instances or of the passes, as part says, and the variables of   *)
(* the others do not move.                                                   *)
EXTENDS Enrichment, GatewayLimits, InstanceStore

CONSTANTS Callers, Threshold, IntBits, MaxPriority, MaxPieces, MaxRuns

ASSUME ServicesAssumption == Threshold \in Nat \ {0}

VARIABLES part,
          failures, until, command, worker,  \* CircuitBreaker
          input                              \* PassChecks

Breaker == INSTANCE CircuitBreaker WITH call <- command
Passes == INSTANCE PassChecks

breakerVars == <<failures, until, command, worker>>
allVars == <<part, vars, breakerVars, limitsVars, storeVars, input>>

AllInit ==
  /\ part \in {"enrichment", "breaker", "limits", "store", "passes"}
  /\ Init /\ Breaker!Init /\ LimitsInit /\ StoreInit
  /\ IF part = "passes" THEN Passes!Init ELSE input = Passes!None
AllNext ==
  \/ part = "enrichment" /\ Next /\ UNCHANGED <<part, breakerVars, limitsVars, storeVars, input>>
  \/ part = "breaker" /\ Breaker!Next /\ UNCHANGED <<part, vars, limitsVars, storeVars, input>>
  \/ part = "limits" /\ LimitsNext /\ UNCHANGED <<part, vars, breakerVars, storeVars, input>>
  \/ part = "store" /\ StoreNext /\ UNCHANGED <<part, vars, breakerVars, limitsVars, input>>
  \/ part = "passes" /\ Passes!Next /\ UNCHANGED <<part, vars, breakerVars, limitsVars, storeVars>>

\* The fairness of the modules that state one, each for its own behaviours.
AllFairness ==
  /\ WF_vars(part = "enrichment" /\ Start)
  /\ WF_vars(part = "enrichment" /\ handle_command)
  /\ \A c \in Calls : WF_vars(part = "enrichment" /\ CallStep(c))
  /\ WF_breakerVars(part = "breaker" /\ Breaker!Expire)
  /\ \A c \in Callers : /\ WF_breakerVars(part = "breaker" /\ Breaker!Admit(c))
                        /\ WF_breakerVars(part = "breaker" /\ Breaker!Record(c))
AllSpec == AllInit /\ [][AllNext]_allVars /\ AllFairness

\* A worker that only fails is cut off for good (CircuitBreaker).
CutOff == Breaker!CutOff
\* A worker that answers again is let back in for good (CircuitBreaker).
Recovers == Breaker!Recovers
\* Conditions, resource names, locations and quoted commands are read back as they
\* were written (PassChecks).
ReadBack == Passes!ReadBack
\* No secret that its text announces is stored (PassChecks).
SecretsGone == Passes!SecretsGone
\* Facts, rules, runs and scores say what was seen (PassChecks).
ReportsSound == Passes!ReportsSound
=============================================================================
