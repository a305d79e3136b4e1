------------------------------- MODULE WarmPool -------------------------------
(***************************************************************************)
(* What the warm pool promises to callers that hand back what they were    *)
(* given: a first-in first-out shelf of at most max_idle sandboxes.  A     *)
(* sandbox is on the shelf, lent to a caller, or in the hands of the       *)
(* gateway on its way from one place to another, and in no two of them.    *)
(* It is the abstract specification that SandboxPool implements.           *)
(***************************************************************************)
EXTENDS Integers, Sequences

CONSTANTS Ids,      \* sandbox ids
          MaxIdle   \* PoolConfig.max_idle

VARIABLES warm,     \* the shelf, the sandbox that waits longest first
          lent,     \* what callers were given and have not handed back
          held      \* what a call, the eviction or the refill is about to place

poolVars == <<warm, lent, held>>

Shelved == {warm[k] : k \in 1..Len(warm)}

Init == warm = <<>> /\ lent = {} /\ held = {}

\* A new sandbox, made for a caller or for the shelf.
Make(i) ==
  /\ i \notin Shelved \cup lent \cup held
  /\ held' = held \cup {i}
  /\ UNCHANGED <<warm, lent>>

\* The sandbox that waits longest is taken off the shelf.
Take ==
  /\ warm # <<>>
  /\ warm' = Tail(warm) /\ held' = held \cup {Head(warm)}
  /\ UNCHANGED lent

\* A caller gets it, and hands it back.
Lend(i) ==
  /\ i \in held
  /\ held' = held \ {i} /\ lent' = lent \cup {i}
  /\ UNCHANGED warm
Return(i) ==
  /\ i \in lent
  /\ lent' = lent \ {i} /\ held' = held \cup {i}
  /\ UNCHANGED warm

\* It goes to the back of the shelf while there is room, or is given up.
Stock(i) ==
  /\ i \in held /\ Len(warm) < MaxIdle
  /\ warm' = Append(warm, i) /\ held' = held \ {i}
  /\ UNCHANGED lent
Drop(i) ==
  /\ i \in held
  /\ held' = held \ {i}
  /\ UNCHANGED <<warm, lent>>

\* Those that have waited longest are taken off to be given up, if there are any.
Evict(n) ==
  /\ warm' = SubSeq(warm, n + 1, Len(warm))
  /\ held' = held \cup {warm[k] : k \in 1..n}
  /\ UNCHANGED lent

Next ==
  \/ \E i \in Ids : Make(i) \/ Lend(i) \/ Return(i) \/ Stock(i) \/ Drop(i)
  \/ Take
  \/ \E n \in 0..Len(warm) : Evict(n)

Spec == Init /\ [][Next]_poolVars

------------------------------------------------------------------------------
\* A sandbox is in one place, and once.
OnePlace ==
  /\ \A j, k \in 1..Len(warm) : warm[j] = warm[k] => j = k
  /\ Shelved \cap (lent \cup held) = {}
  /\ lent \cap held = {}
==============================================================================
