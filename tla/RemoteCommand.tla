---------------------------- MODULE RemoteCommand ----------------------------
(***************************************************************************)
(* What routing promises for one command: it is sent at most once, the     *)
(* worker starts it at most once and only after it was sent, the caller    *)
(* hears what the worker sends in order, and is answered by the first      *)
(* message that ends a command, or gives up.  Having given up it hears     *)
(* nothing more, although the worker may still be at work.                 *)
(* It is the abstract specification that CommandRouting implements for     *)
(* every command id; an id is asked for again once nothing refers to it.   *)
(***************************************************************************)
EXTENDS Integers, Sequences

VARIABLES phase,     \* the caller: "idle", "open" (not sent yet) or "sent"
          work,      \* the worker's side: "none", "queued" or "started"
          made,      \* what the worker has sent for the command
          had,       \* what the caller has received of it
          verdict    \* "none", "ok", "error", or "failed" without an answer

commandVars == <<phase, work, made, had, verdict>>

\* The messages that end a command.
Ends == {"exit", "error", "list", "last"}

Init == phase = "idle" /\ work = "none" /\ made = <<>> /\ had = <<>> /\ verdict = "none"

\* A call is accepted or refused.
Ask ==
  /\ phase = "idle" /\ work = "none"
  /\ made' = <<>> /\ had' = <<>>
  /\ \/ phase' = "open" /\ verdict' = "none"
     \/ phase' = "idle" /\ verdict' = "failed"
  /\ UNCHANGED work

Send ==
  /\ phase = "open" /\ work = "none" /\ made = <<>>
  /\ phase' = "sent" /\ work' = "queued"
  /\ UNCHANGED <<made, had, verdict>>

\* The worker starts, with or without an acknowledgement, and finishes.
Start ==
  /\ work = "queued" /\ made = <<>>
  /\ work' = "started" /\ made' \in {<<>>, <<"ack">>}
  /\ UNCHANGED <<phase, had, verdict>>
Finish ==
  /\ work = "started" /\ work' = "none"
  /\ Len(made) <= Len(made') /\ made = SubSeq(made', 1, Len(made))
  /\ UNCHANGED <<phase, had, verdict>>

\* A session or the worker is lost, and the command with it.
Lose ==
  /\ work # "none" /\ work' = "none"
  /\ UNCHANGED <<phase, made, had, verdict>>

\* The caller receives the next message, and the one that ends the command.
Coming == Len(had) < Len(made)
Following == made[Len(had) + 1]
Hear ==
  /\ phase = "sent" /\ Coming /\ Following \notin Ends
  /\ had' = Append(had, Following)
  /\ UNCHANGED <<phase, work, made, verdict>>
Answer ==
  /\ phase = "sent" /\ Coming /\ Following \in Ends
  /\ had' = Append(had, Following)
  /\ phase' = "idle" /\ verdict' = IF Following = "error" THEN "error" ELSE "ok"
  /\ UNCHANGED <<work, made>>

\* No session, no time or no interest left.
GiveUp ==
  /\ phase # "idle"
  /\ phase' = "idle" /\ verdict' = "failed" /\ had' = <<>>
  /\ UNCHANGED <<work, made>>

Next == Ask \/ Send \/ Start \/ Finish \/ Lose \/ Hear \/ Answer \/ GiveUp

Spec == Init /\ [][Next]_commandVars

------------------------------------------------------------------------------
\* A command that was answered was started: the answer is what the worker sent,
\* from its first message to the first one that ends a command.
Answered ==
  verdict \in {"ok", "error"} =>
    /\ had # <<>> /\ Len(had) <= Len(made) /\ had = SubSeq(made, 1, Len(had))
    /\ \A k \in 1..Len(had) : had[k] \in Ends <=> k = Len(had)
    /\ verdict = "error" <=> had[Len(had)] = "error"
==============================================================================
