----------------------------- MODULE Enrichment -----------------------------
(* Enrichment in the gateway: the import of the enricher catalog when it    *)
(* starts, the database of enrichment runs with its migration, and the      *)
(* recording of runs through a bounded number of tasks and the queue of one *)
(* SQLite worker thread, next to the tools that read and clean up the runs. *)
EXTENDS Sequences, Retention

CONSTANTS Enrichers,   \* ids of enrichers
          Versions,    \* contents that the file of an enricher can have
          Calls,       \* calls under way: an enriched command or a tool
          MaxInFlight, \* max_concurrent_records (64)
          QueueCap,    \* capacity of the worker's channel (64)
          MaxAge,      \* max_age_days (90), in ticks of the clock
          MaxRows,     \* max_rows (100,000)
          FoundDbs,    \* what the gateway finds at the path of the runs
          MaxCalls, MaxClock, MaxRestarts  \* bounds

ASSUME EnrichmentAssumption ==
  /\ QueueCap \in Nat \ {0} /\ MaxRows \in Nat /\ MaxAge \in Nat
  /\ IsFiniteSet(Calls) /\ MaxInFlight \in Nat /\ FoundDbs \subseteq {"none", "v1", "v2"}

VARIABLES boot,      \* where the gateway is in its start
          files,     \* files that the import has not reached
          parsed,    \* the file being imported, as it was read
          catalog,   \* catalog[e]: versions of the rows of e in the catalog tables
          db,        \* the tables in the database of runs
          recorder,  \* the gateway has a recorder
          rows,      \* rows of enrichment_runs
          queue,     \* commands sent to the worker thread
          call,      \* call[c]: what a call still has to do
          record_in_flight,
          clock, made, restarts
catalogVars == <<files, parsed, catalog>>
runVars == <<rows, queue, call, record_in_flight, clock, made>>
vars == <<catalogVars, boot, db, recorder, runVars, restarts>>

None == "None"
Kinds == {"rules", "plain", "twice", "invalid"}
Files == [version : Versions, kind : Kinds]
Idle == [pc |-> "idle"]
Nothing == [id |-> None]
Absent == [enricher |-> None, extractors |-> {}, rules |-> {}]

------------------------------------------------------------------------------
\* The catalog.

\* A file with a syntax error, with an extractor whose regex does not compile or
\* a rule whose condition does not parse, gives no descriptor.
parse_yaml(f) == f.kind # "invalid"
parse_toml(f) == f.kind # "invalid"  \* the extension of the file says which

\* Mutant: foreign keys are not enforced, as in a plain build of SQLite.
Orphaned(row, v) == [row EXCEPT !.enricher = v, !.extractors = {v}]

\* The rows of an enricher after upsert_enricher: INSERT OR REPLACE deletes the
\* old row, and the foreign keys delete its extractors and rules with it.
upsert_enricher(row, v) == [enricher |-> v, extractors |-> {v}, rules |-> {}]

\* One transaction replaces the rules; two with one id fail on the primary key
\* and the transaction is rolled back.
upsert_rules(row, f) ==
  IF f.kind = "twice" THEN row ELSE [row EXCEPT !.rules = {f.version}]

\* The tables that a query joins.
list_all(cat) == {e \in DOMAIN cat : cat[e].enricher # None}
find_rules(cat, e) == cat[e].rules
list_all_rules(cat) == UNION {cat[e].rules : e \in DOMAIN cat}
\* Every pattern that matches makes an enricher a candidate; the map they are
\* collected in has no order, so any of them can be the first.
find_enrichers(cat, matching) == list_all(cat) \cap matching
select_enricher(found) == IF found = {} THEN {None} ELSE found

\* import_file up to the commit of upsert_enricher, with whatever the file of the
\* enricher holds by now.  What is wrong with one file is logged and the import
\* goes on.
ImportFile(e) ==
  /\ boot = "import" /\ e \in files
  /\ files' = files \ {e}
  /\ \E f \in Files : \E read \in {parse_yaml(f), parse_toml(f)} :
       IF read
       THEN /\ catalog' = [catalog EXCEPT ![e] = upsert_enricher(@, f.version)]
            /\ boot' = IF f.kind = "plain" THEN "import" ELSE "rules"
            /\ parsed' = IF f.kind = "plain" THEN Nothing ELSE [id |-> e, file |-> f]
       ELSE UNCHANGED <<catalog, parsed, boot>>
  /\ UNCHANGED <<db, recorder, runVars, restarts>>

\* The rules go into a second transaction.
ImportRules ==
  /\ boot = "rules" /\ boot' = "import"
  /\ catalog' = [catalog EXCEPT ![parsed.id] = upsert_rules(@, parsed.file)]
  /\ parsed' = Nothing
  /\ UNCHANGED <<files, db, recorder, runVars, restarts>>

ImportDone ==
  /\ boot = "import" /\ files = {} /\ boot' = "open"
  /\ UNCHANGED <<catalogVars, db, recorder, runVars, restarts>>

------------------------------------------------------------------------------
\* The database of runs.

\* SchemaMigration::get_version, which creates the table of versions.
get_version == db.version

\* Opening, and the version that decides whether to migrate.
OpenRuns ==
  /\ boot = "open"
  /\ boot' = IF get_version >= 2 THEN "table" ELSE "migrate"
  /\ UNCHANGED <<catalogVars, db, recorder, runVars, restarts>>

\* Mutant: the version is not read again inside the transaction.
NeverRechecked == FALSE
\* The version is read again once BEGIN IMMEDIATE holds the lock.
MigratedMeanwhile == db.version >= 2

\* ALTER TABLE fails where the table is missing or has the column, and the
\* transaction is rolled back; the gateway then goes on without a recorder.
migrate_v1_to_v2 ==
  /\ boot = "migrate"
  /\ IF MigratedMeanwhile THEN boot' = "table" /\ UNCHANGED db
     ELSE IF db.table /\ ~db.column
     THEN boot' = "table" /\ db' = [db EXCEPT !.column = TRUE, !.version = 2]
     ELSE boot' = "serve" /\ UNCHANGED db
  /\ UNCHANGED <<catalogVars, recorder, runVars, restarts>>

\* Another gateway on the same directory migrates.
OtherMigrates ==
  /\ db.table /\ db.version < 2 /\ ~db.column
  /\ db' = [db EXCEPT !.column = TRUE, !.version = 2]
  /\ UNCHANGED <<catalogVars, boot, recorder, runVars, restarts>>

------------------------------------------------------------------------------
\* The worker thread's side of each command.

\* A row is written whole; the clock was read when the record was built.
do_record(r, ok) == IF ok THEN rows \cup {r} ELSE rows

\* A clean-up with the retention of this gateway, RetentionConfig::default, which is
\* enabled.  One that fails has deleted nothing, or only by age.
Cleaned == do_cleanup(rows, clock, MaxAge, MaxRows)
CleanupFailed == {rows, Young(rows, clock, MaxAge)}

\* The last step of the recorder's start: the table, the worker thread and, with
\* the command line flag for it, a clean-up.
with_retention ==
  /\ boot = "table" /\ boot' = "serve" /\ recorder' = TRUE
  /\ db' = [db EXCEPT !.table = TRUE]
  /\ rows' \in Cleaned \cup CleanupFailed
  /\ UNCHANGED <<catalogVars, queue, call, record_in_flight, clock, made, restarts>>

------------------------------------------------------------------------------
\* The callers' side.

Busy(c) == call[c].pc # "idle"
Task(c) == Busy(c) /\ call[c].op = "record"
Begins(c) == boot = "serve" /\ recorder /\ ~Busy(c) /\ made < MaxCalls /\ made' = made + 1

\* build_record: the id is new, the enricher is empty when none matched.
build_record(e) == [id |-> made, ts |-> clock, enricher |-> e]

\* Mutant: the limit is exceeded by one.
AboveLimit(prev) == prev > MaxInFlight
Saturated(prev) == prev >= MaxInFlight

\* record_run, at the end of enrich: the slot is taken before the limit is looked
\* at, and given back where there was none.
record_run(c) ==
  /\ Begins(c)
  /\ record_in_flight' = record_in_flight + 1
  /\ \E e \in select_enricher(find_enrichers(catalog, Enrichers)) :
       call' = [call EXCEPT ![c] =
         IF Saturated(record_in_flight) THEN [pc |-> "undo", op |-> "drop"]
         ELSE [pc |-> "send", op |-> "record", row |-> build_record(e)]]
  /\ UNCHANGED <<catalogVars, boot, db, recorder, rows, queue, clock, restarts>>

\* The tools: optimizer_report reads rows, retention_info and health read
\* statistics, retention_cleanup cleans up and then, unless that failed, reads
\* statistics.
ToolOps == {"read", "stats", "cleanup"}
AskTool(c) ==
  /\ Begins(c)
  /\ \E op \in ToolOps : call' = [call EXCEPT ![c] = [pc |-> "send", op |-> op]]
  /\ UNCHANGED <<catalogVars, boot, db, recorder, rows, queue, record_in_flight, clock, restarts>>

Undo(c) ==
  /\ call[c].pc = "undo" /\ call' = [call EXCEPT ![c] = Idle]
  /\ record_in_flight' = record_in_flight - 1
  /\ UNCHANGED <<catalogVars, boot, db, recorder, rows, queue, clock, made, restarts>>

\* send_cmd blocks while the channel is full.
send_cmd(c) ==
  /\ call[c].pc = "send" /\ Len(queue) < QueueCap
  /\ queue' = Append(queue, c)
  /\ call' = [call EXCEPT ![c].pc = "wait"]
  /\ UNCHANGED <<catalogVars, boot, db, recorder, rows, record_in_flight, clock, made, restarts>>

\* Mutant: a record that could not be written is sent again.
RetriesRecord ==
  /\ queue # <<>> /\ queue' = Tail(queue)
  /\ LET c == Head(queue) IN \E ok \in BOOLEAN :
     /\ rows' = IF call[c].op = "record" THEN do_record(call[c].row, ok) ELSE rows
     /\ call' = [call EXCEPT ![c].pc = IF ok THEN "done" ELSE "send"]
  /\ UNCHANGED <<catalogVars, boot, db, recorder, record_in_flight, clock, made, restarts>>

\* run_loop and handle_command: commands in the order of the channel, each one
\* answered, whether it worked or not.
handle_command ==
  /\ queue # <<>> /\ queue' = Tail(queue)
  /\ LET c == Head(queue) IN \E ok \in BOOLEAN :
     /\ CASE call[c].op = "record" -> rows' = do_record(call[c].row, ok)
          [] call[c].op = "cleanup" -> rows' \in IF ok THEN Cleaned ELSE CleanupFailed
          [] OTHER -> rows' = rows
     /\ call' = [call EXCEPT ![c] =
          IF @.op = "cleanup" /\ ok THEN [pc |-> "send", op |-> "stats"] ELSE [@ EXCEPT !.pc = "done"]]
  /\ UNCHANGED <<catalogVars, boot, db, recorder, record_in_flight, clock, made, restarts>>

\* The task has its answer, or the tool answers.
Done(c) ==
  /\ call[c].pc = "done" /\ call' = [call EXCEPT ![c] = Idle]
  /\ record_in_flight' = record_in_flight - (IF Task(c) THEN 1 ELSE 0)
  /\ UNCHANGED <<catalogVars, boot, db, recorder, rows, queue, clock, made, restarts>>

Tick ==
  /\ clock < MaxClock /\ clock' = clock + 1
  /\ UNCHANGED <<catalogVars, boot, db, recorder, rows, queue, call, record_in_flight, made, restarts>>

\* The gateway dies anywhere and starts again; the two databases stay.
Restart ==
  /\ restarts < MaxRestarts /\ restarts' = restarts + 1
  /\ boot' = "import" /\ files' = Enrichers /\ recorder' = FALSE
  /\ queue' = <<>> /\ call' = [c \in Calls |-> Idle] /\ record_in_flight' = 0
  /\ parsed' = Nothing /\ UNCHANGED <<catalog, db, rows, clock, made>>

------------------------------------------------------------------------------
Init ==
  /\ boot = "import" /\ files = Enrichers
  /\ parsed = Nothing /\ catalog = [e \in Enrichers |-> Absent]
  /\ \E found \in FoundDbs :
       db = [table |-> found # "none", column |-> found = "v2",
             version |-> IF found = "v2" THEN 2 ELSE 0]
  /\ recorder = FALSE /\ rows = {} /\ queue = <<>>
  /\ call = [c \in Calls |-> Idle] /\ record_in_flight = 0
  /\ clock = 0 /\ made = 0 /\ restarts = 0

Start == (\E e \in Enrichers : ImportFile(e)) \/ ImportRules \/ ImportDone
           \/ OpenRuns \/ migrate_v1_to_v2 \/ with_retention
CallStep(c) == Undo(c) \/ send_cmd(c) \/ Done(c)
Next ==
  \/ Start \/ handle_command \/ OtherMigrates \/ Tick \/ Restart
  \/ \E c \in Calls : record_run(c) \/ AskTool(c) \/ CallStep(c)
Spec == Init /\ [][Next]_vars

\* The worker thread and the tasks are always scheduled again, and the gateway
\* gets through its start.
Fairness ==
  /\ WF_vars(Start) /\ WF_vars(handle_command)
  /\ \A c \in Calls : WF_vars(CallStep(c))
FairSpec == Spec /\ Fairness

------------------------------------------------------------------------------
\* The counter of record_run is exactly the tasks under way and the callers about
\* to take their increment back, and never lets more than max_concurrent_records
\* tasks run, however increments, refusals and answers interleave.
SlotsExact ==
  /\ record_in_flight = Cardinality({c \in Calls : Task(c) \/ call[c].pc = "undo"})
  /\ Cardinality({c \in Calls : Task(c)}) <= MaxInFlight

\* No enricher is ever left with the rules or extractors of an earlier version of
\* its file, whatever file was edited, invalid or without rules, and wherever the
\* gateway died between the two transactions of an import.
NoMixedVersions ==
  \A e \in Enrichers : LET r == catalog[e] IN r.extractors \cup r.rules \subseteq {r.enricher}

\* A gateway that found a table of runs gets its recorder, even when another one
\* migrates between the look at the version and the transaction.
RecorderOpens == boot = "serve" /\ db.table => recorder

\* Every record task ends and gives its slot back: senders blocked on a full
\* channel are let in as the worker drains it, and the worker answers every
\* command, the failed ones too.
RecordsSettle == \A c \in Calls : Task(c) ~> ~Task(c)

\* "Create a new recorder, creating the DB schema if it doesn't exist": the start
\* of the gateway ends with a recorder whatever was in the directory.
SchemaCreated == boot = "serve" => recorder
==============================================================================
