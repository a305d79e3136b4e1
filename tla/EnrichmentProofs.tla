-------------------------- MODULE EnrichmentProofs --------------------------
(* What the gateway's start and its recorder of enrichment runs promise,    *)
(* proved for any number of enrichers, versions, calls and restarts, and    *)
(* any capacity of the channel and limit of record tasks; what a clean-up   *)
(* deletes and how the optimizer scores, for any table and statistics.      *)
EXTENDS Enrichment, SequenceTheorems, FiniteSetTheorems, TLAPS

----------------------------------------------------------------------------
\* The catalog: between the two transactions of an import the rows of the
\* enricher are already those of the file whose rules come next.
CatalogRows == [enricher : Versions \cup {None}, extractors : SUBSET Versions, rules : SUBSET Versions]
OneVersion(r) == r.extractors \cup r.rules \subseteq {r.enricher}
CatalogSound ==
  /\ files \subseteq Enrichers
  /\ catalog \in [Enrichers -> CatalogRows] /\ \A e \in Enrichers : OneVersion(catalog[e])
  /\ boot = "rules" => /\ parsed.id \in Enrichers /\ parsed.file \in Files
                       /\ catalog[parsed.id].enricher = parsed.file.version

LEMMA InitCatalog == Init => CatalogSound
<1> SUFFICES ASSUME Init PROVE CatalogSound
  OBVIOUS
<1>1. Absent \in CatalogRows /\ OneVersion(Absent)
  BY DEF Absent, CatalogRows, OneVersion
<1> QED BY <1>1 DEF Init, CatalogSound

\* A file replaces the rows of its enricher, whatever version they had.
LEMMA ImportFileCatalog ==
  ASSUME CatalogSound, NEW e \in Enrichers, ImportFile(e)
  PROVE  CatalogSound'
<1>1. files' \subseteq Enrichers /\ boot = "import"
  BY DEF ImportFile, CatalogSound
<1>2. CASE UNCHANGED <<catalog, parsed, boot>>
  BY <1>1, <1>2 DEF CatalogSound
<1>3. ASSUME NEW f \in Files, catalog' = [catalog EXCEPT ![e] = upsert_enricher(catalog[e], f.version)],
             boot' = IF f.kind = "plain" THEN "import" ELSE "rules",
             parsed' = IF f.kind = "plain" THEN Nothing ELSE [id |-> e, file |-> f]
      PROVE  CatalogSound'
  <2>1. PICK r : r = upsert_enricher(catalog[e], f.version)
    OBVIOUS
  <2>2. r \in CatalogRows /\ OneVersion(r) /\ r.enricher = f.version
    BY <2>1 DEF upsert_enricher, CatalogRows, OneVersion, Files
  <2>3. catalog' = [catalog EXCEPT ![e] = r]
    BY <1>3, <2>1
  <2>4. catalog' \in [Enrichers -> CatalogRows] /\ (\A o \in Enrichers : OneVersion(catalog'[o])) /\ catalog'[e] = r
    BY <2>2, <2>3 DEF CatalogSound
  <2>5. boot' = "rules" => parsed'.id = e /\ parsed'.file = f
    BY <1>3
  <2> QED BY <1>1, <2>2, <2>4, <2>5 DEF CatalogSound
<1> QED BY <1>2, <1>3 DEF ImportFile

LEMMA ImportRulesCatalog ==
  ASSUME CatalogSound, ImportRules
  PROVE  CatalogSound'
<1>1. PICK e \in Enrichers, f \in Files : e = parsed.id /\ f = parsed.file /\ catalog[e].enricher = f.version
  BY DEF ImportRules, CatalogSound
<1>2. PICK row \in CatalogRows : row = catalog[e] /\ OneVersion(row)
  BY DEF CatalogSound
<1>3. PICK r : r = upsert_rules(row, f)
  OBVIOUS
<1>4. r \in CatalogRows /\ OneVersion(r)
  <2>1. CASE f.kind = "twice"
    BY <1>2, <1>3, <2>1 DEF upsert_rules
  <2>2. CASE f.kind # "twice"
    <3>1. r = [row EXCEPT !.rules = {f.version}]
      BY <1>3, <2>2 DEF upsert_rules
    <3>2. r.enricher = row.enricher /\ r.extractors = row.extractors /\ r.rules = {f.version} /\ r \in CatalogRows
      BY <3>1 DEF CatalogRows, Files
    <3> QED BY <1>1, <1>2, <3>2 DEF OneVersion
  <2> QED BY <2>1, <2>2
<1>5. catalog' = [catalog EXCEPT ![e] = r] /\ boot' = "import" /\ UNCHANGED files
  BY <1>1, <1>2, <1>3 DEF ImportRules
<1> QED BY <1>4, <1>5 DEF CatalogSound

LEMMA NextCatalog == CatalogSound /\ [Next]_vars => CatalogSound'
<1> SUFFICES ASSUME CatalogSound, [Next]_vars PROVE CatalogSound'
  OBVIOUS
<1>1. CASE UNCHANGED catalogVars /\ (boot' = boot \/ boot' # "rules")
  BY <1>1 DEF CatalogSound, catalogVars
<1>2. ASSUME NEW e \in Enrichers, ImportFile(e) PROVE CatalogSound'
  BY <1>2, ImportFileCatalog
<1>3. CASE ImportRules
  BY <1>3, ImportRulesCatalog
<1>4. CASE ImportDone \/ OpenRuns \/ migrate_v1_to_v2 \/ with_retention
  BY <1>1, <1>4 DEF ImportDone, OpenRuns, migrate_v1_to_v2, with_retention
<1>5. CASE handle_command \/ OtherMigrates \/ Tick
  BY <1>1, <1>5 DEF handle_command, OtherMigrates, Tick
<1>6. ASSUME NEW c \in Calls, record_run(c) \/ AskTool(c) \/ CallStep(c) PROVE CatalogSound'
  BY <1>1, <1>6 DEF record_run, AskTool, CallStep, Undo, send_cmd, Done
<1>7. CASE Restart
  BY <1>7 DEF Restart, CatalogSound
<1>8. CASE UNCHANGED vars
  BY <1>1, <1>8 DEF vars
<1> QED BY <1>2, <1>3, <1>4, <1>5, <1>6, <1>7, <1>8 DEF Next, Start

\* No import, complete, failed or cut off by a restart, leaves an enricher with the rules or the
\* extractors of another version of its file (import_file, upsert_enricher, upsert_rules).
THEOREM VersionsNeverMix == Spec => []NoMixedVersions
<1>1. CatalogSound => NoMixedVersions
  BY DEF CatalogSound, NoMixedVersions, OneVersion
<1> QED BY <1>1, InitCatalog, NextCatalog, PTL DEF Spec

----------------------------------------------------------------------------
\* The database of runs is none, of the first version or of the second, and the
\* gateway reaches the last step of its recorder with the second only.
Databases == [table : BOOLEAN, column : BOOLEAN, version : {0, 2}]
DatabaseSound ==
  /\ db \in Databases
  /\ db.version = 2 <=> db.column
  /\ db.column => db.table
  /\ boot = "table" => db.version = 2
  /\ boot = "serve" /\ db.table => recorder

LEMMA InitDatabase == Init => DatabaseSound
<1> SUFFICES ASSUME Init PROVE DatabaseSound
  OBVIOUS
<1>0. boot = "import"
  BY DEF Init
<1>1. PICK found \in {"none", "v1", "v2"} :
        db = [table |-> found # "none", column |-> found = "v2", version |-> IF found = "v2" THEN 2 ELSE 0]
  BY EnrichmentAssumption DEF Init, EnrichmentAssumption
<1>2. CASE found = "none"
  <2>1. db = [table |-> FALSE, column |-> FALSE, version |-> 0]
    BY <1>1, <1>2
  <2> QED BY <1>0, <2>1 DEF DatabaseSound, Databases
<1>3. CASE found = "v1"
  <2>1. db = [table |-> TRUE, column |-> FALSE, version |-> 0]
    BY <1>1, <1>3
  <2> QED BY <1>0, <2>1 DEF DatabaseSound, Databases
<1>4. CASE found = "v2"
  BY <1>1, <1>4 DEF Init, DatabaseSound, Databases
<1> QED BY <1>2, <1>3, <1>4

\* A migration, by this gateway or another.
LEMMA Migrated ==
  ASSUME DatabaseSound, db.table, ~ db.column, db' = [db EXCEPT !.column = TRUE, !.version = 2],
         boot' = "table" \/ boot' = boot, boot' = boot => recorder' = recorder
  PROVE  DatabaseSound'
<1> DEFINE one == [db EXCEPT !.column = TRUE]
           two == [one EXCEPT !.version = 2]
<1>1. one \in Databases /\ one.table /\ one.column
  BY DEF DatabaseSound, Databases
<1>2. db' = two
  OBVIOUS
<1> HIDE DEF one
<1>3. two \in Databases /\ two.table /\ two.column /\ two.version = 2
  BY <1>1 DEF Databases
<1> HIDE DEF two
<1> QED BY <1>2, <1>3 DEF DatabaseSound

LEMMA NextDatabase == DatabaseSound /\ [Next]_vars => DatabaseSound'
<1> SUFFICES ASSUME DatabaseSound, [Next]_vars PROVE DatabaseSound'
  OBVIOUS
<1>0. db.version \in {0, 2}
  BY DEF DatabaseSound, Databases
<1>1. CASE UNCHANGED <<db, recorder, boot>>
  BY <1>1 DEF DatabaseSound
<1>2. CASE UNCHANGED db /\ boot' \notin {"table", "serve"}
  BY <1>2 DEF DatabaseSound
<1>3. ASSUME NEW e \in Enrichers, ImportFile(e) PROVE DatabaseSound'
  BY <1>1, <1>2, <1>3 DEF ImportFile
<1>4. CASE ImportRules \/ ImportDone
  BY <1>2, <1>4 DEF ImportRules, ImportDone
<1>5. CASE OpenRuns
  BY <1>0, <1>5 DEF OpenRuns, get_version, DatabaseSound
<1>6. CASE migrate_v1_to_v2
  <2>1. CASE MigratedMeanwhile
    BY <1>0, <1>6, <2>1 DEF migrate_v1_to_v2, MigratedMeanwhile, DatabaseSound
  <2>2. CASE ~ MigratedMeanwhile /\ db.table /\ ~ db.column
    <3>1. boot = "migrate" /\ boot' = "table" /\ db' = [db EXCEPT !.column = TRUE, !.version = 2]
      BY <1>6, <2>2 DEF migrate_v1_to_v2
    <3> QED BY <2>2, <3>1, Migrated
  <2>3. CASE ~ MigratedMeanwhile /\ ~ (db.table /\ ~ db.column)
    BY <1>0, <1>6, <2>3 DEF migrate_v1_to_v2, MigratedMeanwhile, DatabaseSound
  <2> QED BY <2>1, <2>2, <2>3
<1>7. CASE with_retention
  <2>1. boot = "table" /\ boot' = "serve" /\ recorder' = TRUE /\ db' = [db EXCEPT !.table = TRUE]
    BY <1>7 DEF with_retention
  <2> QED BY <2>1 DEF DatabaseSound, Databases
<1>8. CASE OtherMigrates
  BY <1>8, Migrated DEF OtherMigrates
<1>9. CASE handle_command \/ Tick
  BY <1>1, <1>9 DEF handle_command, Tick
<1>10. ASSUME NEW c \in Calls, record_run(c) \/ AskTool(c) \/ CallStep(c) PROVE DatabaseSound'
  BY <1>1, <1>10 DEF record_run, AskTool, CallStep, Undo, send_cmd, Done
<1>11. CASE Restart
  BY <1>2, <1>11 DEF Restart
<1>12. CASE UNCHANGED vars
  BY <1>1, <1>12 DEF vars
<1> QED BY <1>3, <1>4, <1>5, <1>6, <1>7, <1>8, <1>9, <1>10, <1>11, <1>12 DEF Next, Start

\* A gateway that found a table of runs serves with a recorder, whenever another one migrated and
\* wherever an earlier start was cut off (with_retention, migrate_v1_to_v2).
THEOREM RecorderAlwaysOpens == Spec => []RecorderOpens
<1>1. DatabaseSound => RecorderOpens
  BY DEF DatabaseSound, RecorderOpens
<1> QED BY <1>1, InitDatabase, NextDatabase, PTL DEF Spec
----------------------------------------------------------------------------
\* Record tasks: what a call does, and that the channel holds each waiting call once.
Rows == [id : Nat, ts : Nat, enricher : Enrichers \cup {None}]
Pcs == {"send", "wait", "done"}
Drops == [pc : {"undo"}, op : {"drop"}]
Tasks == [pc : Pcs, op : {"record"}, row : Rows]
Tools == [pc : Pcs, op : ToolOps]
CallRecords == {Idle} \cup Drops \cup Tasks \cup Tools

\* A call that holds a slot of record_in_flight.
Holds(p) == p.pc # "idle" /\ (p.op = "record" \/ p.pc = "undo")
IsTask(p) == p.pc # "idle" /\ p.op = "record"
Holders == {c \in Calls : Holds(call[c])}
Running == {c \in Calls : IsTask(call[c])}

CallsTyped ==
  /\ call \in [Calls -> CallRecords] /\ made \in Nat /\ clock \in Nat
  /\ queue \in Seq(Calls)
Queued ==
  /\ \A n \in 1 .. Len(queue) : call[queue[n]].pc = "wait"
  /\ \A m, n \in 1 .. Len(queue) : queue[m] = queue[n] => m = n
Counts ==
  /\ record_in_flight = Cardinality(Holders)
  /\ Cardinality(Running) <= MaxInFlight
SlotsSound == CallsTyped /\ Queued /\ Counts

LEMMA Shapes ==
  /\ Idle \in CallRecords /\ ~ Holds(Idle) /\ ~ IsTask(Idle) /\ Idle.pc = "idle"
  /\ \A p \in Drops : p.pc = "undo" /\ Holds(p) /\ ~ IsTask(p)
  /\ \A p \in Tasks : p.pc \in Pcs /\ p.op = "record" /\ Holds(p) /\ IsTask(p)
  /\ \A p \in Tools : p.pc \in Pcs /\ p.op \in ToolOps /\ ~ Holds(p) /\ ~ IsTask(p)
<1>1. Idle \in CallRecords /\ ~ Holds(Idle) /\ ~ IsTask(Idle) /\ Idle.pc = "idle"
  BY DEF CallRecords, Idle, Holds, IsTask
<1>2. \A p \in Drops : p.pc = "undo" /\ Holds(p) /\ ~ IsTask(p)
  BY DEF Drops, Holds, IsTask
<1>3. \A p \in Tasks : p.pc \in Pcs /\ p.op = "record" /\ Holds(p) /\ IsTask(p)
  BY DEF Tasks, Holds, IsTask, Pcs
<1>4. \A p \in Tools : p.pc \in Pcs /\ p.op \in ToolOps /\ ~ Holds(p) /\ ~ IsTask(p)
  BY DEF Tools, Holds, IsTask, Pcs, ToolOps
<1> QED BY <1>1, <1>2, <1>3, <1>4

\* The step of a call moves it to the awaits of its own kind.
LEMMA MovesOn ==
  ASSUME NEW p \in Tasks \cup Tools, NEW pc \in Pcs
  PROVE  /\ [p EXCEPT !.pc = pc] \in CallRecords /\ [p EXCEPT !.pc = pc].pc = pc
         /\ Holds([p EXCEPT !.pc = pc]) <=> Holds(p)
         /\ IsTask([p EXCEPT !.pc = pc]) <=> IsTask(p)
<1> DEFINE q == [p EXCEPT !.pc = pc]
<1>1. CASE p \in Tasks
  <2>1. q \in Tasks /\ q.pc = pc
    BY <1>1 DEF Tasks
  <2> HIDE DEF q
  <2>2. Holds(q) /\ IsTask(q) /\ Holds(p) /\ IsTask(p) /\ q \in CallRecords
    BY <1>1, <2>1, Shapes DEF CallRecords
  <2> QED BY <2>1, <2>2 DEF q
<1>2. CASE p \in Tools
  <2>1. q \in Tools /\ q.pc = pc
    BY <1>2 DEF Tools
  <2> HIDE DEF q
  <2>2. ~ Holds(q) /\ ~ IsTask(q) /\ ~ Holds(p) /\ ~ IsTask(p) /\ q \in CallRecords
    BY <1>2, <2>1, Shapes DEF CallRecords
  <2> QED BY <2>1, <2>2 DEF q
<1> QED BY <1>1, <1>2

\* How the counts follow the record of one call.
LEMMA CountsFollow ==
  ASSUME CallsTyped, NEW c \in Calls, NEW q \in CallRecords, call' = [call EXCEPT ![c] = q]
  PROVE  /\ call' \in [Calls -> CallRecords] /\ IsFiniteSet(Holders) /\ IsFiniteSet(Running)
         /\ Cardinality(Holders) \in Nat /\ Cardinality(Running) \in Nat
         /\ Cardinality(Running) <= Cardinality(Holders)
         /\ Holds(q) /\ Holds(call[c]) => Cardinality(Holders') = Cardinality(Holders)
         /\ ~ Holds(q) /\ ~ Holds(call[c]) => Cardinality(Holders') = Cardinality(Holders)
         /\ Holds(q) /\ ~ Holds(call[c]) => Cardinality(Holders') = Cardinality(Holders) + 1
         /\ ~ Holds(q) /\ Holds(call[c]) => Cardinality(Holders') = Cardinality(Holders) - 1
         /\ IsTask(call[c]) \/ ~ IsTask(q) => Cardinality(Running') <= Cardinality(Running)
         /\ Cardinality(Running') <= Cardinality(Running) + 1
<1>1. IsFiniteSet(Calls) /\ Holders \in SUBSET Calls /\ Running \in SUBSET Holders
  BY EnrichmentAssumption DEF EnrichmentAssumption, Holders, Running, Holds, IsTask
<1>2. IsFiniteSet(Holders) /\ Cardinality(Holders) \in Nat
  BY <1>1, FS_Subset, FS_CardinalityType
<1>3. IsFiniteSet(Running) /\ Cardinality(Running) \in Nat /\ Cardinality(Running) <= Cardinality(Holders)
  BY <1>1, <1>2, FS_Subset, FS_CardinalityType
<1>4. call' \in [Calls -> CallRecords] /\ call'[c] = q /\ \A o \in Calls : o # c => call'[o] = call[o]
  BY DEF CallsTyped
<1>5. Holders' = IF Holds(q) THEN Holders \cup {c} ELSE Holders \ {c}
  BY <1>4 DEF Holders
<1>6. Running' = IF IsTask(q) THEN Running \cup {c} ELSE Running \ {c}
  BY <1>4 DEF Running
<1>7. (c \in Holders <=> Holds(call[c])) /\ (c \in Running <=> IsTask(call[c]))
  BY DEF Holders, Running
<1>8. /\ Cardinality(Holders \cup {c}) = IF c \in Holders THEN Cardinality(Holders) ELSE Cardinality(Holders) + 1
      /\ Cardinality(Holders \ {c}) = IF c \in Holders THEN Cardinality(Holders) - 1 ELSE Cardinality(Holders)
  BY <1>2, FS_AddElement, FS_RemoveElement
<1>9. /\ Cardinality(Running \cup {c}) = IF c \in Running THEN Cardinality(Running) ELSE Cardinality(Running) + 1
      /\ Cardinality(Running \ {c}) = IF c \in Running THEN Cardinality(Running) - 1 ELSE Cardinality(Running)
  BY <1>3, FS_AddElement, FS_RemoveElement
<1> QED BY <1>2, <1>3, <1>4, <1>5, <1>6, <1>7, <1>8, <1>9

LEMMA InitSlots == Init => SlotsSound
<1> SUFFICES ASSUME Init PROVE SlotsSound
  OBVIOUS
<1>1. CallsTyped /\ Queued
  BY Shapes DEF Init, CallsTyped, Queued
<1>2. Holders = {} /\ Running = {}
  BY Shapes DEF Init, Holders, Running
<1> QED BY <1>1, <1>2, FS_EmptySet, EnrichmentAssumption DEF Init, SlotsSound, Counts, EnrichmentAssumption

\* A call that is not in the channel moves: the channel stays in order.
LEMMA QueueStays ==
  ASSUME CallsTyped, Queued, NEW c \in Calls, NEW q \in CallRecords, call' = [call EXCEPT ![c] = q],
         call[c].pc # "wait", queue' = queue
  PROVE  Queued'
<1>1. \A n \in 1 .. Len(queue) : queue[n] \in Calls /\ queue[n] # c
  BY DEF CallsTyped, Queued
<1>2. \A o \in Calls : o # c => call'[o] = call[o]
  BY DEF CallsTyped
<1> QED BY <1>1, <1>2 DEF Queued

LEMMA RecordRunSlots ==
  ASSUME SlotsSound, NEW c \in Calls, record_run(c)
  PROVE  SlotsSound'
<1>1. PICK e \in Enrichers \cup {None} :
        call' = [call EXCEPT ![c] =
          IF Saturated(record_in_flight) THEN [pc |-> "undo", op |-> "drop"]
          ELSE [pc |-> "send", op |-> "record", row |-> build_record(e)]]
  BY DEF record_run, select_enricher, find_enrichers
<1>2. /\ record_in_flight' = record_in_flight + 1 /\ queue' = queue /\ clock' = clock /\ made' = made + 1
      /\ call[c].pc = "idle"
  BY DEF record_run, Begins, Busy
<1> DEFINE q == IF Saturated(record_in_flight) THEN [pc |-> "undo", op |-> "drop"]
                ELSE [pc |-> "send", op |-> "record", row |-> build_record(e)]
<1>3. q \in CallRecords /\ Holds(q) /\ (IsTask(q) => ~ Saturated(record_in_flight))
  <2>1. CASE Saturated(record_in_flight)
    <3>1. q \in Drops
      BY <2>1 DEF Drops
    <3> QED BY <3>1, Shapes DEF CallRecords
  <2>2. CASE ~ Saturated(record_in_flight)
    <3>1. build_record(e) \in Rows
      BY DEF build_record, Rows, SlotsSound, CallsTyped
    <3>2. q \in Tasks
      BY <2>2, <3>1 DEF Tasks, Pcs
    <3> QED BY <2>2, <3>2, Shapes DEF CallRecords
  <2> QED BY <2>1, <2>2
<1> HIDE DEF q
<1>4. call' = [call EXCEPT ![c] = q]
  BY <1>1 DEF q
<1>5. ~ Holds(call[c])
  BY <1>2 DEF Holds
<1>6. CallsTyped'
  BY <1>2, <1>3, <1>4, CountsFollow DEF SlotsSound, CallsTyped
<1>7. Queued'
  BY <1>2, <1>3, <1>4, QueueStays DEF SlotsSound
<1>8. Counts'
  <2>1. /\ Cardinality(Holders') = Cardinality(Holders) + 1 /\ Cardinality(Holders) \in Nat
        /\ Cardinality(Running') <= Cardinality(Running) + 1 /\ Cardinality(Running) <= Cardinality(Holders)
        /\ Cardinality(Running) \in Nat
    BY <1>3, <1>4, <1>5, CountsFollow DEF SlotsSound
  <2>2. ~ IsTask(q) => Cardinality(Running') <= Cardinality(Running)
    BY <1>3, <1>4, CountsFollow DEF SlotsSound
  <2>3. IsTask(q) => record_in_flight < MaxInFlight
    BY <1>3, <2>1, EnrichmentAssumption DEF Saturated, SlotsSound, Counts, EnrichmentAssumption
  <2>4. IsFiniteSet(Running') /\ Cardinality(Running') \in Nat
    <3>1. IsFiniteSet(Calls) /\ Running' \in SUBSET Calls
      BY EnrichmentAssumption DEF EnrichmentAssumption, Running
    <3> QED BY <3>1, FS_Subset, FS_CardinalityType
  <2> QED BY <1>2, <2>1, <2>2, <2>3, <2>4, EnrichmentAssumption DEF SlotsSound, Counts, EnrichmentAssumption
<1> QED BY <1>6, <1>7, <1>8 DEF SlotsSound

\* A call moves and keeps its slot, or gives it back, as the counter says.
LEMMA MoveSlots ==
  ASSUME SlotsSound, NEW c \in Calls, NEW q \in CallRecords, call' = [call EXCEPT ![c] = q],
         IsTask(q) => IsTask(call[c]), Holds(q) => Holds(call[c]),
         record_in_flight' = record_in_flight - (IF Holds(call[c]) /\ ~ Holds(q) THEN 1 ELSE 0)
  PROVE  Counts' /\ call' \in [Calls -> CallRecords]
<1>1. call' \in [Calls -> CallRecords] /\ Cardinality(Holders) \in Nat /\ Cardinality(Running) \in Nat
  BY CountsFollow DEF SlotsSound
<1>2. Cardinality(Running') <= Cardinality(Running)
  BY CountsFollow DEF SlotsSound
<1>3. Cardinality(Holders') = Cardinality(Holders) - (IF Holds(call[c]) /\ ~ Holds(q) THEN 1 ELSE 0)
  <2>1. CASE Holds(call[c]) /\ Holds(q)
    <3>1. Cardinality(Holders') = Cardinality(Holders)
      BY <2>1, CountsFollow DEF SlotsSound
    <3> QED BY <1>1, <2>1, <3>1
  <2>2. CASE Holds(call[c]) /\ ~ Holds(q)
    BY <1>1, <2>2, CountsFollow DEF SlotsSound
  <2>3. CASE ~ Holds(call[c]) /\ ~ Holds(q)
    <3>1. Cardinality(Holders') = Cardinality(Holders)
      BY <2>3, CountsFollow DEF SlotsSound
    <3> QED BY <1>1, <2>3, <3>1
  <2> QED BY <2>1, <2>2, <2>3
<1>4. Cardinality(Running') \in Nat
  <2>1. IsFiniteSet(Calls) /\ Running' \in SUBSET Calls
    BY EnrichmentAssumption DEF EnrichmentAssumption, Running
  <2> QED BY <2>1, FS_Subset, FS_CardinalityType
<1> QED BY <1>1, <1>2, <1>3, <1>4, EnrichmentAssumption DEF SlotsSound, Counts, EnrichmentAssumption

LEMMA AskToolSlots ==
  ASSUME SlotsSound, NEW c \in Calls, AskTool(c)
  PROVE  SlotsSound'
<1>1. PICK op \in ToolOps : call' = [call EXCEPT ![c] = [pc |-> "send", op |-> op]]
  BY DEF AskTool
<1>2. PICK q : q = [pc |-> "send", op |-> op]
  OBVIOUS
<1>3. q \in Tools
  BY <1>2 DEF Tools, Pcs
<1>4. q \in CallRecords /\ ~ Holds(q) /\ ~ IsTask(q)
  BY <1>3, Shapes DEF CallRecords
<1>5. call[c].pc = "idle" /\ UNCHANGED <<queue, record_in_flight, clock>> /\ made' = made + 1
  BY DEF AskTool, Begins, Busy
<1>6. record_in_flight \in Int
  BY FS_Subset, FS_CardinalityType, EnrichmentAssumption DEF SlotsSound, Counts, Holders, EnrichmentAssumption
<1>7. ~ Holds(call[c])
  BY <1>5 DEF Holds
<1>8. Counts' /\ call' \in [Calls -> CallRecords]
  <2>1. record_in_flight' = record_in_flight - (IF Holds(call[c]) /\ ~ Holds(q) THEN 1 ELSE 0)
    BY <1>5, <1>6, <1>7
  <2>2. call' = [call EXCEPT ![c] = q]
    BY <1>1, <1>2
  <2> QED BY <1>4, <2>1, <2>2, MoveSlots
<1>9. Queued'
  BY <1>1, <1>2, <1>4, <1>5, QueueStays DEF SlotsSound
<1> QED BY <1>5, <1>8, <1>9 DEF SlotsSound, CallsTyped

LEMMA EndSlots ==
  ASSUME SlotsSound, NEW c \in Calls, Undo(c) \/ Done(c)
  PROVE  SlotsSound'
<1>1. call' = [call EXCEPT ![c] = Idle] /\ UNCHANGED <<queue, clock, made>> /\ call[c].pc \in {"undo", "done"}
  BY DEF Undo, Done
<1>2. Idle \in CallRecords /\ ~ Holds(Idle) /\ ~ IsTask(Idle)
  BY Shapes
<1>3. record_in_flight' = record_in_flight - (IF Holds(call[c]) /\ ~ Holds(Idle) THEN 1 ELSE 0)
  <2>1. CASE Undo(c)
    BY <1>2, <2>1 DEF Undo, Holds
  <2>2. CASE Done(c)
    BY <1>2, <2>2 DEF Done, Holds, Task, Busy
  <2> QED BY <2>1, <2>2
<1>4. Counts' /\ call' \in [Calls -> CallRecords]
  BY <1>1, <1>2, <1>3, MoveSlots
<1>5. Queued'
  BY <1>1, <1>2, QueueStays DEF SlotsSound
<1> QED BY <1>1, <1>4, <1>5 DEF SlotsSound, CallsTyped

LEMMA SendSlots ==
  ASSUME SlotsSound, NEW c \in Calls, send_cmd(c)
  PROVE  SlotsSound'
<1>1. /\ queue' = Append(queue, c) /\ UNCHANGED <<record_in_flight, clock, made>> /\ call[c].pc = "send"
      /\ call' = [call EXCEPT ![c] = [call[c] EXCEPT !.pc = "wait"]]
  BY DEF send_cmd
<1>2. call[c] \in Tasks \cup Tools
  BY <1>1, Shapes DEF SlotsSound, CallsTyped, CallRecords
<1>3. PICK q \in CallRecords : /\ q = [call[c] EXCEPT !.pc = "wait"] /\ q.pc = "wait"
                               /\ (Holds(q) <=> Holds(call[c])) /\ (IsTask(q) <=> IsTask(call[c]))
  BY <1>2, MovesOn DEF Pcs
<1>4. call' = [call EXCEPT ![c] = q]
  BY <1>1, <1>3
<1>5. Counts' /\ call' \in [Calls -> CallRecords]
  <2>1. record_in_flight \in Int
    BY FS_Subset, FS_CardinalityType, EnrichmentAssumption DEF SlotsSound, Counts, Holders, EnrichmentAssumption
  <2>2. record_in_flight' = record_in_flight - (IF Holds(call[c]) /\ ~ Holds(q) THEN 1 ELSE 0)
    BY <1>1, <1>3, <2>1
  <2> QED BY <1>3, <1>4, <2>2, MoveSlots
<1>6. queue \in Seq(Calls) /\ queue' \in Seq(Calls) /\ Len(queue') = Len(queue) + 1
  BY <1>1 DEF SlotsSound, CallsTyped
<1>7. Queued'
  <2>1. /\ \A n \in 1 .. Len(queue) : queue[n] # c /\ call[queue[n]].pc = "wait" /\ queue[n] \in Calls
        /\ \A m, n \in 1 .. Len(queue) : queue[m] = queue[n] => m = n
    BY <1>1, <1>6 DEF SlotsSound, Queued
  <2>2. /\ queue'[Len(queue) + 1] = c /\ \A n \in 1 .. Len(queue) : queue'[n] = queue[n]
    BY <1>1, <1>6
  <2>3. call'[c].pc = "wait" /\ \A o \in Calls : o # c => call'[o] = call[o]
    BY <1>3, <1>4 DEF SlotsSound, CallsTyped
  <2>4. Len(queue) \in Nat /\ \A n \in 1 .. Len(queue') : n \in 1 .. Len(queue) \/ n = Len(queue) + 1
    BY <1>6
  <2>5. ASSUME NEW n \in 1 .. Len(queue') PROVE call'[queue'[n]].pc = "wait"
    BY <2>1, <2>2, <2>3, <2>4
  <2>6. ASSUME NEW m \in 1 .. Len(queue'), NEW n \in 1 .. Len(queue'), queue'[m] = queue'[n] PROVE m = n
    BY <2>1, <2>2, <2>4, <2>6
  <2> QED BY <2>5, <2>6 DEF Queued
<1> QED BY <1>1, <1>5, <1>6, <1>7 DEF SlotsSound, CallsTyped

LEMMA HandleSlots ==
  ASSUME SlotsSound, handle_command
  PROVE  SlotsSound'
<1>1. queue \in Seq(Calls) /\ queue # <<>> /\ queue' = Tail(queue) /\ UNCHANGED <<record_in_flight, clock, made>>
  BY DEF handle_command, SlotsSound, CallsTyped
<1>2. PICK c \in Calls : c = Head(queue) /\ c = queue[1]
  BY <1>1
<1>3. PICK ok \in BOOLEAN :
        call' = [call EXCEPT ![c] = IF call[c].op = "cleanup" /\ ok THEN [pc |-> "send", op |-> "stats"]
                                    ELSE [call[c] EXCEPT !.pc = "done"]]
  BY <1>2 DEF handle_command
<1>4. call[c].pc = "wait"
  BY <1>1, <1>2 DEF SlotsSound, Queued
<1>5. call[c] \in Tasks \cup Tools
  BY <1>4, Shapes DEF SlotsSound, CallsTyped, CallRecords
<1>6. PICK q \in CallRecords : /\ q = IF call[c].op = "cleanup" /\ ok THEN [pc |-> "send", op |-> "stats"]
                                     ELSE [call[c] EXCEPT !.pc = "done"]
                               /\ (Holds(q) <=> Holds(call[c])) /\ (IsTask(q) <=> IsTask(call[c]))
  <2>1. CASE call[c].op = "cleanup" /\ ok
    <3>1. [pc |-> "send", op |-> "stats"] \in Tools
      BY DEF Tools, ToolOps, Pcs
    <3>2. call[c] \in Tools
      BY <1>5, <2>1, Shapes
    <3> QED BY <2>1, <3>1, <3>2, Shapes DEF CallRecords
  <2>2. CASE ~ (call[c].op = "cleanup" /\ ok)
    BY <1>5, <2>2, MovesOn DEF Pcs
  <2> QED BY <2>1, <2>2
<1>7. call' = [call EXCEPT ![c] = q]
  BY <1>3, <1>6
<1>8. Counts' /\ call' \in [Calls -> CallRecords]
  <2>1. record_in_flight \in Int
    BY FS_Subset, FS_CardinalityType, EnrichmentAssumption DEF SlotsSound, Counts, Holders, EnrichmentAssumption
  <2>2. record_in_flight' = record_in_flight - (IF Holds(call[c]) /\ ~ Holds(q) THEN 1 ELSE 0)
    BY <1>1, <1>6, <2>1
  <2> QED BY <1>6, <1>7, <2>2, MoveSlots
<1>9. /\ queue' \in Seq(Calls) /\ Len(queue') = Len(queue) - 1 /\ Len(queue) \in Nat
      /\ \A n \in 1 .. Len(queue') : queue'[n] = queue[n + 1]
  BY <1>1
<1>10. Queued'
  <2>1. /\ \A n \in 1 .. Len(queue) : call[queue[n]].pc = "wait" /\ queue[n] \in Calls
        /\ \A m, n \in 1 .. Len(queue) : queue[m] = queue[n] => m = n
    BY <1>1 DEF SlotsSound, Queued
  <2>2. \A n \in 1 .. Len(queue') : n + 1 \in 1 .. Len(queue) /\ n + 1 # 1 /\ 1 \in 1 .. Len(queue)
    BY <1>9
  <2>3. \A o \in Calls : o # c => call'[o] = call[o]
    BY <1>7 DEF SlotsSound, CallsTyped
  <2>4. ASSUME NEW n \in 1 .. Len(queue') PROVE call'[queue'[n]].pc = "wait"
    <3>1. queue[n + 1] # queue[1] /\ queue[n + 1] \in Calls /\ call[queue[n + 1]].pc = "wait"
      BY <2>1, <2>2
    <3> QED BY <1>2, <1>9, <2>3, <3>1
  <2>5. ASSUME NEW m \in 1 .. Len(queue'), NEW n \in 1 .. Len(queue'), queue'[m] = queue'[n] PROVE m = n
    <3>1. m + 1 = n + 1
      BY <1>9, <2>1, <2>2, <2>5
    <3> QED BY <3>1
  <2> QED BY <2>4, <2>5 DEF Queued
<1> QED BY <1>1, <1>8, <1>9, <1>10 DEF SlotsSound, CallsTyped

LEMMA NextSlots == SlotsSound /\ [Next]_vars => SlotsSound'
<1> SUFFICES ASSUME SlotsSound, [Next]_vars PROVE SlotsSound'
  OBVIOUS
<1>1. CASE UNCHANGED <<queue, call, record_in_flight, made>> /\ clock' \in Nat
  <2>1. CallsTyped' /\ Queued'
    BY <1>1 DEF SlotsSound, CallsTyped, Queued
  <2>2. Holders' = Holders /\ Running' = Running
    BY <1>1 DEF Holders, Running
  <2> QED BY <1>1, <2>1, <2>2 DEF SlotsSound, Counts
<1>2. clock \in Nat
  BY DEF SlotsSound, CallsTyped
<1>3. ASSUME NEW e \in Enrichers, ImportFile(e) PROVE SlotsSound'
  BY <1>1, <1>2, <1>3 DEF ImportFile, runVars
<1>4. CASE ImportRules \/ ImportDone \/ OpenRuns \/ migrate_v1_to_v2 \/ with_retention \/ OtherMigrates
  BY <1>1, <1>2, <1>4
     DEF ImportRules, ImportDone, OpenRuns, migrate_v1_to_v2, with_retention, OtherMigrates, runVars
<1>5. CASE Tick
  BY <1>1, <1>2, <1>5 DEF Tick
<1>6. CASE handle_command
  BY <1>6, HandleSlots
<1>7. ASSUME NEW c \in Calls, record_run(c) \/ AskTool(c) \/ CallStep(c) PROVE SlotsSound'
  BY <1>7, RecordRunSlots, AskToolSlots, EndSlots, SendSlots DEF CallStep
<1>8. CASE Restart
  <2>1. queue' = <<>> /\ call' = [c \in Calls |-> Idle] /\ record_in_flight' = 0 /\ UNCHANGED <<clock, made>>
    BY <1>8 DEF Restart
  <2>2. CallsTyped' /\ Queued'
    BY <2>1, Shapes DEF SlotsSound, CallsTyped, Queued
  <2>3. Holders' = {} /\ Running' = {}
    BY <2>1, Shapes DEF Holders, Running
  <2> QED BY <2>1, <2>2, <2>3, FS_EmptySet, EnrichmentAssumption DEF SlotsSound, Counts, EnrichmentAssumption
<1>9. CASE UNCHANGED vars
  BY <1>1, <1>2, <1>9 DEF vars, runVars
<1> QED BY <1>3, <1>4, <1>5, <1>6, <1>7, <1>8, <1>9 DEF Next, Start

\* record_in_flight is the number of record tasks and of callers about to take their increment
\* back, and no more than max_concurrent_records tasks run, for any number of callers and any
\* capacity of the channel (record_run, with the decrement in its task).
THEOREM SlotsAreExact == Spec => []SlotsExact
<1>1. ASSUME SlotsSound PROVE SlotsExact
  <2>1. ASSUME NEW c \in Calls
        PROVE  (Holds(call[c]) <=> Task(c) \/ call[c].pc = "undo") /\ (IsTask(call[c]) <=> Task(c))
    BY DEF Holds, IsTask, Task, Busy
  <2>2. Holders = {c \in Calls : Task(c) \/ call[c].pc = "undo"} /\ Running = {c \in Calls : Task(c)}
    BY <2>1 DEF Holders, Running
  <2> QED BY <1>1, <2>2 DEF SlotsExact, SlotsSound, Counts
<1> QED BY <1>1, InitSlots, NextSlots, PTL DEF Spec

----------------------------------------------------------------------------
(* The clean-up of the table of runs.                                       *)

\* Rows that are no older than the limit, with the oldest n of them taken away.
LEMMA OldestGo ==
  ASSUME NEW S, IsFiniteSet(S), \A r \in S : r.ts \in Int,
         NEW n \in Nat, NEW d \in OldestFirst(S, n)
  PROVE  /\ Cardinality(S \ d) = Cardinality(S) - n
         /\ \A r \in d, k \in S \ d : k.ts >= r.ts
<1>1. d \in SUBSET S /\ Cardinality(d) = n /\ \A x \in d, y \in S \ d : x.ts <= y.ts
  BY DEF OldestFirst, kSubset
<1>2. S \cap d = d
  BY <1>1
<1>3. Cardinality(S \ d) = Cardinality(S) - Cardinality(S \cap d)
  BY FS_Difference
<1>4. ASSUME NEW r \in d, NEW k \in S \ d PROVE k.ts >= r.ts
  <2>1. r.ts \in Int /\ k.ts \in Int /\ r.ts <= k.ts
    BY <1>1
  <2> QED BY <2>1
<1> QED BY <1>1, <1>2, <1>3, <1>4

\* From the oldest timestamp on a reader gets every row, from the newest on those that
\* share it.
LEMMA StatsOfRows ==
  ASSUME NEW S, \A r \in S : r.ts \in Int
  PROVE  /\ do_stats(S).current_row_count = Cardinality(S)
         /\ \A t \in do_stats(S).oldest : do_read_records(S, t) = S
         /\ \A t \in do_stats(S).newest : do_read_records(S, t) = {r \in S : r.ts = t}
<1>1. do_stats(S).current_row_count = Cardinality(S)
  BY DEF do_stats
<1>2. ASSUME NEW t \in do_stats(S).newest PROVE do_read_records(S, t) = {r \in S : r.ts = t}
  <2>1. PICK x \in S : t = x.ts /\ \A y \in S : x.ts >= y.ts
    BY <1>2 DEF do_stats
  <2>2. \A y \in S : y.ts >= x.ts <=> y.ts = x.ts
    BY <2>1
  <2> QED BY <2>1, <2>2 DEF do_read_records
<1>3. ASSUME NEW t \in do_stats(S).oldest PROVE do_read_records(S, t) = S
  <2>1. PICK x \in S : t = x.ts /\ \A y \in S : x.ts <= y.ts
    BY <1>3 DEF do_stats
  <2>2. \A y \in S : y.ts >= x.ts
    BY <2>1
  <2> QED BY <2>1, <2>2 DEF do_read_records
<1> QED BY <1>1, <1>2, <1>3

\* do_cleanup deletes the rows above the age and then, oldest first, those above the
\* cap, for every table, age and cap; what do_stats and do_read_records then see is
\* the rest of the table.
THEOREM CleanupIsSound ==
  ASSUME NEW S, IsFiniteSet(S), \A r \in S : r.ts \in Int,
         NEW now \in Int, NEW maxAge \in Nat, NEW maxRows \in Nat
  PROVE  CleanupSound(S, now, maxAge, maxRows)
<1> DEFINE young == Young(S, now, maxAge)
           over == Cardinality(young) - maxRows
<1>1. young \subseteq S /\ IsFiniteSet(young) /\ Cardinality(young) \in Nat
  BY FS_Subset, FS_CardinalityType DEF Young
<1>2. \A r \in S : r \in young <=> r.ts >= now - maxAge
  BY DEF Young
<1>3. \A r \in young : r.ts \in Int
  BY <1>1
<1>6. ASSUME NEW kept \in do_cleanup(S, now, maxAge, maxRows)
      PROVE  /\ kept \subseteq young /\ Cardinality(kept) <= maxRows
             /\ \A r \in young \ kept : Cardinality(kept) = maxRows /\ \A k \in kept : k.ts >= r.ts
  <2>4. CASE over <= 0
    <3>1. kept = young
      BY <2>4 DEF do_cleanup
    <3> HIDE DEF young
    <3> QED BY <1>1, <2>4, <3>1
  <2>5. CASE over > 0
    <3>1. PICK d \in OldestFirst(young, over) : kept = young \ d
      BY <1>1, <2>5 DEF do_cleanup
    <3> HIDE DEF young
    <3>2. over \in Nat
      BY <1>1, <2>5
    <3>3. Cardinality(kept) = Cardinality(young) - over /\ \A r \in d, k \in kept : k.ts >= r.ts
      BY <1>1, <1>3, <3>1, <3>2, OldestGo
    <3>4. Cardinality(kept) = maxRows
      BY <1>1, <3>3
    <3>5. kept \subseteq young /\ young \ kept \subseteq d
      BY <3>1
    <3> QED BY <3>3, <3>4, <3>5
  <2> QED BY <1>1, <2>4, <2>5
<1> HIDE DEF young
<1>7. ASSUME NEW kept \in do_cleanup(S, now, maxAge, maxRows)
      PROVE  /\ kept \subseteq S /\ \A r \in kept : r.ts >= now - maxAge
             /\ \A r \in S \ kept : r.ts >= now - maxAge => r \in young \ kept
             /\ do_stats(kept).current_row_count = Cardinality(kept)
             /\ \A t \in do_stats(kept).oldest : do_read_records(kept, t) = kept
             /\ \A t \in do_stats(kept).newest : do_read_records(kept, t) = {r \in kept : r.ts = t}
  <2>1. kept \subseteq young
    BY <1>6
  <2> QED BY <1>1, <1>2, <1>3, <2>1, StatsOfRows
<1> QED BY <1>6, <1>7 DEF CleanupSound

\* The table holds rows that were built, each with the clock of its run.
TableSound == IsFiniteSet(rows) /\ rows \subseteq Rows

LEMMA CleanedTable ==
  ASSUME SlotsSound, TableSound, NEW kept \in Cleaned \cup CleanupFailed
  PROVE  /\ IsFiniteSet(kept) /\ kept \subseteq rows
         /\ \A r \in rows \ kept : \/ r.ts + MaxAge < clock
                                   \/ Cardinality(kept) = MaxRows /\ \A k \in kept : r.ts <= k.ts
<1>1. clock \in Int /\ \A r \in rows : r.ts \in Int
  BY DEF SlotsSound, CallsTyped, TableSound, Rows
<1>2. CleanupSound(rows, clock, MaxAge, MaxRows)
  BY <1>1, CleanupIsSound, EnrichmentAssumption DEF TableSound, EnrichmentAssumption
<1>3. kept \subseteq rows /\ \A r \in rows \ kept : r.ts >= clock - MaxAge =>
                               Cardinality(kept) = MaxRows /\ \A k \in kept : k.ts >= r.ts
  <2>1. CASE kept \in Cleaned
    BY <1>2, <2>1 DEF CleanupSound, Cleaned
  <2>2. CASE kept \in CleanupFailed
    <3>1. \A r \in rows : r \in Young(rows, clock, MaxAge) <=> r.ts >= clock - MaxAge
      BY <1>1, EnrichmentAssumption DEF Young, EnrichmentAssumption
    <3>2. Young(rows, clock, MaxAge) \subseteq rows
      BY DEF Young
    <3> QED BY <2>2, <3>1, <3>2 DEF CleanupFailed
  <2> QED BY <2>1, <2>2
<1>4. IsFiniteSet(kept)
  BY <1>3, FS_Subset DEF TableSound
<1>5. ASSUME NEW r \in rows \ kept
      PROVE  \/ r.ts + MaxAge < clock
             \/ Cardinality(kept) = MaxRows /\ \A k \in kept : r.ts <= k.ts
  <2>1. \A k \in kept : k.ts >= r.ts => r.ts <= k.ts
    BY <1>1, <1>3
  <2>2. r.ts >= clock - MaxAge \/ r.ts + MaxAge < clock
    BY <1>1, EnrichmentAssumption DEF EnrichmentAssumption
  <2> QED BY <1>3, <2>1, <2>2
<1> QED BY <1>3, <1>4, <1>5

\* A row leaves the table only when it is too old, or when as many rows that are no
\* older stay as the retention allows; only a clean-up and the start do that (do_cleanup).
LeaveInOrder ==
  \A r \in rows \ rows' : \/ r.ts + MaxAge < clock
                          \/ Cardinality(rows') = MaxRows /\ \A k \in rows' : r.ts <= k.ts
RowsLeaveInOrder == [][LeaveInOrder]_vars

LEMMA TableStep ==
  ASSUME SlotsSound, TableSound, [Next]_vars
  PROVE  \/ rows' \in Cleaned \cup CleanupFailed
         \/ rows \subseteq rows' /\ TableSound'
<1>1. CASE with_retention
  BY <1>1 DEF with_retention, TableSound
<1>2. CASE handle_command
  <2> DEFINE c == Head(queue)
  <2>1. c \in Calls /\ call[c].pc = "wait"
    BY <1>2, HeadTailProperties, LenProperties DEF handle_command, SlotsSound, CallsTyped, Queued
  <2>2. CASE call[c].op = "record"
    <3>1. call[c] \in Tasks
      BY <2>1, <2>2, Shapes DEF SlotsSound, CallsTyped, CallRecords, Idle, Tools, ToolOps, Drops
    <3>2. call[c].row \in Rows
      BY <3>1 DEF Tasks
    <3>3. rows' = rows \/ rows' = rows \cup {call[c].row}
      BY <1>2, <2>2 DEF handle_command, do_record
    <3> QED BY <3>2, <3>3, FS_AddElement DEF TableSound
  <2>3. CASE call[c].op = "cleanup"
    BY <1>2, <2>3 DEF handle_command
  <2>4. CASE call[c].op \notin {"record", "cleanup"}
    <3>1. rows' = rows
      BY <1>2, <2>4 DEF handle_command
    <3> QED BY <3>1 DEF TableSound
  <2> QED BY <2>2, <2>3, <2>4
<1>3. CASE ~ with_retention /\ ~ handle_command
  <2>1. rows' = rows
    BY <1>3 DEF Next, Start, ImportFile, ImportRules, ImportDone, OpenRuns, migrate_v1_to_v2, OtherMigrates, Tick,
                Restart, record_run, AskTool, CallStep, Undo, send_cmd, Done, runVars, vars
  <2> QED BY <2>1 DEF TableSound
<1> QED BY <1>1, <1>2, <1>3

LEMMA TableInductive ==
  ASSUME SlotsSound, TableSound, [Next]_vars PROVE TableSound'
BY TableStep, CleanedTable DEF TableSound

\* Whatever runs are recorded and however clean-ups, the retention at the start, crashes
\* and the clock fall between them, the table of runs loses no row before its time.
THEOREM RetentionKeepsNewest == Spec => RowsLeaveInOrder
<1>1. Init => TableSound
  BY FS_EmptySet DEF Init, TableSound
<1>2. ASSUME SlotsSound, TableSound, [Next]_vars PROVE LeaveInOrder
  <2>1. CASE rows' \in Cleaned \cup CleanupFailed
    BY <1>2, <2>1, CleanedTable DEF LeaveInOrder
  <2>2. CASE rows \subseteq rows'
    BY <2>2 DEF LeaveInOrder
  <2> QED BY <1>2, <2>1, <2>2, TableStep
<1> QED BY <1>1, <1>2, InitSlots, NextSlots, TableInductive, PTL DEF Spec, RowsLeaveInOrder

----------------------------------------------------------------------------
(* The scores and recommendations of the optimizer's report.                *)

Report == INSTANCE FactPipeline

\* The statistics of an enricher with at least one run, as compute_aggregate_stats makes
\* them: rates in ten-thousandths.
Rates == {n \in Nat : n <= Report!One}
StatsOfRuns ==
  [total_runs : Nat \ {0}, avg_latency : Nat, artifact_yield : Rates, diagnostic_hit_rate : Rates,
   false_positive_rate : Rates, never_fired_rules : Nat, error_rate : Rates]

\* The share of c runs among n is a rate, so the statistics of any runs are of that type.
LEMMA SharesAreRates ==
  ASSUME NEW n \in Nat \ {0}, NEW c \in Nat, c <= n
  PROVE  Report!Rate(c, n) \in Rates
<1> DEFINE q == Report!Rate(c, n)
<1>1. q = (2 * (c * 10000) + n) \div (2 * n)
  BY SMT DEF Report!Rate, Report!round4, Report!One
<1>2. \A a \in Nat, d \in Nat \ {0} : a \div d \in Int /\ 0 <= a \div d /\ d * (a \div d) <= a
  BY SMT
<1>3. 2 * (c * 10000) + n \in Nat /\ 2 * n \in Nat \ {0}
  BY SMT
<1>4. q \in Int /\ 0 <= q /\ (2 * n) * q <= 2 * (c * 10000) + n
  BY <1>1, <1>2, <1>3, SMT
<1> HIDE DEF q
<1>5. (2 * n) * q <= 20000 * n + n
  BY <1>4, SMT
<1>6. ASSUME q > 10000 PROVE FALSE
  <2>1. (2 * n) * q >= (2 * n) * 10001
    BY <1>4, <1>6, SMT
  <2> QED BY <1>4, <1>5, <2>1, SMT
<1>7. q <= 10000
  BY <1>4, <1>6, SMT
<1> QED BY <1>4, <1>7, SMT DEF Rates, Report!One, q

LEMMA LeastOfTwo ==
  ASSUME NEW a \in Int, NEW b \in Int
  PROVE  Report!Min({a, b}) \in Int /\ Report!Min({a, b}) = IF a <= b THEN a ELSE b
<1>1. \E x \in {a, b} : \A y \in {a, b} : x =< y
  OBVIOUS
<1> QED BY <1>1 DEF Report!Min

\* The mean latency counts up to the maximum, in ten-thousandths of a millisecond.
LatencyOf(s) == LET most == Report!One * Report!MAX_LATENCY_MS IN IF s.avg_latency <= most THEN s.avg_latency ELSE most

LEMMA ScoreOfStats ==
  ASSUME NEW s \in StatsOfRuns
  PROVE  /\ LatencyOf(s) \in Int /\ 0 <= LatencyOf(s) /\ LatencyOf(s) <= 10000 * 5000
         /\ Report!compute_enricher_score(s) =
              (2 * ((s.artifact_yield + s.diagnostic_hit_rate + 10000 - s.false_positive_rate) * 5000
                    + 10000 * 5000 - LatencyOf(s)) + 4 * 5000) \div (2 * (4 * 5000))
<1>1. s.avg_latency \in Nat /\ s.total_runs # 0
  BY SMT DEF StatsOfRuns
<1>2. Report!One * Report!MAX_LATENCY_MS = 10000 * 5000
  BY SMT DEF Report!One, Report!MAX_LATENCY_MS
<1>3. Report!Min({s.avg_latency, Report!One * Report!MAX_LATENCY_MS}) = LatencyOf(s)
  BY <1>1, <1>2, LeastOfTwo, SMT DEF LatencyOf
<1>4. LatencyOf(s) \in Int /\ 0 <= LatencyOf(s) /\ LatencyOf(s) <= 10000 * 5000
  BY <1>1, <1>2, SMT DEF LatencyOf
<1>5. Report!compute_enricher_score(s) =
        (2 * ((s.artifact_yield + s.diagnostic_hit_rate + 10000 - s.false_positive_rate) * 5000
              + 10000 * 5000 - LatencyOf(s)) + 4 * 5000) \div (2 * (4 * 5000))
  BY <1>1, <1>3, SMT DEF Report!compute_enricher_score, Report!round4, Report!One, Report!MAX_LATENCY_MS
<1> QED BY <1>4, <1>5, SMT

\* An enricher whose statistics are those of s but for better rates: no fewer runs with
\* artifacts or diagnostics, no more without artifacts, and no slower.
NoWorse(t, s) ==
  /\ s.artifact_yield <= t.artifact_yield /\ s.diagnostic_hit_rate <= t.diagnostic_hit_rate
  /\ t.false_positive_rate <= s.false_positive_rate /\ t.avg_latency <= s.avg_latency

\* For all statistics an enricher can have: its score is a rate; better statistics never
\* lower it; nothing but a review is recommended on fewer than eight runs; and an enricher
\* that yields artifacts in every run is never to be removed or put last
\* (compute_enricher_score, compute_confidence, determine_action).
THEOREM ScoresAreFair ==
  ASSUME NEW s \in StatsOfRuns
  PROVE  LET score == Report!compute_enricher_score(s)
             action == Report!determine_action(score, Report!compute_confidence(s.total_runs))
         IN  /\ score \in Rates
             /\ \A t \in StatsOfRuns : NoWorse(t, s) => score <= Report!compute_enricher_score(t)
             /\ s.total_runs < 8 => action = "Review"
             /\ s.artifact_yield = Report!One /\ s.false_positive_rate = 0 => action \in {"Keep", "Review"}
<1> DEFINE score == Report!compute_enricher_score(s)
           action == Report!determine_action(score, Report!compute_confidence(s.total_runs))
<1>1. /\ s.artifact_yield \in Int /\ 0 <= s.artifact_yield /\ s.artifact_yield <= 10000
      /\ s.diagnostic_hit_rate \in Int /\ 0 <= s.diagnostic_hit_rate /\ s.diagnostic_hit_rate <= 10000
      /\ s.false_positive_rate \in Int /\ 0 <= s.false_positive_rate /\ s.false_positive_rate <= 10000
      /\ s.total_runs \in Nat
  BY SMT DEF StatsOfRuns, Rates, Report!One
<1>2. score \in Int /\ 0 <= score /\ score <= 10000
  BY <1>1, ScoreOfStats, SMT
<1>3. score \in Rates
  BY <1>2, SMT DEF Rates, Report!One
<1>4. ASSUME NEW t \in StatsOfRuns, NoWorse(t, s) PROVE score <= Report!compute_enricher_score(t)
  <2>1. /\ t.artifact_yield \in Int /\ t.diagnostic_hit_rate \in Int /\ t.false_positive_rate \in Int
        /\ t.avg_latency \in Nat /\ s.avg_latency \in Nat
    BY SMT DEF StatsOfRuns, Rates
  <2>2. LatencyOf(t) <= LatencyOf(s)
    BY <1>4, <2>1, SMT DEF LatencyOf, NoWorse, Report!One, Report!MAX_LATENCY_MS
  <2>3. LatencyOf(t) \in Int /\ LatencyOf(s) \in Int
    BY ScoreOfStats, SMT
  <2>4. \A m, n \in Int : m <= n => m \div 40000 <= n \div 40000
    BY SMT
  <2> QED BY <1>1, <1>4, <2>1, <2>2, <2>3, <2>4, ScoreOfStats, SMT DEF NoWorse
<1>5. ASSUME s.total_runs < 8 PROVE action = "Review"
  <2>1. Report!compute_confidence(s.total_runs) = (2 * (s.total_runs * 10000) + 10) \div (2 * 10)
    BY <1>1, <1>5, SMT DEF Report!compute_confidence, Report!Rate, Report!round4, Report!One, Report!MIN_RUNS_FOR_CONFIDENCE
  <2>2. Report!compute_confidence(s.total_runs) \in Int /\ Report!compute_confidence(s.total_runs) < 8000
    BY <1>1, <1>5, <2>1, SMT
  <2> QED BY <1>2, <2>2, SMT DEF Report!determine_action
<1>6. ASSUME s.artifact_yield = Report!One, s.false_positive_rate = 0 PROVE action \in {"Keep", "Review"}
  <2>1. score >= 4000
    BY <1>1, <1>6, ScoreOfStats, SMT DEF Report!One
  <2> QED BY <1>2, <2>1, SMT DEF Report!determine_action
<1> QED BY <1>3, <1>4, <1>5, <1>6

=============================================================================
