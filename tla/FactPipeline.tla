---------------------------- MODULE FactPipeline ----------------------------
(* From the output of a command to what the agent is told, and from the      *)
(* stored runs to the report on the enrichers.                               *)
EXTENDS Integers, Sequences, SequencesExt, FiniteSets, FiniteSetsExt

NoText == "none"

------------------------------------------------------------------------------
\* Which enricher, and which of its extractors.  A pattern matches a set of
\* commands or cannot be compiled.

Compiles(pattern) == pattern.valid
\* IntentDetector::detect.
detect(command, enrichers) ==
  SelectSeq(enrichers, LAMBDA e : /\ e.enabled
                                  /\ \E k \in 1..Len(e.patterns) : /\ Compiles(e.patterns[k])
                                                                   /\ command \in e.patterns[k].matches)
\* The first of those that match, in whatever order the catalog lists them.
select_enricher(command, enrichers) == LET found == detect(command, enrichers)
                                       IN IF found = <<>> THEN <<>> ELSE <<Head(found)>>
\* CompiledEnricherCache::from_enrichers, when the pipeline is built: regular
\* expressions that compile, and globs.
from_enricher(e) ==
  SelectSeq(e.extractors, LAMBDA x : x.type = "glob" \/ (x.type = "regex" /\ x.valid))

\* What one extractor finds.  A regex is tried on stdout, on stderr only when stdout
\* is empty; with several named groups it reports each that took part.
Fact(key, value, source, confidence) ==
  [key |-> key, value |-> value, source |-> source, confidence |-> confidence]
RegexFacts(x, result) ==
  LET text == IF result.stdout = "" THEN result.stderr ELSE result.stdout IN
  IF text \notin x.matches THEN <<>>
  ELSE IF Len(x.groups) > 1 THEN [k \in 1..Len(x.groups) |-> Fact(x.groups[k], text, x.id, 10)]
  ELSE <<Fact(x.fact_key, text, x.id, 10)>>
GlobFacts(x, files) == SetToSeq({Fact(x.fact_key, f, x.id, 10) : f \in files \cap x.matches})
\* run_extractor, for those that are not in the cache: a bad pattern is an error
\* and gives nothing, and so does an unknown type.
run_extractor(x, result, files) ==
  CASE x.type = "regex" /\ x.valid -> RegexFacts(x, result)
    [] x.type = "glob" -> GlobFacts(x, files)
    [] x.type = "command" -> <<Fact("command_executable", result.command, x.id, 10)>>
    [] OTHER -> <<>>
\* Cached ones first, as they were when the cache was built; then the others.
execute_extractors(e, cached, result, files) ==
  LET ids == {cached[k].id : k \in 1..Len(cached)}
      others == SelectSeq(e.extractors, LAMBDA x : x.id \notin ids)
      Facts(xs) == FlattenSeq([k \in 1..Len(xs) |-> run_extractor(xs[k], result, files)])
  IN Facts(cached) \o Facts(others)

------------------------------------------------------------------------------
\* FactNormalizer.  Confidences are tenths.

DefaultThreshold == 5
\* Mutant: every fact of a key stays.
MergeAll(facts, mode) == ToSet(facts)
\* With mode "single" the surest fact of a key stays, the last one among equals.
Merge(facts, mode) ==
  IF mode = "multi" THEN ToSet(facts)
  ELSE LET best == {k \in 1..Len(facts) : \A j \in 1..Len(facts) : facts[j].confidence <= facts[k].confidence}
       IN {facts[Max(best)]}
\* The extractor of the first fact decides for its key.
mode_of(facts, modes) == IF Head(facts).source \in DOMAIN modes THEN modes[Head(facts).source] ELSE "single"
normalize_with_config(facts, modes, threshold) ==
  LET keys == {facts[k].key : k \in 1..Len(facts)}
      Of(key) == SelectSeq(facts, LAMBDA f : f.key = key)
  IN {f \in UNION {Merge(Of(key), mode_of(Of(key), modes)) : key \in keys} : f.confidence >= threshold}
\* The rules see the facts before they are normalised; what they derive is
\* normalised with the rest.
evaluate_and_normalize(facts, derived, e) ==
  LET ids == {e.extractors[k].id : k \in 1..Len(e.extractors)}
      modes == [i \in ids |-> (CHOOSE k \in ToSet(e.extractors) : k.id = i).merge_mode]
  IN normalize_with_config(facts \o derived, modes, DefaultThreshold)

\* compose_context: the artifacts are the facts whose key says so, and there is a
\* summary of tests when there is a number of them.
ArtifactKeys == {"artifact", "artifacts"}
get_fact_values(facts, key) == {f.value : f \in {x \in facts : x.key = key}}
compose_context(facts, e) ==
  [enricher |-> e.id, facts |-> facts, status |-> get_fact_values(facts, "build_status"),
   artifacts |-> {f \in facts : f.key \in ArtifactKeys},
   tests |-> get_fact_values(facts, "tests_run") # {}]
EmptyContext == [enricher |-> NoText, facts |-> {}, status |-> {}, artifacts |-> {}, tests |-> FALSE]
run_pipeline(enrichers, result, files, derived) ==
  LET chosen == select_enricher(result.command, enrichers) IN
  IF chosen = <<>> THEN EmptyContext
  ELSE LET e == chosen[1]
       IN compose_context(evaluate_and_normalize(
            execute_extractors(e, from_enricher(e), result, files), derived, e), e)

------------------------------------------------------------------------------
\* The optimizer.  Rates are ten-thousandths, as round4 leaves them.

One == 10000
round4(n, d) == (2 * n + d) \div (2 * d)
Rate(n, total) == round4(n * One, total)
MIN_RUNS_FOR_CONFIDENCE == 10
MAX_LATENCY_MS == 5000
compute_aggregate_stats(records) ==
  LET n == Len(records)
      latency == FoldLeft(LAMBDA s, r : s + r.duration_ms, 0, records)
      Count(P(_)) == Cardinality({k \in 1..n : P(records[k])})
      R(P(_)) == IF n = 0 THEN 0 ELSE Rate(Count(P), n)
  IN [total_runs |-> n, avg_latency |-> IF n = 0 THEN 0 ELSE Rate(latency, n),
      artifact_yield |-> R(LAMBDA r : r.artifacts > 0),
      diagnostic_hit_rate |-> R(LAMBDA r : r.diagnostics > 0),
      false_positive_rate |-> R(LAMBDA r : r.artifacts = 0),
      never_fired_rules |-> Count(LAMBDA r : r.rule_hits = 0),
      error_rate |-> R(LAMBDA r : r.error)]
\* Four parts of equal weight; all of it in 1 / MAX_LATENCY_MS of a ten-thousandth.
compute_enricher_score(s) ==
  IF s.total_runs = 0 THEN 0
  ELSE round4((s.artifact_yield + s.diagnostic_hit_rate + One - s.false_positive_rate) * MAX_LATENCY_MS
              + One * MAX_LATENCY_MS - Min({s.avg_latency, One * MAX_LATENCY_MS}), 4 * MAX_LATENCY_MS)
compute_confidence(runs) ==
  IF runs >= MIN_RUNS_FOR_CONFIDENCE THEN One ELSE Rate(runs, MIN_RUNS_FOR_CONFIDENCE)
determine_action(utility, confidence) ==
  CASE confidence < 8000 -> "Review"
    [] confidence >= 8000 /\ utility < 2000 -> "Remove"
    [] confidence >= 8000 /\ utility >= 2000 /\ utility < 4000 -> "Deprioritize"
    [] confidence >= 8000 /\ utility > 7000 -> "Keep"
    [] OTHER -> "Review"
\* One score and one recommendation for every enricher that has runs.
generate_report(records) ==
  LET ids == {records[k].enricher : k \in 1..Len(records)}
      Stats(i) == compute_aggregate_stats(SelectSeq(records, LAMBDA r : r.enricher = i))
  IN [i \in ids |-> [utility |-> compute_enricher_score(Stats(i)),
                     action |-> determine_action(compute_enricher_score(Stats(i)),
                                                 compute_confidence(Stats(i).total_runs))]]

------------------------------------------------------------------------------
\* EnrichmentMetrics: the times of the runs, within a window and a capacity.

Window == 300
prune_old(times, now) == SelectSeq(times, LAMBDA t : t >= now - Window)
record_run(times, now, capacity) ==
  LET kept == prune_old(Append(times, now), now)
  IN SubSeq(kept, Max({1, Len(kept) - capacity + 1}), Len(kept))
recent_runs_5min(times, now) == Len(prune_old(times, now))
\* Between the two nearest ranks, of the values in the order they came.
percentile(values, p) ==
  LET rank == p * (Len(values) - 1)
      lower == rank \div 100
      part == rank % 100
  IN IF part = 0 THEN values[lower + 1]
     ELSE (values[lower + 1] * (100 - part) + values[lower + 2] * part) \div 100
==============================================================================
