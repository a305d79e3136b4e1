----------------------------- MODULE PassChecks -----------------------------
(* The passes that keep no state, checked against what they are for: an      *)
(* input is chosen, and the properties relate what the passes make of it to  *)
(* a definition that does not follow their steps.  The text of a command     *)
(* grows piece by piece.                                                     *)
EXTENDS Integers, Sequences, SequencesExt, FiniteSets, FiniteSetsExt

CONSTANTS IntBits,      \* bound: the width of an i32
          MaxPriority,  \* bound: the last priority of a rule
          MaxPieces,    \* bound: the pieces of a command's text
          MaxRuns       \* bound: the stored runs of an enricher

VARIABLE input
None == [kind |-> "none"]  \* for the behaviours of other parts

Spelled == <<"0", "1", "2", "6", "31", "70">>
Values == <<0, 1, 2, 6, 31, 70>>
NumOf(text) == {Values[k] : k \in {j \in 1..Len(Spelled) : Spelled[j] = text}}

R == INSTANCE Rules WITH Num <- NumOf
B == INSTANCE ResourceNames
T == INSTANCE TextPasses
F == INSTANCE FactPipeline
P == INSTANCE ProviderConfig
C == INSTANCE Catalog
D == INSTANCE Retention
Text == [n \in ToSet(Values) |-> Spelled[CHOOSE k \in 1..Len(Values) : Values[k] = n]]
Shim == INSTANCE CheckShim WITH Num <- NumOf, Show <- Text
\* Words that contain a keyword, the keywords that contain another among them.
Containing ==
  {<<"maven", "mavenw">>, <<"gradle", "gradlew">>, <<"npm", "pnpm">>, <<"node", "nodejs">>, <<"pip", "pip3">>,
   <<"pip", "pipenv">>, <<"go", "golang">>, <<"go", "cargo">>, <<"go", "django">>, <<"go", "cargo-watch">>,
   <<"cargo", "cargo-watch">>}
O == INSTANCE Orientation WITH Within <- Containing, Width <- IntBits

UpTo(S, n) == UNION {[1..k -> S] : k \in 0..n}

------------------------------------------------------------------------------
\* Conditions of rules, and how they are written with no more brackets than the
\* precedences ask for.

Atoms == {<<"field", "exit_code">>, <<"==", <<"fact", "k">>, <<"str", "1">>>>, <<"any_fact", "k", ">=", "2">>}
Numbers == {<<"<", <<"field", "duration_ms">>, <<"int", n>>>> : n \in {R!MaxI32, R!MaxI32 + 1}}
Combined(S) == S \cup {<<"not", a>> : a \in S} \cup {<<op, a, b>> : op \in {"and", "or"}, a \in S, b \in S}
Conditions == Combined(Combined(Atoms)) \cup Numbers

Punct(text) == [class |-> "punct", text |-> text]
WordOf(text) == [class |-> "word", text |-> text]
Quoted(text) == [class |-> "quoted", text |-> text]
Strength(e) ==
  CASE e[1] = "or" -> 1 [] e[1] = "and" -> 2 [] e[1] = "not" -> 3
    [] e[1] \in R!Comparisons -> 4 [] OTHER -> 5
RECURSIVE Written(_, _)
Written(e, least) ==
  LET text == CASE e[1] = "or" -> Written(e[2], 1) \o <<WordOf("or")>> \o Written(e[3], 2)
                [] e[1] = "and" -> Written(e[2], 2) \o <<WordOf("and")>> \o Written(e[3], 3)
                [] e[1] = "not" -> <<WordOf("not")>> \o Written(e[2], 3)
                [] e[1] \in R!Comparisons -> Written(e[2], 5) \o <<Punct(e[1])>> \o Written(e[3], 5)
                [] e[1] = "field" -> <<WordOf(e[2])>>
                [] e[1] = "str" -> <<Quoted(e[2])>>
                [] e[1] = "int" -> <<[class |-> "digits", n |-> e[2]]>>
                [] OTHER -> <<WordOf(e[1]), Punct("(")>>
                            \o Tail(FlattenSeq([k \in 1..Len(e) - 1 |-> <<Punct(","), Quoted(e[k + 1])>>]))
                            \o <<Punct(")")>>
  IN IF Strength(e) < least THEN <<Punct("(")>> \o text \o <<Punct(")")>> ELSE text
Lexemes(e) == Written(e, 1)

\* A command with every word in single or in double quotes, blanks in between.
InSingle(w) == <<"'">> \o w \o <<"'">>
InDouble(w) == <<"\"">> \o FlattenSeq([k \in 1..Len(w) |-> IF w[k] \in {"\"", "\\"} THEN <<"\\", w[k]>> ELSE <<w[k]>>])
               \o <<"\"">>
Command(words, Q(_)) == FlattenSeq([k \in 1..Len(words) |-> <<"sp">> \o Q(words[k])])
MaxTokens == 2
MaxLength == 40

\* What is written can be read again.  A condition written with as few brackets as
\* the precedences allow is parsed to itself, unless a number does not fit, and with
\* one bracket more it is not parsed at all; a resource name is read back, up to the
\* blanks behind it, exactly when its identifier is one nonempty part, and is never
\* read as another resource; an artifact location survives the new form and a binary
\* loses only that it is in the image; a quoted command is split into the words it
\* was put together from, up to the limit.
ReadBack ==
  /\ input.kind = "rule" =>
       LET e == input.expr
           read == R!parse(R!tokenize(Lexemes(e)))
       IN /\ read = IF e \in Numbers /\ e[3][2] > R!MaxI32 THEN R!Failed.expr ELSE e
          /\ R!parse(R!tokenize(Append(Lexemes(e), Punct(")")))) = R!Failed.expr
          /\ R!parse(R!tokenize(<<Punct("(")>> \o Lexemes(e))) = R!Failed.expr
  /\ input.kind = "name" => B!NameReadBack(input.name)
  /\ input.kind = "location" => B!LocationReadBack(input.location)
  /\ input.kind = "words" =>
       \A cs \in {Command(input.words, InSingle), Command(input.words, InDouble)} :
         T!extract_command(cs, MaxTokens, MaxLength) =
           CASE input.words = <<>> -> T!Fault("empty_command")
             [] Len(input.words) > MaxTokens -> T!Fault("command_too_long")
             [] OTHER -> T!Tokens(input.words)

------------------------------------------------------------------------------
\* The text of a command, with the secrets that a reader of it sees announced.

SecretKeys == {"token=", "KEY=", "db_key="}
Flags == {"Bearer", "--secret"}
Pieces == {"sp", ",", "'", "w", "s"} \cup SecretKeys \cup Flags \cup T!SecretPrefixes
\* Marks begin a word, and flags end one.
CanFollow(text, p) ==
  LET last == IF text = <<>> THEN "sp" ELSE Last(text) IN
  /\ p \in SecretKeys \cup Flags \cup T!SecretPrefixes => last \in T!Delimiters
  /\ last \in Flags => p = "sp"

Within(text, i, j, stops) == i <= j /\ \A k \in i..j : text[k] \notin stops
\* A mark that a reader takes for one: it begins a word, outside quotes, and is not
\* itself the value of a flag.
Plainly(text, i) ==
  /\ \A k \in 1..i - 1 : text[k] \notin T!Quotes
  /\ i = 1 \/ text[i - 1] = "sp"
  /\ i > 2 => text[i - 2] \notin Flags
Announces(text, i, j) ==
  \/ text[i] \in SecretKeys /\ Within(text, i + 1, j, T!Delimiters)
  \/ text[i] \in {"token=", "db_key="} /\ T!QuoteAt(text, i + 1) /\ Within(text, i + 2, j, {text[i + 1]})
  \/ text[i] \in Flags /\ Within(text, i + 2, j, {"sp", "'"})
  \/ text[i] \in T!SecretPrefixes /\ \E e \in i + T!MinBody..Len(text) :
       /\ j \in i + 1..e /\ \A k \in i + 1..e : text[k] \in {"w", "s"}
       /\ text[i] = "eyJ" => T!Until(text, i, {"sp"}) - (i + 1) <= T!MaxJwt
Secret(text, j) == \E i \in 1..j - 1 : Plainly(text, i) /\ Announces(text, i, j)
Harmless == {"sp", ",", "'", "w", "s"}

\* Of a text all of whose secrets are announced (as a value, quoted or not, of a key
\* or a flag, or by a known prefix with a body long enough) nothing secret is
\* stored; a text that announces nothing is stored as it is; what is stored of a long
\* one is a text cut at the limit, with its secrets taken out.
SecretsGone ==
  input.kind = "text" =>
    LET text == input.text
        stored == T!stored_command(text, MaxPieces)
    IN /\ (\A j \in 1..Len(text) : text[j] = "s" => Secret(text, j)) => "s" \notin ToSet(stored)
       /\ ToSet(text) \subseteq Harmless => stored = text
       /\ ToSet(text) \subseteq Harmless /\ ~(ToSet(text) \subseteq {"sp"}) =>
            \A limit \in 1..MaxPieces : /\ Len(T!stored_command(text, limit)) <= limit + 1
                                        /\ T!stored_command(text, limit)[1] = text[1]

------------------------------------------------------------------------------
\* Rules and facts.

Context(code) ==
  [field |-> [exit_code |-> code, timed_out |-> "false", stdout |-> "", stderr |-> "2", duration_ms |-> "70"],
   facts |-> <<[key |-> "k", value |-> "1"], [key |-> "k", value |-> "2"]>>,
   Show |-> Text,
   Contains |-> {<<"2", "2">>}]
RuleConditions == Atoms \cup {<<"not", a>> : a \in Atoms} \cup
  {<<"all_fact", "k", ">=", "2">>, <<"stderr_contains", "2">>, <<"<", <<"fact", "none">>, <<"str", "2">>>>}
SomeRule(e, p, enabled, verdict) ==
  [condition |-> R!tokenize(Lexemes(e)), expr |-> e, priority |-> p, enabled |-> enabled,
   actions |-> <<[kind |-> "verdict", arg |-> verdict], [kind |-> "recommend", arg |-> verdict]>>]
\* What the conditions of RuleConditions mean in Context(code).
Meaning(e, code) ==
  LET Plain(a) == CASE a = <<"field", "exit_code">> -> code # "0"
                    [] a[1] \in {"==", "any_fact", "stderr_contains"} -> TRUE
                    [] OTHER -> FALSE
  IN IF e[1] = "not" THEN ~Plain(e[2]) ELSE Plain(e)

\* The rules that are enabled and hold are the hits, whatever their order; each
\* recommends, and the verdict is that of one with the greatest number for its
\* priority.
RulesSound(rules, code) ==
  LET out == R!evaluate_rules(Context(code), rules)
      hits == {k \in 1..Len(rules) : rules[k].enabled /\ Meaning(rules[k].expr, code)}
  IN /\ out.hits = Cardinality(hits) /\ Len(out.recommendations) = out.hits
     /\ IF hits = {} THEN out.verdict = "none"
        ELSE \E k \in hits : /\ rules[k].actions[1].arg = out.verdict
                             /\ \A j \in hits : rules[j].priority <= rules[k].priority

Modes == [x |-> "single", y |-> "multi"]
\* Of a key that is single the last of its surest facts is kept, of another all are,
\* and none that is not sure enough.
FactsSound(facts) ==
  LET kept == F!normalize_with_config(facts, Modes, F!DefaultThreshold)
      First(k) == CHOOSE j \in 1..k : facts[j].key = facts[k].key /\ \A i \in 1..j - 1 : facts[i].key # facts[k].key
      Beaten(k) == \E j \in 1..Len(facts) :
        /\ facts[j].key = facts[k].key /\ facts[j].confidence >= facts[k].confidence
        /\ facts[j].confidence > facts[k].confidence \/ j > k
  IN kept = {facts[k] : k \in {j \in 1..Len(facts) : /\ facts[j].confidence >= F!DefaultThreshold
                                                     /\ Modes[facts[First(j)].source] = "multi" \/ ~Beaten(j)}}

\* Enrichers of the pipeline: a pattern that compiles or not, one extractor of each
\* type, two of one key.
Extractor(id, type, valid, key, mode) ==
  [id |-> id, type |-> type, valid |-> valid, matches |-> {"built", "out.jar"}, groups |-> <<key>>,
   fact_key |-> key, merge_mode |-> mode]
Enricher(id, enabled, valid, mode) ==
  [id |-> id, enabled |-> enabled, patterns |-> <<[valid |-> valid, matches |-> {"mvn"}]>>,
   extractors |-> <<Extractor("r1", "regex", TRUE, "build_status", mode), Extractor("r2", "regex", FALSE, "tests_run", mode),
                    Extractor("g", "glob", TRUE, "artifact", mode), Extractor("c", "command", TRUE, "x", mode)>>]
\* An enricher is used only when it is enabled and a pattern of it that compiles
\* matches; what its broken extractor would find is not reported, an artifact is
\* reported for a file that is there, and stderr counts only without stdout.
PipelineSound(es, result, files) ==
  LET context == F!run_pipeline(es, result, files, <<>>)
      usable == {k \in 1..Len(es) : es[k].enabled /\ es[k].patterns[1].valid /\ result.command = "mvn"}
  IN IF usable = {} THEN context = F!EmptyContext
     ELSE /\ context.enricher = es[Min(usable)].id /\ ~context.tests
          /\ context.status = {t \in {"built"} : IF result.stdout = "" THEN t = result.stderr ELSE t = result.stdout}
          /\ {f.value : f \in context.artifacts} \subseteq files
          /\ (context.artifacts = {}) = (files \cap {"out.jar"} = {})

------------------------------------------------------------------------------
\* Runs, as the report and the metrics see them.

RunsOf(r) == [k \in 1..r.runs |-> [enricher |-> "e", duration_ms |-> r.latency, artifacts |-> IF k <= r.yields THEN 1 ELSE 0,
                                   diagnostics |-> IF r.diagnoses THEN 1 ELSE 0, rule_hits |-> 0, error |-> FALSE]]
\* Nothing but a review is recommended on fewer than eight runs; an enricher that
\* always yields artifacts is never to be removed or put last, one to be removed
\* yields them in less than two runs of five; and a run with artifacts in the place
\* of one without never lowers the score.
ReportSound(r) ==
  LET Score(y) == F!generate_report(RunsOf([r EXCEPT !.yields = y]))["e"]
      score == Score(r.yields)
  IN /\ score.utility \in 0..F!One
     /\ r.runs < 8 => score.action = "Review"
     /\ r.yields = r.runs => score.action \in {"Keep", "Review"}
     /\ score.action = "Remove" => 5 * r.yields < 2 * r.runs
     /\ r.yields < r.runs => Score(r.yields + 1).utility >= score.utility

Capacity == 2
\* The number of recent runs is that of the runs in the window, as far as they are
\* kept; gaps are the seconds between runs.
MetricsSound(gaps) ==
  LET At(k) == FoldLeft(LAMBDA a, b : a + b, 0, SubSeq(gaps, 1, k))
      kept == FoldLeft(LAMBDA ts, k : F!record_run(ts, At(k), Capacity), <<>>, [k \in 1..Len(gaps) |-> k])
  IN \A later \in {0, F!Window, F!Window + 1} :
       LET now == At(Len(gaps)) + later
       IN F!recent_runs_5min(kept, now) =
            Min({Capacity, Cardinality({k \in 1..Len(gaps) : At(k) >= now - F!Window})})

Shapes == {"--f", "-f", "-x", "-xT", "-D", "-P", "-PT", "-", "word"}
\* From the third token on every token is reported by one fact, except a -x without
\* a task and a bare -P; a task is reported with its -x and nowhere else.
TokensSound(shapes) ==
  LET facts == T!classify(shapes, {"flags", "options", "targets"})
      rest == {k \in 1..Len(facts) : facts[k].key \in {"command_flag", "command_option", "command_target"}}
      Silent(i) == shapes[i] = "-P" \/ (shapes[i] = "-x" /\ ~(i < Len(shapes) /\ shapes[i + 1] = "word"))
  IN /\ \A j, k \in rest : j # k => facts[j].at \cap facts[k].at = {}
     /\ UNION {facts[k].at : k \in rest} = {i \in 3..Len(shapes) : ~Silent(i)}
     /\ \A i \in 3..Len(shapes) - 1 : shapes[i] = "-x" /\ shapes[i + 1] = "word" =>
          \E k \in rest : facts[k] = [key |-> "command_option", at |-> {i, i + 1}]

------------------------------------------------------------------------------
\* Providers, records and doctors.

ProviderFiles == {P!Refused} \cup [name : {"podman", "spare"}, kind : {"podman", "gvisor", "wasm", "lambda"}]
\* Whatever the directory holds, the provider of the command line is the default one
\* and has the command router when podman runs; another is there exactly when the
\* last file with its name that parses is of a kind that can be made.
StartSound(files, options, alive) ==
  LET table == P!start_providers(files, options, alive)
      spare == {k \in 1..Len(files) : files[k] # P!Refused /\ files[k].name = "spare"}
  IN /\ P!default_provider(table) = [kind |-> IF alive THEN "podman" ELSE "null", router |-> alive]
     /\ "spare" \in DOMAIN table <=>
          spare # {} /\ files[Max(spare)].kind \in {"podman", "gvisor"} \cup options
     /\ "spare" \in DOMAIN table => table["spare"].kind = files[Max(spare)].kind
\* Every built-in type has capabilities that are valid and that it supports itself,
\* and an instance of it can be configured.
TypeSound(type, text) ==
  LET c == P!with_builtin_types[type].capabilities
      config == P!new_config(type, text)
  IN /\ c # P!Refused /\ P!supports_all(c, c) /\ P!try_new(c) = c
     /\ \A t \in DOMAIN P!with_builtin_types :
          LET d == P!with_builtin_types[t].capabilities
          IN P!supports_all(c, d) /\ P!supports_all(d, c) => c = d
     /\ (config = P!Refused) = (type \in {"lambda", "local"} /\ P!Blank(text))
     /\ config # P!Refused => /\ P!is_type(config, type)
                              /\ type = "local" => P!is_valid_local(config)
                              /\ type = "lambda" => P!is_valid_lambda(config)

Half == 1
RecordEnds == {<<"running", 0>>, <<"completed", 0>>, <<"completed", 1>>, <<"timed_out", 0>>, <<"cancelled", 0>>}
RecordFrom(end, out, ms) ==
  LET new == [C!NewRecord("r", 1) EXCEPT !.trace = {"t"}]
      ended == CASE end[1] = "running" -> new
                 [] end[1] = "completed" -> C!completed(new, end[2], 1 + ms)
                 [] OTHER -> C!Stopped(new, end[1], 1 + ms)
  IN C!with_output(ended, out, <<>>, Half)
RecordOf(end, out) == RecordFrom(end, out, 2)
AssertionFile(checks) == [id |-> "a", parses |-> TRUE, check |-> <<>>, checks |-> checks]
Found(text) == <<[type |-> "stdout_contains", substring |-> text]>>
Quick(ms) == <<[type |-> "command_duration", max_ms |-> ms]>>
\* An assertion without checks holds for the commands that succeeded and no others;
\* a time limit holds for no command that has not ended, and a text that is found was
\* in the output.  A record is found by its trace, the newest first, and a second one
\* with its id changes nothing.
RecordsSound(end, out) ==
  LET r == RecordOf(end, out)
      later == [C!NewRecord("later", 2) EXCEPT !.trace = {"t"}]
      store == C!save(C!save(C!save(<<>>, r), later), [r EXCEPT !.started = 9])
      Run(checks) == C!assertion_run(C!load_from_dir(<<AssertionFile(<<>>), AssertionFile(checks)>>), store, "a", "r")
  IN /\ Run(<<>>).passed = (r.status = "success") /\ (r.status = "success") = (end = <<"completed", 0>>)
     /\ end[1] = "running" => ~Run(Quick(9)).passed
     /\ end[1] # "running" => Run(Quick(2)).passed /\ ~Run(Quick(1)).passed
     /\ Run(Found("b")).passed => "b" \in ToSet(out)
     /\ Len(out) <= 2 * Half /\ "b" \in ToSet(out) => Run(Found("b")).passed
     /\ C!find_by_trace_id(store, "t") = <<later, r>> /\ C!list_all(store, 1) = <<later>>
     /\ C!doctor_run([d |-> [checks |-> <<[type |-> "assertion_driven", assertion |-> "a"]>>]], "d", "t",
                     [alive |-> {}, pool |-> {}, store |-> store,
                      assertions |-> C!load_from_dir(<<AssertionFile(Quick(2))>>)]).status = "fail"

Severities == {{"critical"}, {}, {"hint"}}
SomeAdvice(id, severity, doctor) ==
  C!AdviceOf([id |-> id, severity |-> severity,
              triggers |-> <<[type |-> "assertion_failed", id |-> "none"], [type |-> "doctor_failed", id |-> doctor]>>])
Failures == [assertions |-> {}, doctors |-> {"d"}, hints |-> {}]
\* What is suggested is the advice for the failures at hand that is not switched off,
\* the most severe first, whatever the order of the registry.
AdviceSound(listed, config) ==
  LET told == C!advice_suggest(listed, config, Failures)
  IN /\ {told[k].id : k \in 1..Len(told)} =
          {a.id : a \in {x \in ToSet(listed) : /\ config.enabled /\ x.id \notin config.disabled
                                               /\ x.triggers[2].id = "d"}}
     /\ \A j, k \in 1..Len(told) : j < k => C!sort_key[told[j].severity] <= C!sort_key[told[k].severity]
     /\ C!advice_suggest(listed, C!advice_configure(C!advice_configure(config, "a1", FALSE, FALSE), "a1", TRUE, FALSE), Failures)
          = C!advice_suggest(listed, [config EXCEPT !.disabled = @ \ {"a1"}], Failures)

\* After a restart the configuration of the advice is the one in use before, when the
\* last change was saved, whatever became of the ones before it.
SettingsSound(file, changes) ==
  LET store == FoldLeft(LAMBDA s, c : C!Configure(s, c.id, c.enabled, c.clear, c.saves), C!AdviceConfigStore(file), changes)
  IN /\ changes # <<>> /\ Last(changes).saves => C!AdviceConfigStore(store.file).memory = store.memory
     /\ (\A k \in 1..Len(changes) : ~changes[k].saves) => store.file = file

CheckTypes == [type : {"exit_code"}, expected : {-1, 0, 1}] \cup [type : {"stdout_contains"}, substring : {"a", Shim!Marked}]
              \cup [type : {"stdout_matches"}, regex : {"a"}] \cup {[type |-> "sandbox_alive"]}
              \cup [type : {"command_duration"}, max_ms : {1, 2, 7, 70}]
\* A check turned into a condition says what it said before, except of a text that is
\* escaped, of a command that ends at its limit, of one that never ended with an exit
\* code and of one that ran for longer than an i32 counts.  It cannot be turned into
\* one when the language lacks the function or the number.
ShimSound(check, r) ==
  LET answer == Shim!evaluate_toml_check(check, r)
      known == Shim!evaluate_assertion_check_with_cel(check, r, <<>>)
      driven == Shim!evaluate_doctor_check([type |-> "assertion_driven", assertion |-> "a"], r,
                                        C!load_from_dir(<<AssertionFile(<<check>>)>>))
      Known == {"exit_code", "stdout_contains", "command_duration"}
      Wide == \/ check.type = "exit_code" /\ check.expected < 0
              \/ check.type = "command_duration" /\ check.max_ms > R!MaxI32
      Parted == \/ check.type = "exit_code" /\ check.expected = 0 /\ r.exit_code = {}
                \/ check.type = "stdout_contains" /\ check.substring = Shim!Marked /\ Shim!Marked \in ToSet(r.out)
                \/ check.type = "command_duration" /\ C!duration_ms(r) \cap ({check.max_ms} \cup {d \in ToSet(Values) : d > R!MaxI32}) # {}
  IN /\ ("error" \in DOMAIN answer) = (check.type \notin Known \/ Wide)
     /\ "error" \notin DOMAIN answer => answer.matches \/ Parted
     /\ known.matches /\ driven.matches /\ driven.cel = C!evaluate(check, r)
\* A trigger turned into a condition fires for the failures that it fired for, when
\* there is one fact for each and its threshold is not 0.
TriggersSound(t, failed, hints) ==
  LET facts == [k \in 1..Cardinality(failed) |-> [key |-> SetToSeq(failed)[k], value |-> "failed"]]
               \o [k \in 1..hints |-> [key |-> <<"experience", "run", "failure">>, value |-> "1"]]
      context == [assertions |-> {f[2] : f \in {x \in failed : x[1] = "assertion"}},
                  doctors |-> {f[2] : f \in {x \in failed : x[1] = "doctor"}},
                  hints |-> IF hints = 0 THEN {} ELSE {[tool |-> "run", status |-> "failure", count |-> hints]}]
  IN t.type # "experience_pattern" \/ t.threshold > 0 =>
       Shim!evaluate_advice_trigger(t, facts).cel = C!trigger_matches(t, context)

Vocabulary == {"mvn", "mavenw", "gradlew", "pnpm", "python", "pip3", "cargo", "go", "golang", "django", "rake", "asdf", "nuget", "php", "xyz"}
\* The template is one that a word of the task asks for; a keyword alone gets the
\* template of a rule that lists it, and a word more never lowers the confidence.
TemplateSound(words) ==
  LET told == O!recommend(words)
      Asked(w) == {O!rules[k].template : k \in {j \in DOMAIN O!rules : \E kw \in O!rules[j].keywords : O!contains(w, kw)}}
      Listed(w) == {O!rules[k].template : k \in {j \in DOMAIN O!rules : w \in O!rules[j].keywords}}
      asked == UNION {Asked(w) : w \in ToSet(words)}
  IN /\ IF asked = {} THEN told = O!fallback ELSE told.template \in asked /\ told.confidence > O!fallback.confidence
     /\ Len(words) = 1 /\ Listed(words[1]) # {} => told.template \in Listed(words[1])
     /\ words # <<>> => O!recommend(Front(words)).confidence <= told.confidence
\* There is room for as many sandboxes as are idle, unless the sum wraps, and for the
\* number that is advised.
RoomSound(pool, count) ==
  LET answer == O!sandbox_capacity_check(pool, count)
  IN /\ \A s \in pool : s.active + count <= O!MaxU32 => answer.available = (count <= s.idle)
     /\ pool = {} => answer.available
     /\ O!sandbox_capacity_check(pool, answer.advised).available

HostChecks == {[type |-> "binary_available", name |-> "runsc", path |-> {"/usr/bin"}], [type |-> "kvm_available"],
               [type |-> "worker_binary_valid"], [type |-> "provider_alive", provider |-> "podman"],
               [type |-> "aliveness", sandbox |-> {}]}
Hosts == [daemons : SUBSET {"podman"}, binaries : [{"runsc"} -> {{}, {"/opt"}, {"/usr/bin"}}],
          kvm : {[exists |-> b, accessible |-> b, cpu |-> b, nested |-> FALSE] : b \in BOOLEAN},
          worker : {[built |-> FALSE, in_path |-> b, executable |-> b, starts |-> b] : b \in BOOLEAN}]
\* A provider is ready when no check of its doctor fails or warns; it is never ready
\* where the checks of the infrastructure find the binary or the worker missing; a
\* check it lists twice changes nothing, and only a failure offers commands to run.
ReadinessSound(checks, host) ==
  LET Ready(cs) == C!run_provider_readiness_check([d |-> [checks |-> cs]], "d", host)
      answer == Ready(checks)
      Wants(type) == \E c \in ToSet(checks) : c.type = type
  IN /\ answer.status = "pass" => /\ \A c \in ToSet(checks) : c.type = "binary_available" => C!InfraBinary(c, host) = "pass"
                                  /\ Wants("worker_binary_valid") => C!InfraWorker(host) = "pass"
                                  /\ Wants("provider_alive") => C!InfraAlive("podman", host) = "pass"
     /\ Ready(checks \o checks).status = answer.status
     /\ answer.fixable => answer.status = "fail"
     /\ \A k \in 1..Len(checks) : Ready(RemoveAt(checks, k)).status = "fail" => answer.status = "fail"

------------------------------------------------------------------------------
Inputs ==
  {[kind |-> "rule", expr |-> e] : e \in Conditions}
  \cup {[kind |-> "name", name |-> B!Factory(t, B!Text(ps, pad))] :
          t \in B!Types, ps \in UpTo({"a", ""}, 2) \ {<<>>}, pad \in BOOLEAN}
  \cup {[kind |-> "location", location |-> B!Location(k, "p", c)] :
          k \in {"Local", "Remote", "PreBakedInImage"}, c \in {"none", "sum"}}
  \cup {[kind |-> "words", words |-> ws] : ws \in UpTo(UpTo({"a", "sp", "\"", "\\"}, 2), 2) \cup {<<<<"a">>, <<>>, <<"a">>>>}}
  \cup {[kind |-> "text", text |-> <<>>]}
  \cup {[kind |-> "rules", code |-> c, rules |-> <<SomeRule(d, p, TRUE, "v1"), SomeRule(e, q, b, "v2")>>] :
          c \in {"0", "1"}, d \in RuleConditions, e \in RuleConditions, p \in 0..MaxPriority, q \in 0..MaxPriority, b \in BOOLEAN}
  \cup {[kind |-> "facts", facts |-> [k \in 1..Len(fs) |-> F!Fact(fs[k][1], k, fs[k][2], fs[k][3])]] :
          fs \in UpTo({"k1", "k2"} \X {"x", "y"} \X {3, 5, 8}, 3)}
  \cup {[kind |-> "pipeline", es |-> <<Enricher("e1", a, b, m), Enricher("e2", c, TRUE, m)>>, made |-> fs,
         result |-> [command |-> "mvn", stdout |-> o, stderr |-> "built"]] :
          a \in BOOLEAN, b \in BOOLEAN, c \in BOOLEAN, m \in {"single", "multi"},
          fs \in SUBSET {"out.jar", "x"}, o \in {"", "built", "else"}}
  \cup {[kind |-> "runs", runs |-> n, yields |-> y, diagnoses |-> d, latency |-> l] :
          n \in 1..MaxRuns, y \in 0..MaxRuns, d \in BOOLEAN, l \in {0, 2500, 6000}}
  \cup {[kind |-> "rows", rows |-> rs, age |-> a, most |-> m] :
          rs \in SUBSET [id : 1..2, ts : 1..3], a \in 0..2, m \in 0..2}
  \cup {[kind |-> "gaps", gaps |-> gs] : gs \in UpTo({0, 100, F!Window, F!Window + 1}, 3)}
  \cup {[kind |-> "shapes", shapes |-> ss] : ss \in UpTo(Shapes, 4)}
  \cup {[kind |-> "start", files |-> fs, options |-> os, alive |-> b] :
          fs \in UpTo(ProviderFiles, 2), os \in SUBSET {"wasm"}, b \in BOOLEAN}
  \cup {[kind |-> "type", type |-> t, filled |-> x] : t \in DOMAIN P!with_builtin_types, x \in {" ", "x"}}
  \cup {[kind |-> "record", end |-> e, out |-> o] : e \in RecordEnds, o \in UpTo({"a", "b"}, 3)}
  \cup {[kind |-> "advice", listed |-> <<SomeAdvice("a1", s, "d"), SomeAdvice("a2", t, d)>>, config |-> [enabled |-> b, disabled |-> off]] :
          s \in Severities, t \in Severities, d \in {"d", "other"}, b \in BOOLEAN, off \in SUBSET {"a1", "a2"}}
  \cup {[kind |-> "settings", file |-> f, changes |-> cs] :
          f \in {{}} \cup {{[enabled |-> e, disabled |-> d]} : e \in {{}, {FALSE}}, d \in {{}, {{"a1"}}}},
          cs \in UpTo([id : {"global", "a1"}, enabled : BOOLEAN, clear : BOOLEAN, saves : BOOLEAN], 2)}
  \cup {[kind |-> "shim", check |-> c, record |-> RecordFrom(e, o, t)] :
          c \in CheckTypes, e \in RecordEnds, o \in {<<"a">>, <<Shim!Marked>>, <<>>}, t \in {2, 70}}
  \cup {[kind |-> "trigger", trigger |-> t, failed |-> fs, hints |-> n] :
          t \in {[type |-> "assertion_failed", id |-> "a"], [type |-> "doctor_failed", id |-> "a"]}
                 \cup [type : {"experience_pattern"}, tool : {"run"}, status : {"failure"}, threshold : 0..2],
          fs \in SUBSET ({"assertion", "doctor"} \X {"a", "b"}), n \in 0..2}
  \cup {[kind |-> "task", words |-> ws] : ws \in UpTo(Vocabulary, 2)}
  \cup {[kind |-> "room", pool |-> p, count |-> n] :
          p \in {{}} \cup {{s} : s \in [active : {0, 1, 5}, idle : {0, 2}]}, n \in {0, 1, 2, 3, O!MaxU32}}
  \cup {[kind |-> "ready", checks |-> cs, host |-> h] : cs \in UpTo(HostChecks, 2), h \in Hosts}

Init == input \in {i \in Inputs : i.kind = "runs" => i.yields <= i.runs}
\* The next piece of a command's text.
Grow == /\ input.kind = "text" /\ Len(input.text) < MaxPieces
        /\ \E p \in Pieces : CanFollow(input.text, p) /\ input' = [input EXCEPT !.text = Append(@, p)]
Next == Grow

\* What the enrichment finds in a command and its output, keeps of its runs and scores
\* them with follows from what was seen, each part as stated above.
ReportsSound ==
  CASE input.kind = "rules" -> RulesSound(input.rules, input.code)
    [] input.kind = "facts" -> FactsSound(input.facts)
    [] input.kind = "pipeline" -> PipelineSound(input.es, input.result, input.made)
    [] input.kind = "shapes" -> TokensSound(input.shapes)
    [] input.kind = "runs" -> ReportSound(input)
    [] input.kind = "rows" -> D!CleanupSound(input.rows, 3, input.age, input.most)
    [] input.kind = "gaps" -> MetricsSound(input.gaps)
    [] OTHER -> TRUE

=============================================================================
