------------------------------ MODULE Catalog ------------------------------
(* Experience records and their store, the assertions checked against them,  *)
(* the advice that failures call up, and the doctors: the ones a tool runs   *)
(* on a sandbox and the one that sandbox_create asks whether a provider is   *)
(* ready.  A value that may be missing is a set of at most one.              *)
EXTENDS Integers, Sequences, SequencesExt

------------------------------------------------------------------------------
\* Experience records.
NewRecord(id, now) ==
  [id |-> id, trace |-> {}, started |-> now, finished |-> {}, exit_code |-> {},
   out |-> <<>>, err |-> <<>>, status |-> "failure"]
completed(r, code, now) ==
  [r EXCEPT !.exit_code = {code}, !.finished = {now},
            !.status = IF code = 0 THEN "success" ELSE "failure"]
\* timed_out and cancelled: an end without an exit code.
Stopped(r, status, now) == [r EXCEPT !.status = status, !.finished = {now}]
duration_ms(r) == {f - r.started : f \in r.finished}
\* What is kept of an output: all of it, or its head and its tail.
summarize_output(text, half) ==
  IF Len(text) <= 2 * half THEN text
  ELSE SubSeq(text, 1, half) \o <<"[truncated]">> \o SubSeq(text, Len(text) - half + 1, Len(text))
with_output(r, out, err, half) ==
  [r EXCEPT !.out = summarize_output(out, half), !.err = summarize_output(err, half)]

\* The table has one row for each id; a second insert is an error.
save(store, r) == IF \E x \in ToSet(store) : x.id = r.id THEN store ELSE Append(store, r)
find_by_id(store, id) == {r \in ToSet(store) : r.id = id}
NewestFirst(rows) == SortSeq(rows, LAMBDA a, b : a.started > b.started)
find_by_trace_id(store, trace) == NewestFirst(SelectSeq(store, LAMBDA r : r.trace = {trace}))
list_all(store, limit) ==
  LET rows == NewestFirst(store) IN SubSeq(rows, 1, IF Len(rows) < limit THEN Len(rows) ELSE limit)

------------------------------------------------------------------------------
\* Assertions.
ExitIs(code) == [type |-> "exit_code", expected |-> code]
\* A regular expression and the aliveness of the sandbox are not looked at here.
evaluate(check, r) ==
  CASE check.type = "exit_code" -> r.exit_code = {check.expected}
    [] check.type = "stdout_contains" -> check.substring \in ToSet(r.out)
    [] check.type = "stderr_contains" -> check.substring \in ToSet(r.err)
    [] check.type = "command_duration" -> \E d \in duration_ms(r) : d <= check.max_ms
    [] OTHER -> TRUE
Passes(assertion, r) == \A c \in ToSet(assertion.checks) : evaluate(c, r)
\* The check of the old form of a file, then the ones of the new form; without any, exit code 0.
AssertionOf(file) ==
  [id |-> file.id,
   checks |-> IF file.check \o file.checks = <<>> THEN <<ExitIs(0)>> ELSE file.check \o file.checks]

\* A registry loads the files of a directory that parse; of two with one id the later stays.
load_from_dir(files) ==
  LET parsed == SelectSeq(files, LAMBDA f : f.parses)
  IN  [id \in {f.id : f \in ToSet(parsed)} |-> parsed[CHOOSE i \in DOMAIN parsed :
         parsed[i].id = id /\ \A j \in i + 1 .. Len(parsed) : parsed[j].id # id]]
get(registry, id) == IF id \in DOMAIN registry THEN {registry[id]} ELSE {}

\* The tool: the assertion is looked up before the record.
assertion_run(registry, store, assertion, id) ==
  IF get(registry, assertion) = {} THEN [error |-> "no assertion"]
  ELSE IF find_by_id(store, id) = {} THEN [error |-> "no experience"]
  ELSE LET r == CHOOSE r \in find_by_id(store, id) : TRUE
       IN  [passed |-> Passes(AssertionOf(registry[assertion]), r)]

------------------------------------------------------------------------------
\* Advice.
sort_key == [critical |-> 0, warning |-> 1, hint |-> 2]
trigger_matches(t, context) ==
  CASE t.type = "assertion_failed" -> t.id \in context.assertions
    [] t.type = "doctor_failed" -> t.id \in context.doctors
    [] t.type = "experience_pattern" ->
         \E h \in context.hints : h.tool = t.tool /\ h.status = t.status /\ h.count >= t.threshold
\* A file without a severity is a warning.
AdviceOf(file) ==
  [id |-> file.id, triggers |-> file.triggers,
   severity |-> IF file.severity = {} THEN "warning" ELSE CHOOSE s \in file.severity : TRUE]
FirstTrigger(advice, context) ==
  SelectInSeq(advice.triggers, LAMBDA t : trigger_matches(t, context))
\* The registry is listed in any order, and the sort keeps it among equals.
advice_suggest(listed, config, context) ==
  IF ~config.enabled THEN <<>>
  ELSE LET matching == SelectSeq(listed, LAMBDA a : a.id \notin config.disabled /\ FirstTrigger(a, context) # 0)
       IN  SortSeq([i \in DOMAIN matching |->
                      [id |-> matching[i].id, severity |-> matching[i].severity,
                       by |-> matching[i].triggers[FirstTrigger(matching[i], context)]]],
                   LAMBDA a, b : sort_key[a.severity] < sort_key[b.severity])
advice_list(listed, config) ==
  IF config.enabled THEN SelectSeq(listed, LAMBDA a : a.id \notin config.disabled) ELSE <<>>
\* "global" changes the flag, or empties the list whatever the flag asked for.
advice_configure(config, id, enabled, clear) ==
  CASE id = "global" /\ clear -> [config EXCEPT !.disabled = {}]
    [] id = "global" /\ ~clear -> [config EXCEPT !.enabled = enabled]
    [] OTHER -> [config EXCEPT !.disabled = IF enabled THEN @ \ {id} ELSE @ \cup {id}]

default_enabled == [enabled |-> TRUE, disabled |-> {}]
\* A file that is missing or does not parse is the default; the fields it leaves out are too.
load_config(file) ==
  IF file = {} THEN default_enabled
  ELSE LET settings == CHOOSE f \in file : TRUE
       IN  [enabled |-> settings.enabled # {FALSE}, disabled |-> UNION settings.disabled]
\* The whole configuration is written to a new file that then replaces the old one.
save_config(config) == {[enabled |-> {config.enabled}, disabled |-> {config.disabled}]}
AdviceConfigStore(file) == [memory |-> load_config(file), file |-> file]
\* advice_configure on the store: the change is made in memory before the save, and
\* stays there when the save fails.
Configure(store, id, enabled, clear, saves) ==
  LET config == advice_configure(store.memory, id, enabled, clear)
  IN  [memory |-> config, file |-> IF saves THEN save_config(config) ELSE store.file]

------------------------------------------------------------------------------
\* Doctors run on a sandbox.  The world: which sandboxes answer that they live, the
\* statistics of the pool if there is one, the assertions and the records.
AlivenessHolds(check, sandbox, world) ==
  (IF check.sandbox = {} THEN sandbox ELSE CHOOSE s \in check.sandbox : TRUE) \in world.alive
ResourcesHold(check, world) ==
  \E stats \in world.pool : /\ \A m \in check.max_total : stats.total <= m
                            /\ \A m \in check.max_idle : \A i \in stats.idle : i <= m
\* The newest record whose trace id is the sandbox's id.
AssertionHolds(check, sandbox, world) ==
  LET found == find_by_trace_id(world.store, sandbox)
  IN  /\ get(world.assertions, check.assertion) # {} /\ found # <<>>
      /\ Passes(AssertionOf(world.assertions[check.assertion]), found[1])
\* Checks of the host are not supported here and fail.
run_doctor_check(check, sandbox, world) ==
  CASE check.type = "aliveness" -> AlivenessHolds(check, sandbox, world)
    [] check.type = "resources" -> ResourcesHold(check, world)
    [] check.type = "assertion_driven" -> AssertionHolds(check, sandbox, world)
    [] OTHER -> FALSE
finalize(results) == IF results = <<>> THEN "skip" ELSE IF FALSE \in ToSet(results) THEN "fail" ELSE "pass"
doctor_run(registry, id, sandbox, world) ==
  IF get(registry, id) = {} THEN [error |-> "no doctor"]
  ELSE LET checks == registry[id].checks
           results == [i \in DOMAIN checks |-> run_doctor_check(checks[i], sandbox, world)]
       IN  [status |-> finalize(results), results |-> results]

------------------------------------------------------------------------------
\* The readiness of a provider, asked before a sandbox is created.  The host: the
\* daemons that answer, the path of each binary found, the state of /dev/kvm, the
\* providers that list their sandboxes, the worker binary, and capabilities.
eval_provider_alive(provider, host) == IF provider \in host.daemons THEN "pass" ELSE "fail"
eval_binary_available(check, host) ==
  LET found == host.binaries[check.name]
  IN  CASE found = {} -> "fail"
        [] found # {} /\ check.path \subseteq found -> "pass"
        [] OTHER -> "warning"
\* accessible: some permission bit is set, whoever asks.
eval_kvm_available(host) == IF host.kvm.exists /\ host.kvm.accessible THEN "pass" ELSE "fail"
eval_image_available(check, host) == IF check.provider \in host.lists THEN "pass" ELSE "fail"
eval_worker_binary_valid(host) == IF host.worker.built \/ host.worker.in_path THEN "pass" ELSE "fail"
eval_capabilities_met(check, host) ==
  IF /\ \A m \in check.memory : host.memory >= m
     /\ \A m \in check.cpus : host.cpus >= m THEN "pass" ELSE "fail"
\* A check of another kind is skipped.
evaluate_check(check, host) ==
  CASE check.type = "provider_alive" -> eval_provider_alive(check.provider, host)
    [] check.type = "binary_available" -> eval_binary_available(check, host)
    [] check.type = "kvm_available" -> eval_kvm_available(host)
    [] check.type = "image_available" -> eval_image_available(check, host)
    [] check.type = "worker_binary_valid" -> eval_worker_binary_valid(host)
    [] check.type = "capabilities_met" -> eval_capabilities_met(check, host)
    [] check.type = "config_valid" -> "pass"
    [] OTHER -> "skip"
\* Checks whose failure comes with commands that can be run.
SelfRemediable(check, status) ==
  status = "fail" /\ check.type \in {"binary_available", "kvm_available", "worker_binary_valid"}
\* A provider without a doctor is ready.  A failure wins over a warning, which is an error.
run_provider_readiness_check(registry, id, host) ==
  LET checks == IF get(registry, id) = {} THEN <<>> ELSE registry[id].checks
      results == [i \in DOMAIN checks |-> evaluate_check(checks[i], host)]
      status == CASE "fail" \in ToSet(results) -> "fail"
                  [] "fail" \notin ToSet(results) /\ "warning" \in ToSet(results) -> "error"
                  [] OTHER -> "pass"
  IN  [status |-> status, results |-> results, attention |-> status # "pass",
       fixable |-> \E i \in DOMAIN checks : SelfRemediable(checks[i], results[i])]

\* The same checks of the infrastructure crate: there is no warning, every delta fails.
InfraBinary(check, host) ==
  LET found == host.binaries[check.name]
  IN  IF found # {} /\ check.path \subseteq found THEN "pass" ELSE "fail"
InfraKvm(host) == IF host.kvm.exists /\ host.kvm.cpu /\ host.kvm.nested THEN "pass" ELSE "fail"
\* Only two daemons are known.
InfraAlive(provider, host) ==
  IF provider \in {"podman", "docker"} /\ provider \in host.daemons THEN "pass" ELSE "fail"
\* Container engines pull what they lack.
InfraImage(check, host) ==
  IF check.provider \in {"podman", "docker"} \/ check.provider \in host.images THEN "pass" ELSE "fail"
\* It exists, may be executed and can be started, whatever it exits with.
InfraWorker(host) ==
  IF host.worker.in_path /\ host.worker.executable /\ host.worker.starts THEN "pass" ELSE "fail"
=============================================================================
