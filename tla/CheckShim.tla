----------------------------- MODULE CheckShim -----------------------------
(* Checks, doctors and advice triggers as conditions of the rule language,   *)
(* and the comparison of the two ways to evaluate them.  A condition is the  *)
(* lexemes of its text, <<>> when there is none; the key of a fact is the    *)
(* pair of its prefix and the rest.                                          *)
EXTENDS Integers, Sequences, SequencesExt

CONSTANTS Num(_), IntBits, MaxPriority  \* as in Rules
CONSTANT Show  \* the text of a number

R == INSTANCE Rules
C == INSTANCE Catalog

Name(text) == [class |-> "word", text |-> text]
Mark(text) == [class |-> "punct", text |-> text]
Quote(text) == [class |-> "quoted", text |-> text]
\* A sign is no token of the language.
Number(n) == IF n < 0 THEN <<[class |-> "illegal"], [class |-> "digits", n |-> -n]>>
             ELSE <<[class |-> "digits", n |-> n]>>
CallOf(name, argument) == <<Name(name), Mark("(")>> \o argument \o <<Mark(")")>>
FactIs(prefix, id, value) == CallOf("fact", <<Quote(<<prefix, id>>)>>) \o <<Mark("=="), Quote(value)>>

Marked == "it's"  \* stands for the texts with a quote or a backslash
\* The lexer reads over the backslash that is put before them, and keeps it.
escape_cel_string(text) == IF text = Marked THEN "it\\'s" ELSE text
\* TomlCheck::to_cel_condition
CheckCondition(check) ==
  CASE check.type = "exit_code" -> <<Name("exit_code"), Mark("==")>> \o Number(check.expected)
    [] check.type \in {"stdout_contains", "stderr_contains"} ->
         CallOf(check.type, <<Quote(escape_cel_string(check.substring))>>)
    [] check.type = "stdout_matches" -> CallOf("stdout_matches", <<Quote(check.regex)>>)
    [] check.type = "command_duration" -> CallOf("duration_lt", Number(check.max_ms))
    [] check.type = "sandbox_alive" -> <<>>
\* TomlDoctorCheck::to_cel_condition
DoctorCondition(check) ==
  IF check.type = "assertion_driven" THEN FactIs("assertion", check.assertion, "passed") ELSE <<>>
\* TomlTrigger::to_cel_condition
TriggerCondition(t) ==
  CASE t.type = "assertion_failed" -> FactIs("assertion", t.id, "failed")
    [] t.type = "doctor_failed" -> FactIs("doctor", t.id, "failed")
    [] t.type = "experience_pattern" ->
         CallOf("count_fact", <<Quote(<<"experience", t.tool, t.status>>), Mark(","), Quote(">="), Mark(",")>>
                              \o Number(t.threshold))

------------------------------------------------------------------------------
\* A record without an exit code has code 0, one without an end the longest duration,
\* and a duration keeps its low bits only.
ContextOf(r, facts) ==
  [field |-> [exit_code |-> Show[R!The(r.exit_code, 0)],
              duration_ms |-> Show[R!The({R!AsI32(d) : d \in C!duration_ms(r)}, R!MaxI32)],
              timed_out |-> IF r.status = "timed_out" THEN "true" ELSE "false",
              stdout |-> "out", stderr |-> "err"],
   facts |-> facts, Show |-> Show,
   Contains |-> ({"out"} \X ToSet(r.out)) \cup ({"err"} \X ToSet(r.err))]
TriggerContext(facts) ==
  [field |-> [exit_code |-> Show[0], duration_ms |-> Show[0], timed_out |-> "false", stdout |-> "", stderr |-> ""],
   facts |-> facts, Show |-> Show, Contains |-> {}]

Error(kind) == [error |-> kind]
Compared(legacy, cel) == [legacy |-> legacy, cel |-> cel, matches |-> legacy = cel]
\* The rule language's answer next to the one of the legacy path.
Against(legacy, ctx, condition) ==
  LET e == R!parse(R!tokenize(condition))
  IN  IF e = R!Failed.expr THEN Error("CelParse") ELSE Compared(legacy, R!evaluate(ctx, e))

evaluate_toml_check(check, r) ==
  IF CheckCondition(check) = <<>> THEN Error("NoCelCondition")
  ELSE Against(C!evaluate(check, r), ContextOf(r, <<>>), CheckCondition(check))
\* Without a condition the legacy answer stands for both.
evaluate_assertion_check_with_cel(check, r, condition) ==
  IF condition = <<>> THEN Compared(C!evaluate(check, r), C!evaluate(check, r))
  ELSE Against(C!evaluate(check, r), ContextOf(r, <<>>), condition)
\* The fact that the condition reads is made from the legacy answer.
evaluate_doctor_check(check, r, assertions) ==
  CASE DoctorCondition(check) = <<>> -> Compared(TRUE, TRUE)
    [] check.type = "assertion_driven" /\ C!get(assertions, check.assertion) = {} -> Error("LegacyEval")
    [] OTHER -> LET legacy == C!Passes(C!AssertionOf(assertions[check.assertion]), r)
                    fact == [key |-> <<"assertion", check.assertion>>, value |-> IF legacy THEN "passed" ELSE "failed"]
                IN  Against(legacy, ContextOf(r, <<fact>>), DoctorCondition(check))
\* There is no other way to evaluate a trigger.
evaluate_advice_trigger(t, facts) ==
  LET answer == Against(TRUE, TriggerContext(facts), TriggerCondition(t))
  IN  IF "error" \in DOMAIN answer THEN answer ELSE Compared(answer.cel, answer.cel)
=============================================================================
