----------------------------- MODULE TextPasses -----------------------------
(* The passes over the text of a command: what is taken out of it before it  *)
(* is stored, how it is cut, and how it is read as an executable, a goal,    *)
(* flags, options and targets.                                               *)
EXTENDS Integers, Sequences, SequencesExt, FiniteSetsExt

------------------------------------------------------------------------------
\* Redaction.  A text is a sequence of pieces: blanks and punctuation, the marks
\* that announce a secret, words "w" and parts of secrets "s".  A key stands for
\* every key of its family: "token=" for token=, password=, api_key=; "db_key=" for
\* lower-case keys that end in _key, _token, _secret, _password; "KEY=" for
\* upper-case ones; "--secret" for that flag and --api-key.

Redacted == "[REDACTED]"
Quotes == {"'", "\""}
Delimiters == Quotes \cup {"sp", ",", "&"}
SecretPrefixes == {"AKIA", "ghp_", "sk-", "eyJ"}
MinBody == 2  \* parts that must follow a prefix (4, 8, 16 or 48 characters, two dots)
MaxJwt == 3   \* parts beyond which an eyJ is no token (1200 characters)

\* The first place from i on where a stop is, or the end.
Until(text, i, stops) ==
  LET found == {j \in i..Len(text) : text[j] \in stops}
  IN IF found = {} THEN Len(text) + 1 ELSE Min(found)
\* The place after the quote that closes the one at i.
PastQuoted(text, i) == Min({Until(text, i + 1, {text[i]}) + 1, Len(text) + 1})
QuoteAt(text, i) == i <= Len(text) /\ text[i] \in Quotes

\* Mutant: the value ends at the quote that opens it.
PlainValue(text, i) == Until(text, i, Delimiters)
\* token=, password=, api_key=: to a delimiter, and over a quoted part that begins
\* there.
check_assignment_pattern(text, i) ==
  LET end == Until(text, i, Delimiters)
  IN IF QuoteAt(text, end) THEN PastQuoted(text, end) ELSE end
\* Lower-case keys: a quoted value, or to a delimiter.
check_lowercase_secret_suffix(text, i) ==
  IF QuoteAt(text, i) THEN PastQuoted(text, i) ELSE Until(text, i, Delimiters)
\* Upper-case keys: to a delimiter; quotes are not looked into.
check_snake_key_pattern(text, i) == Until(text, i, Delimiters)
\* After "Bearer ": to a blank or a single quote, and over the blanks behind.
check_bearer_pattern(text, i) ==
  LET end == Until(text, i, {"sp", "'"})
      after == {j \in end..Len(text) : text[j] # "sp"}
  IN IF after = {} THEN Len(text) + 1 ELSE Min(after)
check_cli_secret_flag(text, i) == Until(text, i, {"sp"})
\* Secrets known by their prefix: where each ends, if its body is long enough.
Body(i, end) == IF end - (i + 1) >= MinBody THEN {end} ELSE {}
check_aws_key_pattern(text, i) == Body(i, Until(text, i + 1, Delimiters \ {"&"}))
check_openai_key(text, i) == Body(i, Until(text, i + 1, Delimiters))
\* Letters and digits only.
check_github_token(text, i) ==
  Body(i, Min({j \in i + 1..Len(text) : text[j] \notin {"w", "s"}} \cup {Len(text) + 1}))
\* To a blank, and not too long.
check_jwt_prefix(text, i) == {e \in Body(i, Until(text, i + 1, {"sp"})) : e - (i + 1) <= MaxJwt}
PrefixedEnd(text, i) ==
  CASE text[i] = "AKIA" -> check_aws_key_pattern(text, i) [] text[i] = "ghp_" -> check_github_token(text, i)
    [] text[i] = "sk-" -> check_openai_key(text, i) [] text[i] = "eyJ" -> check_jwt_prefix(text, i)
    [] OTHER -> {}
Announced(text, i) == i < Len(text) /\ text[i + 1] = "sp"

\* What is written for the text at i, and where to go on.
Scan(text, i) ==
  CASE text[i] = "token=" -> [out |-> <<"token=", Redacted>>, next |-> check_assignment_pattern(text, i + 1)]
    [] text[i] = "Bearer" /\ Announced(text, i) ->
         [out |-> <<"Bearer", "sp", Redacted>>, next |-> check_bearer_pattern(text, i + 2)]
    [] PrefixedEnd(text, i) # {} -> [out |-> <<Redacted>>, next |-> Min(PrefixedEnd(text, i))]
    [] text[i] = "--secret" /\ Announced(text, i) ->
         [out |-> <<"--secret", "sp", Redacted>>, next |-> check_cli_secret_flag(text, i + 2)]
    [] text[i] = "KEY=" -> [out |-> <<"KEY=", Redacted>>, next |-> check_snake_key_pattern(text, i + 1)]
    [] text[i] = "db_key=" -> [out |-> <<"db_key=", Redacted>>, next |-> check_lowercase_secret_suffix(text, i + 1)]
    [] OTHER -> [out |-> <<text[i]>>, next |-> i + 1]
RECURSIVE SanitizeFrom(_, _)
SanitizeFrom(text, i) ==
  IF i > Len(text) THEN <<>>
  ELSE LET step == Scan(text, i) IN step.out \o SanitizeFrom(text, step.next)
sanitize_command(text) == SanitizeFrom(text, 1)

\* At most limit pieces and a mark for the rest; nothing for a blank text.
Nothing == <<"nothing">>
truncate_string(text, limit) ==
  IF limit = 0 \/ ToSet(text) \subseteq {"sp"} THEN Nothing
  ELSE IF Len(text) <= limit THEN text
  ELSE Append(SubSeq(text, 1, limit), "...")
\* What the table keeps of a command: it is cut first, then secrets are taken out.
stored_command(text, limit) ==
  sanitize_command(IF truncate_string(text, limit) = Nothing THEN text ELSE truncate_string(text, limit))

------------------------------------------------------------------------------
\* CommandExtractor: tokens.  A command is a sequence of characters; "$" stands for
\* all the unsafe ones, "a" for those without a meaning.

Fault(kind) == [error |-> kind]
Tokens(ts) == [tokens |-> ts]
Escapes == {"\"", "\\", "n"}
\* In double quotes a backslash stays unless it escapes something.
Escaped(c) == CASE c = "n" -> <<"newline">> [] c \in Escapes \ {"n"} -> <<c>> [] OTHER -> <<"\\", c>>
\* A quoted part from i on: its characters and the place after it; next = 0 when it
\* is never closed.
Unclosed == [text |-> <<>>, next |-> 0]
Single(cs, i) ==
  LET end == Until(cs, i, {"'"})
  IN IF end > Len(cs) THEN Unclosed ELSE [text |-> SubSeq(cs, i, end - 1), next |-> end + 1]
RECURSIVE Double(_, _, _)
Double(cs, i, text) ==
  IF i > Len(cs) THEN Unclosed
  ELSE
  CASE cs[i] = "\"" -> [text |-> text, next |-> i + 1]
    [] cs[i] = "\\" -> IF i = Len(cs) THEN Unclosed ELSE Double(cs, i + 2, text \o Escaped(cs[i + 1]))
    [] OTHER -> Double(cs, i + 1, Append(text, cs[i]))
QuotedPart(cs, i) == IF cs[i] = "'" THEN Single(cs, i + 1) ELSE Double(cs, i + 1, <<>>)
\* A backslash outside quotes takes the next character, or stands for itself.
Backslash(cs, i) ==
  IF i = Len(cs) THEN [text |-> <<"\\">>, next |-> i + 1] ELSE [text |-> <<cs[i + 1]>>, next |-> i + 2]
\* The rest of a word: quoted parts belong to it, an unsafe character is an error.
RECURSIVE Word(_, _, _)
Word(cs, i, text) ==
  LET More(p) == IF p = Unclosed THEN p ELSE Word(cs, p.next, text \o p.text) IN
  IF i > Len(cs) THEN [text |-> text, next |-> i]
  ELSE
  CASE cs[i] \in {"sp", "$"} -> [text |-> text, next |-> i]
    [] cs[i] \in Quotes -> More(QuotedPart(cs, i))
    [] cs[i] = "\\" -> More(Backslash(cs, i))
    [] OTHER -> Word(cs, i + 1, Append(text, cs[i]))
\* A token that begins with a quote ends with it.
TokenAt(cs, i) ==
  CASE cs[i] \in Quotes -> QuotedPart(cs, i)
    [] cs[i] = "\\" -> Backslash(cs, i)
    [] OTHER -> Word(cs, i + 1, <<cs[i]>>)
RECURSIVE TokensFrom(_, _, _, _)
TokensFrom(cs, i, tokens, max) ==
  IF i > Len(cs) THEN Tokens(tokens)
  ELSE
  CASE cs[i] = "$" -> Fault("unsafe_token")
    [] cs[i] = "sp" -> TokensFrom(cs, i + 1, tokens, max)
    [] cs[i] \notin {"$", "sp"} /\ Len(tokens) = max -> Fault("command_too_long")
    [] OTHER -> LET t == TokenAt(cs, i) IN
                IF t = Unclosed THEN Fault("unclosed_quote")
                ELSE TokensFrom(cs, t.next, Append(tokens, t.text), max)
tokenize_command(cs, max, maxLen) ==
  CASE cs = <<>> -> Fault("empty_command")
    [] Len(cs) > maxLen -> Fault("command_too_long")
    [] OTHER -> TokensFrom(cs, 1, <<>>, max)

------------------------------------------------------------------------------
\* CommandExtractor: facts.  A token has a shape: "--f" a long flag with or without
\* a value, "-x" alone, "-xT" with its task, "-D", "-P" alone, "-PT", "-f" one
\* letter, "-" any other with a dash, "word".

ToolOf == [mvn |-> "maven", gradle |-> "gradle", gradlew |-> "gradle", npm |-> "node", npx |-> "node",
           yarn |-> "node", cargo |-> "cargo"]
classify_tool(executable) == IF executable \in DOMAIN ToolOf THEN ToolOf[executable] ELSE "unknown"
Intents == [compile |-> "build", build |-> "build", test |-> "test", clean |-> "clean",
            install |-> "install", publish |-> "deploy", deploy |-> "deploy"]
\* The policy's own map comes first.
infer_intent(goal, goals) ==
  IF goal \in DOMAIN goals THEN goals[goal] ELSE IF goal \in DOMAIN Intents THEN Intents[goal] ELSE "run"

\* A fact is a key and the places of the tokens it reports.
TokenFact(key, places) == [key |-> key, at |-> places]
\* The task of a bare -x is the token after it, unless that is a flag.
TakesNext(shapes, i) == shapes[i] = "-x" /\ i < Len(shapes) /\ shapes[i + 1] = "word"
Report(shapes, i, allow) ==
  CASE shapes[i] \in {"--f", "-f"} /\ "flags" \in allow -> <<TokenFact("command_flag", {i})>>
    [] shapes[i] \in {"-xT", "-D", "-PT"} /\ "options" \in allow -> <<TokenFact("command_option", {i})>>
    [] TakesNext(shapes, i) /\ "options" \in allow -> <<TokenFact("command_option", {i, i + 1})>>
    [] OTHER -> <<>>
IsTarget(shape) == shape \in {"word", "-"}
RECURSIVE Rest(_, _, _, _)
Rest(shapes, i, allow, targets) ==
  IF i > Len(shapes)
  THEN IF "targets" \in allow THEN [k \in 1..Len(targets) |-> TokenFact("command_target", {targets[k]})] ELSE <<>>
  ELSE Report(shapes, i, allow) \o
       Rest(shapes, IF TakesNext(shapes, i) /\ "options" \in allow THEN i + 2 ELSE i + 1, allow,
            IF IsTarget(shapes[i]) THEN Append(targets, i) ELSE targets)
\* The second token is the goal unless it looks like a -D, -P or -x; then nothing
\* reports it.
classify(shapes, allow) ==
  IF shapes = <<>> THEN <<>>
  ELSE <<TokenFact("command_executable", {1}), TokenFact("command_tool", {1})>>
       \o (IF Len(shapes) > 1 /\ shapes[2] \notin {"-D", "-P", "-PT", "-x", "-xT"}
           THEN <<TokenFact("command_goal", {2}), TokenFact("command_intent", {2})>> ELSE <<>>)
       \o Rest(shapes, 3, allow, <<>>)

\* A command that cannot be read, or holds only blanks, gives one diagnostic.
extract_command(cs, max, maxLen) ==
  LET read == tokenize_command(cs, max, maxLen)
  IN IF read = Tokens(<<>>) THEN Fault("empty_command") ELSE read
==============================================================================
