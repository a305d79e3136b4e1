---------------------------- MODULE Orientation ----------------------------
(* The advice a client gets before it creates a sandbox: the template for a  *)
(* task and whether there is room.  A task is its words of two or more       *)
(* characters; confidence is counted in hundredths.                          *)
EXTENDS Integers, Sequences, SequencesExt, FiniteSets, FiniteSetsExt

CONSTANTS Within,  \* pairs of a text and a longer one that contains it
          Width    \* the bits of a u32

Rule(keywords, template, confidence) ==
  [keywords |-> keywords, template |-> template, confidence |-> confidence]
rules ==
  <<Rule({"mvn", "maven", "mavenw"}, "maven", 95),
    Rule({"gradle", "gradlew"}, "gradle", 90),
    Rule({"npm", "node", "nodejs", "yarn", "pnpm", "node-gyp"}, "node", 95),
    Rule({"python", "pip", "pip3", "pyenv", "poetry", "uv", "pipenv"}, "python", 95),
    Rule({"cargo", "rustc", "cargo-watch", "rust-analyzer"}, "rust", 95),
    Rule({"go", "golang", "go build", "go mod"}, "golang", 90),
    Rule({"bundle", "ruby", "rake", "rbenv"}, "ruby", 90),
    Rule({"apt", "apt-get", "dpkg", "asdf", "python"}, "ubuntu", 90),
    Rule({"dotnet", "msbuild", "nuget"}, "dotnet", 90),
    Rule({"php", "composer", "laravel", "symfony"}, "php", 85)>>
fallback == [template |-> "ubuntu", confidence |-> 30]

contains(token, keyword) == token = keyword \/ <<keyword, token>> \in Within
Matches(rule, tokens) ==
  Cardinality({kw \in rule.keywords : \E t \in ToSet(tokens) : contains(t, kw)})
\* No two rules have one template: what match_keywords does for such two never happens.
Score(rule, tokens) == Min({rule.confidence + 5 * Matches(rule, tokens), 100})
\* max_by: the last of the best, by score and then by the number of matches.
Best(tokens) ==
  LET hits == {k \in DOMAIN rules : Matches(rules[k], tokens) > 0}
      Better(j, k) == \/ Score(rules[j], tokens) > Score(rules[k], tokens)
                      \/ /\ Score(rules[j], tokens) = Score(rules[k], tokens)
                         /\ \/ Matches(rules[j], tokens) > Matches(rules[k], tokens)
                            \/ Matches(rules[j], tokens) = Matches(rules[k], tokens) /\ j > k
  IN  {k \in hits : \A j \in hits \ {k} : Better(k, j)}
recommend(tokens) ==
  IF Best(tokens) = {} THEN fallback
  ELSE LET rule == rules[CHOOSE k \in Best(tokens) : TRUE]
       IN  [template |-> rule.template, confidence |-> Score(rule, tokens)]

------------------------------------------------------------------------------
MaxU32 == 2^Width - 1
\* The pool's sandboxes are its capacity; the sum is a u32 and wraps in a release build.
sandbox_capacity_check(pool, count) ==
  LET current == IF pool = {} THEN 0 ELSE Max({s.active : s \in pool})
      most == IF pool = {} THEN MaxU32 ELSE Max({s.active + s.idle : s \in pool})
  IN  [available |-> (current + count) % 2^Width <= most,
       advised |-> IF most > current THEN most - current ELSE 0]
=============================================================================
