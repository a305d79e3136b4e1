-------------------------------- MODULE Rules --------------------------------
(* The rule language of the enrichment engine: tokens, the recursive-descent *)
(* parser, and the evaluation of a parsed condition over the result of a     *)
(* command and the facts extracted from it.                                  *)
EXTENDS Integers, Sequences, SequencesExt, FiniteSets

CONSTANTS Num(_),       \* the number that a text spells: a set of at most one
          IntBits,      \* the width of an i32
          MaxPriority   \* bound: the last priority of a rule
MaxI32 == 2^(IntBits - 1) - 1
MinI64 == -(2^IntBits)  \* below every number that occurs

------------------------------------------------------------------------------
\* Tokens.  A lexeme is a class of text, with the text or the number it spells.

Keywords == {"and", "or", "not"}
Illegal == <<"illegal", "">>
\* A run of digits that does not fit an i32 is illegal.
integer(n) == IF n > MaxI32 THEN Illegal ELSE <<"int", n>>
\* A quoted text; one that is never closed is accepted as it stands.
string_literal(text) == <<"str", text>>
\* The predicates with a token of their own are read back as their names.
identifier_or_keyword(text) ==
  CASE text \in Keywords -> <<"op", text>>
    [] text \in {"true", "false"} -> <<"bool", text>>
    [] OTHER -> <<"ident", text>>
next_token(lexeme) ==
  CASE lexeme.class = "punct" -> <<"op", lexeme.text>>
    [] lexeme.class = "quoted" -> string_literal(lexeme.text)
    [] lexeme.class = "digits" -> integer(lexeme.n)
    [] lexeme.class = "word" -> identifier_or_keyword(lexeme.text)
    [] OTHER -> Illegal
tokenize(lexemes) == [k \in 1..Len(lexemes) |-> next_token(lexemes[k])]

------------------------------------------------------------------------------
\* The parser.  A parse is an expression and the tokens after it, or Failed.

Failed == [ok |-> FALSE, expr |-> <<"failed">>, rest |-> <<>>]
Parsed(e, rest) == [ok |-> TRUE, expr |-> e, rest |-> rest]
OpAt(ts, ops) == ts # <<>> /\ Head(ts)[1] = "op" /\ Head(ts)[2] \in ops
Comparisons == {"==", "!=", ">", "<", ">=", "<="}
Fields == {"exit_code", "timed_out", "stdout", "stderr", "duration_ms"}

\* The arguments that each function takes; timed_out() and exit_code() are the
\* fields.
Signatures ==
  [contains_fact |-> <<"str">>, fact |-> <<"str">>, stdout_contains |-> <<"str">>,
   stderr_contains |-> <<"str">>, stderr_matches |-> <<"regex">>,
   duration_gt |-> <<"int">>, duration_lt |-> <<"int">>,
   any_fact |-> <<"str", "comparison", "str">>, all_fact |-> <<"str", "comparison", "str">>,
   count_fact |-> <<"str", "comparison", "int">>, timed_out |-> <<>>, exit_code |-> <<>>]

\* parse_comp_op_from_expr.
IsComparison(arg) == arg[1] = "str" /\ arg[2] \in Comparisons
BadRegex == "["  \* stands for the texts that are no regular expression
Fits(arg, type) ==
  CASE type = "comparison" -> IsComparison(arg)
    [] type = "regex" -> arg[1] = "str" /\ arg[2] # BadRegex
    [] OTHER -> arg[1] = type
\* The end of parse_ident_or_call, once the arguments are read.
Call(name, args, rest) ==
  IF /\ name \in DOMAIN Signatures /\ Len(args) = Len(Signatures[name])
     /\ \A k \in 1..Len(args) : Fits(args[k], Signatures[name][k])
  THEN Parsed(IF args = <<>> THEN <<"field", name>>
              ELSE <<name>> \o [k \in 1..Len(args) |-> args[k][2]], rest)
  ELSE Failed
\* A name without arguments is a field or stands for its own text.
Plain(name, rest) ==
  Parsed(IF name \in Fields THEN <<"field", name>> ELSE <<"str", name>>, rest)

RECURSIVE parse_or(_), parse_and(_), parse_not(_), parse_primary(_), parse_call_args(_, _),
          MoreOr(_), MoreAnd(_)

\* The arguments a must be followed by a bracket.
Applied(name, a) == IF a.ok /\ OpAt(a.rest, {")"}) THEN Call(name, a.expr, Tail(a.rest)) ELSE Failed
parse_ident_or_call(name, ts) ==
  IF ~OpAt(ts, {"("}) THEN Plain(name, ts)
  ELSE IF OpAt(Tail(ts), {")"}) THEN Call(name, <<>>, Tail(Tail(ts)))
  ELSE Applied(name, parse_call_args(Tail(ts), <<>>))
MoreArgs(a, args) ==
  IF ~a.ok THEN Failed
  ELSE IF OpAt(a.rest, {","}) THEN parse_call_args(Tail(a.rest), Append(args, a.expr))
  ELSE Parsed(Append(args, a.expr), a.rest)
parse_call_args(ts, args) == MoreArgs(parse_or(ts), args)
Enclosed(p) == IF p.ok /\ OpAt(p.rest, {")"}) THEN Parsed(p.expr, Tail(p.rest)) ELSE Failed
parse_primary(ts) ==
  IF ts = <<>> THEN Failed
  ELSE
  CASE OpAt(ts, {"("}) -> Enclosed(parse_or(Tail(ts)))
    [] Head(ts)[1] = "ident" -> parse_ident_or_call(Head(ts)[2], Tail(ts))
    [] Head(ts)[1] \in {"bool", "int", "str"} -> Parsed(Head(ts), Tail(ts))
    [] OTHER -> Failed
\* Two operands and what stands between them.
Joined(op, l, r) == IF ~r.ok THEN r ELSE Parsed(<<op, l.expr, r.expr>>, r.rest)
\* One comparison, between two primaries.
Compared(l) == IF ~l.ok \/ ~OpAt(l.rest, Comparisons) THEN l
               ELSE Joined(Head(l.rest)[2], l, parse_primary(Tail(l.rest)))
parse_comparison(ts) == Compared(parse_primary(ts))
Negated(p) == IF ~p.ok THEN p ELSE Parsed(<<"not", p.expr>>, p.rest)
parse_not(ts) == IF OpAt(ts, {"not"}) THEN Negated(parse_not(Tail(ts))) ELSE parse_comparison(ts)
\* Mutant: "and" is read as far as it goes on the right.
MoreAndRight(l) ==
  IF ~l.ok \/ ~OpAt(l.rest, {"and"}) THEN l ELSE Joined("and", l, parse_and(Tail(l.rest)))
\* The loops of parse_and and parse_or: operators of one kind lean to the left.
MoreAnd(l) ==
  IF ~l.ok \/ ~OpAt(l.rest, {"and"}) THEN l ELSE MoreAnd(Joined("and", l, parse_not(Tail(l.rest))))
parse_and(ts) == MoreAnd(parse_not(ts))
MoreOr(l) ==
  IF ~l.ok \/ ~OpAt(l.rest, {"or"}) THEN l ELSE MoreOr(Joined("or", l, parse_and(Tail(l.rest))))
parse_or(ts) == MoreOr(parse_and(ts))
\* Parser::parse: what is left over is an error.
parse(ts) == LET p == parse_or(ts) IN IF p.rest = <<>> THEN p.expr ELSE Failed.expr

------------------------------------------------------------------------------
\* Evaluation.  A context has the result's fields as texts, its duration, and the
\* facts in order.

The(numbers, default) == IF numbers = {} THEN default ELSE CHOOSE n \in numbers : TRUE
\* parse::<i32>().unwrap_or(0) and parse::<i64>().unwrap_or(i64::MIN).
ToI32(text) == The({n \in Num(text) : n <= MaxI32}, 0)
ToI64(text) == The(Num(text), MinI64)
Holds(op, a, b) ==
  CASE op = "==" -> a = b [] op = "!=" -> a # b [] op = ">" -> a > b
    [] op = "<" -> a < b [] op = ">=" -> a >= b [] op = "<=" -> a <= b

\* build_fact_map keeps the first fact of a key.
get_fact(ctx, key) == SelectSeq(ctx.facts, LAMBDA f : f.key = key)
\* "as i32" keeps the low 32 bits.
AsI32(n) == LET m == n % 2^IntBits IN IF m > MaxI32 THEN m - 2^IntBits ELSE m
duration_i32(ctx) == AsI32(ToI64(ctx.field.duration_ms))

extract_str(ctx, e) ==
  CASE e[1] \in {"str", "bool"} -> e[2] [] e[1] = "int" -> ctx.Show[e[2]]
    [] e[1] = "field" -> ctx.field[e[2]] [] OTHER -> ""
extract_i32(ctx, e) ==
  CASE e[1] = "int" -> e[2] [] e[1] = "str" -> ToI32(e[2])
    [] e = <<"field", "exit_code">> -> ToI64(ctx.field.exit_code)
    [] e = <<"field", "duration_ms">> -> duration_i32(ctx)
    [] OTHER -> 0
\* compare_fact_eq and compare_fact_cmp: a missing fact makes them false, and a
\* value that is no number counts as 0.
compare_fact(ctx, op, key, r) ==
  LET found == get_fact(ctx, key) IN
  /\ found # <<>>
  /\ IF op = "==" THEN found[1].value = extract_str(ctx, r)
     ELSE Holds(op, ToI32(found[1].value), extract_i32(ctx, r))
\* compare_eq, compare_gt, and the others; != is the negation of ==.
compare(ctx, op, l, r) ==
  CASE l[1] = "fact" /\ op # "!=" -> compare_fact(ctx, op, l[2], r)
    [] l[1] = "fact" /\ op = "!=" -> ~compare_fact(ctx, "==", l[2], r)
    [] l[1] # "fact" /\ op = "==" -> extract_str(ctx, l) = extract_str(ctx, r)
    [] l[1] # "fact" /\ op = "!=" -> extract_str(ctx, l) # extract_str(ctx, r)
    [] OTHER -> Holds(op, extract_i32(ctx, l), extract_i32(ctx, r))
\* Numbers are compared as i64, and what is no number is the least of them.
fact_satisfies_op(f, op, value) ==
  IF op \in {"==", "!="} THEN Holds(op, f.value, value)
  ELSE Holds(op, ToI64(f.value), ToI64(value))
eval_any_fact(ctx, key, op, value) ==
  \E f \in ToSet(get_fact(ctx, key)) : fact_satisfies_op(f, op, value)
eval_all_fact(ctx, key, op, value) ==
  LET found == ToSet(get_fact(ctx, key))
  IN found # {} /\ \A f \in found : fact_satisfies_op(f, op, value)
eval_count_fact(ctx, key, op, n) == Holds(op, Len(get_fact(ctx, key)), n)

RECURSIVE evaluate(_, _)
evaluate(ctx, e) ==
  CASE e[1] = "bool" -> e[2] = "true"
    [] e[1] = "int" -> e[2] # 0
    [] e[1] = "str" -> e[2] # ""
    [] e = <<"field", "exit_code">> -> ctx.field.exit_code # "0"
    [] e = <<"field", "timed_out">> -> ctx.field.timed_out = "true"
    [] e = <<"field", "duration_ms">> -> duration_i32(ctx) # 0
    [] e[1] = "field" /\ e[2] \notin {"exit_code", "timed_out", "duration_ms"} -> ctx.field[e[2]] # ""
    [] e[1] \in Comparisons -> compare(ctx, e[1], e[2], e[3])
    [] e[1] = "and" -> evaluate(ctx, e[2]) /\ evaluate(ctx, e[3])
    [] e[1] = "or" -> evaluate(ctx, e[2]) \/ evaluate(ctx, e[3])
    [] e[1] = "not" -> ~evaluate(ctx, e[2])
    [] e[1] = "contains_fact" -> get_fact(ctx, e[2]) # <<>>
    [] e[1] = "fact" -> FALSE
    [] e[1] = "any_fact" -> eval_any_fact(ctx, e[2], e[3], e[4])
    [] e[1] = "all_fact" -> eval_all_fact(ctx, e[2], e[3], e[4])
    [] e[1] = "count_fact" -> eval_count_fact(ctx, e[2], e[3], e[4])
    [] e[1] = "stdout_contains" -> <<ctx.field.stdout, e[2]>> \in ctx.Contains
    [] e[1] \in {"stderr_contains", "stderr_matches"} -> <<ctx.field.stderr, e[2]>> \in ctx.Contains
    [] e[1] = "duration_gt" -> duration_i32(ctx) > e[2]
    [] e[1] = "duration_lt" -> duration_i32(ctx) < e[2]

------------------------------------------------------------------------------
\* DefaultRuleEvaluator: rules whose condition parses, in the order of their
\* priorities; facts and recommendations add up, the last verdict stays.

EmptyOutput == [hits |-> 0, facts |-> <<>>, verdict |-> "none", recommendations |-> <<>>]
execute_action(out, a) ==
  CASE a.kind = "derive" -> [out EXCEPT !.facts = Append(@, a.arg)]
    [] a.kind = "verdict" -> [out EXCEPT !.verdict = a.arg]
    [] a.kind = "recommend" -> [out EXCEPT !.recommendations = Append(@, a.arg)]
Fire(ctx, out, rule) ==
  IF evaluate(ctx, parse(rule.condition))
  THEN FoldLeft(execute_action, [out EXCEPT !.hits = @ + 1], rule.actions)
  ELSE out
get_parsed_rules(rules) == SelectSeq(rules, LAMBDA r : r.enabled /\ parse(r.condition)[1] # "failed")
\* A stable sort by priority.
ByPriority(rules) ==
  LET At(p) == SelectSeq(rules, LAMBDA r : r.priority = p)
  IN FlattenSeq([p \in 1..MaxPriority + 1 |-> At(p - 1)])
evaluate_rules(ctx, rules) ==
  FoldLeft(LAMBDA out, r : Fire(ctx, out, r), EmptyOutput, ByPriority(get_parsed_rules(rules)))
==============================================================================
