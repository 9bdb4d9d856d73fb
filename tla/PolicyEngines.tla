---------------------------- MODULE PolicyEngines ----------------------------
(***************************************************************************)
(* The policy engines: the native one (crates/writ-policy), and the Rego   *)
(* and Cedar ones, which translate the compiled policy into another        *)
(* language when it is loaded and hand the call to an interpreter of it.   *)
(*                                                                         *)
(* A text is a sequence of symbols, as far as the operators tell texts     *)
(* apart: letters in two cases, ".", and "*", which is an ordinary symbol  *)
(* to the DSL and a wildcard to Cedar's `like' and to list entries.  "A"   *)
(* is a capital of ASCII; "U" one outside it, whose small letter is "u",   *)
(* outside it too; and "K" one outside it whose small letter, "k", is in   *)
(* ASCII, like the Kelvin sign.  A regular expression is a literal         *)
(* searched for anywhere, possibly one that compiles to more than regorus  *)
(* allows.                                                                 *)
(***************************************************************************)
EXTENDS Integers, Sequences, SequencesExt, FiniteSets, FiniteSetsExt

CONSTANTS
    EngineNames,   \* of "native", "rego" and "cedar"
    StartSources,  \* the policies an engine is created from
    NextSources,   \* the policies it is given afterwards
    CallContexts,  \* the calls: a function from the fields present to texts
    HugePatterns,  \* the patterns beyond regorus's cap on compiled size
    MaxReloads     \* bound: calls of reload

ASSUME PolicyAssumption ==
    /\ EngineNames \subseteq {"native", "rego", "cedar"}
    /\ MaxReloads \in Nat
    /\ \A ctx \in CallContexts : "tool" \in DOMAIN ctx

VARIABLES
    engine,        \* the engine object: its policy and what it generated from it
    accepted,      \* the last policy the engine took over
    panicked,      \* code generation has panicked
    reloads        \* reload calls so far

policyVars == <<engine, accepted, panicked, reloads>>

\* Expressions: <<"or", a, b>>, <<"and", a, b>>, <<"not", a>>,
\* <<"cmp", field, op, text>> and <<"in", field, texts>>.
\* A source: whether it compiles, its rules in order, and the default.
Unknown == "unknown"  \* Field::Unknown: any name outside the vocabulary

to_ascii_lowercase(t) == [i \in DOMAIN t |-> IF t[i] = "A" THEN "a" ELSE t[i]]

\* Rego's lower() knows the small letters outside ASCII as well.
rego_lower(t) ==
    [i \in DOMAIN t |-> CASE t[i] = "A" -> "a" [] t[i] = "U" -> "u" [] t[i] = "K" -> "k"
                          [] OTHER -> t[i]]
IsWildcard(entry) == IsPrefix(<<"*", ".">>, entry)
Base(entry) == SubSeq(entry, 3, Len(entry))
is_match(re, v) == \E i \in 0..Len(v) : IsPrefix(re, SubSeq(v, i + 1, Len(v)))

-----------------------------------------------------------------------------
(***************************************************************************)
(* The native engine                                                       *)
(***************************************************************************)
list_entry_matches(entry, v) ==
    IF IsWildcard(entry)
    THEN \/ to_ascii_lowercase(v) = to_ascii_lowercase(Base(entry))
         \/ IsSuffix(<<".">> \o to_ascii_lowercase(Base(entry)), to_ascii_lowercase(v))
    ELSE entry = v

\* A field the call does not have matches no operator, `!=' included.
eval_pred(p, ctx) ==
    /\ p[2] \in DOMAIN ctx
    /\ LET v == ctx[p[2]]
       IN  IF p[1] = "in" THEN \E i \in DOMAIN p[3] : list_entry_matches(p[3][i], v)
           ELSE CASE p[3] = "==" -> v = p[4]
                  [] p[3] = "!=" -> v # p[4]
                  [] p[3] = "startswith" -> IsPrefix(p[4], v)
                  [] p[3] = "endswith" -> IsSuffix(p[4], v)
                  [] p[3] \in {"contains", "matches"} -> is_match(p[4], v)

RECURSIVE eval_expr(_, _)
eval_expr(e, ctx) ==
    CASE e[1] = "or" -> eval_expr(e[2], ctx) \/ eval_expr(e[3], ctx)
      [] e[1] = "and" -> eval_expr(e[2], ctx) /\ eval_expr(e[3], ctx)
      [] e[1] = "not" -> ~eval_expr(e[2], ctx)
      [] OTHER -> eval_pred(e, ctx)

default_verdict(p) == [kind |-> p.default, rule |-> "default"]
verdict_for(p, i) == [kind |-> p.rules[i].verdict, rule |-> p.rules[i].id]
fail_closed == [kind |-> "deny", rule |-> "engine-fail-closed"]

\* The first of the rules in S, or the default.
FirstOf(p, S) == IF S = {} THEN default_verdict(p) ELSE verdict_for(p, Min(S))

NativeVerdict(p, ctx) ==
    FirstOf(p, {i \in DOMAIN p.rules : eval_expr(p.rules[i].when, ctx)})

-----------------------------------------------------------------------------
(***************************************************************************)
(* Cedar.  Generated conditions: <<"false">>, <<"has", f>>, <<"slot", k>>, *)
(* <<"eq" or "ne", record, f, text>>, <<"like", record, f, pattern>> and   *)
(* the connectives; record is "context" or "lc", whose values are          *)
(* lowercased.  In a pattern "any" is the wildcard.                        *)
(***************************************************************************)
\* like_pattern escapes `*' in the operand: it stays a symbol.
like_pattern(prefix, literal, suffix) == prefix \o literal \o suffix

is_always_present(f) == f \in {"tool", "agent", "mode"}

\* Mutant: optional fields are read without the guard.
Unguarded(f, test) == test
guard(f, test) == IF is_always_present(f) THEN test ELSE <<"and", <<"has", f>>, test>>

CedarEntry(f, entry) ==
    IF IsWildcard(entry)
    THEN LET b == to_ascii_lowercase(Base(entry))
         IN  <<"or", <<"eq", "lc", f, b>>,
                     <<"like", "lc", f, like_pattern(<<"any", ".">>, b, <<>>)>>>>
    ELSE <<"eq", "context", f, entry>>

Disjunction(terms) == FoldLeft(LAMBDA acc, t : <<"or", acc, t>>, Head(terms), Tail(terms))

\* The condition for a predicate, when k regex slots are taken.
CedarPred(p, k) ==
    LET f == p[2]
        Star == <<"any">>
    IN  IF f = Unknown \/ (p[1] = "in" /\ p[3] = <<>>) THEN <<"false">>
        ELSE IF p[1] = "in"
        THEN guard(f, Disjunction([i \in DOMAIN p[3] |-> CedarEntry(f, p[3][i])]))
        ELSE CASE p[3] = "matches" -> <<"slot", k + 1>>
               [] p[3] = "==" -> guard(f, <<"eq", "context", f, p[4]>>)
               [] p[3] = "!=" -> guard(f, <<"ne", "context", f, p[4]>>)
               [] p[3] = "startswith" ->
                    guard(f, <<"like", "context", f, like_pattern(<<>>, p[4], Star)>>)
               [] p[3] = "endswith" ->
                    guard(f, <<"like", "context", f, like_pattern(Star, p[4], <<>>)>>)
               [] p[3] = "contains" ->
                    guard(f, <<"like", "context", f, like_pattern(Star, p[4], Star)>>)

\* Unknown fields return before they take a slot.
SlotsOf(p) == IF p[1] = "cmp" /\ p[2] # Unknown /\ p[3] = "matches" THEN <<p>> ELSE <<>>

\* Codegen::expr: the condition, and the regex slots after it.
RECURSIVE CedarExpr(_, _)
CedarExpr(e, slots) ==
    CASE e[1] \in {"or", "and"} ->
           LET a == CedarExpr(e[2], slots)
               b == CedarExpr(e[3], a.slots)
           IN  [cond |-> <<e[1], a.cond, b.cond>>, slots |-> b.slots]
      [] e[1] = "not" ->
           LET a == CedarExpr(e[2], slots)
           IN  [cond |-> <<"not", a.cond>>, slots |-> a.slots]
      [] OTHER -> [cond |-> CedarPred(e, Len(slots)), slots |-> slots \o SlotsOf(e)]

CedarGenerate(p) ==
    FoldLeft(LAMBDA g, rule : LET c == CedarExpr(rule.when, g.slots)
                              IN  [policies |-> Append(g.policies, c.cond), slots |-> c.slots],
             [policies |-> <<>>, slots |-> <<>>], p.rules)

\* The request context: the fields present, the same lowercased, the slots.
context_for(code, ctx) ==
    [context |-> ctx, lc |-> [f \in DOMAIN ctx |-> to_ascii_lowercase(ctx[f])],
     re |-> [k \in DOMAIN code.slots |->
               /\ code.slots[k][2] \in DOMAIN ctx
               /\ is_match(code.slots[k][4], ctx[code.slots[k][2]])]]

RECURSIVE Like(_, _)
Like(pat, v) ==
    IF pat = <<>> THEN v = <<>>
    ELSE IF Head(pat) = "any" THEN \E i \in 0..Len(v) : Like(Tail(pat), SubSeq(v, i + 1, Len(v)))
    ELSE v # <<>> /\ Head(v) = Head(pat) /\ Like(Tail(pat), Tail(v))

\* The authorizer evaluates a condition: the connectives short-circuit, and
\* reading an attribute that is not there is an error.
RECURSIVE CedarValue(_, _)
CedarValue(c, req) ==
    CASE c[1] = "false" -> "false"
      [] c[1] = "has" -> IF c[2] \in DOMAIN req.context THEN "true" ELSE "false"
      [] c[1] = "slot" -> IF req.re[c[2]] THEN "true" ELSE "false"
      [] c[1] = "not" -> LET a == CedarValue(c[2], req)
                         IN  CASE a = "true" -> "false" [] a = "false" -> "true" [] OTHER -> a
      [] c[1] = "and" -> LET a == CedarValue(c[2], req)
                         IN  IF a = "true" THEN CedarValue(c[3], req) ELSE a
      [] c[1] = "or" -> LET a == CedarValue(c[2], req)
                        IN  IF a = "false" THEN CedarValue(c[3], req) ELSE a
      [] OTHER ->
           IF c[3] \notin DOMAIN req[c[2]] THEN "error"
           ELSE LET v == req[c[2]][c[3]]
                IN  IF \/ c[1] = "eq" /\ v = c[4]
                       \/ c[1] = "ne" /\ v # c[4]
                       \/ c[1] = "like" /\ Like(c[4], v)
                    THEN "true" ELSE "false"

\* decide: every policy is evaluated; an error in any, or a satisfied one that
\* is no rule's, fails the call closed, otherwise the lowest satisfied index is
\* the matching rule.
CedarVerdict(p, code, ctx) ==
    LET req == context_for(code, ctx)
        value == [i \in DOMAIN code.policies |-> CedarValue(code.policies[i], req)]
        satisfied == {i \in DOMAIN value : value[i] = "true"}
    IN  IF (\E i \in DOMAIN value : value[i] = "error") \/ ~(satisfied \subseteq DOMAIN p.rules)
        THEN fail_closed
        ELSE FirstOf(p, satisfied)

-----------------------------------------------------------------------------
(***************************************************************************)
(* Rego.  A rule has bodies, a body is a sequence of lines: a predicate,   *)
(* <<"false">>, <<"lower", op, field, text>> for one half of a wildcard    *)
(* entry, or <<"not rule", name>>.                                         *)
(***************************************************************************)
EntryBodies(f, entry) ==
    IF IsWildcard(entry)
    THEN LET b == to_ascii_lowercase(Base(entry))
         IN  << <<<<"lower", "==", f, b>>>>, <<<<"lower", "endswith", f, <<".">> \o b>>>> >>
    ELSE << <<<<"cmp", f, "==", entry>>>> >>

CompareLine(p) == IF p[2] = Unknown THEN <<"false">> ELSE p

\* Codegen::bodies: the bodies of e, and the helper rules after it.  A helper
\* is [name, body]; the names are numbers, here as in c0, c1, ...
RECURSIVE RegoBodies(_, _)
RegoBodies(e, helpers) ==
    CASE e[1] = "or" ->
           LET a == RegoBodies(e[2], helpers)
               b == RegoBodies(e[3], a.helpers)
           IN  [bodies |-> a.bodies \o b.bodies, helpers |-> b.helpers]
      [] e[1] = "and" ->  \* the right side is generated anew for each left body
           LET a == RegoBodies(e[2], helpers)
           IN  FoldLeft(LAMBDA acc, left :
                          LET b == RegoBodies(e[3], acc.helpers)
                          IN  [bodies |-> acc.bodies \o [i \in DOMAIN b.bodies |-> left \o b.bodies[i]],
                               helpers |-> b.helpers],
                        [bodies |-> <<>>, helpers |-> a.helpers], a.bodies)
      [] e[1] = "not" ->
           LET name == Len(helpers)
               inner == RegoBodies(e[2], helpers)
           IN  [bodies |-> << <<<<"not rule", name>>>> >>,
                helpers |-> inner.helpers \o
                  [i \in DOMAIN inner.bodies |-> [name |-> name, body |-> inner.bodies[i]]]]
      [] e[1] = "in" ->
           [bodies |-> IF e[3] = <<>> THEN << <<<<"false">>>> >>
                       ELSE FlattenSeq([i \in DOMAIN e[3] |-> EntryBodies(e[2], e[3][i])]),
            helpers |-> helpers]
      [] OTHER -> [bodies |-> << <<CompareLine(e)>> >>, helpers |-> helpers]

RegoGenerate(p) ==
    FoldLeft(LAMBDA g, rule : LET b == RegoBodies(rule.when, g.helpers)
                              IN  [matchers |-> Append(g.matchers, b.bodies), helpers |-> b.helpers],
             [matchers |-> <<>>, helpers |-> <<>>], p.rules)

\* field_ref's unreachable!: `in' over a name outside the vocabulary.
RECURSIVE PanicsIn(_)
PanicsIn(e) ==
    CASE e[1] \in {"or", "and"} -> PanicsIn(e[2]) \/ PanicsIn(e[3])
      [] e[1] = "not" -> PanicsIn(e[2])
      [] OTHER -> e[1] = "in" /\ e[2] = Unknown /\ e[3] # <<>>

\* What regorus makes of a rule, of a body from its first line on, and of a
\* line: "true", "undefined" or "error".  References to what the input lacks
\* are undefined; with strict builtin errors a pattern beyond the cap is an
\* error, and so is a rule that is needed for its own value.
RECURSIVE RuleValue(_, _, _, _), BodyValue(_, _, _, _), LineValue(_, _, _, _)
RuleValue(bodies, code, ctx, active) ==
    LET values == {BodyValue(bodies[i], code, ctx, active) : i \in DOMAIN bodies}
    IN  IF "error" \in values THEN "error" ELSE IF "true" \in values THEN "true" ELSE "undefined"
BodyValue(body, code, ctx, active) ==
    IF body = <<>> THEN "true"
    ELSE LET v == LineValue(Head(body), code, ctx, active)
         IN  IF v = "true" THEN BodyValue(Tail(body), code, ctx, active) ELSE v
LineValue(line, code, ctx, active) ==
    CASE line[1] = "false" -> "undefined"
      [] line[1] = "cmp" ->
           IF line[2] \notin DOMAIN ctx THEN "undefined"
           ELSE IF line[3] = "matches" /\ line[4] \in HugePatterns THEN "error"
           ELSE IF eval_pred(line, ctx) THEN "true" ELSE "undefined"
      [] line[1] = "lower" ->
           IF /\ line[3] \in DOMAIN ctx
              /\ LET v == rego_lower(ctx[line[3]])
                 IN  IF line[2] = "==" THEN v = line[4] ELSE IsSuffix(line[4], v)
           THEN "true" ELSE "undefined"
      [] line[1] = "not rule" ->
           IF line[2] \in active THEN "error"
           ELSE LET named == SelectSeq(code.helpers, LAMBDA h : h.name = line[2])
                    v == RuleValue([i \in DOMAIN named |-> named[i].body],
                                   code, ctx, active \cup {line[2]})
                IN  CASE v = "true" -> "undefined" [] v = "undefined" -> "true" [] OTHER -> v

\* evaluate: data.writ.decision is an else chain over the matchers.
RegoVerdict(p, code, ctx) ==
    LET value == [i \in DOMAIN code.matchers |-> RuleValue(code.matchers[i], code, ctx, {})]
        settled == {i \in DOMAIN value : value[i] # "undefined"}
    IN  IF /\ settled # {}
           /\ value[Min(settled)] = "error" \/ Min(settled) \notin DOMAIN p.rules
        THEN fail_closed
        ELSE FirstOf(p, settled)

-----------------------------------------------------------------------------
(***************************************************************************)
(* Loading and evaluating                                                  *)
(***************************************************************************)
Panics(name, p) == name = "rego" /\ \E i \in DOMAIN p.rules : PanicsIn(p.rules[i].when)

\* build: the policy, and what is generated from it.
build(name, p) ==
    [name |-> name, policy |-> p,
     code |-> CASE name = "cedar" -> CedarGenerate(p)
                [] name = "rego" -> RegoGenerate(p)
                [] OTHER -> <<>>]

\* from_source.
PolicyInit ==
    /\ \E name \in EngineNames, s \in StartSources :
          /\ s.compiles /\ ~Panics(name, s)
          /\ engine = build(name, s) /\ accepted = s
    /\ panicked = FALSE /\ reloads = 0

CanReload == ~panicked /\ reloads < MaxReloads

\* reload that swaps the new policy in.
ReloadOk ==
    /\ CanReload
    /\ \E s \in NextSources :
          /\ s.compiles /\ ~Panics(engine.name, s)
          /\ engine' = build(engine.name, s) /\ accepted' = s
    /\ reloads' = reloads + 1 /\ UNCHANGED panicked

\* Mutant: the policy is assigned before the generated text is parsed.
HalfSwapped ==
    /\ CanReload
    /\ \E s \in NextSources :
          /\ s.compiles => engine.name # "native" /\ ~Panics(engine.name, s)
          /\ engine' = IF s.compiles THEN [engine EXCEPT !.policy = s] ELSE engine
    /\ reloads' = reloads + 1 /\ UNCHANGED <<accepted, panicked>>

\* The source does not compile, or the generated text does not parse.
ReloadErr ==
    /\ CanReload
    /\ \E s \in NextSources :
          s.compiles => engine.name # "native" /\ ~Panics(engine.name, s)
    /\ reloads' = reloads + 1 /\ UNCHANGED <<engine, accepted, panicked>>

ReloadPanics ==
    /\ CanReload
    /\ \E s \in NextSources : s.compiles /\ Panics(engine.name, s)
    /\ panicked' = TRUE
    /\ UNCHANGED <<engine, accepted, reloads>>

PolicyNext == ReloadOk \/ ReloadErr \/ ReloadPanics

PolicySpec == PolicyInit /\ [][PolicyNext]_policyVars

evaluate(ctx) ==
    CASE engine.name = "native" -> NativeVerdict(engine.policy, ctx)
      [] engine.name = "cedar" -> CedarVerdict(engine.policy, engine.code, ctx)
      [] engine.name = "rego" -> RegoVerdict(engine.policy, engine.code, ctx)

-----------------------------------------------------------------------------
(***************************************************************************)
(* What the engines promise                                                *)
(***************************************************************************)
RECURSIVE Patterns(_)
Patterns(e) ==
    CASE e[1] \in {"or", "and"} -> Patterns(e[2]) \cup Patterns(e[3])
      [] e[1] = "not" -> Patterns(e[2])
      [] OTHER -> IF e[1] = "cmp" /\ e[3] = "matches" THEN {e[4]} ELSE {}

\* The documented difference: a pattern regorus refuses to compile.
BeyondCap(p) ==
    \E i \in DOMAIN p.rules : Patterns(p.rules[i].when) \cap HugePatterns # {}

\* The wildcard entries of e, each with the field it is tested against.
RECURSIVE Wildcards(_)
Wildcards(e) ==
    CASE e[1] \in {"or", "and"} -> Wildcards(e[2]) \cup Wildcards(e[3])
      [] e[1] = "not" -> Wildcards(e[2])
      [] OTHER -> IF e[1] = "in" THEN {<<e[2], t>> : t \in {u \in ToSet(e[3]) : IsWildcard(u)}}
                  ELSE {}

WildcardsOf(p) == UNION {Wildcards(p.rules[i].when) : i \in DOMAIN p.rules}

\* A field tested against a wildcard holds a capital outside ASCII, which only
\* Rego's lower() changes.
LoweredApart(p, ctx) ==
    \E w \in WildcardsOf(p) :
       /\ w[1] \in DOMAIN ctx
       /\ rego_lower(ctx[w[1]]) # to_ascii_lowercase(ctx[w[1]])

\* Contract 2: whatever was translated, and whichever reloads failed, every
\* engine gives every call the verdict of the first rule of the last accepted
\* policy that matches natively, or its default.  Only Rego may do otherwise:
\* deny, for a policy with a pattern beyond regorus's cap, and judge a wildcard
\* entry by the Unicode small letters of a value with a capital outside ASCII.
VerdictsAgree ==
    \A ctx \in CallContexts :
       \/ evaluate(ctx) = NativeVerdict(accepted, ctx)
       \/ engine.name = "rego" /\ BeyondCap(accepted) /\ evaluate(ctx) = fail_closed
       \/ engine.name = "rego" /\ LoweredApart(accepted, ctx)
=============================================================================
