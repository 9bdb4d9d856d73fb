--------------------------- MODULE MCPolicyEngines ---------------------------
(***************************************************************************)
(* PolicyEngines for TLC: policies of one and two rules over the fields    *)
(* `tool', which every call has, `url_host', which some have, and a name   *)
(* outside the vocabulary.                                                 *)
(***************************************************************************)
EXTENDS PolicyEngines

Cmp(f, op, t) == <<"cmp", f, op, t>>
Host == "url_host"

\* Every operator, with the operands that set the engines apart: `*' as an
\* ordinary symbol, two cases, wildcards in and outside ASCII, an empty list, a huge pattern.
Leaves ==
    {Cmp("tool", "==", <<"a">>), Cmp(Host, "!=", <<"a">>),
     Cmp(Host, "startswith", <<"*">>), Cmp(Host, "endswith", <<"a">>),
     Cmp(Host, "contains", <<"*">>), Cmp(Host, "matches", <<"a">>),
     Cmp("tool", "matches", <<"b">>), Cmp(Host, "matches", <<"huge">>),
     Cmp(Unknown, "!=", <<"a">>), Cmp(Unknown, "matches", <<"a">>),
     <<"in", Host, <<>>>>, <<"in", Host, <<<<"*", ".", "A">>, <<"b", "a">>>>>>,
     <<"in", Host, <<<<"*", ".", "U">>, <<"*", ".", "u">>>>>>,
     <<"in", Host, <<<<"*", ".", "k">>>>>>,
     <<"in", "tool", <<<<"b">>>>>>}

Few == {Cmp("tool", "==", <<"a">>), Cmp(Host, "!=", <<"a">>), Cmp(Host, "matches", <<"a">>),
        <<"in", Host, <<<<"*", ".", "A">>, <<"b", "a">>>>>>}

Huge == {<<"huge">>}

Not(S) == {<<"not", e>> : e \in S}
Join(S, T) == {<<op, a, b>> : op \in {"and", "or"}, a \in S, b \in T}

\* `not' over anything without a `not' in it.
Flat ==
    Leaves \cup Not(Leaves) \cup Not(Join(Few, Few))
      \cup Join(Few \cup Not(Few), Few \cup Not(Few))
      \cup Join(Join(Few, Few), Not(Few)) \cup Join(Not(Few), Not(Join(Few, Few)))

Nested == Not(Join(Few, Not(Few)))

Rule(id, when, verdict) == [id |-> id, when |-> when, verdict |-> verdict]
Source(rules) == [compiles |-> TRUE, rules |-> rules, default |-> "ask"]

FlatSources ==
    {Source(<<>>)} \cup {Source(<<Rule("r1", e, "deny")>>) : e \in Flat}
      \cup {Source(<<Rule("r1", e, "deny"), Rule("r2", f, "allow")>>) :
               e \in Leaves \cup Not(Leaves), f \in Few \cup Not(Leaves)}
NestedSources == {Source(<<Rule("r1", e, "deny")>>) : e \in Nested}

\* Two that load, one that does not compile, one Rego's codegen panics on.
Replacements ==
    {Source(<<>>), Source(<<Rule("n1", Cmp("tool", "!=", <<"a">>), "redact"),
                            Rule("n2", <<"not", Cmp(Host, "matches", <<"b">>)>>, "allow")>>),
     [Source(<<>>) EXCEPT !.compiles = FALSE],
     Source(<<Rule("n1", <<"in", Unknown, <<<<"a">>>>>>, "allow")>>)}

Texts == {<<"a">>, <<"b">>, <<"A">>, <<"b", ".", "a">>, <<"b", "a">>, <<"*">>, <<"*", "a">>,
          <<"U">>, <<"b", ".", "u">>, <<"b", ".", "K">>, <<"k">>}

Contexts ==
    {("tool" :> t) : t \in {<<"a">>, <<"b">>}}
      \cup {("tool" :> t) @@ (Host :> h) : t \in {<<"a">>, <<"b">>}, h \in Texts}
=============================================================================
