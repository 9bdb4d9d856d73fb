---------------------------- MODULE MCMcpGateway ----------------------------
EXTENDS McpGateway, TLC

MCRequests == {<<"call", "sse">>, <<"list", "json">>}

\* Entries are evicted where agents have sessions, and replaced where they
\* share a key: the lower cap goes with the first.
MCInit == Init /\ (cap = 1 <=> sessions # {})
MCSpec == MCInit /\ [][Next]_vars

\* Connections, agents and ids are interchangeable.
Symmetry == Permutations(Conns) \cup Permutations(Agents) \cup Permutations(Ids)
=============================================================================
