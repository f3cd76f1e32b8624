----------------------------- MODULE MCMatching -----------------------------
EXTENDS Matching

\* A host and its domain under suffixes of one and of two labels, and one without.
MCNames ==
  {<<"www", "shop", "com">>, <<"shop", "com">>, <<"news", "com">>,
   <<"www", "shop", "co", "uk">>, <<"shop", "co", "uk">>, <<"news", "co", "uk">>,
   <<"co", "uk">>, <<"intranet">>}
MCPublicSuffix == {<<"com">>, <<"uk">>, <<"co", "uk">>}
MCV4 == {"a1", "a2"}
MCV6 == {"b1"}
MCNets == {{"a1"}, {"a1", "a2"}, {"b1"}}
MCPorts == {80, 443, 22}
MCPaths == {"/"}
MCRegexes == {{URL(r) : r \in {q \in Request : q.at.port = 443}}}
=============================================================================
