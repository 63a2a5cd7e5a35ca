----------------------------- MODULE MCControls -----------------------------
(* Small instances of Controls: two rows on one endpoint, one of which has a   *)
(* tolerated value, a set-valued row of a repository, an unassertable row and  *)
(* a malformed one.                                                            *)
EXTENDS Controls

CONSTANTS s1, s2, stray

MCRow(key, scope, repository, endpoint, kind, expect, tolerated, compare) ==
    [key |-> key, scope |-> scope, repository |-> repository, endpoint |-> endpoint,
     path |-> "parses", kind |-> kind, expect |-> expect, tolerated |-> tolerated,
     compare |-> compare]

MCOrg == MCRow("defaults", "org", "", "/orgs/o", "assert", "value", "unset", "exact")
MCTolerated == MCRow("pinning", "org", "", "/orgs/o", "assert", "value", "value", "exact")
MCSet == MCRow("pinning", "repo", "r", "/repos/o/r", "assert", "value", "unset", "set")
MCUnassertable == MCRow("codeql", "org", "", "", "unassertable", "unset", "unset", "exact")
MCMalformed == MCRow("half", "repo", "r", "/repos/o/r", "assert", "objects", "unset", "set")

MCTable == <<MCOrg, MCUnassertable, MCTolerated, MCMalformed, MCSet>>

MCFamilies == <<"visibility", "repositories", "undeclared">>

\* The table tells its rows apart.
ASSUME TableAssumption == Identified
=============================================================================
