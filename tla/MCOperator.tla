----------------------------- MODULE MCOperator -----------------------------
(* The objects of the namespace in the instances TLC checks. *)
EXTENDS Operator

\* One backend with a URL and one without; two lists of routes, one with
\* names that render to the same key.
MCBackendLists ==
    {<<[name |-> "b1", url |-> TRUE, timeout |-> "x"],
       [name |-> "b0", url |-> FALSE, timeout |-> "x"]>>}
Route(name, mcp, ref) == [name |-> name, mcp |-> mcp, secretRef |-> ref]
MCRouteLists ==
    {<<Route(<<"a", "-">>, TRUE, FALSE), Route(<<"a", ".">>, TRUE, TRUE)>>,
     <<Route(<<"c">>, FALSE, TRUE), Route(<<"d">>, TRUE, TRUE)>>}
Line(kind, key, tenant) == [kind |-> kind, key |-> key, tenant |-> tenant]
MCSecrets ==
    {[readable |-> TRUE,
      lines |-> <<Line("raw", "k", "acme"), Line("skip", "", ""),
                  Line("hashed", Sha256("k"), "other")>>]}
=============================================================================
