----------------------------- MODULE MCGateway ------------------------------
(* Instances of Gateway: one tenant with an allowed, a denied and a granted  *)
(* tool and two resource prefixes, which in Acme's configuration extend one  *)
(* another and in Beta's do not.                                             *)
EXTENDS Gateway

CONSTANTS c1, c2

Tool(n) == <<n>>

Allowed == Tool(97)
Denied == Tool(98)
Granted == Tool(99)

Acme == [allowed |-> {Allowed, Denied}, denied |-> {Denied},
         prefixes |-> {<<97, Star>>, <<97, 98, 99, Star>>},
         grants |-> {[tool |-> Granted, until |-> 1]}]

Beta == [Acme EXCEPT !.prefixes = {<<97, Star>>, <<98, 99, Star>>}]

Server(perCore, enforce, tenants, resolver, wal, clients, requests, total) ==
    [perCore |-> perCore, enforce |-> enforce, tenants |-> tenants,
     resolver |-> resolver, wal |-> wal,
     clients |-> clients, requests |-> requests, total |-> total]

HeaderMode == [mode |-> "trusted-header", keys |-> <<>>]
KeyMode == [mode |-> "api-key", keys |-> [k \in {"key"} |-> 1]]

Request(path, json, version, method, field, tenant, bearer) ==
    [path |-> path,
     body |-> [json |-> json, version |-> version, method |-> method, field |-> field],
     headers |-> [tenant |-> tenant, bearer |-> bearer]]

Mcp(method, field) == Request("/mcp", TRUE, "2.0", method, field, {1}, "key")

PlainRequests ==
    {Request("/v1/chat/completions", TRUE, "", "", {}, {}, "")}

McpRequests ==
    {Request("/ready", FALSE, "", "", {}, {}, ""),
     Request("/v1/chat/completions", FALSE, "", "", {}, {}, ""),
     Request("/mcp", TRUE, "1.0", "ping", {}, {}, ""),
     Request("/mcp", TRUE, "2.0", "ping", {}, {}, "")}
    \cup {Mcp("tools/call", {t}) : t \in {Allowed, Denied, Granted}}
    \cup {Mcp("resources/read", {u}) : u \in {<<97>>, <<97, 98, 100>>, <<97, 98, 99, 200>>}}

MCConfigs ==
    {Server(FALSE, FALSE, <<>>, HeaderMode, "noop", 2, PlainRequests, 2),
     Server(FALSE, TRUE, [t \in {1} |-> Acme], HeaderMode, "file", 1, McpRequests, 1),
     Server(TRUE, FALSE, [t \in {1} |-> Beta], KeyMode, "file", 1, McpRequests, 1),
     Server(TRUE, TRUE, [t \in {1} |-> Beta], KeyMode, "failing", 1, {Mcp("tools/call", {Granted})}, 1)}

=============================================================================
