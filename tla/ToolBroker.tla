----------------------------- MODULE ToolBroker -----------------------------
(***************************************************************************)
(* The capability broker that decides the MCP (Model Context Protocol)     *)
(* requests of the gateway: crates/riftgate-mcp and the wiring of          *)
(* crates/riftgate/src/mcp.rs.  Everything here is a pure operator; the    *)
(* module Gateway calls Parse, Resolve and Authorize from the request      *)
(* handler.                                                                *)
(*                                                                         *)
(* A subject (a tool, a URI) is a sequence of byte values, because the     *)
(* prefix match depends on their order; an Option is a set of at most one  *)
(* element; a time is a number of seconds; a tenant is the number          *)
(* tenant_id_from_key gives its name.  HMAC-SHA256 is an injective         *)
(* function of what is signed: the tuple itself.                           *)
(***************************************************************************)
EXTENDS Integers, Sequences, FiniteSets, SequencesExt

\* The byte '*', which ends a prefix in the configuration.
Star == 42

\* The absence of a reason to deny.
NoReason == "none"

\* The subject of a request that names none: the method itself, abstracted.
MethodItself == <<>>

ParseError == [kind |-> "ParseError", subject |-> MethodItself]

Named == {"tools/call", "resources/read", "prompts/get"}

Unnamed == {"tools/list", "resources/list", "prompts/list",
            "initialize", "ping", "shutdown"}

\* string_field: a method of Named needs its name or uri.
HasField(body) == body.method \in Named => body.field # {}

RequestSubject(body) ==
    IF body.method \in Named THEN CHOOSE s \in body.field : TRUE ELSE MethodItself

\* parse: a body is what its JSON decodes to.
Parse(body) ==
    IF /\ body.json
       /\ body.version = "2.0"
       /\ body.method \in Named \cup Unnamed
       /\ HasField(body)
    THEN [kind |-> body.method, subject |-> RequestSubject(body)]
    ELSE ParseError

(***************************************************************************)
(* CompiledAllowlist.                                                      *)
(***************************************************************************)

\* trim_end_matches('*').
TrimStars(p) ==
    SubSeq(p, 1, Max({0} \cup {i \in 1..Len(p) : p[i] # Star}))

\* The order of strings: bytewise, a proper prefix first.
StrLeq(a, b) ==
    \/ IsPrefix(a, b)
    \/ \E i \in 1..Len(a) :
          /\ i <= Len(b)
          /\ a[i] < b[i]
          /\ \A j \in 1..(i - 1) : a[j] = b[j]

\* CompiledAllowlist::from_config: both vectors are kept sorted.
FromConfig(cfg) ==
    [allowed  |-> cfg.allowed,
     denied   |-> cfg.denied,
     prefixes |-> SetToSortSeq({TrimStars(p) : p \in cfg.prefixes},
                               LAMBDA a, b : StrLeq(a, b) /\ a # b),
     grants   |-> SetToSortSeq(cfg.grants,
                               LAMBDA a, b : a.until < b.until)]

\* slice::partition_point on a slice that the predicate does partition.
PartitionPoint(s, Before(_)) == Cardinality({i \in 1..Len(s) : Before(s[i])})

\* The two neighbours of the place where the URI would be inserted.
ResourcePrefixMatches(al, uri) ==
    LET pos == PartitionPoint(al.prefixes, LAMBDA p : StrLeq(p, uri))
    IN  \/ pos > 0 /\ IsPrefix(al.prefixes[pos], uri)
        \/ pos < Len(al.prefixes) /\ IsPrefix(al.prefixes[pos + 1], uri)

\* What skipping only the grants that ended before now would do.
HasGrantAtExpiry(al, tool, now) ==
    \E i \in (PartitionPoint(al.grants, LAMBDA g : g.until < now) + 1)..Len(al.grants) :
        al.grants[i].tool = tool

\* has_active_grant: past the expired grants of the sorted vector, any that
\* names the tool.
HasActiveGrant(al, tool, now) ==
    \E i \in (PartitionPoint(al.grants, LAMBDA g : g.until <= now) + 1)..Len(al.grants) :
        al.grants[i].tool = tool

\* check_tool: the denylist first, then the allowlist, then the grants.
CheckTool(al, tool, now) ==
    CASE tool \in al.denied -> "in_denylist"
      [] tool \notin al.denied /\ (tool \in al.allowed \/ HasActiveGrant(al, tool, now)) -> NoReason
      [] OTHER -> "not_in_allowlist"

\* check_resource.
CheckResource(al, uri) ==
    IF ResourcePrefixMatches(al, uri) THEN NoReason ELSE "not_in_allowlist"

\* evaluate: the reason to deny, or NoReason.
Evaluate(al, mreq, now) ==
    CASE mreq.kind = "tools/call"     -> CheckTool(al, mreq.subject, now)
      [] mreq.kind = "resources/read" -> CheckResource(al, mreq.subject)
      [] OTHER                        -> NoReason

(***************************************************************************)
(* Attestation and the two brokers.                                        *)
(***************************************************************************)

ZeroSignature == <<>>

\* attestation::sign and verify.
Sign(caller, subject) ==
    [caller |-> caller, subject |-> subject, decision |-> "allow",
     signature |-> <<caller, subject, "allow">>]

Verify(att) == att.signature = <<att.caller, att.subject, att.decision>>

\* AllowlistBroker::authorize, without its audit event: the reason to deny, and
\* the attestation of an Allow.
AllowlistAuthorize(tenants, mreq, tenant, now) ==
    [reason |-> IF tenant \in DOMAIN tenants
                THEN Evaluate(FromConfig(tenants[tenant]), mreq, now)
                ELSE "tenant_unknown",
     att    |-> Sign(tenant, mreq.subject)]

\* What a dry run that kept the signature would return: an attestation the
\* downstream server cannot tell from a real one.
DryRunSigned(d) == [d EXCEPT !.reason = NoReason]

\* DryRunBroker::authorize: a Deny becomes an Allow with the zero signature.
DryRun(d) ==
    IF d.reason = NoReason
    THEN d
    ELSE [reason |-> NoReason,
          att    |-> [d.att EXCEPT !.decision = "allow-dry-run", !.signature = ZeroSignature]]

(***************************************************************************)
(* Tenant resolution.                                                      *)
(***************************************************************************)

HeaderTenant(headers) ==
    {IF headers.tenant = {} THEN 0 ELSE CHOOSE n \in headers.tenant : TRUE}

ApiKeyTenant(keys, headers) == {keys[k] : k \in {headers.bearer} \cap DOMAIN keys}

\* build_tenant_resolver: an empty registry selects the header.
Resolve(resolver, headers) ==
    IF resolver.mode = "trusted-header" \/ DOMAIN resolver.keys = {}
    THEN HeaderTenant(headers)
    ELSE ApiKeyTenant(resolver.keys, headers)

\* The handler's fallback to tenant 0 when the resolver returns None.
TenantOf(resolver, headers) ==
    LET found == Resolve(resolver, headers)
    IN  IF found = {} THEN 0 ELSE CHOOSE n \in found : TRUE

(***************************************************************************)
(* What the configuration means, without the sorted vectors.               *)
(***************************************************************************)

\* TenantAllowlist as its field comments describe it.
Permitted(tenants, mreq, tenant, now) ==
    /\ tenant \in DOMAIN tenants
    /\ LET cfg == tenants[tenant]
       IN  CASE mreq.kind = "tools/call" ->
                   /\ mreq.subject \notin cfg.denied
                   /\ \/ mreq.subject \in cfg.allowed
                      \/ \E g \in cfg.grants : g.tool = mreq.subject /\ now < g.until
             [] mreq.kind = "resources/read" ->
                   \E p \in cfg.prefixes : IsPrefix(TrimStars(p), mreq.subject)
             [] OTHER -> TRUE

\* A prefix of the tenant that extends another: between the two lie URIs whose
\* neighbour in the sorted vector is not the prefix that matches them.
Shadowing(cfg) ==
    \E p, q \in cfg.prefixes :
        TrimStars(p) # TrimStars(q) /\ IsPrefix(TrimStars(p), TrimStars(q))

=============================================================================
