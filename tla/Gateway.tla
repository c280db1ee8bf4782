------------------------------ MODULE Gateway -------------------------------
(***************************************************************************)
(* The gateway process: the accept loop and its drain (server.rs,          *)
(* shutdown.rs, main.rs), the connections it spawns, the request handler   *)
(* each of them runs (proxy.rs, health.rs) with the capability broker it   *)
(* calls (ToolBroker), and the bounded bus that carries the request spans  *)
(* to the sink (riftgate-obs).                                             *)
(*                                                                         *)
(* A handler is a sequence of steps; it gives up its task, and can be      *)
(* dropped there, only at its awaits: waiting for a request, for the rest  *)
(* of the body, for the upstream, and between two frames of the response.  *)
(* config is what the process was started with, the per-core-scheduler     *)
(* feature of the build included.                                          *)
(***************************************************************************)
EXTENDS ToolBroker

CONSTANTS
    Conns,          \* connections clients open
    Configs,        \* configurations the process may be started with, each with
                    \* three bounds on its load: how many clients connect,
                    \* which requests they send, and how many of them
    BusCapacity,    \* obs.bus_capacity
    MaxId,          \* bound on the request ids used
    MaxClock        \* bound on the wall clock

VARIABLES
    config,         \* the loaded configuration
    clock,          \* the wall clock the broker reads
    draining,       \* the value in the watch channel
    seen,           \* the accept loop has seen the current value
    server,         \* where the accept loop, and main after it, stand
    grace,          \* the drain grace has expired
    inFlight,       \* the in_flight counter
    conn,           \* where each connection stands
    req,            \* the request each connection is handling
    nextId,         \* the RequestId counter
    audit,          \* records of the audit log
    forwarded,      \* MCP requests sent upstream, with their attestation
    bus,            \* the bounded channel
    sink            \* the last span of each request the sink was given

serverVars == <<draining, seen, server, grace>>
busVars == <<bus, sink>>
brokerVars == <<nextId, audit, forwarded>>
vars == <<config, clock, serverVars, inFlight, conn, req, brokerVars, busVars>>

Ids == 1..MaxId

\* A connection that is between requests.
Idle == [pc |-> "idle", id |-> 0, first |-> FALSE]

\* The awaits of a connection's task.
Awaits == {"idle", "body", "upstream", "streaming"}

Init ==
    /\ config \in Configs
    /\ clock = 0
    /\ draining = FALSE /\ seen = TRUE /\ server = "top" /\ grace = FALSE
    /\ inFlight = 0
    /\ conn = [c \in Conns |-> "away"]
    /\ req = [c \in Conns |-> Idle]
    /\ nextId = 1 /\ audit = {} /\ forwarded = {}
    /\ bus = <<>>
    /\ sink = [i \in Ids |-> "none"]

(***************************************************************************)
(* The observability bus.                                                  *)
(***************************************************************************)

\* Publisher::publish: try_send; what does not fit is dropped and counted (the
\* counter is left out).
Publish(id, name) ==
    /\ bus' = IF Len(bus) < BusCapacity THEN Append(bus, [id |-> id, name |-> name]) ELSE bus
    /\ UNCHANGED sink

\* One turn of the worker thread: drain, and MultiSink::publish on the event.
Drain ==
    /\ server # "exited"
    /\ bus # <<>>
    /\ bus' = Tail(bus)
    /\ sink' = [sink EXCEPT ![Head(bus).id] = Head(bus).name]
    /\ UNCHANGED <<config, clock, serverVars, inFlight, conn, req, brokerVars>>

(***************************************************************************)
(* The accept loop.                                                        *)
(***************************************************************************)

\* A client connects; the kernel queues it for accept.
Connect(c) ==
    /\ conn[c] = "away" /\ server # "exited"
    /\ Cardinality({d \in Conns : conn[d] # "away"}) < config.clients
    /\ conn' = [conn EXCEPT ![c] = "backlog"]
    /\ UNCHANGED <<config, clock, serverVars, inFlight, req, brokerVars, busVars>>

Backlog == {c \in Conns : conn[c] = "backlog"}

\* SIGTERM or SIGINT: wait_for_signal returns and begin_drain sets the flag.
BeginDrain ==
    /\ ~draining
    /\ draining' = TRUE /\ seen' = FALSE
    /\ UNCHANGED <<config, clock, server, grace, inFlight, conn, req, brokerVars, busVars>>

IsDraining == draining

\* The loop's own check, before select.
LoopTop ==
    /\ server = "top"
    /\ server' = IF IsDraining THEN "drain" ELSE "changed"
    /\ UNCHANGED <<config, clock, draining, seen, grace, inFlight, conn, req, brokerVars, busVars>>

\* select! is biased: drain.changed() is polled first.
PollChanged ==
    /\ server = "changed"
    /\ seen' = TRUE
    /\ server' = IF seen THEN "accept" ELSE IF IsDraining THEN "drain" ELSE "top"
    /\ UNCHANGED <<config, clock, draining, grace, inFlight, conn, req, brokerVars, busVars>>

\* Then listener.accept().  The default build counts the connection and spawns
\* its task; the per-core build hands the scheduler a closure that will.
PollAccept ==
    /\ server = "accept"
    /\ \E c \in Backlog :
          /\ conn' = [conn EXCEPT ![c] = IF config.perCore THEN "queued" ELSE "open"]
          /\ inFlight' = IF config.perCore THEN inFlight ELSE inFlight + 1
    /\ server' = "top"
    /\ UNCHANGED <<config, clock, draining, seen, grace, req, brokerVars, busVars>>

\* An accept that fails (descriptors used up) leaves the client in the backlog.
AcceptFails ==
    /\ server = "accept" /\ Backlog # {}
    /\ server' = "top"
    /\ UNCHANGED <<config, clock, draining, seen, grace, inFlight, conn, req, brokerVars, busVars>>

\* Both branches pending: the task sleeps.
Park ==
    /\ server = "accept" /\ Backlog = {}
    /\ server' = "parked"
    /\ UNCHANGED <<config, clock, draining, seen, grace, inFlight, conn, req, brokerVars, busVars>>

\* Either of them wakes it, and both are polled again in their order.
Wake ==
    /\ server = "parked" /\ (Backlog # {} \/ ~seen)
    /\ server' = "changed"
    /\ UNCHANGED <<config, clock, draining, seen, grace, inFlight, conn, req, brokerVars, busVars>>

\* Per-core build: a scheduler worker runs the closure, and the task it spawns
\* starts by counting itself.
StartQueued(c) ==
    /\ conn[c] = "queued" /\ server # "exited"
    /\ conn' = [conn EXCEPT ![c] = "open"]
    /\ inFlight' = inFlight + 1
    /\ UNCHANGED <<config, clock, serverVars, req, brokerVars, busVars>>

Open == {c \in Conns : conn[c] = "open"}

\* The end of the drain phase before its deadline: the JoinSet is empty, or
\* the counter the per-core build polls is zero.
DrainComplete ==
    /\ server = "drain"
    /\ IF config.perCore THEN inFlight = 0 ELSE Open = {}
    /\ server' = "returned"
    /\ UNCHANGED <<config, clock, draining, seen, grace, inFlight, conn, req, brokerVars, busVars>>

\* What a drain without a deadline would do.
GraceUnlimited ==
    /\ server = "drain" /\ Open = {}
    /\ grace' = TRUE
    /\ server' = "aborting"
    /\ UNCHANGED <<config, clock, draining, seen, inFlight, conn, req, brokerVars, busVars>>

\* The deadline: JoinSet::shutdown aborts the tasks and waits for them; the
\* per-core build cannot abort and returns once its scheduler has shut down.
GraceExpires ==
    /\ server = "drain"
    /\ grace' = TRUE
    /\ server' = IF config.perCore THEN "returned" ELSE "aborting"
    /\ UNCHANGED <<config, clock, draining, seen, inFlight, conn, req, brokerVars, busVars>>

\* What shutting the JoinSet down without waiting for its tasks would do.
ShutdownDetached ==
    /\ server = "aborting"
    /\ server' = "returned"
    /\ UNCHANGED <<config, clock, draining, seen, grace, inFlight, conn, req, brokerVars, busVars>>

ShutdownDone ==
    /\ server = "aborting" /\ Open = {}
    /\ server' = "returned"
    /\ UNCHANGED <<config, clock, draining, seen, grace, inFlight, conn, req, brokerVars, busVars>>

\* A task dropped at an await, by the abort or by the runtime that main drops.
\* It does not reach its fetch_sub; the response body it holds is dropped.
Cut(c) ==
    /\ server \in {"aborting", "returned"}
    /\ conn[c] = "open" /\ req[c].pc \in Awaits
    /\ conn' = [conn EXCEPT ![c] = "cut"]
    /\ req' = [req EXCEPT ![c] = Idle]
    /\ IF req[c].pc = "streaming"
       THEN Publish(req[c].id, "completed") ELSE UNCHANGED busVars
    /\ UNCHANGED <<config, clock, serverVars, inFlight, brokerVars>>

\* run returns, the runtime is gone, the process ends; what a scheduler worker
\* had spawned and nobody polled goes with it.
Exit ==
    /\ server = "returned" /\ Open = {}
    /\ server' = "exited"
    /\ conn' = [c \in Conns |-> IF conn[c] = "queued" THEN "cut" ELSE conn[c]]
    /\ UNCHANGED <<config, clock, draining, seen, grace, inFlight, req, brokerVars, busVars>>

(***************************************************************************)
(* The request handler, proxy::handle.                                     *)
(***************************************************************************)

\* The handler returned an answer with a complete body: the connection is kept.
Answered(c) == req' = [req EXCEPT ![c] = Idle]

\* A request arrives.  /health and /ready are answered at once; the others
\* wait for their body.
Receive(c, r) ==
    /\ conn[c] = "open" /\ req[c].pc = "idle" /\ server # "exited"
    /\ nextId <= config.total
    /\ nextId' = nextId + 1
    /\ Publish(nextId, "received")
    /\ IF r.path \in {"/health", "/ready"}
       THEN UNCHANGED req
       ELSE req' = [req EXCEPT ![c] = [pc |-> "body", id |-> nextId, first |-> FALSE, r |-> r]]
    /\ UNCHANGED <<config, clock, serverVars, inFlight, conn, audit, forwarded>>

\* The request goes on to the router; att is the attestation, if any.
ToRouter(c, att, mcp) ==
    req' = [req EXCEPT ![c] = [pc |-> "route", id |-> @.id, first |-> FALSE,
                               att |-> att, mcp |-> mcp]]

\* The body does not arrive whole, or is not what the path needs: 400.
BadBody(c) ==
    /\ req[c].pc = "body" /\ conn[c] = "open"
    /\ Answered(c)
    /\ UNCHANGED <<config, clock, serverVars, inFlight, conn, brokerVars, busVars>>

\* build_mcp_broker (mcp.rs): there is a broker if a tenant is configured.  What
\* else it reads is in config: enforce (or dry run) and wal, the audit log it
\* opens ("file", "failing" for one whose appends fail, "noop").
HasBroker == DOMAIN config.tenants # {}

\* The whole body of a request that no broker decides.
PlainBody(c) ==
    /\ req[c].pc = "body" /\ conn[c] = "open"
    /\ ~(req[c].r.path = "/mcp" /\ HasBroker)
    /\ IF req[c].r.path = "/v1/chat/completions" /\ ~req[c].r.body.json
       THEN Answered(c)
       ELSE ToRouter(c, {}, {})
    /\ UNCHANGED <<config, clock, serverVars, inFlight, conn, brokerVars, busVars>>

\* audit::write to the log the process was started with: a FileWal ("file"),
\* one whose append may fail ("failing"), or the NoopWal of an unset wal_path.
AuditWrite(record) ==
    \/ config.wal # "noop" /\ audit' = audit \cup {record}
    \/ config.wal # "file" /\ UNCHANGED audit

\* What auditing only the denials would do.
EmitAuditOfDenial(tenant, mreq, decision) ==
    /\ nextId' = nextId + 1
    /\ audit' = audit \cup {[id |-> nextId, tenant |-> tenant, mreq |-> mreq,
                             decision |-> d, at |-> clock] : d \in {decision} \ {"allow"}}

\* emit_audit: the event takes a RequestId of its own; a write that fails is
\* only warned about.
EmitAudit(tenant, mreq, decision) ==
    /\ nextId' = nextId + 1
    /\ AuditWrite([id |-> nextId, tenant |-> tenant, mreq |-> mreq,
                   decision |-> decision, at |-> clock])

\* POST /mcp: parse, resolve the tenant, authorize (which reads the clock and
\* writes the audit event), and answer 400 or 403 or go on.
McpBody(c) ==
    /\ req[c].pc = "body" /\ conn[c] = "open"
    /\ req[c].r.path = "/mcp" /\ HasBroker
    /\ LET mreq     == Parse(req[c].r.body)
           tenant   == TenantOf(config.resolver, req[c].r.headers)
           inner    == AllowlistAuthorize(config.tenants, mreq, tenant, clock)
           decision == IF config.enforce THEN inner ELSE DryRun(inner)
       IN  IF mreq = ParseError
           THEN Answered(c) /\ UNCHANGED <<nextId, audit>>
           ELSE /\ EmitAudit(tenant, mreq, IF inner.reason = NoReason THEN "allow" ELSE "deny")
                /\ IF decision.reason = NoReason
                   THEN ToRouter(c, {decision.att},
                                 {[tenant |-> tenant, mreq |-> mreq, at |-> clock]})
                   ELSE Answered(c)
    /\ UNCHANGED <<config, clock, serverVars, inFlight, conn, forwarded, busVars>>

\* router.route: Send goes on, Reject is answered with its span, Hedge with 500.
Route(c) ==
    /\ req[c].pc = "route"
    /\ \/ /\ req' = [req EXCEPT ![c].pc = "dispatch"]
          /\ Publish(req[c].id, "queued")
       \/ /\ Answered(c)
          /\ Publish(req[c].id, "rejected")
       \/ Answered(c) /\ UNCHANGED busVars
    /\ UNCHANGED <<config, clock, serverVars, inFlight, conn, brokerVars>>

\* HeaderValue::from_str accepts the subject.
HeaderSafe(att) == \A i \in 1..Len(att.subject) : att.subject[i] \in {9} \cup 32..126

\* Build the upstream request, attestation headers included, and send it; or
\* the URI does not parse: 500.
Dispatch(c) ==
    /\ req[c].pc = "dispatch"
    /\ \/ Answered(c) /\ UNCHANGED <<forwarded, busVars>>
       \/ /\ req' = [req EXCEPT ![c] = [pc |-> "upstream", id |-> @.id, first |-> FALSE]]
          /\ Publish(req[c].id, "dispatched")
          /\ forwarded' = forwarded \cup
                {[tenant |-> m.tenant, mreq |-> m.mreq, at |-> m.at,
                  att |-> {a \in req[c].att : HeaderSafe(a)}] : m \in req[c].mcp}
    /\ UNCHANGED <<config, clock, serverVars, inFlight, conn, nextId, audit>>

\* The upstream answers before the timeout: on_response, and the response body
\* is streamed through ObservedBody.
UpstreamResponds(c) ==
    /\ conn[c] = "open" /\ req[c].pc = "upstream"
    /\ req' = [req EXCEPT ![c].pc = "streaming"]
    /\ UNCHANGED <<config, clock, serverVars, inFlight, conn, brokerVars, busVars>>

\* The upstream fails: 502 and no further span.
UpstreamFails(c) ==
    /\ conn[c] = "open" /\ req[c].pc = "upstream"
    /\ Answered(c)
    /\ UNCHANGED <<config, clock, serverVars, inFlight, conn, brokerVars, busVars>>

\* backend.timeout_ms elapses first: 504.
UpstreamTimesOut(c) ==
    /\ conn[c] = "open" /\ req[c].pc = "upstream"
    /\ Answered(c)
    /\ Publish(req[c].id, "completed")
    /\ UNCHANGED <<config, clock, serverVars, inFlight, conn, brokerVars>>

\* What a frame observer that forgets first_seen would do.
PollFrameEach(c) ==
    /\ conn[c] = "open" /\ req[c].pc = "streaming"
    /\ Publish(req[c].id, "first_token")
    /\ UNCHANGED <<config, clock, serverVars, inFlight, conn, req, brokerVars>>

\* ObservedBody::poll_frame on the first data frame that is not empty; the
\* later ones change nothing.
PollFrame(c) ==
    /\ conn[c] = "open" /\ req[c].pc = "streaming" /\ ~req[c].first
    /\ req' = [req EXCEPT ![c].first = TRUE]
    /\ Publish(req[c].id, "first_token")
    /\ UNCHANGED <<config, clock, serverVars, inFlight, conn, brokerVars>>

\* The body ends, or its stream fails, and is dropped: PinnedDrop.
EndOfStream(c) ==
    /\ conn[c] = "open" /\ req[c].pc = "streaming"
    /\ Answered(c)
    /\ Publish(req[c].id, "completed")
    /\ UNCHANGED <<config, clock, serverVars, inFlight, conn, brokerVars>>

\* The client goes away: hyper drops the handler or the body, serve_connection
\* returns and the task counts itself out.
Disconnect(c) ==
    /\ conn[c] = "open" /\ req[c].pc \in Awaits
    /\ conn' = [conn EXCEPT ![c] = "closed"]
    /\ inFlight' = inFlight - 1
    /\ req' = [req EXCEPT ![c] = Idle]
    /\ IF req[c].pc = "streaming"
       THEN Publish(req[c].id, "completed") ELSE UNCHANGED busVars
    /\ UNCHANGED <<config, clock, serverVars, brokerVars>>

\* Time passes; only the broker reads it.
Tick ==
    /\ clock < MaxClock /\ server # "exited" /\ HasBroker
    /\ clock' = clock + 1
    /\ UNCHANGED <<config, serverVars, inFlight, conn, req, brokerVars, busVars>>

(***************************************************************************)
(* The specification.                                                      *)
(***************************************************************************)

AcceptLoop == LoopTop \/ PollChanged \/ PollAccept \/ AcceptFails \/ Park \/ Wake

DrainPhase == DrainComplete \/ GraceExpires \/ ShutdownDone \/ Exit

Handle(c) ==
    \/ BadBody(c) \/ PlainBody(c) \/ McpBody(c) \/ Route(c) \/ Dispatch(c)
    \/ UpstreamResponds(c) \/ UpstreamFails(c) \/ UpstreamTimesOut(c)
    \/ PollFrame(c) \/ EndOfStream(c)

Next ==
    \/ BeginDrain \/ Tick \/ Drain \/ AcceptLoop \/ DrainPhase
    \/ \E c \in Conns :
          \/ Connect(c) \/ StartQueued(c) \/ Handle(c) \/ Cut(c) \/ Disconnect(c)
          \/ \E r \in config.requests : Receive(c, r)

Spec == Init /\ [][Next]_vars

\* The runtime polls a task that was woken, the grace timer fires, a handler
\* between two awaits goes on, an aborted task is dropped.  Clients, the
\* upstream and the bus worker owe nothing.
Fairness ==
    /\ WF_vars(AcceptLoop)
    /\ WF_vars(DrainPhase)
    /\ \A c \in Conns :
          /\ WF_vars(Cut(c))
          /\ WF_vars(Route(c) \/ Dispatch(c))

FairSpec == Spec /\ Fairness

(***************************************************************************)
(* Properties.                                                             *)
(***************************************************************************)

\* In the default build a connection is dropped by the server only after the
\* drain grace has expired, and none is left when accept_loop returns.
DrainIsGraceful ==
    ~config.perCore =>
        /\ (\E c \in Conns : conn[c] = "cut") => grace
        /\ server \in {"returned", "exited"} => Open = {}

\* The order of the spans in the head comment of proxy.rs.
SpanOrder == <<"none", "received", "queued", "dispatched", "first_token", "completed">>

Precedes(a, b) ==
    \/ \E i, j \in DOMAIN SpanOrder : i < j /\ a = SpanOrder[i] /\ b = SpanOrder[j]
    \/ a \in {"none", "received"} /\ b = "rejected"

\* The spans of one request reach the sink in the order proxy.rs documents,
\* each at most once, whatever the bus dropped between them; none follows the
\* span of a rejection.
SpansInOrder ==
    [][\A e \in Range(bus) : bus = <<e>> \o bus' => Precedes(sink[e.id], e.name)]_vars

\* In enforcing mode an MCP request goes upstream only if the tenant's
\* configuration permits it at the time of the decision, read without the
\* sorted vectors of the allowlist.
ForwardedIfPermitted ==
    config.enforce =>
        \A f \in forwarded : Permitted(config.tenants, f.mreq, f.tenant, f.at)

\* The attestation that goes upstream names the caller and the subject of the
\* request it is sent with, and its signature verifies only if the
\* configuration permits the request, dry run or not; it also verifies if the
\* configuration permits it, where no prefix of the tenant extends another.
AttestationSound ==
    \A f \in forwarded : \A a \in f.att :
        /\ a.caller = f.tenant /\ a.subject = f.mreq.subject
        /\ Verify(a) => Permitted(config.tenants, f.mreq, f.tenant, f.at)
        /\ Permitted(config.tenants, f.mreq, f.tenant, f.at)
              => Verify(a) \/ Shadowing(config.tenants[f.tenant])

\* With an audit log that can be written, a record is there before the request
\* goes upstream.  It says allow only if the configuration permits the request,
\* also when the dry run lets a denied one pass.
AuditedBeforeForwarding ==
    config.wal = "file" =>
        \A f \in forwarded : \E a \in audit :
            /\ a.tenant = f.tenant /\ a.mreq = f.mreq /\ a.at = f.at
            /\ a.decision = "allow" => Permitted(config.tenants, f.mreq, f.tenant, f.at)

\* Once a signal has arrived the process ends, whatever its clients and the
\* upstream do.
DrainEnds == draining ~> (server = "exited")

=============================================================================
