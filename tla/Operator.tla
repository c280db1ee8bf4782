------------------------------ MODULE Operator ------------------------------
(***************************************************************************)
(* riftgate-operator: reconcile_riftgate reads the three kinds of objects  *)
(* and the Secrets one API call at a time, renders riftgate.toml, and      *)
(* patches the ConfigMap and then the Deployment; the pod that Kubernetes  *)
(* runs loads the mounted file when it starts, as in ConfigLoad.  Users    *)
(* edit the objects meanwhile, API calls fail, operator replicas restart.  *)
(* The leader lock is parsed and logged but never taken: each of           *)
(* `replicas` operators reconciles.                                        *)
(***************************************************************************)
EXTENDS ConfigSchema, Naturals, Sequences, SequencesExt, FiniteSets

CONSTANTS Operators,      \* the replicas an operator Deployment may have
          GatewayLevels,  \* classes of the log level of a Riftgate object
          BackendLists,   \* lists of RiftgateBackend specs, in list order
          RouteLists,     \* lists of RiftgateRoute specs
          Secrets,        \* contents of the Secret that routes refer to
          MaxEdits,       \* bound: changes to the objects
          MaxFaults       \* bound: failed calls and operator restarts

VARIABLES replicas,    \* the operators that run, {} until they are deployed
          gateway,     \* the Riftgate object: a version and its log level
          backends, routes, secret,  \* the other objects of the namespace
          seen,        \* each operator's cached Riftgate object
          pc,          \* the API call its reconcile makes next
          read,        \* what its reconcile has read
          configMap,   \* the ConfigMap
          deployment,  \* the version of the Riftgate whose image it names
          pod,         \* the running pod: its image, and the config it loaded
          edits, faults

operatorVars ==
    <<replicas, gateway, backends, routes, secret, seen, pc, read, configMap,
      deployment, pod, edits, faults>>

objects == <<gateway, backends, routes, secret, edits>>

-----------------------------------------------------------------------------
(* render_config and collect_api_keys.                                     *)

\* sanitize_toml_key: a name is a sequence of characters.
Sanitize(name) == [i \in DOMAIN name |-> IF name[i] \in {"-", "."} THEN "_" ELSE name[i]]

\* The tables [mcp.tenants.<route>]; two of the same name are not TOML.
McpRoutes(rs) == {i \in DOMAIN rs : rs[i].mcp}

TenantTables(rs) == {Sanitize(rs[i].name) : i \in McpRoutes(rs)}

\* The fields render_config writes: those of the first backend only, its
\* url when it has one (a serviceRef is not), and the fixed ones.
RenderedFields(gw, bs, rs, keys) ==
    LET names ==
            {"server.listen_addr", "obs.otel_endpoint", "log.level"}
                \cup (IF bs # <<>> THEN {"backend.timeout_ms"} ELSE {})
                \cup (IF bs # <<>> /\ Head(bs).url THEN {"backend.url"} ELSE {})
                \cup (IF McpRoutes(rs) # {} THEN {"mcp.enforce"} ELSE {})
                \cup (IF DOMAIN keys # {} THEN {"multitenancy.mode"} ELSE {})
    IN  [f \in names |-> CASE f = "log.level" -> gw.level
                           [] f = "backend.timeout_ms" -> Head(bs).timeout
                           [] OTHER -> "x"]

RenderConfig(gw, bs, rs, keys) ==
    [kind |-> IF Cardinality(TenantTables(rs)) = Cardinality(McpRoutes(rs))
              THEN "toml" ELSE "malformed",
     set |-> RenderedFields(gw, bs, rs, keys),
     version |-> gw.version,
     backend |-> IF bs = <<>> THEN "none" ELSE Head(bs).name,
     tenants |-> TenantTables(rs),
     keys |-> keys]

Sha256(key) == <<"sha256", key>>

\* One line of a Secret: blank, malformed, or <key>=<tenant>.
InsertLine(keys, line) ==
    IF line.kind = "skip" THEN keys
    ELSE LET k == IF line.kind = "hashed" THEN line.key ELSE Sha256(line.key)
         IN  [h \in DOMAIN keys \cup {k} |-> IF h = k THEN line.tenant ELSE keys[h]]

\* A Secret that is absent, or lacks the key, or is not text, adds nothing.
KeysOfSecret(keys, s) == IF s.readable THEN FoldLeft(InsertLine, keys, s.lines) ELSE keys

-----------------------------------------------------------------------------

Nothing == [gateway |-> [version |-> 0, level |-> "x"], backends |-> <<>>, routes |-> <<>>,
            keys |-> <<>>, next |-> 1]

NoConfigMap == [RenderConfig(Nothing.gateway, <<>>, <<>>, <<>>) EXCEPT !.kind = "unreadable"]

NoPod == [image |-> 0, config |-> 0]

OperatorInit ==
    /\ replicas = {}
    /\ gateway = [version |-> 1, level |-> "x"]
    /\ backends = <<>> /\ routes = <<>> /\ secret = [readable |-> FALSE, lines |-> <<>>]
    /\ seen = [o \in Operators |-> gateway]
    /\ pc = [o \in Operators |-> "idle"]
    /\ read = [o \in Operators |-> Nothing]
    /\ configMap = NoConfigMap /\ deployment = 0 /\ pod = NoPod
    /\ edits = 0 /\ faults = 0

\* run_operator starts, in one replica or in all.
RunOperator ==
    /\ replicas = {}
    /\ replicas' \in {{CHOOSE o \in Operators : TRUE}, Operators}
    /\ UNCHANGED <<objects, seen, pc, read, configMap, deployment, pod, faults>>

\* A user applies a new version of one object.
Edit ==
    /\ replicas # {}
    /\ edits < MaxEdits /\ edits' = edits + 1
    /\ \/ /\ \E l \in GatewayLevels : gateway' = [version |-> gateway.version + 1, level |-> l]
          /\ UNCHANGED <<backends, routes, secret>>
       \/ backends' \in BackendLists /\ UNCHANGED <<gateway, routes, secret>>
       \/ routes' \in RouteLists /\ UNCHANGED <<gateway, backends, secret>>
       \/ secret' \in Secrets /\ UNCHANGED <<gateway, backends, routes>>
    /\ UNCHANGED <<replicas, seen, pc, read, configMap, deployment, pod, faults>>

\* The controller's watch brings its cached object up to date.
WatchEvent(o) ==
    /\ o \in replicas /\ seen[o] # gateway
    /\ seen' = [seen EXCEPT ![o] = gateway]
    /\ UNCHANGED <<replicas, objects, pc, read, configMap, deployment, pod, faults>>

\* The order of the API calls of one reconcile, and one that patches the
\* Deployment before the ConfigMap.
DeploymentFirst ==
    [backends |-> "routes", routes |-> "keys", keys |-> "deployment",
     deployment |-> "configmap", configmap |-> "status", status |-> "idle"]

NextCall ==
    [backends |-> "routes", routes |-> "keys", keys |-> "configmap",
     configmap |-> "deployment", deployment |-> "status", status |-> "idle"]

\* A reconciler that awaits a change of the Riftgate object instead.
RequeueOnChange(o) == pc[o] = "idle" /\ seen[o] # read[o].gateway

\* A reconcile starts after a change, 300 s after one that succeeded and
\* 30 s after one that failed.
Requeue(o) == pc[o] = "idle"

Reconcile(o) ==
    /\ o \in replicas /\ Requeue(o)
    /\ read' = [read EXCEPT ![o] = [Nothing EXCEPT !.gateway = seen[o]]]
    /\ pc' = [pc EXCEPT ![o] = "backends"]
    /\ UNCHANGED <<replicas, objects, seen, configMap, deployment, pod, faults>>

Proceed(o) == pc' = [pc EXCEPT ![o] = NextCall[pc[o]]]

ListBackends(o) ==
    /\ pc[o] = "backends" /\ Proceed(o)
    /\ read' = [read EXCEPT ![o].backends = backends]
    /\ UNCHANGED <<configMap, deployment, faults>>

ListRoutes(o) ==
    /\ pc[o] = "routes" /\ Proceed(o)
    /\ read' = [read EXCEPT ![o].routes = routes]
    /\ UNCHANGED <<configMap, deployment, faults>>

\* One route of collect_api_keys: a Secret that cannot be read is skipped.
CollectApiKeys(o) ==
    LET i == read[o].next
        keys == read[o].keys
    IN  /\ pc[o] = "keys"
        /\ \/ /\ i > Len(read[o].routes) /\ Proceed(o)
              /\ UNCHANGED <<read, faults>>
           \/ /\ i <= Len(read[o].routes) /\ UNCHANGED pc
              /\ \/ /\ read' = [read EXCEPT ![o].next = i + 1,
                             ![o].keys = IF read[o].routes[i].secretRef
                                         THEN KeysOfSecret(keys, secret) ELSE keys]
                    /\ UNCHANGED faults
                 \/ /\ read[o].routes[i].secretRef /\ faults < MaxFaults
                    /\ read' = [read EXCEPT ![o].next = i + 1]
                    /\ faults' = faults + 1
        /\ UNCHANGED <<configMap, deployment>>

Rendered(o) == RenderConfig(read[o].gateway, read[o].backends, read[o].routes, read[o].keys)

PatchConfigMap(o) ==
    /\ pc[o] = "configmap" /\ Proceed(o)
    /\ configMap' = Rendered(o)
    /\ UNCHANGED <<read, deployment, faults>>

PatchDeployment(o) ==
    /\ pc[o] = "deployment" /\ Proceed(o)
    /\ deployment' = read[o].gateway.version
    /\ UNCHANGED <<read, configMap, faults>>

\* patch_status, whose outcome is ignored; then requeue.
PatchStatus(o) ==
    /\ pc[o] = "status" /\ Proceed(o)
    /\ read' = [read EXCEPT ![o] = [Nothing EXCEPT !.gateway = read[o].gateway]]
    /\ UNCHANGED <<configMap, deployment, faults>>

ReconcileStep(o) ==
    /\ \/ ListBackends(o) \/ ListRoutes(o) \/ CollectApiKeys(o)
       \/ PatchConfigMap(o) \/ PatchDeployment(o) \/ PatchStatus(o)
    /\ UNCHANGED <<replicas, objects, seen, pod>>

\* A call fails and error_policy requeues; a patch may have been applied.
\* Or the operator restarts.
CallFails(o) ==
    /\ pc[o] \in {"backends", "routes", "configmap", "deployment"}
    /\ \/ UNCHANGED <<configMap, deployment>>
       \/ pc[o] = "configmap" /\ configMap' = Rendered(o) /\ UNCHANGED deployment
       \/ pc[o] = "deployment" /\ deployment' = read[o].gateway.version /\ UNCHANGED configMap

OperatorFails(o) ==
    /\ faults < MaxFaults /\ faults' = faults + 1
    /\ CallFails(o) \/ (pc[o] # "idle" /\ UNCHANGED <<configMap, deployment>>)
    /\ pc' = [pc EXCEPT ![o] = "idle"]
    /\ read' = [read EXCEPT ![o] = [Nothing EXCEPT !.gateway = read[o].gateway]]
    /\ UNCHANGED <<replicas, objects, seen, pod>>

\* Kubernetes replaces the pod by one of the Deployment's image, which loads
\* the ConfigMap as it is then, once; a pod whose file does not load exits
\* with 78 and the rollout waits.
StartPod ==
    /\ deployment # 0 /\ pod.image # deployment
    /\ Loads(configMap, <<>>)
    /\ pod' = [image |-> deployment, config |-> configMap.version]
    /\ UNCHANGED <<replicas, objects, seen, pc, read, configMap, deployment, faults>>

PodDies ==
    /\ pod # NoPod /\ faults < MaxFaults
    /\ pod' = NoPod /\ faults' = faults + 1
    /\ UNCHANGED <<replicas, objects, seen, pc, read, configMap, deployment>>

OperatorNext ==
    \/ RunOperator \/ Edit \/ StartPod \/ PodDies
    \/ \E o \in replicas : WatchEvent(o) \/ Reconcile(o) \/ ReconcileStep(o) \/ OperatorFails(o)

\* Timers fire, the watch delivers, calls are answered, pods are started.
OperatorFairness ==
    /\ \A o \in Operators :
          /\ WF_operatorVars(WatchEvent(o))
          /\ WF_operatorVars(Reconcile(o))
          /\ WF_operatorVars(ReconcileStep(o))
    /\ WF_operatorVars(StartPod)

OperatorSpec == OperatorInit /\ [][OperatorNext]_operatorVars /\ OperatorFairness

-----------------------------------------------------------------------------

\* The Secret's keys are collected once for each route that refers to it.
DesiredKeys ==
    LET refs == SelectSeq(routes, LAMBDA r : r.secretRef)
    IN  IF refs = <<>> THEN <<>> ELSE KeysOfSecret(<<>>, secret)

\* Level-triggered reconciliation: once the objects stop changing and calls
\* stop failing, the ConfigMap becomes and stays the rendering of the objects
\* as they are, and the Deployment names the image of the Riftgate object,
\* however many operators race and whatever mixture of lists an interrupted
\* or overtaken reconcile has written before.
ConfigConverges ==
    <>[](replicas # {} =>
            /\ configMap = RenderConfig(gateway, backends, routes, DesiredKeys)
            /\ deployment = gateway.version)

\* With one operator, a pod never runs the image of a version of the Riftgate
\* object with a configuration rendered from an earlier version: each
\* reconcile patches the ConfigMap before the Deployment, and a reconcile that
\* fails between the two leaves the older image with the newer file.
ImageNotAheadOfConfig ==
    Cardinality(replicas) = 1 => pod.image <= pod.config /\ deployment <= configMap.version

=============================================================================
