---------------------------- MODULE FilterChain ----------------------------
(***************************************************************************)
(* FilterChain and WasmFilter (riftgate-filter).  A chain is built once    *)
(* and shared; concurrent callers run on_request over it in order or       *)
(* on_response in reverse order, and stop at the first Terminate.  A       *)
(* loaded WASM filter takes its runtime's mutex, instantiates the          *)
(* component from a pool of instances, calls the plugin and drops the      *)
(* instance before the mutex; any error becomes Terminate(500).  The       *)
(* plugin is external: it continues, terminates with a status or traps.    *)
(* Neither the fuel nor the wall-clock budget of the configuration is      *)
(* passed to the engine, so nothing bounds a plugin's call.                *)
(***************************************************************************)
EXTENDS Naturals, Sequences, SequencesExt, FiniteSets

CONSTANTS
    Callers,       \* threads that run requests and responses through it
    WasmFilters,   \* the WASM filters a chain may hold
    InstancePool,  \* WasmFilterConfig::instance_pool of each WASM filter
    MaxFilters,    \* bound on the length of the chain
    MaxCalls       \* bound on the calls of a behaviour

VARIABLES
    filters,    \* the chain: a sequence of filter records
    runtimes,   \* per WASM filter: the mutex's holder and the live instances
    filterCall, \* per caller: direction, position, where it stands
    trapped,    \* callers whose current call met an error of the plugin
    served      \* calls begun

chainVars == <<filters, runtimes, filterCall, trapped, served>>

Unlocked == "nobody"
Free == [holder |-> Unlocked, instances |-> 0]
NoFilterCall == [side |-> "none", at |-> 0, step |-> "idle", action |-> "none"]

\* FilterAction: Continue, or Terminate with a plugin's status or with 500.
Actions == {"continue", "reject", "error"}

\* The native filters of riftgate-core: both pass everything on.
Native == {[kind |-> "identity", id |-> "none"], [kind |-> "logging", id |-> "none"]}

\* WasmFilter::try_load: the component file, the cargo feature and the
\* engine may each refuse, and then there is no filter to push.
TryLoad(w, isFile, feature, valid) ==
    IF isFile /\ feature /\ valid
    THEN {[kind |-> "wasm", id |-> w]}
    ELSE {}

\* WasmFilter::scaffold: no runtime, behaves as IdentityFilter.
Scaffold(w) == [kind |-> "scaffold", id |-> w]

ChainInit ==
    /\ filters = <<>>
    /\ runtimes = [w \in WasmFilters |-> Free]
    /\ filterCall = [c \in Callers |-> NoFilterCall]
    /\ trapped = {}
    /\ served = 0

\* FilterChain::push takes &mut self: only while no call can hold the chain.
PushFilter ==
    /\ served = 0
    /\ Len(filters) < MaxFilters
    /\ \E w \in WasmFilters, isFile, feature, valid \in BOOLEAN :
          \E f \in TryLoad(w, isFile, feature, valid) \cup {Scaffold(w)} \cup Native :
             filters' = Append(filters, f)
    /\ UNCHANGED <<runtimes, filterCall, trapped, served>>

\* The filters a call visits, in its order.
Visits(side) == IF side = "request" THEN filters ELSE Reverse(filters)

Current(c) == Visits(filterCall[c].side)[filterCall[c].at]

\* on_request or on_response of the chain begins.
BeginChain(c) ==
    /\ filterCall[c].step = "idle"
    /\ served < MaxCalls
    /\ served' = served + 1
    /\ trapped' = trapped \ {c}
    /\ \E side \in {"request", "response"} :
          filterCall' = [filterCall EXCEPT ![c] =
                      IF filters = <<>>
                      THEN [side |-> side, at |-> 0, step |-> "done", action |-> "continue"]
                      ELSE [side |-> side, at |-> 1, step |-> "visit", action |-> "none"]]
    /\ UNCHANGED <<filters, runtimes>>

\* The chain's match on a filter's action: go on, or return the Terminate.
Answered(c, action) ==
    [filterCall[c] EXCEPT
       !.action = action,
       !.at = IF action = "continue" /\ @ < Len(filters) THEN @ + 1 ELSE @,
       !.step = IF action = "continue" /\ filterCall[c].at < Len(filters)
                THEN "visit" ELSE "done"]

\* A native filter, or a WASM filter without a runtime, continues.
VisitNative(c) ==
    /\ filterCall[c].step = "visit"
    /\ Current(c).kind # "wasm"
    /\ filterCall' = [filterCall EXCEPT ![c] = Answered(c, "continue")]
    /\ UNCHANGED <<filters, runtimes, trapped, served>>

\* A call that does not wait for the runtime's mutex.
LockSkipped(c) ==
    /\ filterCall[c].step = "visit"
    /\ Current(c).kind = "wasm"
    /\ filterCall' = [filterCall EXCEPT ![c].step = "locked"]
    /\ UNCHANGED <<filters, runtimes, trapped, served>>

\* RuntimeHandle: lock the runtime.
LockRuntime(c) ==
    /\ filterCall[c].step = "visit"
    /\ Current(c).kind = "wasm"
    /\ runtimes[Current(c).id].holder = Unlocked
    /\ runtimes' = [runtimes EXCEPT ![Current(c).id].holder = c]
    /\ filterCall' = [filterCall EXCEPT ![c].step = "locked"]
    /\ UNCHANGED <<filters, trapped, served>>

\* The guard goes out of scope with the answer.
Unlock(c, action) ==
    /\ runtimes' = [runtimes EXCEPT ![Current(c).id].holder = Unlocked,
                                    ![Current(c).id].instances =
                                       IF filterCall[c].step = "plugin" THEN @ - 1 ELSE @]
    /\ filterCall' = [filterCall EXCEPT ![c] = Answered(c, action)]

\* WasmRuntime::instantiate: an instance slot of the engine's pool.
Instantiate(c) ==
    /\ filterCall[c].step = "locked"
    /\ runtimes[Current(c).id].instances < InstancePool[Current(c).id]
    /\ runtimes' = [runtimes EXCEPT ![Current(c).id].instances = @ + 1]
    /\ filterCall' = [filterCall EXCEPT ![c].step = "plugin"]
    /\ UNCHANGED <<filters, trapped, served>>

\* No slot is free: InstantiateFailed, answered with 500.
PoolExhausted(c) ==
    /\ filterCall[c].step = "locked"
    /\ runtimes[Current(c).id].instances >= InstancePool[Current(c).id]
    /\ Unlock(c, "error")
    /\ UNCHANGED <<filters, trapped, served>>

\* The component's answer; the store drops before the mutex is released.
PluginReturns(c) ==
    /\ filterCall[c].step = "plugin"
    /\ \E action \in Actions :
          /\ Unlock(c, action)
          /\ trapped' = IF action = "error" THEN trapped \cup {c} ELSE trapped
    /\ UNCHANGED <<filters, served>>

\* The caller takes the chain's answer.
ReturnAction(c) ==
    /\ filterCall[c].step = "done"
    /\ filterCall' = [filterCall EXCEPT ![c] = NoFilterCall]
    /\ UNCHANGED <<filters, runtimes, trapped, served>>

FilterStep(c) ==
    \/ VisitNative(c) \/ LockRuntime(c) \/ Instantiate(c) \/ PoolExhausted(c)
    \/ PluginReturns(c) \/ ReturnAction(c)

ChainNext == PushFilter \/ \E c \in Callers : BeginChain(c) \/ FilterStep(c)

ChainSpec == ChainInit /\ [][ChainNext]_chainVars

---------------------------------------------------------------------------
\* A call of the chain ends with Terminate(500) exactly when a plugin failed
\* during it: a failure is never passed over (WasmFilter::on_request and
\* on_response fail closed), and no interleaving of callers exhausts the
\* instance pool, because the runtime's mutex keeps one instance alive (a
\* filter configured with instance_pool = 0 always fails).  A Continue is
\* returned only once every filter of the chain was visited.
TerminatedForCause ==
    \A c \in Callers :
       /\ c \in trapped /\ filterCall[c].step # "idle" =>
             filterCall[c].step = "done" /\ filterCall[c].action = "error"
       /\ filterCall[c].step = "done" =>
             /\ filterCall[c].action = "error" =>
                   c \in trapped \/ InstancePool[Current(c).id] = 0
             /\ filterCall[c].action = "continue" => filterCall[c].at = Len(filters)
==========================================================================
