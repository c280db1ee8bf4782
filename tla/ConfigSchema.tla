---------------------------- MODULE ConfigSchema ----------------------------
(***************************************************************************)
(* The schema of riftgate.toml and what the loader promises of it.         *)
(*                                                                         *)
(* A value of a field is a class: "default", an acceptable value ("x",     *)
(* "y"), one of the right type that the validator refuses ("outside": a    *)
(* zero, a rate above one, a URL without http, an unknown level), or text  *)
(* that is not of the field's type ("garbage").  A file has a kind and the *)
(* fields it sets; an environment is a function of the fields it sets.     *)
(***************************************************************************)
\* Fields whose Rust type is not String: parsing their text can fail.
Typed ==
    {"server.listen_addr", "server.worker_threads", "backend.timeout_ms",
     "backend.tls_verify", "timer.tick_resolution_ms", "obs.sample_rate",
     "obs.bus_capacity", "log.format"}

Overridable ==
    Typed \cup {"backend.url", "backend.auth_header", "obs.otel_endpoint", "log.level"}

Fields == Overridable \cup {"mcp.enforce", "multitenancy.mode"}

Default == [f \in Fields |-> "default"]

\* toml::from_str with deny_unknown_fields.
FromToml(set) ==
    /\ DOMAIN set \subseteq Fields
    /\ \A f \in DOMAIN set \cap (Typed \cup {"mcp.enforce"}) : set[f] # "garbage"

Parses(f, v) == f \in Typed => v # "garbage"

Refused(f, v) ==
    CASE f = "backend.url" -> v \in {"default", "outside", "garbage"}
      [] f = "log.level" -> v \in {"outside", "garbage"}
      [] f \in {"backend.timeout_ms", "server.worker_threads", "timer.tick_resolution_ms",
                "obs.sample_rate", "obs.bus_capacity"} -> v = "outside"
      [] OTHER -> FALSE

-----------------------------------------------------------------------------
(* What a load promises, without the order it works in.                    *)

\* The value of a field: the last layer that has an acceptable text for it.
Effective(f, e) ==
    [g \in Fields |->
        IF g \in DOMAIN e \cap Overridable /\ Parses(g, e[g]) THEN e[g]
        ELSE IF g \in DOMAIN f.set THEN f.set[g] ELSE "default"]

Loads(f, e) ==
    /\ f.kind = "none" \/ (f.kind = "toml" /\ FromToml(f.set))
    /\ \A g \in DOMAIN e : Parses(g, e[g])
    /\ \A g \in Fields : ~Refused(g, Effective(f, e)[g])

=============================================================================
