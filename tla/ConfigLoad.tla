----------------------------- MODULE ConfigLoad -----------------------------
(***************************************************************************)
(* How the gateway binary comes up: load() merges the defaults, the TOML   *)
(* file and the RIFTGATE_* variables, validate() looks at the result, and  *)
(* run() serves, exits after --check, or exits with 78.                    *)
(***************************************************************************)
EXTENDS ConfigSchema, Naturals

CONSTANTS Files,        \* the config files the process may be given
          Environments  \* the environments it may be started in

VARIABLES process,   \* where run() is
          file,      \* the argument of --config
          env,       \* Env: the variables, a function of their fields
          unapplied, \* the variables apply_env_overrides has not visited
          config,    \* the Config being built
          errors     \* the Vec<ConfigError>, in any order

configVars == <<process, file, env, unapplied, config, errors>>

-----------------------------------------------------------------------------

NoFile == [kind |-> "none", set |-> <<>>]

ConfigInit ==
    /\ process = "idle"
    /\ file = NoFile /\ env = <<>> /\ unapplied = {}
    /\ config = Default /\ errors = {}

\* main() starts run(): the file layer, which ends the load if it fails.
ReadFile(f, e) ==
    /\ process = "idle"
    /\ file' = f /\ env' = e
    /\ \/ /\ f.kind = "none" \/ (f.kind = "toml" /\ FromToml(f.set))
          /\ config' = [g \in Fields |-> IF g \in DOMAIN f.set THEN f.set[g] ELSE Default[g]]
          /\ process' = "env" /\ unapplied' = DOMAIN e
          /\ UNCHANGED errors
       \/ /\ f.kind = "unreadable"
          /\ errors' = {<<"FileRead", "">>} /\ process' = "exit 78"
          /\ UNCHANGED <<unapplied, config>>
       \/ /\ f.kind = "malformed" \/ (f.kind = "toml" /\ ~FromToml(f.set))
          /\ errors' = {<<"TomlParse", "">>} /\ process' = "exit 78"
          /\ UNCHANGED <<unapplied, config>>

\* A variable that does not parse puts the default back.
ApplyEnvResets(k) ==
    IF k \notin Overridable THEN UNCHANGED <<config, errors>>
    ELSE IF Parses(k, env[k])
         THEN config' = [config EXCEPT ![k] = env[k]] /\ UNCHANGED errors
         ELSE config' = [config EXCEPT ![k] = "default"] /\ errors' = errors \cup {<<"EnvParse", k>>}

\* One round of the loop over the map: an unknown name only warns.
ApplyEnv(k) ==
    IF k \notin Overridable THEN UNCHANGED <<config, errors>>
    ELSE IF Parses(k, env[k])
         THEN config' = [config EXCEPT ![k] = env[k]] /\ UNCHANGED errors
         ELSE errors' = errors \cup {<<"EnvParse", k>>} /\ UNCHANGED config

\* The loop visits a HashMap, in any order.
ApplyEnvOverrides(k) ==
    /\ process = "env" /\ k \in unapplied
    /\ unapplied' = unapplied \ {k}
    /\ ApplyEnv(k)
    /\ UNCHANGED <<process, file, env>>

Validate ==
    /\ process = "env" /\ unapplied = {}
    /\ LET all == errors \cup {<<"Validation", f>> : f \in {g \in Fields : Refused(g, config[g])}}
       IN  /\ errors' = all
           /\ process' = IF all = {} THEN "loaded" ELSE "exit 78"
    /\ UNCHANGED <<file, env, unapplied, config>>

\* run() after the load: --check returns, a failed bind is an I/O error.
Start ==
    /\ process = "loaded"
    /\ process' \in {"exit 0", "exit 1", "serving"}
    /\ UNCHANGED <<file, env, unapplied, config, errors>>

ConfigNext ==
    \/ \E f \in Files, e \in Environments : ReadFile(f, e)
    \/ \E k \in unapplied : ApplyEnvOverrides(k)
    \/ Validate
    \/ Start

ConfigSpec == ConfigInit /\ [][ConfigNext]_configVars

-----------------------------------------------------------------------------

\* load() is a function of the file and the environment, whatever the order
\* in which the variables are visited: it succeeds exactly when every layer
\* parses and the merged config is valid, yields that merged config, and
\* otherwise reports every variable and every merged field at fault.
LoadMatchesLayers ==
    process \in {"loaded", "exit 0", "exit 1", "serving", "exit 78"} =>
        /\ process # "exit 78" <=> Loads(file, env)
        /\ process # "exit 78" => config = Effective(file, env)
        /\ errors \cap ({"FileRead", "TomlParse"} \X {""}) = {} =>
               errors = {<<"EnvParse", k>> : k \in {g \in DOMAIN env : ~Parses(g, env[g])}}
                   \cup {<<"Validation", g>> :
                            g \in {h \in Fields : Refused(h, Effective(file, env)[h])}}

=============================================================================
