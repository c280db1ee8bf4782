----------------------------- MODULE MCServices -----------------------------
(***************************************************************************)
(* The scheduler, the I/O back ends and the parts around the request path, *)
(* side by side: a behaviour exercises one of them, chosen at the start,   *)
(* and the others stay as constructed.                                     *)
(***************************************************************************)
EXTENDS Scheduler, AsyncIo, MCOperator, MCWalRecovery, ConfigLoad, GpuSignals,
        FilterChain, TokenMetrics, EventSinks, TLC

VARIABLE part

\* Files and environments over one string, one number with a range and one
\* field that only the environment sets; an unknown key and unknown variable.
Layers(S, values) == UNION {[D -> values] : D \in SUBSET S}
MCFiles ==
    {[kind |-> k, set |-> <<>>] : k \in {"none", "unreadable", "malformed"}} \cup
    {[kind |-> "toml", set |-> s] :
        s \in Layers({"backend.url", "backend.timeout_ms"}, {"x", "outside", "garbage"})
              \cup Layers({"typo"}, {"x"})}
MCEnvironments ==
    Layers({"backend.url", "backend.timeout_ms", "obs.sample_rate"}, {"y", "outside", "garbage"})
    \cup Layers({"other"}, {"x"})

\* Pages with the lines of one GPU or of two, whole or per MIG slice.
MCReadings ==
    {[util |-> 0, used |-> 50, free |-> 50, reasons |-> {}],
     [util |-> 90, used |-> 20, free |-> 80, reasons |-> {"sw_thermal"}],
     [util |-> 40, used |-> 70, free |-> 30, reasons |-> {"hw_slowdown", "sw_power_cap"}],
     [util |-> 100, used |-> 100, free |-> 0, reasons |-> {"other"}]}
Mig(metric, g) == [metric |-> metric, gpu |-> g, mig |-> TRUE]
WholeGpu(metric, g) == [metric |-> metric, gpu |-> g, mig |-> FALSE]
MCLayouts ==
    {<<Mig("comment", 0), Mig("util", 0), Mig("util", 1), Mig("used", 0),
       Mig("used", 1), Mig("free", 0), Mig("free", 1)>>,
     <<Mig("used", 1), Mig("total", 1), Mig("util", 1), Mig("throttle", 1), Mig("used", 0),
       Mig("total", 0), Mig("throttle", 0), Mig("util", 0), Mig("ecc", 0)>>,
     <<Mig("util", 0), Mig("used", 0), Mig("free", 0), Mig("malformed", 0)>>,
     <<Mig("util", 0), Mig("used", 0), WholeGpu("used", 1), WholeGpu("total", 1)>>}

\* One filter has an instance to run on, the other is configured with none.
MCInstancePool == [w \in WasmFilters |-> IF w = "w1" THEN 1 ELSE 0]

MCEvents ==
    {[kind |-> "span_end", request |-> "none", value |-> 9],
     [kind |-> "span_start", request |-> "none", value |-> 1],
     [kind |-> "counter", request |-> "none", value |-> 7],
     [kind |-> "profile", request |-> "none", value |-> 1]}

servicesVars ==
    <<part, vars, ioVars, operatorVars, recoveryVars, configVars, gpuVars, chainVars,
      metricsVars, sinkVars>>

MCInit ==
    /\ part \in {"scheduler", "io", "operator", "recovery", "config", "gpu",
                 "filters", "metrics", "sinks"}
    /\ Init /\ IoInit /\ OperatorInit /\ RecoveryInit /\ ConfigInit
    /\ GpuInit /\ ChainInit /\ MetricsInit /\ SinksInit

MCNext ==
    /\ UNCHANGED part
    /\ \/ /\ part = "scheduler" /\ Next
          /\ UNCHANGED <<ioVars, operatorVars, recoveryVars, configVars, gpuVars,
                        chainVars, metricsVars, sinkVars>>
       \/ /\ part = "io" /\ IoNext
          /\ UNCHANGED <<vars, operatorVars, recoveryVars, configVars, gpuVars,
                        chainVars, metricsVars, sinkVars>>
       \/ /\ part = "operator" /\ OperatorNext
          /\ UNCHANGED <<vars, ioVars, recoveryVars, configVars, gpuVars, chainVars,
                        metricsVars, sinkVars>>
       \/ /\ part = "recovery" /\ RecoveryNext
          /\ UNCHANGED <<vars, ioVars, operatorVars, configVars, gpuVars, chainVars,
                        metricsVars, sinkVars>>
       \/ /\ part = "config" /\ ConfigNext
          /\ UNCHANGED <<vars, ioVars, operatorVars, recoveryVars, gpuVars,
                        chainVars, metricsVars, sinkVars>>
       \/ /\ part = "gpu" /\ GpuNext
          /\ UNCHANGED <<vars, ioVars, operatorVars, recoveryVars, configVars,
                        chainVars, metricsVars, sinkVars>>
       \/ /\ part = "filters" /\ ChainNext
          /\ UNCHANGED <<vars, ioVars, operatorVars, recoveryVars, configVars,
                        gpuVars, metricsVars, sinkVars>>
       \/ /\ part = "metrics" /\ MetricsNext
          /\ UNCHANGED <<vars, ioVars, operatorVars, recoveryVars, configVars,
                        gpuVars, chainVars, sinkVars>>
       \/ /\ part = "sinks" /\ SinksNext
          /\ UNCHANGED <<vars, ioVars, operatorVars, recoveryVars, configVars,
                        gpuVars, chainVars, metricsVars>>

MCSpec == MCInit /\ [][MCNext]_servicesVars

\* Callers of one kind run the same code.  Submitters, callers of filters,
\* recorders and publishers are the same model values, each in its own part.
Symmetry == Permutations(Submitters) \cup Permutations(Closers)
=============================================================================
