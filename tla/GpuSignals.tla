----------------------------- MODULE GpuSignals -----------------------------
(***************************************************************************)
(* The GPU pressure that routers read: a poll task asks a source (the DCGM *)
(* exporter, the same with a MIG selector, NVML, or the null source) and   *)
(* folds its answer into the snapshot of backend signals.  A DCGM answer   *)
(* is a page of samples of every GPU of the host, which the connection may *)
(* cut short.  The task is the only writer of the snapshot, so its load    *)
(* and its store are one step.                                             *)
(***************************************************************************)
EXTENDS Integers, FiniteSets, Sequences, SequencesExt

CONSTANTS Gpus,      \* indices of the host's GPUs
          Readings,  \* what a GPU may measure: util, used, free, reasons
          Layouts,   \* orders in which an exporter lists its samples
          GpuIndex,  \* the GPU the source is asked about
          Backend,   \* the BackendId its samples are of
          MaxPolls   \* bound: polls

VARIABLES source,   \* which GpuPressureSource is configured
          reading,  \* what each GPU measures now
          task,     \* the poll task: "idle", or the sample it will apply
          signals,  \* BackendSignals: each backend's gpu_pressure, or None
          observed, \* history: the reading the last accepted sample is of
          cut,      \* history: that sample came from a page cut short
          polls

gpuVars == <<source, reading, task, signals, observed, cut, polls>>

None == -1

-----------------------------------------------------------------------------
(* The reduction of one GPU's measures.                                    *)

Clamp(v, low, high) == IF v < low THEN low ELSE IF v > high THEN high ELSE v

\* throttle_state_from_bits and throttle_state_from_reasons.
ThrottleState(reasons) ==
    IF "hw_slowdown" \in reasons THEN "HwSlowdown"
    ELSE IF reasons \cap {"sw_thermal", "hw_thermal"} # {} THEN "Thermal"
    ELSE IF reasons \cap {"sw_power_cap", "hw_power_brake"} # {} THEN "Power"
    ELSE IF reasons = {} THEN "None" ELSE "SwLimit"

\* GpuPressure, its fractions in percent.
Pressure(util, memory, reasons) ==
    [ok |-> TRUE, util |-> util, memory |-> memory, throttle |-> ThrottleState(reasons)]

NoReading == [ok |-> FALSE, util |-> None, memory |-> None, throttle |-> "None"]

ScalarPressure(p) == Clamp(IF p.util > p.memory THEN p.util ELSE p.memory, 0, 100)

-----------------------------------------------------------------------------
(* A page of the DCGM exporter and how it is read.                         *)

\* A line: a metric of one GPU, of the whole GPU or of a MIG instance.
Value(line) ==
    LET r == reading[line.gpu]
    IN  CASE line.metric = "util" -> r.util
          [] line.metric = "used" -> r.used
          [] line.metric = "free" -> r.free
          [] line.metric = "total" -> r.used + r.free
          [] line.metric = "throttle" -> 0
          [] OTHER -> None

Page(layout) ==
    [i \in DOMAIN layout |->
        [metric |-> layout[i].metric, gpu |-> layout[i].gpu, mig |-> layout[i].mig,
         value |-> Value(layout[i]),
         reasons |-> IF layout[i].metric = "throttle" THEN reading[layout[i].gpu].reasons ELSE {}]]

\* The connection closes early: whole lines are lost, or digits of the last.
CutPage(page, n) ==
    IF n = 0 THEN <<>>
    ELSE [SubSeq(page, 1, n) EXCEPT ![n].value = @ \div 10]

\* matches() that trusts every line of a host to be of the GPU.
MatchesAnyGpu(line) == (source = "mig") => line.mig

\* matches(): the selector's UUID, when there is one, and the GPU's index.
Matches(line) ==
    /\ (source = "mig") => line.mig
    /\ line.gpu = GpuIndex

EmptySnapshot == [ok |-> TRUE, util |-> None, used |-> None, free |-> None, total |-> None,
                  reasons |-> {}]

\* MetricSample::parse and observe(): a later line replaces an earlier one.
Observe(snapshot, line) ==
    IF line.metric = "malformed" THEN [snapshot EXCEPT !.ok = FALSE]
    ELSE IF line.metric \in {"comment", "ecc", "other"} \/ ~Matches(line) THEN snapshot
    ELSE IF line.metric = "util" /\ line.value \notin 0..100 THEN [snapshot EXCEPT !.ok = FALSE]
    ELSE IF line.metric = "throttle" THEN [snapshot EXCEPT !.reasons = line.reasons]
    ELSE [snapshot EXCEPT ![line.metric] = line.value]

\* memory_used_pct(): the total, or used plus free.
TotalOf(s) == IF s.total # None THEN s.total ELSE IF s.free # None THEN s.used + s.free ELSE 0

IntoGpuPressure(s) ==
    IF s.ok /\ s.util # None /\ s.used # None /\ TotalOf(s) > 0
    THEN Pressure(s.util, Clamp((100 * s.used) \div TotalOf(s), 0, 100), s.reasons)
    ELSE NoReading

ParseMetrics(page) == IntoGpuPressure(FoldLeft(Observe, EmptySnapshot, page))

\* NvmlSource::poll_once when every call of the library succeeds.
NvmlPressure ==
    LET r == reading[GpuIndex]
    IN  Pressure(Clamp(r.util, 0, 100),
                 IF r.used + r.free = 0 THEN 0
                 ELSE Clamp((100 * r.used) \div (r.used + r.free), 0, 100), r.reasons)

-----------------------------------------------------------------------------

PollerIdle == [ok |-> FALSE, util |-> None, memory |-> None, throttle |-> "idle"]

GpuInit ==
    /\ source = "unset"
    /\ reading = [g \in Gpus |-> CHOOSE r \in Readings : TRUE]
    /\ task = PollerIdle /\ signals = <<>>
    /\ observed = CHOOSE r \in Readings : TRUE
    /\ cut = FALSE /\ polls = 0

\* main() polls the DCGM exporter; the task is the same for the other sources.
StartPoller ==
    /\ source = "unset" /\ source' \in {"dcgm", "mig", "nvml", "noop"}
    /\ UNCHANGED <<reading, task, signals, observed, cut, polls>>

Work(g) ==
    /\ reading' \in {[reading EXCEPT ![g] = r] : r \in Readings}
    /\ UNCHANGED <<source, task, signals, observed, cut, polls>>

\* What an accepted sample tells the task, and whether the page was whole.
Sampled(p, short) ==
    /\ p.ok
    /\ task' = p
    /\ observed' = reading[GpuIndex] /\ cut' = short

\* Ok: apply_gpu_pressure_updates follows.  Err: only a warning.
PollOnce ==
    /\ task = PollerIdle /\ source # "unset" /\ polls < MaxPolls /\ polls' = polls + 1
    /\ \/ \E layout \in Layouts :
             /\ source \in {"dcgm", "mig"}
             /\ \/ Sampled(ParseMetrics(Page(layout)), FALSE)
                \/ \E n \in 0..Len(layout) : Sampled(ParseMetrics(CutPage(Page(layout), n)), TRUE)
       \/ source = "nvml" /\ Sampled(NvmlPressure, FALSE)
       \/ UNCHANGED <<task, observed, cut>>
    /\ UNCHANGED <<source, reading, signals>>

\* The other backends' signals are copied, the vector grown as needed.
ApplyGpuPressureUpdates ==
    /\ task.ok
    /\ signals' = [b \in DOMAIN signals \cup 0..Backend |->
                      IF b = Backend THEN ScalarPressure(task)
                      ELSE IF b \in DOMAIN signals THEN signals[b] ELSE None]
    /\ task' = PollerIdle
    /\ UNCHANGED <<source, reading, observed, cut, polls>>

GpuNext ==
    \/ StartPoller \/ PollOnce \/ ApplyGpuPressureUpdates
    \/ \E g \in Gpus : Work(g)

GpuSpec == GpuInit /\ [][GpuNext]_gpuVars

-----------------------------------------------------------------------------

\* A GPU's pressure is the larger of its utilization and its memory share.
PressureOf(r) ==
    LET memory == (100 * r.used) \div (r.used + r.free)
    IN  IF r.util > memory THEN r.util ELSE memory

\* Between polls the pressure routers read is that of the polled GPU at the
\* time of the last poll that succeeded, whichever source answered, in
\* whichever order the exporter lists the metrics and the GPUs of the host,
\* and whatever polls have failed since; a page the connection cut short is
\* the exception, since the reader cannot tell that it is not whole.
PressureIsObserved ==
    (task = PollerIdle /\ ~cut) =>
        \A b \in DOMAIN signals :
            signals[b] = IF b = Backend THEN PressureOf(observed) ELSE None

=============================================================================
