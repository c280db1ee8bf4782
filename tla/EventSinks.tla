----------------------------- MODULE EventSinks -----------------------------
(***************************************************************************)
(* The observability bus and the sinks behind it (riftgate-obs): threads   *)
(* of the data plane publish to a bounded channel that drops when full;    *)
(* one worker takes an event at a time and hands it to every sink of the   *)
(* MultiSink in order: JSON lines, the eBPF counters and, when the OTLP    *)
(* exporter could be built at start-up, OpenTelemetry spans.               *)
(***************************************************************************)
EXTENDS Naturals, Sequences, SequencesExt, FiniteSetsExt

CONSTANTS
    Publishers,   \* threads that publish
    Events,       \* records [kind, request, value]: a duration or a count
    BusCapacity,  \* config.obs.bus_capacity
    U64Max,       \* the largest u64, scaled down
    I64Max,       \* the largest i64, scaled down
    F64Exact,     \* 2^53 scaled down: an f64 has every integer up to it
    MaxEvents     \* bound on the events of a behaviour

VARIABLES
    sinks,      \* the MultiSink's sinks, <<>> until the bus is built
    channel,    \* the bounded channel
    busDropped, \* the dropped counter
    taken,      \* the worker's event and the index of the next sink
    json,       \* lines written
    unwritten,  \* events whose line could not be written
    bpf,        \* the eBPF sink's two counters
    otel,       \* spans ended
    enqueued,   \* history: events the channel took, with their publisher
    sent        \* history: events published, per thread

sinkVars == <<sinks, channel, busDropped, taken, json, unwritten, bpf, otel, enqueued, sent>>

NothingTaken == [event |-> "none", at |-> 0]

SinksInit ==
    /\ sinks = <<>> /\ channel = <<>> /\ busDropped = 0 /\ taken = NothingTaken
    /\ json = <<>> /\ unwritten = 0 /\ bpf = [published |-> 0, profiles |-> 0]
    /\ otel = <<>> /\ enqueued = <<>>
    /\ sent = [p \in Publishers |-> 0]

\* build_observability: the OTLP exporter may fail to build; the bus then
\* runs without that sink.
BuildObservability ==
    /\ sinks = <<>>
    /\ \E otelReady \in BOOLEAN :
          sinks' = <<"json", "bpf">> \o IF otelReady THEN <<"otel">> ELSE <<>>
    /\ UNCHANGED <<channel, busDropped, taken, json, unwritten, bpf, otel, enqueued, sent>>

\* Publisher::publish: try_send, or count the drop.
PublishEvent(p) ==
    /\ sinks # <<>>
    /\ MapThenSumSet(LAMBDA q : sent[q], Publishers) < MaxEvents
    /\ sent' = [sent EXCEPT ![p] = @ + 1]
    /\ \E e \in Events :
          LET event == [e EXCEPT !.request = p]
          IN  IF Len(channel) < BusCapacity
              THEN /\ channel' = Append(channel, event)
                   /\ enqueued' = Append(enqueued, event)
                   /\ UNCHANGED busDropped
              ELSE /\ busDropped' = busDropped + 1
                   /\ UNCHANGED <<channel, enqueued>>
    /\ UNCHANGED <<sinks, taken, json, unwritten, bpf, otel>>

\* drain: the worker receives an event.
Receive ==
    /\ taken.at = 0
    /\ channel # <<>>
    /\ taken' = [event |-> Head(channel), at |-> 1]
    /\ channel' = Tail(channel)
    /\ UNCHANGED <<sinks, busDropped, json, unwritten, bpf, otel, enqueued, sent>>

\* MultiSink::publish goes on to the next sink, or returns to drain.
NextSinkStopsEarly ==
    IF taken.at + 1 < Len(sinks) THEN [taken EXCEPT !.at = @ + 1] ELSE NothingTaken

NextSink ==
    IF taken.at < Len(sinks) THEN [taken EXCEPT !.at = @ + 1] ELSE NothingTaken

At(sink) == taken.at # 0 /\ sinks[taken.at] = sink

\* `as f64`: beyond F64Exact only even numbers, ties to the multiple of four.
AsF64(v) ==
    IF v <= F64Exact \/ v % 2 = 0 THEN v ELSE IF v % 4 = 1 THEN v - 1 ELSE v + 1

\* The JSON sink's line: a span's duration saturates at the largest u64, a
\* counter is rounded.
JsonLine(e) ==
    [kind |-> e.kind, request |-> e.request,
     value |-> CASE e.kind = "span_end" -> Min({e.value, U64Max})
                 [] e.kind = "counter" -> AsF64(e.value)
                 [] OTHER -> e.value]

\* A failed write loses the line and nothing else.
PublishJson ==
    /\ At("json")
    /\ \/ json' = Append(json, JsonLine(taken.event)) /\ UNCHANGED unwritten
       \/ unwritten' = unwritten + 1 /\ UNCHANGED json
    /\ taken' = NextSink
    /\ UNCHANGED <<sinks, channel, busDropped, bpf, otel, enqueued, sent>>

\* BpfSink::publish counts, whether or not its programs are loaded.
PublishBpf ==
    /\ At("bpf")
    /\ bpf' = [published |-> bpf.published + 1,
               profiles |-> IF taken.event.kind = "profile"
                            THEN bpf.profiles + 1 ELSE bpf.profiles]
    /\ taken' = NextSink
    /\ UNCHANGED <<sinks, channel, busDropped, json, unwritten, otel, enqueued, sent>>

\* OtelSink::publish: a start and an end each emit a span of their own; the
\* end's carries the duration, saturated at the largest i64.  Counters and
\* histograms are traced only, profiles ignored.
OtelSpans(e) ==
    CASE e.kind = "span_end" ->
           <<[request |-> e.request, duration |-> Min({e.value, I64Max})]>>
      [] e.kind = "span_start" -> <<[request |-> e.request, duration |-> 0]>>
      [] OTHER -> <<>>

PublishOtel ==
    /\ At("otel")
    /\ otel' = otel \o OtelSpans(taken.event)
    /\ taken' = NextSink
    /\ UNCHANGED <<sinks, channel, busDropped, json, unwritten, bpf, enqueued, sent>>

SinksNext ==
    \/ BuildObservability
    \/ \E p \in Publishers : PublishEvent(p)
    \/ Receive \/ PublishJson \/ PublishBpf \/ PublishOtel

SinksSpec == SinksInit /\ [][SinksNext]_sinkVars

---------------------------------------------------------------------------
\* The events a sink has been given: the accepted ones that have left the
\* channel, without the one the worker has not brought it yet.
GivenTo(i) ==
    LET received == Len(enqueued) - Len(channel)
    IN  SubSeq(enqueued, 1,
               IF taken.at # 0 /\ taken.at <= i THEN received - 1 ELSE received)

\* Whatever the threads publish and however slow the worker is, every event
\* is either counted as dropped by Publisher::publish or reaches every sink
\* of the MultiSink, once and in the channel's order: the spans are those of
\* the starts and ends accepted, the JSON lines are complete when no write
\* failed, and the eBPF counters count every one.
SinksAgree ==
    /\ MapThenSumSet(LAMBDA p : sent[p], Publishers) = busDropped + Len(enqueued)
    /\ Len(json) + unwritten = IF sinks = <<>> THEN 0 ELSE Len(GivenTo(1))
    /\ unwritten = 0 =>
          json = [i \in 1..Len(json) |-> JsonLine(enqueued[i])]
    /\ sinks # <<>> =>
          /\ bpf.published = Len(GivenTo(2))
          /\ bpf.profiles =
                Len(SelectSeq(GivenTo(2), LAMBDA e : e.kind = "profile"))
          /\ otel = IF Len(sinks) = 3
                    THEN FlattenSeq([i \in 1..Len(GivenTo(3)) |-> OtelSpans(GivenTo(3)[i])])
                    ELSE <<>>
==========================================================================
