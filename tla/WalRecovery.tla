---------------------------- MODULE WalRecovery -----------------------------
(***************************************************************************)
(* The bytes of the log: what append() leaves in the segment files, what a  *)
(* crash leaves of them, what FileWal::open does with the remains           *)
(* (riftgate-replay/src/file_wal.rs), and what the two readers make of      *)
(* them: try_parse_frames (frame.rs) and the riftgate-replay tool, which    *)
(* has a decoder of its own.                                               *)
(*                                                                         *)
(* A cell is a number.  A frame is a cell for payload_len, a cell for       *)
(* entry_id and the payload cells; the header fields that no reader         *)
(* interprets are left out.  Readers see cells, so that bytes behind a torn *)
(* frame are misread as the code would misread them.  The threads are       *)
(* FileWal's; here an append and its sync are one step.                    *)
(***************************************************************************)
EXTENDS Integers, SequencesExt

CONSTANTS
    LogShards,         \* FileWalConfig.shards
    Payloads,          \* the payloads that are appended, sequences of cells
    MaxPayloadCells,   \* MAX_PAYLOAD_BYTES of the library's parser
    SegmentCells,      \* FileWalConfig.segment_size_max
    MaxLogAppends,     \* bound: append() calls over all runs
    MaxOpens           \* bound: how often the log is opened

VARIABLES
    segments,    \* per shard: its segment files, each a sequence of cells
    syncedLen,   \* per shard and segment: cells a sync_data has covered
    nextId,      \* next_entry_id of the process that has the log open
    open,        \* a process has the log open
    opens,       \* history: how often it was opened
    appends,     \* history: frames written, over all runs
    frames,      \* history: per shard and segment, the frames that are whole
                 \*   in the file: id, payload, end offset, order of writing
    behindTorn   \* history: the segments appended to behind a torn frame

recoveryVars == <<segments, syncedLen, nextId, open, opens, appends, frames, behindTorn>>

LogShardSet == 0..(LogShards - 1)
HeaderCells == 2
Frame(id, payload) == <<Len(payload), id>> \o payload

\* The segment ends with a whole frame.
EndsClean(s, g) ==
    Len(segments[s][g]) = IF frames[s][g] = <<>> THEN 0 ELSE Last(frames[s][g]).end

RecoveryInit ==
    /\ segments = [s \in LogShardSet |-> <<>>]
    /\ syncedLen = [s \in LogShardSet |-> <<>>]
    /\ nextId = 1 /\ open = FALSE /\ opens = 0 /\ appends = 0
    /\ frames = [s \in LogShardSet |-> <<>>]
    /\ behindTorn = {}

-----------------------------------------------------------------------------
(* Writing                                                                 *)

\* open_initial_segment: the highest existing segment, or a new one.  It is
\* opened for appending as it is: a torn frame at its end stays.
InitialSegmentTruncated(files) ==
    IF files = <<>> THEN << <<>> >> ELSE [files EXCEPT ![Len(files)] = <<>>]
InitialSegment(files) == IF files = <<>> THEN << <<>> >> ELSE files

\* FileWal::open: entry ids start from 1 again.
OpenLog ==
    /\ ~open /\ opens < MaxOpens
    /\ open' = TRUE /\ opens' = opens + 1 /\ nextId' = 1
    /\ segments' = [s \in LogShardSet |-> InitialSegment(segments[s])]
    /\ syncedLen' = [s \in LogShardSet |-> IF segments[s] = <<>> THEN <<0>> ELSE syncedLen[s]]
    /\ frames' = [s \in LogShardSet |-> IF segments[s] = <<>> THEN << <<>> >> ELSE frames[s]]
    /\ UNCHANGED <<appends, behindTorn>>

\* The frame goes to the current segment or, if it does not fit, to a new one.
RollsSegment(s, cells) ==
    LET current == Last(segments[s])
    IN  Len(current) + cells > SegmentCells /\ Len(current) > 0

AppendEntry(payload, durable) ==
    /\ open /\ appends < MaxLogAppends
    /\ LET s == nextId % LogShards
           frame == Frame(nextId, payload)
           rolls == RollsSegment(s, Len(frame))
           files == IF rolls THEN Append(segments[s], <<>>) ELSE segments[s]
           marks == IF rolls THEN Append(syncedLen[s], 0) ELSE syncedLen[s]
           whole == IF rolls THEN Append(frames[s], <<>>) ELSE frames[s]
           g == Len(files)
           bytes == files[g] \o frame
           entry == [id |-> nextId, payload |-> payload, end |-> Len(bytes), order |-> appends]
       IN  /\ segments' = [segments EXCEPT ![s] = [files EXCEPT ![g] = bytes]]
           /\ syncedLen' = [syncedLen EXCEPT ![s] =
                  [marks EXCEPT ![g] = IF durable THEN Len(bytes) ELSE @]]
           /\ frames' = [frames EXCEPT ![s] = [whole EXCEPT ![g] = Append(@, entry)]]
           /\ behindTorn' = IF rolls \/ EndsClean(s, g) THEN behindTorn
                            ELSE behindTorn \cup {<<s, g>>}
    /\ nextId' = nextId + 1 /\ appends' = appends + 1
    /\ UNCHANGED <<open, opens>>

\* A flusher's do_flush, or all of them in shutdown(), which ends the run: the
\* current segment is synced.
SyncCurrent(S) ==
    syncedLen' = [s \in LogShardSet |->
        IF s \in S THEN [syncedLen[s] EXCEPT ![Len(segments[s])] = Len(Last(segments[s]))]
        ELSE syncedLen[s]]

BackgroundSync(s) ==
    /\ open /\ SyncCurrent({s})
    /\ UNCHANGED <<segments, nextId, open, opens, appends, frames, behindTorn>>

CloseLog ==
    /\ open /\ SyncCurrent(LogShardSet)
    /\ open' = FALSE
    /\ UNCHANGED <<segments, nextId, opens, appends, frames, behindTorn>>

\* The process is killed.  What it had not synced may be lost, in the buffer or
\* with the machine: of every file a prefix survives that covers at least what
\* was synced.
Kill ==
    /\ open /\ open' = FALSE
    /\ UNCHANGED <<segments, syncedLen, nextId, opens, appends, frames, behindTorn>>

CutsOf(s) ==
    {cut \in [DOMAIN segments[s] -> 0..(SegmentCells + HeaderCells + MaxPayloadCells)] :
        \A g \in DOMAIN cut : cut[g] \in syncedLen[s][g]..Len(segments[s][g])}

LoseTail(s) ==
    /\ ~open
    /\ \E cut \in CutsOf(s) :
          /\ segments' = [segments EXCEPT ![s] = [g \in DOMAIN cut |-> SubSeq(@[g], 1, cut[g])]]
          /\ syncedLen' = [syncedLen EXCEPT ![s] = cut]
          /\ frames' = [frames EXCEPT ![s] =
                [g \in DOMAIN cut |-> SelectSeq(@[g], LAMBDA f : f.end <= cut[g])]]
    /\ UNCHANGED <<nextId, open, opens, appends, behindTorn>>

RecoveryNext ==
    \/ OpenLog \/ CloseLog \/ Kill
    \/ \E p \in Payloads, durable \in BOOLEAN : AppendEntry(p, durable)
    \/ \E s \in LogShardSet : BackgroundSync(s) \/ LoseTail(s)

RecoverySpec == RecoveryInit /\ [][RecoveryNext]_recoveryVars

-----------------------------------------------------------------------------
(* Reading: frame.rs                                                       *)

Parsed(data, i) ==
    [id |-> data[i + 1], payload |-> SubSeq(data, i + HeaderCells, i + 1 + data[i])]
Overflow == [id |-> -1, payload |-> <<>>]

\* read_exact_or_eof and the payload's read_exact, both at cell i.
HeaderAt(data, i) == i + HeaderCells - 1 <= Len(data)
PayloadAt(data, i) == i + HeaderCells - 1 + data[i] <= Len(data)

\* try_parse_frames: a frame cut short, in header or payload, ends the list
\* without an error; a length beyond the limit ends it with one.
TryParseFrames(data) ==
    LET from[i \in 1..(Len(data) + 1)] ==
          IF ~HeaderAt(data, i) THEN <<>>
          ELSE IF data[i] > MaxPayloadCells THEN <<Overflow>>
          ELSE IF ~PayloadAt(data, i) THEN <<>>
          ELSE <<Parsed(data, i)>> \o from[i + HeaderCells + data[i]]
    IN  from[1]

-----------------------------------------------------------------------------
(* Reading: the riftgate-replay tool                                       *)

Undecodable == <<[id |-> -2, payload |-> <<>>]>>

\* decode_one_segment: a clean end of file ends the list, a frame cut short is
\* an error.  There is no limit on the length.
DecodeOneSegment(data) ==
    LET from[i \in 1..(Len(data) + 1)] ==
          IF i > Len(data) THEN <<>>
          ELSE IF ~HeaderAt(data, i) THEN Undecodable
          ELSE IF ~PayloadAt(data, i) THEN Undecodable
          ELSE <<Parsed(data, i)>> \o from[i + HeaderCells + data[i]]
    IN  from[1]
Decodes(data) ==
    LET d == DecodeOneSegment(data) IN d = <<>> \/ Last(d) # Last(Undecodable)

\* collect_segment_paths on the log's directory: every segment file, sorted by
\* name, that is by shard and number.
CollectSegmentPathsNewestFirst ==
    FlattenSeq([k \in 1..LogShards |-> Reverse(segments[k - 1])])
CollectSegmentPaths == FlattenSeq([k \in 1..LogShards |-> segments[k - 1]])

\* Stable sort_by_key(entry_id).
StablySorted(entries) ==
    LET indexed == [i \in DOMAIN entries |-> <<entries[i].id, i>>]
        sorted == SortSeq(indexed, LAMBDA a, b : a[1] < b[1] \/ (a[1] = b[1] /\ a[2] < b[2]))
    IN  [i \in DOMAIN entries |-> entries[sorted[i][2]]]

\* decode_segments: no file or one that does not decode fails the whole.
DecodeSegments ==
    LET paths == CollectSegmentPaths
    IN  IF paths = <<>> \/ \E i \in DOMAIN paths : ~Decodes(paths[i]) THEN Undecodable
        ELSE StablySorted(FlattenSeq([i \in DOMAIN paths |-> DecodeOneSegment(paths[i])]))

WithinRange(id, from, to) == id >= from /\ id <= to

\* run_dump with --from, --to and --limit.
RunDump(from, to, limit) ==
    IF DecodeSegments = Undecodable THEN Undecodable
    ELSE LET kept == SelectSeq(DecodeSegments, LAMBDA e : WithinRange(e.id, from, to))
         IN  SubSeq(kept, 1, IF limit < Len(kept) THEN limit ELSE Len(kept))

\* The summary of run_replay and run_eval: number of entries and payload bytes.
RunSummary ==
    IF DecodeSegments = Undecodable THEN Undecodable
    ELSE <<Len(DecodeSegments),
           FoldSeq(LAMBDA e, n : n + Len(e.payload), 0, DecodeSegments)>>

-----------------------------------------------------------------------------
(* Properties                                                              *)

Segments == {<<s, g>> : s \in LogShardSet, g \in 1..MaxLogAppends}
Exists(s, g) == g \in DOMAIN segments[s]
EntryOf(f) == [id |-> f.id, payload |-> f.payload]
Whole(s, g) == [i \in DOMAIN frames[s][g] |-> EntryOf(frames[s][g][i])]

\* file_wal.rs and frame.rs together: however the run that wrote a segment
\* ended and however often the log was opened since, try_parse_frames returns
\* exactly the frames that are whole in the file (every synced one is), in the
\* order of writing, with no error and nothing invented; except for a segment
\* that was appended to behind a torn frame.
ParsesWholeFrames ==
    \A <<s, g>> \in Segments :
        Exists(s, g) /\ <<s, g>> \notin behindTorn => TryParseFrames(segments[s][g]) = Whole(s, g)

AllWhole == UNION {UNION {Range(frames[s][g]) : g \in DOMAIN frames[s]} : s \in LogShardSet}

PayloadCells(F) == FoldSet(LAMBDA f, n : n + Len(f.payload), 0, F)

\* The tool on a log without torn frames, opened any number of times: decode
\* succeeds with every frame once, by entry id and, as ids restart with every
\* run, oldest run first among equal ids; a dump in two ranges gives the same
\* entries as one; the summary counts them all.
DumpIsComplete ==
    LET clean == \A <<s, g>> \in Segments : Exists(s, g) => EndsClean(s, g)
        everything == SetToSortSeq(AllWhole,
            LAMBDA a, b : a.id < b.id \/ (a.id = b.id /\ a.order < b.order))
        entries == [i \in DOMAIN everything |-> EntryOf(everything[i])]
    IN  clean /\ behindTorn = {} /\ opens > 0 =>
            /\ DecodeSegments = entries
            /\ \A k \in 0..MaxLogAppends :
                  RunDump(0, k, MaxLogAppends) \o RunDump(k + 1, MaxLogAppends, MaxLogAppends)
                      = entries
            /\ RunSummary = <<Cardinality(AllWhole), PayloadCells(AllWhole)>>

-----------------------------------------------------------------------------
(* What the documentation says and the code does not do                    *)

\* docs/01-requirements/functional.md: "After a crash, the log can be replayed
\* to reconstruct request history": what was synced can be read back.
SyncedIsReadable ==
    \A <<s, g>> \in Segments :
        Exists(s, g) =>
            \A i \in DOMAIN frames[s][g] :
                frames[s][g][i].end <= syncedLen[s][g] =>
                    EntryOf(frames[s][g][i]) \in Range(TryParseFrames(segments[s][g]))
=============================================================================
