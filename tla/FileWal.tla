------------------------------ MODULE FileWal ------------------------------
(***************************************************************************)
(* The append-only write-ahead log of riftgate-replay                      *)
(* (crates/riftgate-replay/src/file_wal.rs).                               *)
(*                                                                         *)
(* A FileWal has NShards shards.  A shard is one mutex-protected           *)
(* ShardState, one condition variable and one flusher thread.  Callers     *)
(* append entries, call flush() or call shutdown().  Every critical        *)
(* section of a shard mutex is one step; the places where the code drops   *)
(* the mutex (or has not taken it yet) are the values of pc and fpc.       *)
(*                                                                         *)
(* Data that is abstracted: a frame is its entry id; a frame's bytes are   *)
(* either pending (in the BufWriter or the page cache of the segment they  *)
(* were written to) or on disk (covered by a successful sync_data of that  *)
(* segment).  Entry id 0 stands for Option::None, ids start at 1.          *)
(***************************************************************************)
EXTENDS Integers

CONSTANTS
    Appenders,        \* threads that call append()
    FlushCallers,     \* threads that call flush()
    ShutdownCallers,  \* threads that call shutdown()
    NShards,          \* FileWalConfig.shards
    SegmentSizeMax,   \* FileWalConfig.segment_size_max
    FlushBufferBytes, \* FileWalConfig.flush_buffer_bytes
    FrameLens,        \* possible frame lengths (header + payload)
    Durabilities,     \* the durabilities callers ask for
    IoErrors,         \* TRUE: file operations may fail
    MaxEntries        \* bound: how many append() calls are made

Durability == {"Async", "FdataSync", "Fsync"}
Callers == Appenders \cup FlushCallers \cup ShutdownCallers
Shards == 0..(NShards - 1)

ASSUME WalAssumption ==
    /\ NShards \in Nat \ {0}
    /\ MaxEntries \in Nat
    /\ SegmentSizeMax \in Nat
    /\ FlushBufferBytes \in Nat
    /\ FrameLens \subseteq Nat \ {0}
    /\ Durabilities \subseteq Durability
    /\ IoErrors \in BOOLEAN
    /\ Appenders \cap FlushCallers = {}
    /\ Appenders \cap ShutdownCallers = {}
    /\ FlushCallers \cap ShutdownCallers = {}

VARIABLES
    nextEntryId,   \* AtomicU64, shared by all shards
    pc,            \* where each caller stands
    entry,         \* append: the claimed entry id; flush: the target
    dur,           \* append: the durability asked for
    at,            \* flush, shutdown: the shard the loop is at
    seqno,         \* per shard: number of the current segment
    segmentBytes,  \* per shard: bytes written to the current segment
    pending,       \* per shard: <<segment, id>> written, not synced
    disk,          \* per shard: ids covered by a sync_data
    lastBuffered,  \* per shard: ShardState.last_buffered
    lastDurable,   \* per shard: ShardState.last_durable
    shutdown,      \* per shard: ShardState.shutdown
    fpc,           \* where each flusher thread stands
    target,        \* per flusher: target_to_flush
    acked,         \* history: ids whose synchronous append returned Ok
    overtaken,     \* history: ids written to a shard after a higher id
    late,          \* history: ids written after their flusher had exited
    before         \* history: ids pending when the caller's flush() began

callerVars == <<pc, entry, dur, at>>
segmentVars == <<seqno, segmentBytes, pending, disk>>
markVars == <<lastBuffered, lastDurable, shutdown>>
flusherVars == <<fpc, target>>
historyVars == <<acked, overtaken, late, before>>
vars == <<nextEntryId, callerVars, segmentVars, markVars, flusherVars, historyVars>>

Synchronous == {"FdataSync", "Fsync"}
ShardFor(id) == id % NShards

\* last_durable.map(|d| d.0 < id).unwrap_or(true)
NotDurableOffByOne(id) == lastDurable[ShardFor(id)] < id - 1
NotDurable(id) == lastDurable[ShardFor(id)] < id

PendingIds(s) == {f[2] : f \in pending[s]}
Written(s) == PendingIds(s) \cup disk[s]
UnsyncedInEverySegment(s) == pending[s]
\* Frames of the current segment that are not synced yet.
UnsyncedFrames(s) == {g \in pending[s] : g[1] = seqno[s]}
\* Frames left unsynced in a segment that is no longer the current one.
Stranded(s) == {f[2] : f \in {g \in pending[s] : g[1] < seqno[s]}}

-----------------------------------------------------------------------------
(* FileWal::open on an empty root directory.                               *)

Init ==
    /\ nextEntryId = 1
    /\ pc = [c \in Callers |-> "idle"]
    /\ entry = [c \in Callers |-> 0]
    /\ dur = [c \in Callers |-> "Async"]
    /\ at = [c \in Callers |-> 0]
    /\ seqno = [s \in Shards |-> 0]
    /\ segmentBytes = [s \in Shards |-> 0]
    /\ pending = [s \in Shards |-> {}]
    /\ disk = [s \in Shards |-> {}]
    /\ lastBuffered = [s \in Shards |-> 0]
    /\ lastDurable = [s \in Shards |-> 0]
    /\ shutdown = [s \in Shards |-> FALSE]
    /\ fpc = [s \in Shards |-> "check"]
    /\ target = [s \in Shards |-> 0]
    /\ acked = {} /\ overtaken = {} /\ late = {}
    /\ before = [c \in Callers |-> {}]

NotifiedNobody(s) == pc
NotifiedAppendersOnly(s) ==
    [c \in Callers |-> IF pc[c] = "parked" /\ ShardFor(entry[c]) = s THEN "woken" ELSE pc[c]]
\* cv.notify_all() of shard s: append() waiters become "woken" (they still have
\* to take the mutex again), flush() waiters go back to their loop test.
Notified(s) ==
    [c \in Callers |->
        IF pc[c] = "parked" /\ ShardFor(entry[c]) = s THEN "woken"
        ELSE IF pc[c] = "flushParked" /\ at[c] = s THEN "flushWait"
        ELSE pc[c]]

-----------------------------------------------------------------------------
(* append()                                                                *)

FetchAdd(n) == n + 1

\* The id is taken from the shared counter before the shard is locked.
Claim(c) ==
    /\ c \in Appenders
    /\ pc[c] = "idle"
    /\ nextEntryId <= MaxEntries
    /\ entry' = [entry EXCEPT ![c] = nextEntryId]
    /\ nextEntryId' = FetchAdd(nextEntryId)
    /\ \E d \in Durabilities : dur' = [dur EXCEPT ![c] = d]
    /\ pc' = [pc EXCEPT ![c] = "claimed"]
    /\ UNCHANGED <<at, segmentVars, markVars, flusherVars, historyVars>>

RollsOver(s, len) == segmentBytes[s] + len > SegmentSizeMax /\ segmentBytes[s] > 0

\* What the critical section does to the segment: roll over to a new segment
\* if the frame does not fit (the old one is flushed, not synced), then write.
WriteFrame(s, id, len) ==
    LET base == IF RollsOver(s, len) THEN 0 ELSE segmentBytes[s]
        seg  == IF RollsOver(s, len) THEN seqno[s] + 1 ELSE seqno[s]
    IN  /\ seqno' = [seqno EXCEPT ![s] = seg]
        /\ segmentBytes' = [segmentBytes EXCEPT ![s] = base + len]
        /\ pending' = [pending EXCEPT ![s] = @ \cup {<<seg, id>>}]
        /\ disk' = disk

NeedImmediateFlush(s, d) ==
    segmentBytes'[s] >= FlushBufferBytes \/ d \in Synchronous

\* The critical section up to the return or the first cv.wait.  An id whose
\* shard is already durable past it returns at once.
AppendLocked(c) ==
    /\ pc[c] = "claimed"
    /\ LET id == entry[c]
           s  == ShardFor(id)
           notified == IF NeedImmediateFlush(s, dur[c]) THEN Notified(s) ELSE pc
       IN  /\ \E len \in FrameLens : WriteFrame(s, id, len)
           /\ lastBuffered' = [lastBuffered EXCEPT ![s] = id]
           /\ pc' = [notified EXCEPT ![c] =
                IF dur[c] \in Synchronous /\ NotDurable(id) THEN "parked" ELSE "idle"]
           /\ acked' = IF dur[c] \in Synchronous /\ ~NotDurable(id)
                         THEN acked \cup {id} ELSE acked
           /\ overtaken' = IF \E w \in Written(s) : w > id
                             THEN overtaken \cup {id} ELSE overtaken
           /\ late' = IF fpc[s] = "exited" THEN late \cup {id} ELSE late
    /\ UNCHANGED <<nextEntryId, entry, dur, at, lastDurable, shutdown, flusherVars,
                   before>>

\* The payload is too large, the rollover's flush or open fails (no change), or
\* the write itself fails (after a rollover): the caller gets Err, the id is lost.
AppendFails(c) ==
    /\ IoErrors
    /\ pc[c] = "claimed"
    /\ LET s == ShardFor(entry[c])
       IN  \/ UNCHANGED <<seqno, segmentBytes>>
           \/ /\ \E len \in FrameLens : RollsOver(s, len)
              /\ seqno' = [seqno EXCEPT ![s] = @ + 1]
              /\ segmentBytes' = [segmentBytes EXCEPT ![s] = 0]
    /\ pc' = [pc EXCEPT ![c] = "idle"]
    /\ UNCHANGED <<nextEntryId, entry, dur, at, pending, disk, markVars, flusherVars,
                   historyVars>>

\* After cv.wait returns: Err if the shard shut down before the entry was
\* durable, wait again if it is not durable, Ok otherwise.
Recheck(c) ==
    /\ pc[c] = "woken"
    /\ LET id == entry[c]
       IN  /\ pc' = [pc EXCEPT ![c] =
                IF NotDurable(id) /\ ~shutdown[ShardFor(id)] THEN "parked" ELSE "idle"]
           /\ acked' = IF NotDurable(id) THEN acked ELSE acked \cup {id}
    /\ UNCHANGED <<nextEntryId, entry, dur, at, segmentVars, markVars, flusherVars,
                   overtaken, late, before>>

\* std's Condvar may wake a waiter without a notification.
SpuriousWake(c) ==
    /\ \/ pc[c] = "parked" /\ pc' = [pc EXCEPT ![c] = "woken"]
       \/ pc[c] = "flushParked" /\ pc' = [pc EXCEPT ![c] = "flushWait"]
    /\ UNCHANGED <<nextEntryId, entry, dur, at, segmentVars, markVars, flusherVars,
                   historyVars>>

-----------------------------------------------------------------------------
(* flush(): for every shard in turn, read last_buffered in one critical    *)
(* section, then wait for last_durable to reach it in another.             *)

\* The next shard of the loop, or the return of Ok.
NextShardSkipsLast(c, next) == IF at[c] + 2 < NShards THEN next ELSE "idle"
NextShard(c, next) == IF at[c] + 1 < NShards THEN next ELSE "idle"

FlushBegin(c) ==
    /\ c \in FlushCallers
    /\ pc[c] = "idle"
    /\ pc' = [pc EXCEPT ![c] = "flushPick"]
    /\ at' = [at EXCEPT ![c] = 0]
    /\ before' = [before EXCEPT ![c] = UNION {PendingIds(s) : s \in Shards}]
    /\ UNCHANGED <<nextEntryId, entry, dur, segmentVars, markVars, flusherVars,
                   acked, overtaken, late>>

AdvanceShard(c) == at' = [at EXCEPT ![c] = IF @ + 1 < NShards THEN @ + 1 ELSE @]

FlushPick(c) ==
    /\ pc[c] = "flushPick"
    /\ LET s == at[c]
       IN  /\ entry' = [entry EXCEPT ![c] = lastBuffered[s]]
           /\ IF lastBuffered[s] = 0
                THEN /\ pc' = [Notified(s) EXCEPT ![c] = NextShard(c, "flushPick")]
                     /\ AdvanceShard(c)
                ELSE /\ pc' = [Notified(s) EXCEPT ![c] = "flushWait"]
                     /\ at' = at
    /\ UNCHANGED <<nextEntryId, dur, segmentVars, markVars, flusherVars, historyVars>>

FlushWait(c) ==
    /\ pc[c] = "flushWait"
    /\ LET s == at[c]
       IN  IF lastDurable[s] < entry[c] /\ ~shutdown[s]
             THEN /\ pc' = [pc EXCEPT ![c] = "flushParked"]
                  /\ at' = at
             ELSE /\ pc' = [pc EXCEPT ![c] = NextShard(c, "flushPick")]
                  /\ AdvanceShard(c)
    /\ UNCHANGED <<nextEntryId, entry, dur, segmentVars, markVars, flusherVars, historyVars>>

-----------------------------------------------------------------------------
(* shutdown(): flag and notify every shard in turn, then join the flushers *)
(* (a later call finds no handle left to join).                            *)

ShutdownBegin(c) ==
    /\ c \in ShutdownCallers
    /\ pc[c] = "idle"
    /\ pc' = [pc EXCEPT ![c] = "signal"]
    /\ at' = [at EXCEPT ![c] = 0]
    /\ UNCHANGED <<nextEntryId, entry, dur, segmentVars, markVars, flusherVars, historyVars>>

SignalShard(c) ==
    /\ pc[c] = "signal"
    /\ shutdown' = [shutdown EXCEPT ![at[c]] = TRUE]
    /\ pc' = [Notified(at[c]) EXCEPT ![c] = IF at[c] + 1 < NShards THEN "signal" ELSE "join"]
    /\ AdvanceShard(c)
    /\ UNCHANGED <<nextEntryId, entry, dur, segmentVars, lastBuffered, lastDurable,
                   flusherVars, historyVars>>

Join(c) ==
    /\ pc[c] = "join"
    /\ \A s \in Shards : fpc[s] = "exited"
    /\ pc' = [pc EXCEPT ![c] = "idle"]
    /\ UNCHANGED <<nextEntryId, entry, dur, at, segmentVars, markVars, flusherVars,
                   historyVars>>

-----------------------------------------------------------------------------
(* flusher_loop() of shard s                                               *)

\* last_buffered is Some and past last_durable.
FlushDueUnlessShutdown(s) == lastDurable[s] < lastBuffered[s] /\ ~shutdown[s]
FlushDueForever(s) == lastBuffered[s] > 0 /\ lastDurable[s] <= lastBuffered[s]
FlushDue(s) == lastDurable[s] < lastBuffered[s]

\* One evaluation of the inner loop: pick a target, exit, or wait_timeout.
FlusherCheck(s) ==
    /\ fpc[s] = "check"
    /\ IF FlushDue(s)
         THEN /\ fpc' = [fpc EXCEPT ![s] = "picked"]
              /\ target' = [target EXCEPT ![s] = lastBuffered[s]]
         ELSE /\ fpc' = [fpc EXCEPT ![s] = IF shutdown[s] THEN "exited" ELSE "waiting"]
              /\ target' = target
    /\ UNCHANGED <<nextEntryId, callerVars, segmentVars, markVars, historyVars>>

\* wait_timeout returns: notified, or flush_interval elapsed.
FlusherWake(s) ==
    /\ fpc[s] = "waiting"
    /\ fpc' = [fpc EXCEPT ![s] = "check"]
    /\ UNCHANGED <<nextEntryId, callerVars, segmentVars, markVars, target, historyVars>>

\* do_flush() under the mutex: write the buffer out and sync_data the file of
\* the current segment.
DoFlush(s) ==
    /\ fpc[s] = "picked"
    /\ \/ /\ fpc' = [fpc EXCEPT ![s] = "synced"]
          /\ disk' = [disk EXCEPT ![s] = @ \cup {f[2] : f \in UnsyncedFrames(s)}]
          /\ pending' = [pending EXCEPT ![s] = @ \ UnsyncedFrames(s)]
       \/ /\ IoErrors
          /\ fpc' = [fpc EXCEPT ![s] = "failed"]
          /\ UNCHANGED <<disk, pending>>
    /\ UNCHANGED <<nextEntryId, callerVars, seqno, segmentBytes, markVars, target,
                   acked, overtaken, late, before>>

\* The second critical section: publish the target, wake every waiter.
Publish(s) ==
    /\ fpc[s] \in {"synced", "failed"}
    /\ lastDurable' = [lastDurable EXCEPT ![s] = IF fpc[s] = "synced" THEN target[s] ELSE @]
    /\ fpc' = [fpc EXCEPT ![s] = "check"]
    /\ pc' = Notified(s)
    /\ UNCHANGED <<nextEntryId, entry, dur, at, segmentVars, lastBuffered, shutdown, target,
                   historyVars>>

-----------------------------------------------------------------------------
CallerStep(c) ==
    \/ AppendLocked(c) \/ AppendFails(c) \/ Recheck(c)
    \/ FlushPick(c) \/ FlushWait(c) \/ SignalShard(c) \/ Join(c)
FlusherStep(s) == FlusherCheck(s) \/ FlusherWake(s) \/ DoFlush(s) \/ Publish(s)

Next ==
    \/ \E c \in Callers : \/ Claim(c) \/ FlushBegin(c) \/ ShutdownBegin(c)
                          \/ SpuriousWake(c) \/ CallerStep(c)
    \/ \E s \in Shards : FlusherStep(s)

Spec == Init /\ [][Next]_vars

\* A thread that has entered a call keeps running, and every critical section
\* is short, so it gets the mutex; the flusher's wait is bounded by
\* flush_interval.  Nobody is obliged to start a call, and a waiter is not
\* obliged to wake up without a notification.
Fairness ==
    /\ \A c \in Callers : WF_vars(CallerStep(c))
    /\ \A s \in Shards : WF_vars(FlusherStep(s))
FairSpec == Spec /\ Fairness

-----------------------------------------------------------------------------
(* Properties                                                              *)

\* Every variable stays in its type, and every frame lies in the shard its id
\* selects, in a segment that exists.
TypeOK ==
    /\ nextEntryId \in Nat \ {0}
    /\ pc \in [Callers -> {"idle", "claimed", "parked", "woken", "flushPick", "flushWait",
                           "flushParked", "signal", "join"}]
    /\ entry \in [Callers -> Nat]
    /\ dur \in [Callers -> Durability]
    /\ at \in [Callers -> Shards]
    /\ seqno \in [Shards -> Nat]
    /\ segmentBytes \in [Shards -> Nat]
    /\ pending \in [Shards -> SUBSET (Nat \X Nat)]
    /\ disk \in [Shards -> SUBSET Nat]
    /\ lastBuffered \in [Shards -> Nat]
    /\ lastDurable \in [Shards -> Nat]
    /\ shutdown \in [Shards -> BOOLEAN]
    /\ fpc \in [Shards -> {"check", "waiting", "picked", "synced", "failed", "exited"}]
    /\ target \in [Shards -> Nat]
    /\ acked \subseteq Nat /\ overtaken \subseteq Nat /\ late \subseteq Nat
    /\ before \in [Callers -> SUBSET Nat]

\* What file_wal.rs does guarantee: an entry that was written in id order and
\* whose append with FdataSync or Fsync returned Ok is on disk, unless the
\* segment it is in was rolled over before a flush reached it.
AckedInOrderIsDurable ==
    \A id \in acked \ overtaken :
        id \in disk[ShardFor(id)] \cup Stranded(ShardFor(id))

\* A frame is never lost or copied: every id an append has written to its
\* shard is pending in exactly one segment or on disk, never both, and is
\* below the id counter.
FramesConserved ==
    \A s \in Shards :
        /\ PendingIds(s) \cap disk[s] = {}
        /\ \A f, g \in pending[s] : f[2] = g[2] => f = g
        /\ \A id \in Written(s) : id < nextEntryId /\ ShardFor(id) = s

\* ShardState.last_durable is only ever replaced by a higher id.
LastDurableMonotone ==
    [][\A s \in Shards : lastDurable'[s] >= lastDurable[s]]_lastDurable

\* flusher_loop drains before it exits: once it has exited, every entry that
\* was written before it did is on disk or stranded by a rollover, provided
\* the shard's entries were written in id order.
ExitedFlusherDrained ==
    \A s \in Shards :
        fpc[s] = "exited" /\ Written(s) \cap overtaken = {}
            => PendingIds(s) \subseteq Stranded(s) \cup late

\* flush() returns Ok only when every entry written before it was called is
\* on disk or stranded by a rollover; the exceptions are a shutdown during the
\* call and entries written out of id order.
FlushReturnsCovered ==
    [][\A c \in FlushCallers :
          /\ pc[c] # "idle" /\ pc'[c] = "idle"
          /\ overtaken = {}
          /\ \A s \in Shards : ~shutdown[s]
          => \A id \in before[c] :
                id \in disk[ShardFor(id)] \cup Stranded(ShardFor(id))]_vars

\* FileWal implements DurableLog: the threads, marks and segments are a way to
\* move entries from volatile to stable and to acknowledge them in time.
CurrentIds == UNION {PendingIds(s) \ Stranded(s) : s \in Shards}
SyncedIds == UNION {disk[s] : s \in Shards}
StrandedIds == UNION {Stranded(s) : s \in Shards}
Log == INSTANCE DurableLog
         WITH volatile <- CurrentIds, stable <- SyncedIds, leftBehind <- StrandedIds,
              unordered <- overtaken, acked <- acked
ImplementsLog == Log!LogSpec

\* Every append() that has claimed an id returns, when no other append runs and
\* its shard is not shut down meanwhile (after the flusher has exited nobody
\* wakes an append that starts to wait).
AppendReturns ==
    \A c \in Appenders : pc[c] # "idle" ~> pc[c] = "idle" \/ \E s \in Shards : shutdown[s]

\* Every flush() returns.
FlushReturns == \A c \in FlushCallers : pc[c] # "idle" ~> pc[c] = "idle"

\* Every shutdown() returns: the flushers drain and exit.
ShutdownReturns == \A c \in ShutdownCallers : pc[c] # "idle" ~> pc[c] = "idle"

-----------------------------------------------------------------------------
(* What the documentation says and the code does not do.                   *)

\* riftgate-core/src/wal.rs: FdataSync is "Append and `fdatasync` before
\* returning", Fsync is "Append and `fsync` before returning".
AckedIsDurable == \A id \in acked : id \in disk[ShardFor(id)]
=============================================================================
