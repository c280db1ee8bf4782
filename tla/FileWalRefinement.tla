-------------------------- MODULE FileWalRefinement --------------------------
(***************************************************************************)
(* FileWal implements DurableLog, for every number of shards, appenders,   *)
(* segment size and pattern of I/O errors.  A step of FileWal either leaves *)
(* the segments and the acknowledgements alone, or is one abstract step:   *)
(* AppendLocked a Write, a failed append that rolled over a CloseSegment,  *)
(* DoFlush a Sync, Recheck an Acknowledge.                                 *)
(***************************************************************************)
EXTENDS FileWalProofs

\* An entry is pending, or on disk, in the shard its id selects only.
LEMMA OneShard ==
    ASSUME IInv, NEW s \in Shards, NEW t \in Shards, NEW id, id \in Written(s), id \in Written(t)
    PROVE  s = t
BY DEF IInv, FramesConserved

\* The three abstract sets together are what the shards have written.
LEMMA EntriesWritten ==
    ASSUME NEW id
    PROVE  id \in Log!Entries <=> \E s \in Shards : id \in Written(s)
BY DEF Log!Entries, CurrentIds, SyncedIds, StrandedIds, Written, PendingIds, Stranded

\* A frame is stranded only if it is pending.
LEMMA StrandedPending == \A s : Stranded(s) \subseteq PendingIds(s)
BY DEF Stranded, PendingIds

\* A step that moves no frame maps to equal abstract sets.
LEMMA SetsSame ==
    ASSUME SegmentsSame
    PROVE  CurrentIds' = CurrentIds /\ SyncedIds' = SyncedIds /\ StrandedIds' = StrandedIds
BY DerivedSame DEF SegmentsSame, CurrentIds, SyncedIds, StrandedIds

\* Rolling over, with or without a new frame, only moves volatile entries to
\* those left behind.
LEMMA RolloverMoves ==
    ASSUME IInv, NEW new,
           \A t \in Shards : PendingIds(t) \subseteq PendingIds(t)',
           \A t \in Shards : PendingIds(t)' \subseteq PendingIds(t) \cup new,
           \A t \in Shards : Stranded(t) \subseteq Stranded(t)',
           \A t \in Shards : Stranded(t)' \cap new = {},
           \A id \in new : id \notin Log!Entries
    PROVE  /\ CurrentIds' \subseteq CurrentIds \cup new
           /\ StrandedIds' = StrandedIds \cup (CurrentIds \ CurrentIds')
<1>1. CurrentIds' \subseteq CurrentIds \cup new
  BY DEF CurrentIds
<1>2. ASSUME NEW id, id \in StrandedIds' PROVE id \in StrandedIds \cup (CurrentIds \ CurrentIds')
  <2>1. PICK t \in Shards : id \in Stranded(t)'
    BY <1>2 DEF StrandedIds
  <2>2. id \in PendingIds(t)'
    BY <2>1, StrandedPending DEF Stranded, PendingIds
  <2>3. id \in PendingIds(t) /\ id \notin new
    BY <2>1, <2>2
  <2>4. \A u \in Shards : id \in PendingIds(u)' => u = t
    BY <2>3, OneShard DEF Written
  <2>5. id \notin CurrentIds'
    BY <2>1, <2>4 DEF CurrentIds
  <2> QED
    BY <2>3, <2>5 DEF CurrentIds, StrandedIds
<1>3. StrandedIds \subseteq StrandedIds'
  BY DEF StrandedIds
<1>4. ASSUME NEW id, id \in CurrentIds, id \notin CurrentIds' PROVE id \in StrandedIds'
  BY <1>4 DEF CurrentIds, StrandedIds
<1> QED
  BY <1>1, <1>2, <1>3, <1>4

\* append()'s critical section is an abstract Write.
LEMMA AppendWrites ==
    ASSUME IInv, NEW c \in Callers, AppendLocked(c) PROVE Log!Write(entry[c])
<1>a. PICK id \in Nat : id = entry[c]
  BY DEF IInv, TypeOK
<1>b. PICK s \in Shards : s = ShardFor(id)
  BY ShardForType
<1>1. PICK len \in Nat : WriteFrame(s, id, len)
  BY <1>a, <1>b, WalAssumption DEF AppendLocked, WalAssumption
<1>2. /\ PendingIds(s)' = PendingIds(s) \cup {id}
      /\ Stranded(s) \subseteq Stranded(s)'
      /\ \A t \in Shards \ {s} : /\ PendingIds(t)' = PendingIds(t)
                                 /\ Stranded(t)' = Stranded(t)
      /\ disk' = disk
  BY <1>1, WriteFrameSets DEF IInv
<1>3. id \notin Written(s)
  BY <1>a, <1>b DEF AppendLocked, IInv, ClaimsFresh
<1>4. id \notin Log!Entries
  BY <1>3, <1>b, EntriesWritten DEF IInv, FramesConserved
<1>5. \A t \in Shards : id \notin PendingIds(t) /\ id \notin Stranded(t)
  BY <1>4, EntriesWritten, StrandedPending DEF Written
<1>6. id \notin Stranded(s)'
  <2>1. PICK seg \in Nat : seqno'[s] = seg /\ pending'[s] = pending[s] \cup {<<seg, id>>}
    BY <1>1 DEF WriteFrame, RollsOver, IInv, TypeOK
  <2> SUFFICES ASSUME NEW g \in pending'[s], g[1] < seqno'[s], g[2] = id PROVE FALSE
    BY DEF Stranded
  <2>2. g \in pending[s]
    BY <2>1
  <2> QED
    BY <2>2, <1>5 DEF PendingIds
<1>7. /\ CurrentIds' \subseteq CurrentIds \cup {id}
      /\ StrandedIds' = StrandedIds \cup (CurrentIds \ CurrentIds')
  <2>1. /\ \A t \in Shards : PendingIds(t) \subseteq PendingIds(t)'
        /\ \A t \in Shards : PendingIds(t)' \subseteq PendingIds(t) \cup {id}
        /\ \A t \in Shards : Stranded(t) \subseteq Stranded(t)'
        /\ \A t \in Shards : Stranded(t)' \cap {id} = {}
        /\ \A x \in {id} : x \notin Log!Entries
    BY <1>2, <1>4, <1>5, <1>6
  <2> QED
    BY <2>1, RolloverMoves
<1>8. id \in CurrentIds'
  BY <1>2, <1>6 DEF CurrentIds
<1>9. SyncedIds' = SyncedIds
  BY <1>2 DEF SyncedIds
<1>10. \/ overtaken' = overtaken /\ acked' = acked
       \/ overtaken' = overtaken \cup {id} /\ acked' \in {acked, acked \cup {id}}
  <2>1. CASE NotDurable(id)
    BY <2>1, <1>a, <1>b DEF AppendLocked
  <2>2. CASE ~NotDurable(id)
    <3>1. lastDurable[s] \in Nat /\ id > 0 /\ lastDurable[s] >= id
      BY <1>a, <1>b, <2>2 DEF NotDurable, AppendLocked, IInv, TypeOK, ClaimsFresh
    <3>2. lastDurable[s] \in Written(s)
      BY <3>1 DEF IInv, MarksWritten
    <3>3. lastDurable[s] > id
      BY <1>3, <3>1, <3>2
    <3>4. overtaken' = overtaken \cup {id}
      BY <3>2, <3>3, <1>a, <1>b DEF AppendLocked
    <3> QED
      BY <3>4, <1>a DEF AppendLocked
  <2> QED
    BY <2>1, <2>2
<1> QED
  BY <1>a, <1>4, <1>7, <1>8, <1>9, <1>10 DEF Log!Write

\* An append that fails closes a segment, if it changes anything.
LEMMA FailureCloses ==
    ASSUME IInv, NEW c \in Callers, AppendFails(c) PROVE Log!CloseSegment
<1>1. UNCHANGED <<pending, disk, overtaken, acked>>
  BY DEF AppendFails, historyVars
<1>2. \A t \in Shards : seqno[t] <= seqno'[t] /\ seqno[t] \in Nat /\ seqno'[t] \in Nat
  <2>1. \A t \in Shards : seqno[t] \in Nat
    BY DEF IInv, TypeOK
  <2>2. CASE seqno' = seqno
    BY <2>1, <2>2
  <2>3. CASE seqno' = [seqno EXCEPT ![ShardFor(entry[c])] = @ + 1]
    BY <2>1, <2>3 DEF IInv, TypeOK
  <2> QED
    BY <2>2, <2>3 DEF AppendFails
<1>3. \A t \in Shards : PendingIds(t)' = PendingIds(t) /\ Stranded(t) \subseteq Stranded(t)'
  BY <1>1, <1>2 DEF PendingIds, Stranded, IInv, TypeOK
<1>4. /\ \A t \in Shards : PendingIds(t) \subseteq PendingIds(t)'
      /\ \A t \in Shards : PendingIds(t)' \subseteq PendingIds(t) \cup {}
      /\ \A t \in Shards : Stranded(t) \subseteq Stranded(t)'
      /\ \A t \in Shards : Stranded(t)' \cap {} = {}
      /\ \A id \in {} : id \notin Log!Entries
  BY <1>3
<1>5. /\ CurrentIds' \subseteq CurrentIds \cup {}
      /\ StrandedIds' = StrandedIds \cup (CurrentIds \ CurrentIds')
  BY <1>4, RolloverMoves
<1>6. SyncedIds' = SyncedIds
  BY <1>1 DEF SyncedIds
<1> QED
  BY <1>1, <1>5, <1>6 DEF Log!CloseSegment

\* do_flush() is a Sync, or changes nothing if it fails.
LEMMA FlushSyncs ==
    ASSUME IInv, NEW s \in Shards, DoFlush(s) PROVE Log!Sync \/ UNCHANGED Log!logVars
<1>0. UNCHANGED <<seqno, overtaken, acked>>
  BY DEF DoFlush
<1>1. CASE UNCHANGED <<disk, pending>>
  <2>1. SegmentsSame
    BY <1>0, <1>1 DEF SegmentsSame
  <2> QED
    BY <2>1, <1>0, SetsSame DEF Log!logVars
<1>2. CASE /\ disk' = [disk EXCEPT ![s] = @ \cup {f[2] : f \in UnsyncedFrames(s)}]
           /\ pending' = [pending EXCEPT ![s] = @ \ UnsyncedFrames(s)]
  <2> DEFINE U == {f[2] : f \in UnsyncedFrames(s)}
  <2>0. /\ \A t \in Shards \ {s} : disk'[t] = disk[t] /\ pending'[t] = pending[t]
        /\ disk'[s] = disk[s] \cup U /\ pending'[s] = pending[s] \ UnsyncedFrames(s)
    BY <1>2 DEF IInv, TypeOK
  <2>1. \A t \in Shards : Stranded(t)' = Stranded(t)
    <3>1. \A t \in Shards \ {s} : Stranded(t)' = Stranded(t)
      BY <1>0, <2>0 DEF Stranded
    <3>2. Stranded(s)' = Stranded(s)
      BY <1>0, <2>0 DEF Stranded, UnsyncedFrames, IInv, TypeOK
    <3> QED
      BY <3>1, <3>2
  <2>2. U \subseteq PendingIds(s) /\ U \cap Stranded(s) = {}
    <3>1. U \subseteq PendingIds(s)
      BY DEF UnsyncedFrames, PendingIds
    <3>2. ASSUME NEW f \in UnsyncedFrames(s), NEW g \in pending[s], g[1] < seqno[s], g[2] = f[2]
          PROVE  FALSE
      <4>1. f \in pending[s] /\ f[1] = seqno[s]
        BY DEF UnsyncedFrames
      <4>2. f = g
        BY <3>2, <4>1 DEF IInv, FramesConserved
      <4>3. seqno[s] \in Nat
        BY DEF IInv, TypeOK
      <4> QED
        BY <3>2, <4>1, <4>2, <4>3
    <3> QED
      BY <3>1, <3>2 DEF Stranded
  <2>3. PendingIds(s)' = PendingIds(s) \ U
    <3>1. PendingIds(s)' = {f[2] : f \in pending[s] \ UnsyncedFrames(s)}
      BY <2>0 DEF PendingIds
    <3>2. \A f \in pending[s] : f[2] \in U => f \in UnsyncedFrames(s)
      BY DEF UnsyncedFrames, IInv, FramesConserved
    <3> QED
      BY <3>1, <3>2 DEF PendingIds
  <2>4. \A t \in Shards \ {s} : PendingIds(t)' = PendingIds(t)
    BY <2>0 DEF PendingIds
  <2>5. PendingIds(s) \ Stranded(s) = U
    <3>1. ASSUME NEW f \in pending[s], f[2] \notin Stranded(s) PROVE f \in UnsyncedFrames(s)
      <4>1. ~(f[1] < seqno[s]) /\ f[1] <= seqno[s]
        BY <3>1 DEF Stranded, IInv, SegmentsExist
      <4>2. f[1] \in Nat /\ seqno[s] \in Nat
        BY DEF IInv, TypeOK
      <4> QED
        BY <4>1, <4>2 DEF UnsyncedFrames
    <3> QED
      BY <2>2, <3>1 DEF PendingIds
  <2> HIDE DEF U
  <2>6. StrandedIds' = StrandedIds
    BY <2>1 DEF StrandedIds
  <2>7. SyncedIds' = SyncedIds \cup U
    BY <2>0 DEF SyncedIds
  <2>8. CurrentIds' = CurrentIds \ U
    <3>1. \A t \in Shards \ {s} : U \cap PendingIds(t) = {}
      BY <2>2, OneShard DEF Written
    <3> QED
      BY <2>1, <2>3, <2>4, <3>1 DEF CurrentIds
  <2>9. U \subseteq CurrentIds
    BY <2>5 DEF CurrentIds
  <2> QED
    BY <1>0, <2>6, <2>7, <2>8, <2>9 DEF Log!Sync
<1> QED
  BY <1>1, <1>2 DEF DoFlush

\* An append that returns after waiting acknowledges an entry it may.
LEMMA RecheckAcknowledges ==
    ASSUME IInv, NEW c \in Callers, Recheck(c)
    PROVE  UNCHANGED Log!logVars \/ \E id \in Log!Entries : Log!Acknowledge(id)
<1>0. SegmentsSame /\ overtaken' = overtaken
  BY DEF Recheck, SegmentsSame, segmentVars
<1>1. CASE NotDurable(entry[c])
  BY <1>0, <1>1, SetsSame DEF Recheck, Log!logVars
<1>2. CASE ~NotDurable(entry[c])
  <2>a. PICK id \in Nat : id = entry[c]
    BY DEF IInv, TypeOK
  <2>b. PICK s \in Shards : s = ShardFor(id)
    BY ShardForType
  <2>1. id \in Written(s) /\ acked' = acked \cup {id}
    BY <1>2, <2>a, <2>b DEF Recheck, IInv, WaitersWritten
  <2>2. id <= lastDurable[s]
    BY <1>2, <2>a, <2>b DEF NotDurable, IInv, TypeOK
  <2>3. id \in overtaken \/ id \in disk[s] \cup Stranded(s)
    BY <2>1, <2>2 DEF IInv, DurablePrefix
  <2>4. id \in Log!Entries
    BY <2>1, EntriesWritten
  <2>5. id \in SyncedIds \cup StrandedIds \cup (overtaken \cap Log!Entries)
    BY <2>3, <2>4 DEF SyncedIds, StrandedIds
  <2>6. Log!Acknowledge(id)
    BY <1>0, <2>1, <2>5, SetsSame DEF Log!Acknowledge
  <2> QED
    BY <2>4, <2>6
<1> QED
  BY <1>1, <1>2

\* Every step of FileWal is a step of DurableLog or leaves its state alone.
LEMMA StepRefines == IInv /\ [Next]_vars => [Log!LogNext]_Log!logVars
<1> SUFFICES ASSUME IInv, [Next]_vars PROVE Log!LogNext \/ UNCHANGED Log!logVars
  OBVIOUS
<1>1. ASSUME NEW c \in Callers, AppendLocked(c) PROVE Log!LogNext
  <2>1. Log!Write(entry[c])
    BY <1>1, AppendWrites
  <2>2. entry[c] \in CurrentIds' /\ entry[c] \notin CurrentIds
    BY <2>1 DEF Log!Write, Log!Entries
  <2> QED
    BY <2>1, <2>2 DEF Log!LogNext
<1>2. ASSUME NEW c \in Callers, AppendFails(c) PROVE Log!LogNext
  BY <1>2, FailureCloses DEF Log!LogNext
<1>3. ASSUME NEW c \in Callers, Recheck(c) PROVE Log!LogNext \/ UNCHANGED Log!logVars
  BY <1>3, RecheckAcknowledges DEF Log!LogNext
<1>4. ASSUME NEW s \in Shards, DoFlush(s) PROVE Log!LogNext \/ UNCHANGED Log!logVars
  BY <1>4, FlushSyncs DEF Log!LogNext
<1>5. ASSUME NEW c \in Callers,
             \/ Claim(c) \/ FlushBegin(c) \/ ShutdownBegin(c) \/ SpuriousWake(c)
             \/ FlushPick(c) \/ FlushWait(c) \/ SignalShard(c) \/ Join(c)
      PROVE  UNCHANGED Log!logVars
  <2>1. SegmentsSame /\ UNCHANGED <<overtaken, acked>>
    BY <1>5 DEF Claim, FlushBegin, ShutdownBegin, SpuriousWake, FlushPick, FlushWait,
        SignalShard, Join, SegmentsSame, segmentVars, historyVars
  <2> QED
    BY <2>1, SetsSame DEF Log!logVars
<1>6. ASSUME NEW s \in Shards, FlusherCheck(s) \/ FlusherWake(s) \/ Publish(s)
      PROVE  UNCHANGED Log!logVars
  <2>1. SegmentsSame /\ UNCHANGED <<overtaken, acked>>
    BY <1>6 DEF FlusherCheck, FlusherWake, Publish, SegmentsSame, segmentVars, historyVars
  <2> QED
    BY <2>1, SetsSame DEF Log!logVars
<1>7. CASE UNCHANGED vars
  <2>1. SegmentsSame /\ UNCHANGED <<overtaken, acked>>
    BY <1>7 DEF vars, SegmentsSame, segmentVars, historyVars
  <2> QED
    BY <2>1, SetsSame DEF Log!logVars
<1> QED
  BY <1>1, <1>2, <1>3, <1>4, <1>5, <1>6, <1>7 DEF Next, CallerStep, FlusherStep

\* file_wal.rs implements the log it promises: every behaviour of FileWal is,
\* through the refinement mapping, a behaviour of DurableLog.
THEOREM WalImplementsLog == Spec => ImplementsLog
<1>1. Init => Log!LogInit
  BY DEF Init, Log!LogInit, CurrentIds, SyncedIds, StrandedIds, PendingIds, Stranded
<1> QED
  BY <1>1, StepRefines, WalInvariant, PTL DEF Spec, ImplementsLog, Log!LogSpec
=============================================================================
