--------------------------- MODULE FileWalProofs ---------------------------
(***************************************************************************)
(* Proofs about FileWal, for every number of shards, callers and entries,  *)
(* every segment size and with or without I/O errors: the steps that sync  *)
(* frames, the induction, and the theorems that follow from it.            *)
(***************************************************************************)
EXTENDS FileWalSteps

\* DoFlush: a successful sync leaves only stranded frames pending.
LEMMA DoFlushStep == ASSUME IInv, TypeOK', NEW s \in Shards, DoFlush(s) PROVE IInv'
<1> USE DEF DoFlush, callerVars, markVars
<1>1. NobodyNew
  BY DEF NobodyNew
<1>2. fpc[s] = "picked" /\ fpc'[s] \in {"synced", "failed"}
      /\ \A t \in Shards \ {s} : fpc'[t] = fpc[t]
  BY DEF IInv, TypeOK
<1>3. \A t \in Shards : Written(t)' = Written(t)
  <2>1. CASE UNCHANGED <<disk, pending>>
    BY <2>1 DEF Written, PendingIds
  <2>2. CASE /\ disk' = [disk EXCEPT ![s] = @ \cup {f[2] : f \in UnsyncedFrames(s)}]
             /\ pending' = [pending EXCEPT ![s] = @ \ UnsyncedFrames(s)]
    <3>1. \A t \in Shards \ {s} : disk'[t] = disk[t] /\ pending'[t] = pending[t]
      BY <2>2 DEF IInv, TypeOK
    <3>2. disk'[s] = disk[s] \cup {f[2] : f \in UnsyncedFrames(s)}
          /\ pending'[s] = pending[s] \ UnsyncedFrames(s) /\ UnsyncedFrames(s) \subseteq pending[s]
      BY <2>2 DEF IInv, TypeOK, UnsyncedFrames
    <3>3. Written(s)' = Written(s)
      BY <3>2 DEF Written, PendingIds
    <3> QED
      BY <3>1, <3>3 DEF Written, PendingIds
  <2> QED
    BY <2>1, <2>2
<1>4. \A t \in Shards : pending'[t] \subseteq pending[t] /\ disk[t] \subseteq disk'[t]
  BY DEF IInv, TypeOK
<1>5. \A t \in Shards : Stranded(t) \subseteq Stranded(t)'
  BY DEF Stranded, UnsyncedFrames, IInv, TypeOK
<1>6. fpc'[s] = "synced" => Written(s) \subseteq disk'[s] \cup Stranded(s)'
  <2> SUFFICES ASSUME fpc'[s] = "synced", NEW f \in pending[s], f[2] \notin disk'[s]
               PROVE  f[2] \in Stranded(s)'
    BY <1>4 DEF Written, PendingIds
  <2>1. disk'[s] = disk[s] \cup {g[2] : g \in UnsyncedFrames(s)}
        /\ pending'[s] = pending[s] \ UnsyncedFrames(s)
    BY DEF IInv, TypeOK
  <2>2. f \notin UnsyncedFrames(s)
    BY <2>1
  <2>3. f \in pending'[s] /\ f[1] # seqno[s]
    BY <2>1, <2>2 DEF UnsyncedFrames
  <2>4. f[1] < seqno[s]
    <3>1. f[1] \in Nat /\ seqno[s] \in Nat /\ f[1] <= seqno[s]
      BY DEF IInv, TypeOK, SegmentsExist
    <3> QED
      BY <2>3, <3>1
  <2> QED
    BY <2>3, <2>4 DEF Stranded
<1>7. ClaimsFresh' /\ WaitersWritten' /\ AckedPublished'
  BY <1>3, ShardForType DEF IInv, TypeOK, ClaimsFresh, WaitersWritten, AckedPublished, ShardFor
<1>8. FramesConserved'
  <2>1. \A t \in Shards : \A f, g \in pending'[t] : f[2] = g[2] => f = g
    BY <1>4 DEF IInv, FramesConserved
  <2>2. ASSUME NEW t \in Shards, NEW f \in pending'[t], f[2] \in disk'[t] PROVE FALSE
    <3>1. f \in pending[t] /\ f[2] \notin disk[t]
      BY <1>4 DEF IInv, FramesConserved, PendingIds
    <3>2. t = s /\ \E g \in UnsyncedFrames(s) : g[2] = f[2]
      BY <2>2, <3>1 DEF IInv, TypeOK
    <3>3. f \in UnsyncedFrames(s)
      BY <3>1, <3>2 DEF IInv, FramesConserved, UnsyncedFrames
    <3>4. fpc'[s] = "synced"
      BY <2>2, <3>1, <3>2 DEF IInv, TypeOK
    <3>5. f \notin pending'[s]
      BY <3>3, <3>4 DEF IInv, TypeOK
    <3> QED
      BY <2>2, <3>2, <3>5
  <2>3. \A t \in Shards : PendingIds(t)' \cap disk'[t] = {}
    BY <2>2 DEF PendingIds
  <2> QED
    BY <1>3, <2>1, <2>3 DEF IInv, FramesConserved, ShardFor
<1>9. SegmentsExist'
  BY <1>4 DEF IInv, SegmentsExist
<1>10. MarksWritten'
  BY <1>2, <1>3 DEF IInv, MarksWritten
<1>11. DurablePrefix'
  BY <1>2, <1>3, <1>4, <1>5, <1>6 DEF IInv, DurablePrefix
<1> QED
  BY <1>7, <1>8, <1>9, <1>10, <1>11 DEF IInv

\* Publish: what the sync covered is now covered by lastDurable.
LEMMA PublishStep == ASSUME IInv, TypeOK', NEW s \in Shards, Publish(s) PROVE IInv'
<1> USE DEF Publish, segmentVars, historyVars
<1>1. SegmentsSame
  BY DEF SegmentsSame
<1>2. NobodyNew
  BY DEF NobodyNew, Notified, IInv, TypeOK
<1>3. ClaimsFresh' /\ WaitersWritten'
  BY <1>1, <1>2, CallersPreserved
<1>4. FramesConserved' /\ SegmentsExist'
  BY <1>1, FramesPreserved
<1>5. /\ fpc'[s] = "check"
      /\ \A t \in Shards \ {s} : fpc'[t] = fpc[t] /\ lastDurable'[t] = lastDurable[t]
      /\ \/ fpc[s] = "synced" /\ lastDurable'[s] = target[s]
         \/ lastDurable'[s] = lastDurable[s]
  BY DEF IInv, TypeOK
<1>6. lastDurable[s] \in Nat /\ target[s] \in Nat /\ lastDurable[s] < target[s]
      /\ target[s] \in Written(s)
  BY DEF IInv, TypeOK, MarksWritten
<1>7. MarksWritten'
  BY <1>1, <1>5, <1>6, DerivedSame DEF IInv, MarksWritten
<1>8. DurablePrefix'
  BY <1>1, <1>5, DerivedSame DEF IInv, DurablePrefix, SegmentsSame
<1>9. AckedPublished'
  <2>1. \A t \in Shards : lastDurable[t] <= lastDurable'[t] /\ lastDurable[t] \in Nat
                          /\ lastDurable'[t] \in Nat
    BY <1>5, <1>6 DEF IInv, TypeOK
  <2>2. \A a \in acked : a \in Nat /\ ShardFor(a) \in Shards
    BY ShardForType DEF IInv, TypeOK
  <2> QED
    BY <1>1, <2>1, <2>2, DerivedSame DEF IInv, AckedPublished, ShardFor
<1> QED
  BY <1>3, <1>4, <1>7, <1>8, <1>9 DEF IInv

\* Every step preserves the inductive invariant.
LEMMA IInvStep == IInv /\ [Next]_vars => IInv'
<1> SUFFICES ASSUME IInv, [Next]_vars PROVE IInv'
  OBVIOUS
<1>t. TypeOK'
  BY TypeStep DEF IInv
<1>1. ASSUME NEW c \in Callers, Claim(c) PROVE IInv'
  BY <1>t, <1>1, ClaimStep
<1>2. ASSUME NEW c \in Callers, AppendLocked(c) PROVE IInv'
  BY <1>t, <1>2, AppendLockedStep
<1>3. ASSUME NEW c \in Callers, AppendFails(c) PROVE IInv'
  BY <1>t, <1>3, AppendFailsStep
<1>4. ASSUME NEW c \in Callers, Recheck(c) PROVE IInv'
  BY <1>t, <1>4, RecheckStep
<1>5. ASSUME NEW c \in Callers,
             \/ SpuriousWake(c) \/ FlushBegin(c) \/ FlushWait(c) \/ ShutdownBegin(c) \/ Join(c)
             \/ FlushPick(c) \/ SignalShard(c)
      PROVE  IInv'
  <2>1. NobodyNew
    <3>1. CASE SpuriousWake(c) \/ FlushBegin(c) \/ FlushWait(c) \/ ShutdownBegin(c) \/ Join(c)
      BY <3>1, Zenon DEF SpuriousWake, FlushBegin, FlushWait, ShutdownBegin, Join, NextShard,
          NobodyNew, IInv, TypeOK
    <3>2. CASE FlushPick(c)
      BY <3>2, Zenon DEF FlushPick, NextShard, NobodyNew, Notified, IInv, TypeOK
    <3>3. CASE SignalShard(c)
      BY <3>3 DEF SignalShard, NobodyNew, Notified, IInv, TypeOK
    <3> QED
      BY <1>5, <3>1, <3>2, <3>3
  <2>2. SegmentsSame /\ UNCHANGED <<nextEntryId, lastBuffered, lastDurable, fpc, target,
                                    overtaken, acked>>
    BY <1>5, Zenon DEF SpuriousWake, FlushBegin, FlushWait, ShutdownBegin, Join, FlushPick,
        SignalShard, SegmentsSame, segmentVars, markVars, flusherVars, historyVars
  <2> QED
    BY <1>t, <2>1, <2>2, QuietStep
<1>6. ASSUME NEW s \in Shards, FlusherCheck(s) \/ FlusherWake(s) PROVE IInv'
  BY <1>t, <1>6, FlusherCheckStep
<1>7. ASSUME NEW s \in Shards, DoFlush(s) PROVE IInv'
  BY <1>t, <1>7, DoFlushStep
<1>8. ASSUME NEW s \in Shards, Publish(s) PROVE IInv'
  BY <1>t, <1>8, PublishStep
<1>9. CASE UNCHANGED vars
  <2>1. NobodyNew
    BY <1>9 DEF NobodyNew, vars, callerVars
  <2>2. SegmentsSame /\ UNCHANGED <<nextEntryId, lastBuffered, lastDurable, fpc, target,
                                    overtaken, acked>>
    BY <1>9 DEF SegmentsSame, vars, segmentVars, markVars, flusherVars, historyVars
  <2> QED
    BY <1>t, <2>1, <2>2, QuietStep
<1> QED
  BY <1>1, <1>2, <1>3, <1>4, <1>5, <1>6, <1>7, <1>8, <1>9
  DEF Next, CallerStep, FlusherStep

\* The inductive invariant holds in every reachable state.
THEOREM WalInvariant == Spec => []IInv
BY InitIInv, IInvStep, PTL DEF Spec

\* Type correctness of the WAL.
THEOREM WalTypeCorrect == Spec => []TypeOK
<1>1. IInv => TypeOK
  BY DEF IInv
<1> QED
  BY <1>1, WalInvariant, PTL

\* append() with FdataSync or Fsync: an acknowledged entry that was written in
\* id order is on disk unless its segment was rolled over before a flush.
THEOREM WalAckedDurable == Spec => []AckedInOrderIsDurable
<1>1. IInv => AckedInOrderIsDurable
  <2> SUFFICES ASSUME IInv, NEW id \in acked, id \notin overtaken
               PROVE  id \in disk[ShardFor(id)] \cup Stranded(ShardFor(id))
    BY DEF AckedInOrderIsDurable
  <2>1. ShardFor(id) \in Shards
    BY ShardForType DEF IInv, TypeOK
  <2> QED
    BY <2>1 DEF IInv, AckedPublished, DurablePrefix
<1> QED
  BY <1>1, WalInvariant, PTL

\* No step of the WAL loses or duplicates a frame.
THEOREM WalFramesConserved == Spec => []FramesConserved
<1>1. IInv => FramesConserved
  BY DEF IInv
<1> QED
  BY <1>1, WalInvariant, PTL

\* The flusher never moves ShardState.last_durable backwards.
THEOREM WalLastDurableMonotone == Spec => LastDurableMonotone
<1>1. IInv /\ [Next]_vars => [\A s \in Shards : lastDurable'[s] >= lastDurable[s]]_lastDurable
  <2> SUFFICES ASSUME IInv, [Next]_vars, lastDurable' # lastDurable, NEW t \in Shards
               PROVE  lastDurable'[t] >= lastDurable[t]
    OBVIOUS
  <2>1. PICK s \in Shards : Publish(s)
    BY Zenon DEF Next, CallerStep, FlusherStep, Claim, FlushBegin, ShutdownBegin, SpuriousWake,
           AppendLocked, AppendFails, Recheck, FlushPick, FlushWait, SignalShard, Join,
           FlusherCheck, FlusherWake, DoFlush, vars, markVars
  <2>2. lastDurable[s] \in Nat /\ target[s] \in Nat /\ lastDurable[s] < target[s]
    BY <2>1 DEF Publish, IInv, TypeOK, MarksWritten
  <2> QED
    BY <2>1, <2>2 DEF Publish, IInv, TypeOK
<1> QED
  BY <1>1, WalInvariant, PTL DEF Spec, LastDurableMonotone

-----------------------------------------------------------------------------
(* Draining at shutdown.                                                   *)

Ordered(s) == Written(s) \cap overtaken = {}

\* While a shard is written in id order, last_buffered is its highest id; so a
\* flusher that finds nothing to do has nothing left to do.
DrainInv ==
    \A s \in Shards : Ordered(s) =>
        /\ \A w \in Written(s) : w <= lastBuffered[s]
        /\ fpc[s] = "exited" => PendingIds(s) \subseteq Stranded(s) \cup late

\* A step that writes no frame, syncs nothing and does not end a flusher.
LEMMA DrainQuiet ==
    ASSUME DrainInv, SegmentsSame, UNCHANGED <<lastBuffered, late, overtaken>>,
           \A s \in Shards : fpc'[s] = "exited" => fpc[s] = "exited"
    PROVE  DrainInv'
BY DerivedSame DEF DrainInv, Ordered

\* Every step keeps the drain invariant: only the flusher that has caught up with
\* last_buffered exits.
LEMMA DrainStep == IInv /\ DrainInv /\ [Next]_vars => DrainInv'
<1> SUFFICES ASSUME IInv, DrainInv, [Next]_vars PROVE DrainInv'
  OBVIOUS
<1>0. \A s \in Shards : \A w \in Written(s) : w \in Nat
  BY DEF IInv, TypeOK, Written, PendingIds
<1>1. ASSUME NEW c \in Callers, AppendLocked(c) PROVE DrainInv'
  <2>a. PICK id \in Nat : id = entry[c]
    BY DEF IInv, TypeOK
  <2>b. PICK s \in Shards : s = ShardFor(id)
    BY ShardForType
  <2>1. PICK len \in Nat : WriteFrame(s, id, len)
    BY <1>1, <2>a, <2>b, WalAssumption DEF AppendLocked, WalAssumption
  <2>2. /\ Written(s)' = Written(s) \cup {id}
        /\ PendingIds(s)' = PendingIds(s) \cup {id}
        /\ Stranded(s) \subseteq Stranded(s)'
        /\ \A t \in Shards \ {s} : /\ Written(t)' = Written(t)
                                   /\ PendingIds(t)' = PendingIds(t)
                                   /\ Stranded(t)' = Stranded(t)
    BY <2>1, WriteFrameSets DEF IInv
  <2>3. overtaken \subseteq overtaken' /\ late \subseteq late' /\ fpc' = fpc
        /\ lastBuffered'[s] = id /\ (fpc[s] = "exited" => id \in late')
        /\ (id \notin overtaken' => \A w \in Written(s) : ~(w > id))
        /\ \A t \in Shards \ {s} : lastBuffered'[t] = lastBuffered[t]
    BY <1>1, <2>a, <2>b DEF AppendLocked, IInv, TypeOK, flusherVars
  <2> SUFFICES ASSUME NEW t \in Shards, Ordered(t)'
               PROVE  /\ \A w \in Written(t)' : w <= lastBuffered'[t]
                      /\ fpc'[t] = "exited" => PendingIds(t)' \subseteq Stranded(t)' \cup late'
    BY DEF DrainInv
  <2>4. Ordered(t)
    BY <2>2, <2>3 DEF Ordered
  <2>5. CASE t = s
    BY <1>0, <2>2, <2>3, <2>4, <2>5 DEF DrainInv, Ordered
  <2>6. CASE t # s
    BY <2>2, <2>3, <2>4, <2>6 DEF DrainInv, Ordered
  <2> QED
    BY <2>5, <2>6
<1>2. ASSUME NEW c \in Callers, AppendFails(c) PROVE DrainInv'
  <2>1. \A t : Written(t)' = Written(t) /\ PendingIds(t)' = PendingIds(t)
    BY <1>2 DEF AppendFails, Written, PendingIds
  <2>2. \A t \in Shards : seqno[t] <= seqno'[t] /\ seqno[t] \in Nat /\ seqno'[t] \in Nat
    <3>1. \A t \in Shards : seqno[t] \in Nat
      BY DEF IInv, TypeOK
    <3>2. CASE seqno' = seqno
      BY <3>1, <3>2
    <3>3. CASE seqno' = [seqno EXCEPT ![ShardFor(entry[c])] = @ + 1]
      BY <3>1, <3>3 DEF IInv, TypeOK
    <3> QED
      BY <1>2, <3>2, <3>3 DEF AppendFails
  <2>3. \A t \in Shards : Stranded(t) \subseteq Stranded(t)'
    BY <1>2, <2>2 DEF AppendFails, Stranded, IInv, TypeOK
  <2> QED
    BY <1>2, <2>1, <2>3
    DEF AppendFails, DrainInv, Ordered, markVars, flusherVars, historyVars
<1>3. ASSUME NEW s \in Shards, FlusherCheck(s) PROVE DrainInv'
  <2> USE DEF FlusherCheck, callerVars, segmentVars, markVars, historyVars
  <2>1. SegmentsSame
    BY <1>3 DEF SegmentsSame
  <2>2. CASE fpc'[s] # "exited"
    BY <1>3, <2>1, <2>2, DrainQuiet DEF IInv, TypeOK
  <2>3. CASE fpc'[s] = "exited"
    <3>1. lastBuffered[s] <= lastDurable[s] /\ lastBuffered[s] \in Nat /\ lastDurable[s] \in Nat
      BY <1>3, <2>3 DEF FlushDue, IInv, TypeOK
    <3>2. Ordered(s) => PendingIds(s) \subseteq Stranded(s)
      <4> SUFFICES ASSUME Ordered(s), NEW w \in PendingIds(s) PROVE w \in Stranded(s)
        OBVIOUS
      <4>1. w \in Written(s) \ overtaken /\ w \in Nat /\ w <= lastBuffered[s]
        BY <1>0 DEF Ordered, Written, DrainInv
      <4>2. w \in disk[s] \cup Stranded(s)
        BY <3>1, <4>1 DEF IInv, DurablePrefix
      <4> QED
        BY <4>2 DEF IInv, FramesConserved
    <3>3. \A t \in Shards \ {s} : fpc'[t] = fpc[t]
      BY <1>3 DEF IInv, TypeOK
    <3> QED
      BY <1>3, <2>1, <3>2, <3>3, DerivedSame DEF DrainInv, Ordered
  <2> QED
    BY <2>2, <2>3
<1>4. ASSUME NEW s \in Shards, DoFlush(s) PROVE DrainInv'
  <2> USE DEF DoFlush, callerVars, markVars
  <2>1. \A t \in Shards \ {s} : /\ fpc'[t] = fpc[t] /\ pending'[t] = pending[t]
                                /\ disk'[t] = disk[t]
    BY <1>4 DEF IInv, TypeOK
  <2>2. \A t \in Shards \ {s} : /\ Written(t)' = Written(t) /\ PendingIds(t)' = PendingIds(t)
                                /\ Stranded(t)' = Stranded(t)
    BY <1>4, <2>1 DEF Written, PendingIds, Stranded
  <2>3. Written(s)' \subseteq Written(s)
    BY <1>4 DEF Written, PendingIds, UnsyncedFrames, IInv, TypeOK
  <2>4. Ordered(s)' => Ordered(s)
    <3>1. Written(s) \subseteq Written(s)'
      BY <1>4 DEF Written, PendingIds, UnsyncedFrames, IInv, TypeOK
    <3> QED
      BY <1>4, <3>1 DEF Ordered
  <2>5. fpc'[s] # "exited"
    BY <1>4 DEF IInv, TypeOK
  <2> QED
    BY <1>4, <2>1, <2>2, <2>3, <2>4, <2>5 DEF DrainInv, Ordered
<1>5. ASSUME NEW s \in Shards, FlusherWake(s) \/ Publish(s) PROVE DrainInv'
  <2>1. SegmentsSame /\ UNCHANGED <<lastBuffered, late, overtaken>>
    BY <1>5 DEF FlusherWake, Publish, SegmentsSame, callerVars, segmentVars, markVars, historyVars
  <2>2. \A t \in Shards : fpc'[t] = "exited" => fpc[t] = "exited"
    BY <1>5 DEF FlusherWake, Publish, IInv, TypeOK
  <2> QED
    BY <2>1, <2>2, DrainQuiet
<1>6. ASSUME NEW c \in Callers,
             \/ Claim(c) \/ FlushBegin(c) \/ ShutdownBegin(c) \/ SpuriousWake(c) \/ Recheck(c)
             \/ FlushPick(c) \/ FlushWait(c) \/ SignalShard(c) \/ Join(c)
      PROVE  DrainInv'
  <2>1. SegmentsSame /\ UNCHANGED <<lastBuffered, late, overtaken, fpc>>
    BY <1>6 DEF Claim, FlushBegin, ShutdownBegin, SpuriousWake, Recheck, FlushPick, FlushWait,
        SignalShard, Join, SegmentsSame, segmentVars, markVars, flusherVars, historyVars
  <2> QED
    BY <2>1, DrainQuiet
<1>7. CASE UNCHANGED vars
  <2>1. SegmentsSame /\ UNCHANGED <<lastBuffered, late, overtaken, fpc>>
    BY <1>7 DEF vars, SegmentsSame, segmentVars, markVars, flusherVars, historyVars
  <2> QED
    BY <2>1, DrainQuiet
<1> QED
  BY <1>1, <1>2, <1>3, <1>4, <1>5, <1>6, <1>7 DEF Next, CallerStep, FlusherStep

\* flusher_loop drains its shard before it exits.
THEOREM WalExitDrained == Spec => []ExitedFlusherDrained
<1>1. Init => DrainInv
  BY DEF Init, DrainInv, Written, PendingIds
<1>2. DrainInv => ExitedFlusherDrained
  BY DEF DrainInv, ExitedFlusherDrained, Ordered
<1> QED
  BY <1>1, <1>2, DrainStep, WalInvariant, PTL DEF Spec
=============================================================================
