-------------------------- MODULE FileWalInvariant --------------------------
(***************************************************************************)
(* The inductive invariant of FileWal, its base case, type correctness and  *)
(* the steps that touch no shard.                                          *)
(***************************************************************************)
EXTENDS FileWal, TLAPS

-----------------------------------------------------------------------------
(* The inductive invariant.                                                *)

\* A claimed id is fresh: nobody else holds it and no frame carries it yet.
ClaimsFresh ==
    \A c \in Callers : pc[c] = "claimed" =>
        /\ entry[c] > 0 /\ entry[c] < nextEntryId
        /\ entry[c] \notin Written(ShardFor(entry[c]))
        /\ \A d \in Callers : pc[d] = "claimed" /\ entry[d] = entry[c] => d = c

\* A caller that waits for its entry has written it.
WaitersWritten ==
    \A c \in Callers : pc[c] \in {"parked", "woken"} =>
        entry[c] \in Written(ShardFor(entry[c]))

\* The marks of a shard name entries of that shard, and a picked target is
\* above the published one.
MarksWritten ==
    \A s \in Shards :
        /\ lastBuffered[s] \in Written(s) \cup {0}
        /\ lastDurable[s] \in Written(s) \cup {0}
        /\ fpc[s] \in {"picked", "synced", "failed"} =>
              target[s] \in Written(s) /\ target[s] > lastDurable[s]

\* No frame lies in a segment that does not exist yet.
SegmentsExist == \A s \in Shards : \A f \in pending[s] : f[1] <= seqno[s]

\* Everything written in order up to lastDurable (and, between the sync and
\* its publication, up to the target) is on disk or stranded.
DurablePrefix ==
    \A s \in Shards : \A id \in Written(s) \ overtaken :
        id <= lastDurable[s] \/ (fpc[s] = "synced" /\ id <= target[s])
            => id \in disk[s] \cup Stranded(s)

\* Only an id that lastDurable has passed is acknowledged.
AckedPublished ==
    \A id \in acked : id \in Written(ShardFor(id)) /\ id <= lastDurable[ShardFor(id)]

IInv == /\ TypeOK /\ FramesConserved /\ ClaimsFresh /\ WaitersWritten
        /\ MarksWritten /\ SegmentsExist /\ DurablePrefix /\ AckedPublished

-----------------------------------------------------------------------------
(* The shard of an id, and what an action does to the derived sets.        *)

\* shard_for: an entry id modulo the number of shards is a shard.
LEMMA ShardForType == \A id \in Nat : ShardFor(id) \in Shards
BY WalAssumption DEF ShardFor, Shards

\* The initial state satisfies the inductive invariant.
LEMMA InitIInv == Init => IInv
<1> SUFFICES ASSUME Init PROVE IInv
  OBVIOUS
<1>0. 0 \in Shards
  BY WalAssumption DEF Shards
<1>1. TypeOK
  BY <1>0 DEF Init, TypeOK, Durability
<1>2. \A s \in Shards : PendingIds(s) = {} /\ Written(s) = {}
  BY DEF Init, PendingIds, Written
<1>3. FramesConserved /\ SegmentsExist
  BY <1>2 DEF Init, FramesConserved, SegmentsExist
<1>4. ClaimsFresh /\ WaitersWritten
  BY DEF Init, ClaimsFresh, WaitersWritten
<1>5. MarksWritten /\ DurablePrefix /\ AckedPublished
  BY <1>2 DEF Init, MarksWritten, DurablePrefix, AckedPublished
<1> QED
  BY <1>1, <1>3, <1>4, <1>5 DEF IInv

\* Every step preserves the types.
LEMMA TypeStep == TypeOK /\ [Next]_vars => TypeOK'
<1> SUFFICES ASSUME TypeOK, [Next]_vars PROVE TypeOK'
  OBVIOUS
<1> USE DEF TypeOK
<1>0. 0 \in Shards /\ \A id \in Nat : ShardFor(id) \in Shards
  BY WalAssumption, ShardForType DEF Shards
<1>n. \A s \in Shards : Notified(s) \in [Callers -> {"idle", "claimed", "parked", "woken",
         "flushPick", "flushWait", "flushParked", "signal", "join"}]
  BY DEF Notified
<1>a. \A c \in Callers : AdvanceShard(c) => at' \in [Callers -> Shards]
  <2> TAKE c \in Callers
  <2>0. at[c] \in Shards
    OBVIOUS
  <2>1. at[c] + 1 < NShards => at[c] + 1 \in Shards
    <3> HIDE DEF TypeOK
    <3> QED BY <2>0, WalAssumption DEF WalAssumption, Shards
  <2> QED
    BY <2>0, <2>1 DEF AdvanceShard
<1>1. ASSUME NEW c \in Callers, Claim(c) PROVE TypeOK'
  BY <1>1, WalAssumption DEF Claim, FetchAdd, segmentVars, markVars, flusherVars, historyVars
<1>2. ASSUME NEW c \in Callers, AppendLocked(c) PROVE TypeOK'
  <2> DEFINE s == ShardFor(entry[c])
  <2>1. s \in Shards
    BY <1>0
  <2>2. PICK len \in FrameLens : WriteFrame(s, entry[c], len)
    BY <1>2 DEF AppendLocked
  <2> QED
    <3>1. len \in Nat \ {0} /\ entry[c] \in Nat
      BY WalAssumption DEF WalAssumption
    <3>3. /\ seqno' \in [Shards -> Nat] /\ segmentBytes' \in [Shards -> Nat]
          /\ pending' \in [Shards -> SUBSET (Nat \X Nat)] /\ disk' = disk
      BY <2>1, <2>2, <3>1 DEF WriteFrame
    <3>4. pc' \in [Callers -> {"idle", "claimed", "parked", "woken",
              "flushPick", "flushWait", "flushParked", "signal", "join"}]
      BY <1>2, <1>n, <2>1 DEF AppendLocked
    <3> QED
      BY <1>2, <2>1, <3>1, <3>3, <3>4, Zenon DEF AppendLocked, flusherVars
<1>3. ASSUME NEW c \in Callers, AppendFails(c) PROVE TypeOK'
  <2>1. ShardFor(entry[c]) \in Shards
    BY <1>0
  <2>2. seqno' \in [Shards -> Nat] /\ segmentBytes' \in [Shards -> Nat]
    <3>1. CASE UNCHANGED <<seqno, segmentBytes>>
      BY <3>1
    <3>2. CASE /\ seqno' = [seqno EXCEPT ![ShardFor(entry[c])] = @ + 1]
               /\ segmentBytes' = [segmentBytes EXCEPT ![ShardFor(entry[c])] = 0]
      BY <2>1, <3>2
    <3> QED
      BY <1>3, <3>1, <3>2 DEF AppendFails
  <2> QED
    BY <1>3, <2>2 DEF AppendFails, markVars, flusherVars, historyVars
<1>4. ASSUME NEW c \in Callers, Recheck(c) PROVE TypeOK'
  BY <1>4, Zenon DEF Recheck, segmentVars, markVars, flusherVars
<1>5. ASSUME NEW c \in Callers, SpuriousWake(c) PROVE TypeOK'
  BY <1>5 DEF SpuriousWake, segmentVars, markVars, flusherVars, historyVars
<1>6. ASSUME NEW c \in Callers, FlushBegin(c) PROVE TypeOK'
  <2>1. UNION {PendingIds(s) : s \in Shards} \in SUBSET Nat
    BY DEF PendingIds
  <2> QED
    BY <1>6, <1>0, <2>1, Zenon DEF FlushBegin, segmentVars, markVars, flusherVars
<1>7. ASSUME NEW c \in Callers, FlushPick(c) PROVE TypeOK'
  <2>1. at[c] \in Shards
    OBVIOUS
  <2>2. at' \in [Callers -> Shards]
    BY <1>7, <1>a DEF FlushPick
  <2> QED
    <3>1. pc' \in [Callers -> {"idle", "claimed", "parked", "woken", "flushPick", "flushWait",
                               "flushParked", "signal", "join"}]
      BY <1>7, <1>n, <2>1 DEF FlushPick, NextShard
    <3>2. entry' \in [Callers -> Nat]
      BY <1>7, <2>1 DEF FlushPick
    <3> QED
      BY <1>7, <2>2, <3>1, <3>2, Zenon
      DEF FlushPick, segmentVars, markVars, flusherVars, historyVars
<1>8. ASSUME NEW c \in Callers, FlushWait(c) PROVE TypeOK'
  BY <1>8, <1>a DEF FlushWait, NextShard, segmentVars, markVars, flusherVars, historyVars
<1>9. ASSUME NEW c \in Callers, ShutdownBegin(c) PROVE TypeOK'
  BY <1>9, <1>0, Zenon DEF ShutdownBegin, segmentVars, markVars, flusherVars, historyVars
<1>10. ASSUME NEW c \in Callers, SignalShard(c) PROVE TypeOK'
  BY <1>10, <1>n, <1>a DEF SignalShard, segmentVars, flusherVars, historyVars
<1>11. ASSUME NEW c \in Callers, Join(c) PROVE TypeOK'
  BY <1>11 DEF Join, segmentVars, markVars, flusherVars, historyVars
<1>12. ASSUME NEW s \in Shards, FlusherCheck(s) PROVE TypeOK'
  BY <1>12 DEF FlusherCheck, callerVars, segmentVars, markVars, historyVars
<1>13. ASSUME NEW s \in Shards, FlusherWake(s) PROVE TypeOK'
  BY <1>13 DEF FlusherWake, callerVars, segmentVars, markVars, historyVars
<1>14. ASSUME NEW s \in Shards, DoFlush(s) PROVE TypeOK'
  <2>1. {f[2] : f \in UnsyncedFrames(s)} \in SUBSET Nat
    BY DEF UnsyncedFrames
  <2>2. pending' \in [Shards -> SUBSET (Nat \X Nat)] /\ disk' \in [Shards -> SUBSET Nat]
    BY <1>14, <2>1 DEF DoFlush
  <2> QED
    BY <1>14, <2>2 DEF DoFlush, callerVars, markVars
<1>15. ASSUME NEW s \in Shards, Publish(s) PROVE TypeOK'
  BY <1>15, <1>n DEF Publish, segmentVars, historyVars
<1>16. CASE UNCHANGED vars
  BY <1>16 DEF vars, callerVars, segmentVars, markVars, flusherVars, historyVars
<1> QED
  BY <1>1, <1>2, <1>3, <1>4, <1>5, <1>6, <1>7, <1>8, <1>9, <1>10, <1>11, <1>12, <1>13,
     <1>14, <1>15, <1>16
  DEF Next, CallerStep, FlusherStep

-----------------------------------------------------------------------------
(* Preservation of the parts of the invariant, shared by the actions.      *)

SegmentsSame == UNCHANGED <<seqno, pending, disk>>

\* A step that leaves the segments alone leaves the derived sets alone.
LEMMA DerivedSame ==
    ASSUME SegmentsSame
    PROVE  \A s : /\ Written(s)' = Written(s)
                  /\ Stranded(s)' = Stranded(s)
                  /\ PendingIds(s)' = PendingIds(s)
BY DEF SegmentsSame, Written, Stranded, PendingIds

\* A step after which nobody newly holds or waits for an id.
NobodyNew ==
    \A c \in Callers :
        /\ pc'[c] = "claimed" => pc[c] = "claimed" /\ entry'[c] = entry[c]
        /\ pc'[c] \in {"parked", "woken"} => pc[c] \in {"parked", "woken"} /\ entry'[c] = entry[c]

\* Such a step, with no frame moved, keeps every claimed id unwritten and every
\* waited-for id written.
LEMMA CallersPreserved ==
    ASSUME IInv, SegmentsSame, NobodyNew, UNCHANGED nextEntryId
    PROVE  ClaimsFresh' /\ WaitersWritten'
BY DerivedSame DEF IInv, NobodyNew, ClaimsFresh, WaitersWritten

\* A step that changes no mark and no segment.
LEMMA ShardsPreserved ==
    ASSUME IInv, SegmentsSame, nextEntryId' >= nextEntryId, nextEntryId' \in Nat,
           UNCHANGED <<lastBuffered, lastDurable, fpc, target, overtaken>>
    PROVE  FramesConserved' /\ MarksWritten' /\ SegmentsExist' /\ DurablePrefix'
<1>1. FramesConserved'
  <2>1. \A s \in Shards : \A id \in Written(s) : id \in Nat
    BY DEF IInv, TypeOK, Written, PendingIds
  <2> QED
    BY DerivedSame, <2>1 DEF IInv, TypeOK, FramesConserved, SegmentsSame
<1>2. MarksWritten'
  BY DerivedSame DEF IInv, MarksWritten
<1>3. SegmentsExist'
  BY DEF IInv, SegmentsExist, SegmentsSame
<1>4. DurablePrefix'
  BY DerivedSame DEF IInv, DurablePrefix, SegmentsSame
<1> QED
  BY <1>1, <1>2, <1>3, <1>4

\* A step that moves no frame and publishes nothing keeps what is acknowledged.
LEMMA AckedPreserved ==
    ASSUME IInv, SegmentsSame, UNCHANGED <<lastDurable, acked>>
    PROVE  AckedPublished'
BY DerivedSame DEF IInv, AckedPublished, ShardFor

\* A caller's step that touches no shard state and acknowledges nothing.
LEMMA QuietStep ==
    ASSUME IInv, TypeOK', SegmentsSame, NobodyNew,
           UNCHANGED <<nextEntryId, lastBuffered, lastDurable, fpc, target, overtaken, acked>>
    PROVE  IInv'
<1>1. nextEntryId' >= nextEntryId
  BY DEF IInv, TypeOK
<1> QED
  BY <1>1, CallersPreserved, ShardsPreserved, AckedPreserved DEF IInv, TypeOK

\* Claim: the counter moves past the claimed id, so the id is fresh.
LEMMA ClaimStep == ASSUME IInv, TypeOK', NEW c \in Callers, Claim(c) PROVE IInv'
<1> USE DEF Claim, segmentVars, markVars, flusherVars, historyVars
<1>1. SegmentsSame
  BY DEF SegmentsSame
<1>2. nextEntryId' = nextEntryId + 1 /\ nextEntryId \in Nat \ {0}
  BY DEF FetchAdd, IInv, TypeOK
<1>3. FramesConserved' /\ MarksWritten' /\ SegmentsExist' /\ DurablePrefix'
  BY <1>1, <1>2, ShardsPreserved
<1>4. AckedPublished'
  BY <1>1, AckedPreserved
<1>5. WaitersWritten'
  BY <1>1, DerivedSame DEF IInv, TypeOK, WaitersWritten
<1>6. nextEntryId \notin Written(ShardFor(nextEntryId))
  BY <1>2, ShardForType DEF IInv, FramesConserved
<1>7. ClaimsFresh'
  <2> SUFFICES ASSUME NEW e \in Callers, pc'[e] = "claimed"
               PROVE  /\ entry'[e] > 0 /\ entry'[e] < nextEntryId'
                      /\ entry'[e] \notin Written(ShardFor(entry'[e]))
                      /\ \A d \in Callers : pc'[d] = "claimed" /\ entry'[d] = entry'[e] => d = e
    BY <1>1, DerivedSame DEF ClaimsFresh
  <2>1. \A d \in Callers \ {c} : pc'[d] = pc[d] /\ entry'[d] = entry[d]
    BY DEF IInv, TypeOK
  <2>2. entry'[c] = nextEntryId
    BY DEF IInv, TypeOK
  <2>3. \A d \in Callers \ {c} : pc[d] = "claimed" => entry[d] < nextEntryId /\ entry[d] \in Nat
    BY DEF IInv, TypeOK, ClaimsFresh
  <2>4. CASE e = c
    BY <1>2, <1>6, <2>1, <2>2, <2>3, <2>4
  <2>5. CASE e # c
    BY <1>2, <2>1, <2>2, <2>3, <2>5 DEF IInv, ClaimsFresh
  <2> QED
    BY <2>4, <2>5
<1> QED
  BY <1>3, <1>4, <1>5, <1>7 DEF IInv

\* Recheck: an id is acknowledged only if lastDurable has passed it.
LEMMA RecheckStep == ASSUME IInv, TypeOK', NEW c \in Callers, Recheck(c) PROVE IInv'
<1> USE DEF Recheck, segmentVars, markVars, flusherVars
<1>1. SegmentsSame
  BY DEF SegmentsSame
<1>2. NobodyNew
  BY DEF NobodyNew, IInv, TypeOK
<1>3. ClaimsFresh' /\ WaitersWritten'
  BY <1>1, <1>2, CallersPreserved
<1>4. FramesConserved' /\ MarksWritten' /\ SegmentsExist' /\ DurablePrefix'
  <2>1. nextEntryId' >= nextEntryId /\ nextEntryId' \in Nat
    BY DEF IInv, TypeOK
  <2> QED
    BY <1>1, <2>1, ShardsPreserved
<1>5. AckedPublished'
  <2>1. CASE NotDurable(entry[c])
    BY <1>1, <2>1, AckedPreserved
  <2>2. CASE ~NotDurable(entry[c])
    <3>1. entry[c] \in Nat /\ ShardFor(entry[c]) \in Shards
      BY ShardForType DEF IInv, TypeOK
    <3>2. entry[c] <= lastDurable[ShardFor(entry[c])]
      BY <2>2, <3>1 DEF NotDurable, IInv, TypeOK
    <3>3. entry[c] \in Written(ShardFor(entry[c]))
      BY DEF IInv, WaitersWritten
    <3>4. acked' = acked \cup {entry[c]} /\ lastDurable' = lastDurable
      BY <2>2
    <3> QED
      BY <1>1, <3>2, <3>3, <3>4, DerivedSame DEF IInv, AckedPublished, ShardFor
  <2> QED
    BY <2>1, <2>2
<1> QED
  BY <1>3, <1>4, <1>5 DEF IInv

\* A step that leaves the segments alone conserves the frames.
LEMMA FramesPreserved ==
    ASSUME IInv, SegmentsSame, UNCHANGED nextEntryId
    PROVE  FramesConserved' /\ SegmentsExist'
BY DerivedSame DEF IInv, FramesConserved, SegmentsExist, SegmentsSame
=============================================================================
