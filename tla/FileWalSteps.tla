--------------------------- MODULE FileWalSteps ---------------------------
(***************************************************************************)
(* The steps of FileWal that write a frame, roll a segment over or pick a  *)
(* target preserve the inductive invariant.                                *)
(***************************************************************************)
EXTENDS FileWalInvariant

\* What writing a frame does to the derived sets: the id joins Written of its
\* shard, and a rollover can only strand frames, never bring one back.
LEMMA WriteFrameSets ==
    ASSUME TypeOK, NEW s \in Shards, NEW id \in Nat, NEW len \in Nat, WriteFrame(s, id, len)
    PROVE  /\ Written(s)' = Written(s) \cup {id}
           /\ PendingIds(s)' = PendingIds(s) \cup {id}
           /\ Stranded(s) \subseteq Stranded(s)'
           /\ \A t \in Shards \ {s} : /\ Written(t)' = Written(t)
                                      /\ PendingIds(t)' = PendingIds(t)
                                      /\ Stranded(t)' = Stranded(t)
           /\ disk' = disk
<1>1. PICK seg \in {seqno[s], seqno[s] + 1} :
        /\ seqno' = [seqno EXCEPT ![s] = seg]
        /\ pending' = [pending EXCEPT ![s] = @ \cup {<<seg, id>>}]
        /\ disk' = disk
  BY Zenon DEF WriteFrame
<1>2. pending'[s] = pending[s] \cup {<<seg, id>>} /\ seqno'[s] = seg /\ seqno[s] \in Nat
  BY <1>1 DEF TypeOK
<1>3. \A t \in Shards \ {s} : pending'[t] = pending[t] /\ seqno'[t] = seqno[t]
  BY <1>1 DEF TypeOK
<1>4. PendingIds(s)' = PendingIds(s) \cup {id}
  <2>1. \A x : x \in PendingIds(s)' <=> \E f \in pending[s] \cup {<<seg, id>>} : x = f[2]
    BY <1>2 DEF PendingIds
  <2>2. \A x : x \in PendingIds(s) <=> \E f \in pending[s] : x = f[2]
    BY DEF PendingIds
  <2>3. <<seg, id>>[2] = id
    OBVIOUS
  <2> QED
    BY <2>1, <2>2, <2>3, Zenon
<1>5. Stranded(s) \subseteq Stranded(s)'
  <2> SUFFICES ASSUME NEW f \in pending[s], f[1] < seqno[s] PROVE f[2] \in Stranded(s)'
    BY DEF Stranded
  <2>1. f[1] \in Nat
    BY DEF TypeOK
  <2>2. f \in pending'[s] /\ f[1] < seqno'[s]
    BY <1>2, <2>1
  <2> QED
    BY <2>2 DEF Stranded
<1> QED
  BY <1>1, <1>3, <1>4, <1>5, Zenon DEF Written, PendingIds, Stranded

\* AppendLocked: the written id is fresh; if it is in order it is above every
\* mark of its shard, so nothing that was covered by a mark is disturbed.
LEMMA AppendLockedStep == ASSUME IInv, TypeOK', NEW c \in Callers, AppendLocked(c) PROVE IInv'
<1>a. PICK id \in Nat : id = entry[c]
  BY DEF IInv, TypeOK
<1>b. PICK s \in Shards : s = ShardFor(id)
  BY ShardForType
<1>1. id \in Nat \ {0} /\ s \in Shards /\ id < nextEntryId /\ id \notin Written(s)
  BY <1>a, <1>b DEF AppendLocked, IInv, TypeOK, ClaimsFresh
<1>2. PICK len \in Nat : WriteFrame(s, id, len)
  BY <1>a, <1>b, WalAssumption DEF AppendLocked, WalAssumption
<1>3. /\ Written(s)' = Written(s) \cup {id}
      /\ PendingIds(s)' = PendingIds(s) \cup {id}
      /\ Stranded(s) \subseteq Stranded(s)'
      /\ \A t \in Shards \ {s} : /\ Written(t)' = Written(t)
                                 /\ PendingIds(t)' = PendingIds(t)
                                 /\ Stranded(t)' = Stranded(t)
      /\ disk' = disk
  BY <1>1, <1>2, WriteFrameSets DEF IInv
<1>4. UNCHANGED <<nextEntryId, entry, lastDurable, fpc, target>>
  BY DEF AppendLocked, flusherVars
<1>5. \A t \in Shards : \A w \in Written(t) : w \in Nat
  BY DEF Written, PendingIds, IInv, TypeOK
<1>6. lastBuffered' = [lastBuffered EXCEPT ![s] = id]
  BY <1>a, <1>b DEF AppendLocked
<1>7. \A d \in Callers : d # c =>
          /\ pc'[d] = "claimed" => pc[d] = "claimed"
          /\ pc'[d] \in {"parked", "woken"} => pc[d] \in {"parked", "woken"}
  BY DEF AppendLocked, Notified, IInv, TypeOK
<1>8. pc'[c] \in {"parked", "idle"}
  BY DEF AppendLocked, Notified, IInv, TypeOK
<1>9. FramesConserved'
  <2>1. \A t \in Shards : PendingIds(t)' \cap disk'[t] = {}
    BY <1>1, <1>3 DEF IInv, FramesConserved, Written
  <2>2. \A t \in Shards : \A w \in Written(t)' : w < nextEntryId' /\ ShardFor(w) = t
    BY <1>b, <1>1, <1>3, <1>4 DEF IInv, FramesConserved
  <2>3. ASSUME NEW t \in Shards, NEW f \in pending'[t], NEW g \in pending'[t], f[2] = g[2]
        PROVE  f = g
    <3>1. CASE t # s
      <4>1. pending'[t] = pending[t]
        BY <1>2, <3>1 DEF WriteFrame, IInv, TypeOK
      <4> QED
        BY <2>3, <4>1 DEF IInv, FramesConserved
    <3>2. CASE t = s
      <4>1. PICK seg : pending'[s] = pending[s] \cup {<<seg, id>>}
        BY <1>2, <1>1, Zenon DEF WriteFrame, IInv, TypeOK
      <4>2. \A h \in pending[s] : h[2] # id
        BY <1>1 DEF Written, PendingIds
      <4> QED
        BY <2>3, <3>2, <4>1, <4>2, <1>1 DEF IInv, FramesConserved
    <3> QED
      BY <3>1, <3>2
  <2>4. \A t \in Shards : \A f, g \in pending'[t] : f[2] = g[2] => f = g
    BY <2>3
  <2> QED
    BY <2>1, <2>2, <2>4, <1>4 DEF FramesConserved, ShardFor
<1>10. ClaimsFresh'
  <2> SUFFICES ASSUME NEW e \in Callers, pc'[e] = "claimed",
                      NEW x, x = entry[e], NEW t, t = ShardFor(x)
               PROVE  /\ x > 0 /\ x < nextEntryId
                      /\ x \notin Written(t)'
                      /\ \A d \in Callers : pc'[d] = "claimed" /\ entry[d] = x => d = e
    BY <1>4 DEF ClaimsFresh, ShardFor
  <2>1. e # c /\ pc[e] = "claimed"
    BY <1>7, <1>8
  <2>2. x # id /\ t \in Shards
    BY <1>a, <2>1, ShardForType DEF IInv, TypeOK, ClaimsFresh, AppendLocked
  <2>3. x \notin Written(t)'
    BY <1>3, <2>1, <2>2 DEF IInv, ClaimsFresh
  <2> QED
    BY <1>7, <1>8, <2>1, <2>3 DEF IInv, ClaimsFresh
<1>11. WaitersWritten'
  <2> SUFFICES ASSUME NEW e \in Callers, pc'[e] \in {"parked", "woken"},
                      NEW x, x = entry[e], NEW t, t = ShardFor(x)
               PROVE  x \in Written(t)'
    BY <1>4 DEF WaitersWritten, ShardFor
  <2>1. CASE e = c
    BY <1>a, <1>b, <1>3, <2>1
  <2>2. CASE e # c
    <3>1. t \in Shards
      BY ShardForType DEF IInv, TypeOK
    <3> QED
      BY <1>3, <1>7, <2>2, <3>1 DEF IInv, WaitersWritten
  <2> QED
    BY <2>1, <2>2
<1>12. MarksWritten'
  <2>1. lastBuffered'[s] = id /\ \A t \in Shards \ {s} : lastBuffered'[t] = lastBuffered[t]
    BY <1>1, <1>6 DEF IInv, TypeOK
  <2> QED
    BY <1>3, <1>4, <2>1 DEF IInv, MarksWritten
<1>13. SegmentsExist'
  <2> SUFFICES ASSUME NEW t \in Shards, NEW f \in pending'[t] PROVE f[1] <= seqno'[t]
    BY DEF SegmentsExist
  <2>1. CASE t # s
    <3>1. pending'[t] = pending[t] /\ seqno'[t] = seqno[t]
      BY <1>2, <2>1 DEF WriteFrame, IInv, TypeOK
    <3> QED
      BY <3>1 DEF IInv, SegmentsExist
  <2>2. CASE t = s
    <3>1. PICK seg \in {seqno[s], seqno[s] + 1} :
              pending'[s] = pending[s] \cup {<<seg, id>>} /\ seqno'[s] = seg
      BY <1>2, <1>1 DEF WriteFrame, IInv, TypeOK
    <3>2. seqno[s] \in Nat /\ \A g \in pending[s] : g[1] \in Nat /\ g[1] <= seqno[s]
      BY <1>1 DEF IInv, TypeOK, SegmentsExist
    <3> QED
      BY <2>2, <3>1, <3>2
  <2> QED
    BY <2>1, <2>2
<1>14. DurablePrefix'
  <2> SUFFICES ASSUME NEW t \in Shards, NEW w \in Written(t)' \ overtaken',
                      w <= lastDurable[t] \/ (fpc[t] = "synced" /\ w <= target[t])
               PROVE  w \in disk[t] \cup Stranded(t)'
    BY <1>3, <1>4 DEF DurablePrefix
  <2>1. overtaken \subseteq overtaken'
    BY DEF AppendLocked
  <2>2. CASE w \in Written(t)
    BY <1>1, <1>3, <2>1, <2>2 DEF IInv, DurablePrefix
  <2>3. CASE w \notin Written(t)
    <3>1. t = s /\ w = id
      BY <1>3, <2>3
    <3>2. \A v \in Written(s) : ~(v > id)
      BY <1>a, <1>b, <3>1 DEF AppendLocked
    <3>3. lastDurable[s] < id
      BY <1>1, <1>5, <3>2 DEF IInv, MarksWritten
    <3>4. fpc[s] = "synced" => target[s] < id
      BY <1>1, <1>5, <3>2 DEF IInv, MarksWritten
    <3>5. lastDurable[s] \in Nat /\ target[s] \in Nat
      BY <1>1 DEF IInv, TypeOK
    <3> QED
      BY <1>1, <3>1, <3>3, <3>4, <3>5
  <2> QED
    BY <2>2, <2>3
<1>15. AckedPublished'
  <2> SUFFICES ASSUME NEW a \in acked', NEW t, t = ShardFor(a)
               PROVE  a \in Written(t)' /\ a <= lastDurable[t]
    BY <1>4 DEF AckedPublished, ShardFor
  <2>0. acked' \subseteq Nat
    BY DEF TypeOK
  <2>1. CASE a \in acked
    <3>1. t \in Shards
      BY <2>0, ShardForType
    <3> QED
      BY <1>3, <2>1, <3>1 DEF IInv, AckedPublished
  <2>2. CASE a \notin acked
    <3>1. a = id /\ ~NotDurable(id)
      BY <1>a, <2>2 DEF AppendLocked
    <3> QED
      BY <1>b, <1>1, <1>3, <3>1 DEF NotDurable, IInv, TypeOK
  <2> QED
    BY <2>1, <2>2
<1> QED
  BY <1>9, <1>10, <1>11, <1>12, <1>13, <1>14, <1>15 DEF IInv

\* AppendFails: a rollover without a frame strands the frames of the old
\* segment and changes nothing else.
LEMMA AppendFailsStep == ASSUME IInv, TypeOK', NEW c \in Callers, AppendFails(c) PROVE IInv'
<1> USE DEF AppendFails, markVars, flusherVars, historyVars
<1>1. NobodyNew
  BY DEF NobodyNew, IInv, TypeOK
<1>2. CASE UNCHANGED <<seqno, segmentBytes>>
  BY <1>1, <1>2, QuietStep DEF SegmentsSame
<1>3. ASSUME NEW s \in Shards, seqno' = [seqno EXCEPT ![s] = @ + 1] PROVE IInv'
  <2>1. seqno'[s] = seqno[s] + 1 /\ \A t \in Shards \ {s} : seqno'[t] = seqno[t]
    BY <1>3 DEF IInv, TypeOK
  <2>2. \A t \in Shards : seqno[t] \in Nat /\ seqno'[t] \in Nat /\ seqno[t] <= seqno'[t]
    BY <2>1 DEF IInv, TypeOK
  <2>3. \A t : Written(t)' = Written(t) /\ PendingIds(t)' = PendingIds(t)
    BY DEF Written, PendingIds
  <2>4. \A t \in Shards : Stranded(t) \subseteq Stranded(t)'
    BY <2>2 DEF Stranded, IInv, TypeOK
  <2>5. ClaimsFresh' /\ WaitersWritten'
    BY <1>1, <2>3 DEF IInv, NobodyNew, ClaimsFresh, WaitersWritten
  <2>6. FramesConserved' /\ MarksWritten'
    BY <2>3 DEF IInv, FramesConserved, MarksWritten
  <2>7. SegmentsExist'
    BY <2>2 DEF IInv, TypeOK, SegmentsExist
  <2>8. DurablePrefix'
    BY <2>3, <2>4 DEF IInv, DurablePrefix
  <2>9. AckedPublished'
    BY <2>3 DEF IInv, AckedPublished, ShardFor
  <2> QED
    BY <2>5, <2>6, <2>7, <2>8, <2>9 DEF IInv
<1>4. ShardFor(entry[c]) \in Shards
  BY ShardForType DEF IInv, TypeOK
<1> QED
  BY <1>2, <1>3, <1>4

\* FlusherCheck, FlusherWake: the picked target is the last buffered entry and
\* is above lastDurable.
LEMMA FlusherCheckStep ==
    ASSUME IInv, TypeOK', NEW s \in Shards, FlusherCheck(s) \/ FlusherWake(s) PROVE IInv'
<1> USE DEF FlusherCheck, FlusherWake, callerVars, segmentVars, markVars, historyVars
<1>1. SegmentsSame
  BY DEF SegmentsSame
<1>2. NobodyNew
  BY DEF NobodyNew
<1>3. ClaimsFresh' /\ WaitersWritten' /\ AckedPublished'
  BY <1>1, <1>2, CallersPreserved, AckedPreserved
<1>4. FramesConserved' /\ SegmentsExist'
  BY <1>1, FramesPreserved
<1>5. fpc'[s] # "synced" /\ \A t \in Shards \ {s} : fpc'[t] = fpc[t] /\ target'[t] = target[t]
  BY DEF IInv, TypeOK
<1>6. fpc'[s] \in {"picked", "synced", "failed"} =>
          lastDurable[s] < lastBuffered[s] /\ target'[s] = lastBuffered[s]
  BY DEF FlushDue, IInv, TypeOK
<1>7. MarksWritten'
  <2>1. lastDurable[s] \in Nat /\ lastBuffered[s] \in Nat
    BY DEF IInv, TypeOK
  <2> QED
    BY <1>1, <1>5, <1>6, <2>1, DerivedSame DEF IInv, MarksWritten
<1>8. DurablePrefix'
  BY <1>1, <1>5, DerivedSame DEF IInv, DurablePrefix, SegmentsSame
<1> QED
  BY <1>3, <1>4, <1>7, <1>8 DEF IInv
=============================================================================
