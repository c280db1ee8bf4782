-------------------------- MODULE BinaryHeapTimers --------------------------
(***************************************************************************)
(* The timer subsystem of crates/riftgate-core/src/timers.rs: a binary     *)
(* heap of deadlines with lazy cancellation and compaction, owned by one   *)
(* shard, so that its operations do not interleave.                        *)
(*                                                                         *)
(* The heap is the array std::collections::BinaryHeap keeps, because       *)
(* next_deadline iterates over it in that order.  An entry is the pair of  *)
(* a deadline and an id, the least on top.                                 *)
(***************************************************************************)
EXTENDS Integers, Sequences, FiniteSets, SequencesExt

CONSTANTS
    Deadlines,      \* an interval of naturals; the clock runs over it
    MaxTimers,      \* bound on the calls of schedule
    CompactDiv      \* 1 / compaction_ratio

VARIABLES
    heap, callbacks, cancelled, nextId,
    lastTick,       \* the now of the latest tick
    settled,        \* history: ids that fired, or whose cancel returned true
    wrong           \* history: a timer fired twice, early, cancelled or out of order

timerVars == <<heap, callbacks, cancelled, nextId, lastTick, settled, wrong>>

TimersInit ==
    /\ heap = <<>> /\ callbacks = {} /\ cancelled = {} /\ nextId = 1
    /\ lastTick = 0 /\ settled = {} /\ wrong = FALSE

(***************************************************************************)
(* std::collections::BinaryHeap, of Reverse((deadline, id)).               *)
(***************************************************************************)

Before(a, b) == a[1] < b[1] \/ (a[1] = b[1] /\ a[2] < b[2])

Swap(a, i, j) == [k \in 1..Len(a) |-> IF k = i THEN a[j] ELSE IF k = j THEN a[i] ELSE a[k]]

RECURSIVE SiftUp(_, _)
SiftUp(a, i) ==
    IF i = 1 \/ ~Before(a[i], a[i \div 2]) THEN a
    ELSE SiftUp(Swap(a, i, i \div 2), i \div 2)

\* The hole goes down to the bottom, always to the lesser child, and what was
\* put in it comes up again.
RECURSIVE SiftDownToBottom(_, _)
SiftDownToBottom(a, i) ==
    LET kids == {k \in {2 * i, 2 * i + 1} : k <= Len(a)}
    IN  IF kids = {} THEN SiftUp(a, i)
        ELSE LET least == CHOOSE k \in kids : \A o \in kids : k = o \/ Before(a[k], a[o])
             IN  SiftDownToBottom(Swap(a, i, least), least)

Push(a, e) == SiftUp(Append(a, e), Len(a) + 1)

Pop(a) ==
    IF Len(a) = 1 THEN <<>>
    ELSE SiftDownToBottom(<<Last(a)>> \o SubSeq(a, 2, Len(a) - 1), 1)

(***************************************************************************)
(* BinaryHeapTimers.                                                       *)
(***************************************************************************)

Id(e) == e[2]

Schedule(deadline) ==
    /\ nextId <= MaxTimers
    /\ nextId' = nextId + 1
    /\ heap' = Push(heap, <<deadline, nextId>>)
    /\ callbacks' = callbacks \cup {nextId}
    /\ UNCHANGED <<cancelled, lastTick, settled, wrong>>

\* compact pops everything, so what it keeps is in order; heapifying an array
\* that is in order changes nothing.
Compact(gone) ==
    SortSeq(SelectSeq(heap, LAMBDA e : Id(e) \notin gone), Before)

Compacted(gone) == {}

\* cancel of a live timer, with maybe_compact; of any other it does nothing.
Cancel(id) ==
    /\ id \in callbacks
    /\ callbacks' = callbacks \ {id}
    /\ settled' = settled \cup {id}
    /\ LET gone == cancelled \cup {id}
       IN  IF Cardinality(gone) > Len(heap) \div CompactDiv
           THEN heap' = Compact(gone) /\ cancelled' = Compacted(gone)
           ELSE cancelled' = gone /\ UNCHANGED heap
    /\ UNCHANGED <<nextId, lastTick, wrong>>

\* What a tick that looks one instant ahead would find due.
DueNext(e, now) == e[1] <= now + 1

Due(e, now) == e[1] <= now

Fires(s, id) == id \notin s.cancelled /\ id \in s.callbacks

\* The loop of tick: while the top is due it is popped, and fired unless it was
\* cancelled.
RECURSIVE TickLoop(_, _)
TickLoop(s, now) ==
    IF s.heap = <<>> THEN s
    ELSE LET top == s.heap[1]
         IN  IF ~Due(top, now) THEN s
             ELSE TickLoop([heap      |-> Pop(s.heap),
                            callbacks |-> s.callbacks \ {Id(top)},
                            cancelled |-> s.cancelled \ {Id(top)},
                            fired     |-> IF Fires(s, Id(top)) THEN Append(s.fired, top)
                                          ELSE s.fired], now)

\* tick(now), with the same now as before or the next.
TickHeap(now) ==
    /\ now \in {lastTick, lastTick + 1} /\ now <= Max(Deadlines)
    /\ LET s == TickLoop([heap |-> heap, callbacks |-> callbacks,
                          cancelled |-> cancelled, fired |-> <<>>], now)
           ids == {Id(s.fired[i]) : i \in 1..Len(s.fired)}
       IN  /\ heap' = s.heap /\ callbacks' = s.callbacks /\ cancelled' = s.cancelled
           /\ settled' = settled \cup ids
           /\ wrong' = \/ wrong
                       \/ ids \cap settled # {}
                       \/ \E i \in 1..Len(s.fired) : s.fired[i][1] > now
                       \/ \E i \in 2..Len(s.fired) : Before(s.fired[i], s.fired[i - 1])
    /\ lastTick' = now
    /\ UNCHANGED nextId

TimersNext ==
    \/ \E d \in Deadlines : Schedule(d)
    \/ \E id \in 1..MaxTimers : Cancel(id)
    \/ \E now \in 0..Max(Deadlines) : TickHeap(now)

\* next_deadline: the first entry of the array that is not cancelled.
NextDeadline ==
    LET live == {i \in 1..Len(heap) : Id(heap[i]) \notin cancelled}
    IN  IF live = {} THEN {} ELSE {heap[Min(live)][1]}

(***************************************************************************)
(* Properties.                                                             *)
(***************************************************************************)

\* A timer fires at most once, never after its cancel returned true, never
\* before its deadline, and each tick fires in the order of the deadlines.
FiresOnceOnTime == ~wrong

\* The trait's next_deadline is the deadline of the next timer to fire.
NextDeadlineIsNext ==
    NextDeadline = LET live == {heap[i][1] : i \in {j \in 1..Len(heap) :
                                                        Id(heap[j]) \in callbacks}}
                   IN  IF live = {} THEN {} ELSE {Min(live)}

=============================================================================
