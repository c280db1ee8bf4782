----------------------------- MODULE Scheduler -----------------------------
(***************************************************************************)
(* PerShardScheduler and ShardedMpmcQueue (crates/riftgate/src/            *)
(* scheduler.rs), fed by callers that ask HighWaterPolicy before they      *)
(* submit, the way the comment in PerShardScheduler::submit says           *)
(* production callers do.                                                  *)
(*                                                                         *)
(* A shard is a bounded channel and the worker thread pinned to it.  One   *)
(* channel operation, one atomic load, store or fetch_add is one step, so  *)
(* a push that walks the shards, a len() that sums them and a steal that   *)
(* probes them are interleaved with everything else.  A task is a number;  *)
(* running it is one step and may panic, which ends the worker thread.     *)
(***************************************************************************)
EXTENDS HighWaterPolicy, Sequences, FiniteSets

CONSTANTS
    Submitters,      \* threads that submit tasks
    Closers,         \* threads that call shutdown() (or drop the scheduler)
    Thieves,         \* consumers that call pop_or_steal() (or pop())
    NShards,         \* shards == worker threads
    Capacity,        \* per_shard_capacity
    MayPanic,        \* TRUE: a task may panic
    MaxTasks,        \* bound: how many tasks are pushed
    NoTask,
    NoOne

Shards == 0..(NShards - 1)
Tasks == 1..MaxTasks

ASSUME SchedulerAssumption ==
    /\ NShards \in Nat \ {0} /\ Capacity \in Nat \ {0}   \* asserted by new(), bounded()
    /\ MaxTasks \in Nat
    /\ MayPanic \in BOOLEAN
    /\ NoTask \notin Tasks
    /\ NoOne \notin Closers
    /\ IsFiniteSet(Submitters)

VARIABLES
    cursor,      \* ShardedMpmcQueue.cursor (only its value modulo NShards matters)
    queue,       \* per shard: the channel
    flag,        \* PerShardScheduler.shutdown
    joined,      \* how many of the handles have been drained and joined
    handlesLock, \* owner of the handles mutex
    call,        \* per submitter: the call it is in
    worker,      \* per shard: where its worker thread stands, and its task
    closer,      \* per closer: where shutdown() stands
    thief,       \* per thief: the offset of its next probe
    nextTask,    \* tasks are numbered in the order they are pushed
    accepted,    \* history, per shard: the tasks pushed, in order
    ran,         \* history, per shard: the tasks its worker finished, in order
    stolen,      \* history: the tasks thieves took
    owed         \* history: the tasks accepted before shutdown was signalled

queueVars == <<cursor, queue, accepted>>
closeVars == <<flag, joined, handlesLock, closer, owed>>
vars == <<shedding, queueVars, closeVars, call, worker, thief, nextTask, ran, stolen>>

Idle == [pc |-> "idle", at |-> 0, n |-> 0, shed |-> FALSE]
InQueue(s) == {queue[s][i] : i \in 1..Len(queue[s])}
Accepted == UNION {{accepted[s][i] : i \in 1..Len(accepted[s])} : s \in Shards}
Ran == UNION {{ran[s][i] : i \in 1..Len(ran[s])} : s \in Shards}
Gone(s) == worker[s].pc \in {"exited", "dead"}

\* PerShardScheduler::start
Init ==
    /\ PolicyInit
    /\ cursor = 0
    /\ queue = [s \in Shards |-> <<>>]
    /\ flag = FALSE /\ joined = 0 /\ handlesLock = NoOne
    /\ call = [p \in Submitters |-> Idle]
    /\ worker = [s \in Shards |-> [pc |-> "poll", task |-> NoTask]]
    /\ closer = [c \in Closers |-> "idle"]
    /\ thief = [t \in Thieves |-> 0]
    /\ nextTask = 1
    /\ accepted = [s \in Shards |-> <<>>]
    /\ ran = [s \in Shards |-> <<>>]
    /\ stolen = {} /\ owed = {}

-----------------------------------------------------------------------------
(* A submitter: len(), on_enqueue(), submit()                              *)

Begin(p) ==
    /\ call[p].pc = "idle"
    /\ nextTask + Cardinality({q \in Submitters : call[q].pc # "idle"}) <= MaxTasks
    /\ call' = [call EXCEPT ![p] = [Idle EXCEPT !.pc = "len"]]
    /\ UNCHANGED <<shedding, queueVars, closeVars, worker, thief, nextTask, ran, stolen>>

\* len(): the shards' lengths are read one after the other.
LenOfShard(p) ==
    /\ call[p].pc = "len"
    /\ LET s == call[p].at
       IN  call' = [call EXCEPT ![p].n = @ + Len(queue[s]),
                                ![p].at = IF s + 1 < NShards THEN s + 1 ELSE 0,
                                ![p].pc = IF s + 1 < NShards THEN "len" ELSE "load"]
    /\ UNCHANGED <<shedding, queueVars, closeVars, worker, thief, nextTask, ran, stolen>>

\* What follows the decision: a rejected request is answered with 503.
Decided(reject) == IF reject THEN Idle ELSE [Idle EXCEPT !.pc = "cursor"]

\* on_enqueue loads the flag and decides; a changed flag is stored next.
OnEnqueue(p) ==
    /\ call[p].pc = "load"
    /\ LET new == NewShedding(shedding, call[p].n)
       IN  call' = [call EXCEPT ![p] =
                IF new # shedding
                  THEN [Idle EXCEPT !.pc = "store", !.shed = new]
                  ELSE Decided(new)]
    /\ UNCHANGED <<shedding, queueVars, closeVars, worker, thief, nextTask, ran, stolen>>

StoreShedding(p) ==
    /\ call[p].pc = "store"
    /\ shedding' = call[p].shed
    /\ call' = [call EXCEPT ![p] = Decided(call[p].shed)]
    /\ UNCHANGED <<queueVars, closeVars, worker, thief, nextTask, ran, stolen>>

\* The next index modulo the number of shards.
Following(s) == (s + 1) % NShards

FetchAddCursor(p) ==
    /\ call[p].pc = "cursor"
    /\ cursor' = Following(cursor)
    /\ call' = [call EXCEPT ![p].pc = "push", ![p].at = cursor]
    /\ UNCHANGED <<shedding, queue, accepted, closeVars, worker, thief, nextTask, ran, stolen>>

\* try_send succeeds unless the channel is full.
HasRoom(s) == Len(queue[s]) < Capacity

\* try_send to one shard; when it is full the next one is tried, each once.
Push(p) ==
    /\ call[p].pc = "push"
    /\ LET s == call[p].at
       IN  IF HasRoom(s)
             THEN /\ queue' = [queue EXCEPT ![s] = Append(@, nextTask)]
                  /\ accepted' = [accepted EXCEPT ![s] = Append(@, nextTask)]
                  /\ owed' = IF flag THEN owed ELSE owed \cup {nextTask}
                  /\ nextTask' = nextTask + 1
                  /\ call' = [call EXCEPT ![p] = Idle]
             ELSE /\ call' = [call EXCEPT ![p] =
                        IF call[p].n + 1 < NShards
                          THEN [@ EXCEPT !.at = Following(s), !.n = @ + 1]
                          ELSE Idle]
                  /\ UNCHANGED <<queue, accepted, owed, nextTask>>
    /\ UNCHANGED <<shedding, cursor, flag, joined, handlesLock, closer, worker, thief,
                   ran, stolen>>

-----------------------------------------------------------------------------
(* worker_loop(s)                                                          *)

\* What try_recv leaves in the channel.
RestPeeked(q) == q
Rest(q) == Tail(q)

\* pop_from(s) finds nothing: in the loop the shutdown flag is looked at next.
AfterEmpty(s) == IF worker[s].pc = "drain" THEN "exited" ELSE "check"

PopOwn(s) ==
    /\ worker[s].pc \in {"poll", "drain"}
    /\ IF queue[s] # <<>>
         THEN /\ worker' = [worker EXCEPT ![s] =
                    [pc |-> IF @.pc = "poll" THEN "run" ELSE "runDrain", task |-> Head(queue[s])]]
              /\ queue' = [queue EXCEPT ![s] = Rest(@)]
         ELSE /\ worker' = [worker EXCEPT ![s].pc = AfterEmpty(s)]
              /\ queue' = queue
    /\ UNCHANGED <<shedding, cursor, accepted, closeVars, call, thief, nextTask, ran, stolen>>

\* task() returns, or panics and takes the thread with it.
RunTask(s) ==
    /\ worker[s].pc \in {"run", "runDrain"}
    /\ \/ /\ worker' = [worker EXCEPT ![s] =
                [pc |-> IF @.pc = "run" THEN "poll" ELSE "drain", task |-> NoTask]]
          /\ ran' = [ran EXCEPT ![s] = Append(@, worker[s].task)]
       \/ /\ MayPanic
          /\ worker' = [worker EXCEPT ![s].pc = "dead"]
          /\ ran' = ran
    /\ UNCHANGED <<shedding, queueVars, closeVars, call, thief, nextTask, stolen>>

\* shutdown.load(): drain and exit, or sleep for poll_idle and go on.
CheckFlagExits(s) == IF flag THEN "exited" ELSE "poll"
CheckFlagInverted(s) == IF flag THEN "poll" ELSE "drain"
CheckFlagIgnored(s) == "poll"
CheckFlag(s) == IF flag THEN "drain" ELSE "poll"

CheckShutdown(s) ==
    /\ worker[s].pc = "check"
    /\ worker' = [worker EXCEPT ![s].pc = CheckFlag(s)]
    /\ UNCHANGED <<shedding, queueVars, closeVars, call, thief, nextTask, ran, stolen>>

-----------------------------------------------------------------------------
(* pop_or_steal(0), which probes the shards in the order pop() does        *)

Steal(t) ==
    /\ LET s == thief[t]
       IN  /\ thief' = [thief EXCEPT ![t] =
                IF queue[s] = <<>> /\ s + 1 < NShards THEN s + 1 ELSE 0]
           /\ IF queue[s] # <<>>
                THEN /\ queue' = [queue EXCEPT ![s] = Rest(@)]
                     /\ stolen' = stolen \cup {Head(queue[s])}
                ELSE UNCHANGED <<queue, stolen>>
    /\ UNCHANGED <<shedding, cursor, accepted, closeVars, call, worker, nextTask, ran>>

-----------------------------------------------------------------------------
(* shutdown(): set the flag, lock the handles, join what is left           *)

Signal(c) ==
    /\ closer[c] = "idle"
    /\ flag' = TRUE
    /\ closer' = [closer EXCEPT ![c] = "lock"]
    /\ UNCHANGED <<shedding, queueVars, joined, handlesLock, owed, call, worker, thief,
                   nextTask, ran, stolen>>

LockHandles(c) ==
    /\ closer[c] = "lock"
    /\ handlesLock = NoOne
    /\ handlesLock' = c
    /\ closer' = [closer EXCEPT ![c] = "join"]
    /\ UNCHANGED <<shedding, queueVars, flag, joined, owed, call, worker, thief,
                   nextTask, ran, stolen>>

Join(c) ==
    /\ closer[c] = "join"
    /\ joined < NShards => Gone(joined)
    /\ IF joined < NShards
         THEN joined' = joined + 1 /\ UNCHANGED <<handlesLock, closer>>
         ELSE /\ handlesLock' = NoOne
              /\ closer' = [closer EXCEPT ![c] = "returned"]
              /\ joined' = joined
    /\ UNCHANGED <<shedding, queueVars, flag, owed, call, worker, thief, nextTask, ran, stolen>>

-----------------------------------------------------------------------------
SubmitStep(p) ==
    LenOfShard(p) \/ OnEnqueue(p) \/ StoreShedding(p) \/ FetchAddCursor(p) \/ Push(p)
WorkerStep(s) == PopOwn(s) \/ RunTask(s) \/ CheckShutdown(s)
CloseStep(c) == LockHandles(c) \/ Join(c)

Next ==
    \/ \E p \in Submitters : Begin(p) \/ SubmitStep(p)
    \/ \E s \in Shards : WorkerStep(s)
    \/ \E t \in Thieves : Steal(t)
    \/ \E c \in Closers : Signal(c) \/ CloseStep(c)

Spec == Init /\ [][Next]_vars

\* Threads that are in a call keep running, and a task returns.  Nobody has to
\* submit, to steal or to shut the scheduler down.
Fairness ==
    /\ \A p \in Submitters : WF_vars(SubmitStep(p))
    /\ \A s \in Shards : WF_vars(WorkerStep(s))
    /\ \A c \in Closers : WF_vars(CloseStep(c))
FairSpec == Spec /\ Fairness

-----------------------------------------------------------------------------
(* Properties                                                              *)

\* The task a worker has popped and not finished.
InHand(s) == IF worker[s].task = NoTask THEN <<>> ELSE <<worker[s].task>>

\* Exactly once and in order: what was pushed to a shard and not stolen is what
\* its worker has run, then the task it is at, then what waits, in push order.
ShardRunsInOrder ==
    \A s \in Shards :
        SelectSeq(accepted[s], LAMBDA t : t \notin stolen) = ran[s] \o InHand(s) \o queue[s]

\* Tasks accepted before shutdown() was called have run when it returns, except
\* those of a shard whose worker a panic ended.  worker_loop: "Drain remainder,
\* then exit."
ShutdownDrains ==
    \A c \in Closers : closer[c] = "returned" =>
        owed \subseteq Ran \cup stolen \cup
            UNION {InQueue(s) \cup {worker[s].task} : s \in {x \in Shards : worker[x].pc = "dead"}}

\* Callers that ask the policy first overshoot high_water by at most one task
\* each, however stale the depth they asked about.
OvershootBounded ==
    LET depth[s \in 0..NShards] == IF s = 0 THEN 0 ELSE depth[s - 1] + Len(queue[s - 1])
    IN  depth[NShards] <= HighWater - 1 + Cardinality(Submitters)

\* An accepted task is run, unless shutdown is signalled or the worker of its
\* shard panics.
AcceptedRuns ==
    \A t \in Tasks :
        t \in Accepted ~> \/ t \in Ran \cup stolen \/ flag
                          \/ \E s \in Shards : worker[s].pc = "dead"

\* shutdown() returns: every worker exits, panicked or drained.
ShutdownReturns == \A c \in Closers : closer[c] = "lock" ~> closer[c] = "returned"
=============================================================================
