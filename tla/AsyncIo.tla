------------------------------ MODULE AsyncIo ------------------------------
(***************************************************************************)
(* The two implementations of the AsyncIO trait, MioIO                      *)
(* (riftgate-io-epoll/src/mio_io.rs) and UringIO                            *)
(* (riftgate-io-uring/src/uring.rs), each with the kernel below it and a    *)
(* worker above it that keeps the trait's contract: after a wake-up it     *)
(* reads the descriptor until EAGAIN.                                      *)
(*                                                                         *)
(* Readiness is unread data; interest in writability is the same code.     *)
(* Descriptors are not closed while they are registered.                   *)
(***************************************************************************)
EXTENDS Integers, SequencesExt

CONSTANTS
    Fds, Tokens,
    EventsBuf,        \* EVENTS_BUF_CAPACITY
    MaxUnread,        \* bound: unread messages of a descriptor
    MaxRegistrations  \* bound: register() calls

NoToken == "none"

VARIABLES
    backend,     \* "mio" or "uring", once one is constructed
    unread,      \* per descriptor: messages not read yet
    token,       \* per descriptor: the caller's registration, or NoToken
    watch,       \* mio: the token the kernel has for a descriptor
    readyList,   \* mio: epoll's ready list, in order
    armed,       \* uring: polls in the kernel, <<fd, token>>
    completed,   \* uring: completion queue entries, <<token, result >= 0>>
    wakeups,     \* the events of the last poll() the worker has yet to handle
    deaf,        \* history: descriptors the backend stopped watching on an error
    registers    \* history: how many register() calls were made

ioVars == <<backend, unread, token, watch, readyList, armed, completed, wakeups, deaf, registers>>
kernelVars == <<watch, readyList, armed, completed>>

IoInit ==
    /\ backend = "unset"
    /\ unread = [f \in Fds |-> 0]
    /\ token = [f \in Fds |-> NoToken]
    /\ watch = [f \in Fds |-> NoToken]
    /\ readyList = <<>> /\ armed = {} /\ completed = {}
    /\ wakeups = {} /\ deaf = {} /\ registers = 0

\* MioIO::new or UringIO::new.
Construct ==
    /\ backend = "unset" /\ backend' \in {"mio", "uring"}
    /\ UNCHANGED <<unread, token, watch, readyList, armed, completed, wakeups, deaf, registers>>

Queue(list, f) == IF f \in Range(list) THEN list ELSE Append(list, f)

-----------------------------------------------------------------------------
(* The kernel.                                                             *)

\* Data arrives: epoll puts the descriptor on its ready list, io_uring
\* completes every poll of it.
Arrive(f) ==
    /\ unread[f] < MaxUnread
    /\ unread' = [unread EXCEPT ![f] = @ + 1]
    /\ readyList' = IF watch[f] # NoToken THEN Queue(readyList, f) ELSE readyList
    /\ armed' = {p \in armed : p[1] # f}
    /\ completed' = completed \cup {<<p[2], TRUE>> : p \in {q \in armed : q[1] = f}}
    /\ UNCHANGED <<backend, token, watch, wakeups, deaf, registers>>

\* A poll ends with -errno.
PollFails(p) ==
    /\ p \in armed
    /\ armed' = armed \ {p}
    /\ completed' = completed \cup {<<p[2], FALSE>>}
    /\ deaf' = IF token[p[1]] = p[2] THEN deaf \cup {p[1]} ELSE deaf
    /\ UNCHANGED <<backend, unread, token, watch, readyList, wakeups, registers>>

\* A PollAdd of a descriptor that is readable completes at once.
Submit(P) ==
    /\ armed' = armed \cup {p \in P : unread[p[1]] = 0}
    /\ completed' = completed \cup {<<p[2], TRUE>> : p \in {q \in P : unread[q[1]] > 0}}

-----------------------------------------------------------------------------
(* register() and deregister()                                             *)

MioRegister(f, t) ==
    /\ watch' = [watch EXCEPT ![f] = t]     \* ADD or, if registered, MOD: both look at the level
    /\ readyList' = IF unread[f] > 0 THEN Queue(readyList, f) ELSE readyList
    /\ UNCHANGED <<armed, completed>>

\* A descriptor registered again gets a second poll; the first one stays.
UringRegister(f, t) == Submit({<<f, t>>}) /\ UNCHANGED <<watch, readyList>>

Register(f, t) ==
    /\ registers < MaxRegistrations /\ registers' = registers + 1
    /\ \A g \in Fds \ {f} : token[g] # t
    /\ token' = [token EXCEPT ![f] = t]
    /\ IF backend = "mio" THEN MioRegister(f, t) ELSE UringRegister(f, t)
    /\ deaf' = deaf \ {f}
    /\ UNCHANGED <<backend, unread, wakeups>>

\* submit_poll fails (queue full, or the system call): the registration is in
\* the map already, but nothing is armed for it.  MioIO's register() leaves
\* everything as it was when the kernel refuses.
RegisterFails(f, t) ==
    /\ backend = "uring"
    /\ registers < MaxRegistrations /\ registers' = registers + 1
    /\ \A g \in Fds \ {f} : token[g] # t
    /\ token' = [token EXCEPT ![f] = t]
    /\ deaf' = deaf \cup {f}
    /\ UNCHANGED <<backend, unread, kernelVars, wakeups>>

\* UringIO only forgets the registration: its poll stays in the kernel.
Deregister(f) ==
    /\ token[f] # NoToken
    /\ token' = [token EXCEPT ![f] = NoToken]
    /\ watch' = [watch EXCEPT ![f] = NoToken]
    /\ readyList' = SelectSeq(readyList, LAMBDA g : g # f)
    /\ deaf' = deaf \ {f}
    /\ UNCHANGED <<backend, unread, armed, completed, wakeups, registers>>

-----------------------------------------------------------------------------
(* poll()                                                                  *)

\* At most EVENTS_BUF_CAPACITY descriptors leave the ready list.
MioPoll ==
    LET n == IF Len(readyList) < EventsBuf THEN Len(readyList) ELSE EventsBuf
    IN  /\ readyList # <<>>
        /\ wakeups' = {watch[readyList[i]] : i \in 1..n}
        /\ readyList' = SubSeq(readyList, n + 1, Len(readyList))
        /\ UNCHANGED <<watch, armed, completed, deaf>>

RearmFirst(events) ==
    IF events = {} THEN {}
    ELSE LET t == CHOOSE e \in events : TRUE
         IN  {<<f, token[f]>> : f \in {g \in Fds : token[g] = t}}
\* to_rearm: every registration whose token is among the events.
ToRearm(events) == {<<f, token[f]>> : f \in {g \in Fds : token[g] \in events}}

\* Entries with a negative result are skipped, and nothing is armed for them.
\* If a submission fails, poll() returns the error: the registrations it had
\* not reached are not armed, and the events it had collected are lost.
UringPoll ==
    LET events == {c[1] : c \in {d \in completed : d[2]}}
        again == ToRearm(events)
    IN  /\ completed # {}
        /\ \E done \in SUBSET again :
              /\ wakeups' = IF done = again THEN events ELSE {}
              /\ deaf' = deaf \cup {p[1] : p \in again \ done}
              /\ armed' = armed \cup {p \in done : unread[p[1]] = 0}
              /\ completed' = {<<p[2], TRUE>> : p \in {q \in done : unread[q[1]] > 0}}
        /\ UNCHANGED <<watch, readyList>>

Poll ==
    /\ wakeups = {}
    /\ IF backend = "mio" THEN MioPoll ELSE UringPoll
    /\ UNCHANGED <<backend, unread, token, registers>>

\* The worker handles an event: it drains the descriptor it has under that
\* token, and ignores a token it does not own.
Handle(t) ==
    /\ t \in wakeups
    /\ wakeups' = wakeups \ {t}
    /\ unread' = [f \in Fds |-> IF token[f] = t THEN 0 ELSE unread[f]]
    /\ UNCHANGED <<backend, token, kernelVars, deaf, registers>>

IoNext ==
    \/ Construct
    \/ /\ backend # "unset"
       /\ \/ \E f \in Fds : Arrive(f) \/ Deregister(f)
          \/ \E f \in Fds, t \in Tokens : Register(f, t) \/ RegisterFails(f, t)
          \/ \E p \in armed : PollFails(p)
          \/ \E t \in Tokens : Handle(t)
          \/ Poll

\* The worker's loop goes on.  Data and registrations owe nothing.
IoFairness == WF_ioVars(Poll) /\ \A t \in Tokens : WF_ioVars(Handle(t))

IoSpec == IoInit /\ [][IoNext]_ioVars /\ IoFairness

-----------------------------------------------------------------------------
(* Properties                                                              *)

\* Edge-triggered, one-shot and re-armed as they are, neither backend loses a
\* wake-up: data on a registered descriptor is read in the end, unless the
\* descriptor is deregistered.  Excepted are descriptors whose poll ended with
\* an error or could not be submitted, which UringIO never arms again.
DataIsRead ==
    \A f \in Fds :
        unread[f] > 0 /\ token[f] # NoToken ~> unread[f] = 0 \/ token[f] = NoToken \/ f \in deaf
=============================================================================
