------------------------------ MODULE SseFramer -----------------------------
(***************************************************************************)
(* The Server-Sent Events framer (crates/riftgate-parser/src/sse.rs) and   *)
(* the cancellation it watches (crates/riftgate-core/src/cancel.rs).       *)
(*                                                                         *)
(* A stream is a sequence of symbols: "data:", a space, a payload symbol,  *)
(* the payload "[DONE]", a comment's colon, CR and LF.  Its reader calls   *)
(* feed with one chunk after another.  feed reads the token of the         *)
(* cancellation first, and other threads may trip the cancellation between *)
(* that and the consumption of the bytes.                                  *)
(***************************************************************************)
EXTENDS Integers, Sequences, FiniteSets, SequencesExt

CONSTANTS
    Chunks,         \* the chunks a read may yield
    MaxFeeds,       \* bound on the calls of feed
    MaxLine,        \* the 1 MiB limit of a line, in symbols
    Cancellers      \* concurrent calls of Cancellation::cancel; each is its cause

CR == "cr"
LF == "lf"
Data == "data:"
Space == "sp"
Done == "[DONE]"
Colon == ":"
NotCancelled == "NotCancelled"
DroppedByClient == "DroppedByClient"

VARIABLES
    cause, token,       \* CancelState
    canceller,          \* where each call of cancel is
    dropped,            \* the Cancellation has been dropped
    frame,              \* line_buf, current_event, bytes_seen and phase
    feeding,            \* the call of feed in progress: {} or {its chunk}
    gate,               \* what the gate of that call saw
    report,             \* the Cancelled event: {} or {its bytes_seen and cause}
    feeds,              \* bound: calls of feed so far
    stream, delivered   \* history: bytes consumed and tokens emitted since reset

cancelVars == <<cause, token, canceller, dropped>>
sseHistory == <<stream, delivered>>
sseVars == <<cancelVars, frame, feeding, gate, report, feeds, sseHistory>>

Fresh == [line |-> <<>>, event |-> <<>>, bytesSeen |-> 0, phase |-> "Reading"]

SseInit ==
    /\ cause = NotCancelled /\ token = FALSE /\ dropped = FALSE
    /\ canceller = [c \in Cancellers |-> "idle"]
    /\ frame = Fresh
    /\ feeding = {} /\ gate = "none" /\ report = {} /\ feeds = 0
    /\ stream = <<>> /\ delivered = <<>>

(***************************************************************************)
(* CancelState::trip: the cause is taken by the first writer, and then the *)
(* token is cancelled.                                                     *)
(***************************************************************************)

\* What a plain store would leave.
StoreCause(c) == c

ExchangeCause(c) == IF cause = NotCancelled THEN c ELSE cause

TripCause(c) ==
    /\ canceller[c] = "idle" /\ ~dropped
    /\ cause' = ExchangeCause(c)
    /\ canceller' = [canceller EXCEPT ![c] = "token"]
    /\ UNCHANGED <<token, dropped, frame, feeding, gate, report, feeds, sseHistory>>

TripToken(c) ==
    /\ canceller[c] = "token"
    /\ token' = TRUE
    /\ canceller' = [canceller EXCEPT ![c] = "done"]
    /\ UNCHANGED <<cause, dropped, frame, feeding, gate, report, feeds, sseHistory>>

\* Drop for Cancellation, when no call of cancel is left: the framer holds a
\* driver, so an untripped cancellation is tripped.  No one else writes then.
DropCancellation ==
    /\ ~dropped /\ \A c \in Cancellers : canceller[c] # "token"
    /\ dropped' = TRUE
    /\ cause' = IF token THEN cause ELSE ExchangeCause(DroppedByClient)
    /\ token' = TRUE
    /\ UNCHANGED <<canceller, frame, feeding, gate, report, feeds, sseHistory>>

(***************************************************************************)
(* SseFramer.                                                              *)
(***************************************************************************)

StripCR(line) == IF line # <<>> /\ Last(line) = CR THEN Front(line) ELSE line

\* The payload of a data line, as a set of at most one.
Payload(line) ==
    IF line = <<>> \/ Head(line) # Data THEN {}
    ELSE LET rest == Tail(line)
         IN  {IF rest # <<>> /\ Head(rest) = Space THEN Tail(rest) ELSE rest}

Join(event, payload) == IF event = <<>> THEN payload ELSE event \o <<LF>> \o payload

\* process_line.
ProcessLine(line, event) ==
    LET ps == Payload(StripCR(line))
    IN  IF ps = {} THEN event ELSE Join(event, CHOOSE p \in ps : TRUE)

\* What the loop of feed does with one byte; s also gathers the tokens emitted.
EndLine(s) ==
    LET event == ProcessLine(s.line, s.event)
        next  == [s EXCEPT !.line = <<>>, !.event = event]
    IN  IF s.line \notin {<<>>, <<CR>>} \/ event = <<>> THEN next
        ELSE IF event = <<Done>> THEN [next EXCEPT !.event = <<>>, !.phase = "Done"]
        ELSE [next EXCEPT !.event = <<>>, !.bytesSeen = @ + Len(event),
                          !.tokens = Append(@, event)]

PushByte(s, b) ==
    LET line == Append(s.line, b)
    IN  [s EXCEPT !.line = line, !.phase = IF Len(line) > MaxLine THEN "Error" ELSE @]

\* A blank line that only counts without its CR.
StepNoCR(s, b) ==
    IF s.phase # "Reading" THEN s
    ELSE IF b = LF
         THEN IF s.line = <<CR>> THEN [s EXCEPT !.line = <<>>] ELSE EndLine(s)
         ELSE PushByte(s, b)

Step(s, b) ==
    IF s.phase # "Reading" THEN s
    ELSE IF b = LF THEN EndLine(s) ELSE PushByte(s, b)

\* The call of feed: nothing in a terminal phase, else the gate is read.
FeedGate(chunk) ==
    /\ feeding = {} /\ feeds < MaxFeeds
    /\ feeds' = feeds + 1
    /\ frame.phase = "Reading"
    /\ feeding' = {chunk}
    /\ gate' = IF token THEN "tripped" ELSE "live"
    /\ UNCHANGED <<cancelVars, frame, report, sseHistory>>

\* A tripped gate: the terminal Cancelled event, without the bytes.
FeedCancelled ==
    /\ feeding # {} /\ gate = "tripped"
    /\ report' = {[bytesSeen |-> frame.bytesSeen, cause |-> cause]}
    /\ frame' = [frame EXCEPT !.phase = "Cancelled"]
    /\ feeding' = {} /\ gate' = "none"
    /\ UNCHANGED <<cancelVars, feeds, sseHistory>>

\* A live gate: the bytes are consumed.
FeedBytes ==
    /\ gate = "live"
    /\ \E chunk \in feeding :
          LET s == FoldLeft(Step, [line |-> frame.line, event |-> frame.event,
                                   bytesSeen |-> frame.bytesSeen, phase |-> frame.phase,
                                   tokens |-> <<>>], chunk)
          IN  /\ frame' = [line |-> s.line, event |-> s.event,
                           bytesSeen |-> s.bytesSeen, phase |-> s.phase]
              /\ stream' = stream \o chunk
              /\ delivered' = delivered \o s.tokens
    /\ feeding' = {} /\ gate' = "none"
    /\ UNCHANGED <<cancelVars, report, feeds>>

\* reset, between calls of feed.  The driver stays.
Reset ==
    /\ feeding = {} /\ frame # Fresh
    /\ frame' = Fresh /\ report' = {}
    /\ stream' = <<>> /\ delivered' = <<>>
    /\ UNCHANGED <<cancelVars, feeding, gate, feeds>>

SseNext ==
    \/ \E c \in Cancellers : TripCause(c) \/ TripToken(c)
    \/ DropCancellation
    \/ \E chunk \in Chunks : FeedGate(chunk)
    \/ FeedCancelled \/ FeedBytes \/ Reset

(***************************************************************************)
(* Reference: the tokens of a stream, read off the positions of its lines. *)
(***************************************************************************)

LineEnds(str) == {i \in 1..Len(str) : str[i] = LF}
LineStart(str, i) == 1 + Max({0} \cup {j \in LineEnds(str) : j < i})
LineAt(str, i) == SubSeq(str, LineStart(str, i), i - 1)
Blank(str, i) == LineAt(str, i) \in {<<>>, <<CR>>}

\* The payloads joined by the blank line that ends at i.
EventAt(str, i) ==
    LET from  == Max({0} \cup {j \in LineEnds(str) : j < i /\ Blank(str, j)})
        lines == SetToSortSeq({j \in LineEnds(str) : from < j /\ j < i
                                   /\ Payload(StripCR(LineAt(str, j))) # {}}, <)
        payload(j) == CHOOSE p \in Payload(StripCR(LineAt(str, j))) : TRUE
    IN  FoldLeft(LAMBDA acc, j : Join(acc, payload(j)), <<>>, lines)

\* Where the framer stops: at the LF of [DONE], or at the byte that makes a
\* line too long.
Stops(str) ==
    {i \in LineEnds(str) : Blank(str, i) /\ EventAt(str, i) = <<Done>>}
        \cup {i \in 1..Len(str) : str[i] # LF /\ i - LineStart(str, i) + 1 > MaxLine}

ReferenceTokens(str) ==
    LET end  == Min({Len(str) + 1} \cup Stops(str))
        ends == {i \in LineEnds(str) : i < end /\ Blank(str, i) /\ EventAt(str, i) # <<>>}
    IN  [k \in 1..Cardinality(ends) |-> EventAt(str, SetToSortSeq(ends, <)[k])]

\* However the stream is cut into chunks, the tokens emitted so far are those
\* of the bytes consumed so far, read as a whole; bytes_seen counts them.
TokensMatchStream ==
    /\ delivered = ReferenceTokens(stream)
    /\ frame.bytesSeen = FoldSeq(LAMBDA t, sum : Len(t) + sum, 0, delivered)

\* A Cancelled event reports the cause that was recorded first, never
\* NotCancelled, and the bytes delivered before it.
CancelledTruthfully ==
    \A r \in report :
        /\ token /\ r.cause = cause /\ r.cause # NotCancelled
        /\ r.bytesSeen = FoldSeq(LAMBDA t, sum : Len(t) + sum, 0, delivered)

=============================================================================
